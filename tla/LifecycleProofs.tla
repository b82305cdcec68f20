-------------------------- MODULE LifecycleProofs ---------------------------
(***************************************************************************)
(* Proofs about Lifecycle, for any set of connections, any high-water mark *)
(* and both kinds of wait_closed.  What the two properties are about is    *)
(* settled long before the end: a handler that ends has flushed its        *)
(* answers, and the outcome of the program is fixed when the main task     *)
(* leaves, at which time the generator task can change no more.            *)
(***************************************************************************)
EXTENDS Lifecycle, TLAPS

(* Where a handler and its transport can be at the same time.  A handler   *)
(* that reads is below the high-water mark, so one answer more is at most  *)
(* HIGH + 1.                                                               *)
Places ==
  /\ TypeOK
  /\ interrupts \in 0..3
  /\ \A c \in Conns :
       /\ transport[c] = "none" <=> handler[c] = "none"
       /\ transport[c] \in {"none", "closed"} => unsent[c] = 0
       /\ handler[c] = "reading" => unsent[c] <= HIGH

(* Until Ctrl+C is pressed nothing of the end has begun.                   *)
BeforeTheEnd == interrupts = 0 => stage = "running" /\ main = "serving" /\ doomed = {}

(* With one Ctrl+C the runner comes to cancel the handlers only when the   *)
(* main task is over, with an outcome that stays what it is.               *)
OneInterrupt ==
  interrupts = 1 =>
    /\ main = "over" <=> stage # "running"
    /\ stage = "running" => doomed \cap Conns = {}
    /\ stage = "ended" => Alive = {}
    /\ stage # "running" => /\ generators # "sleeping"
                            /\ exit = "error" <=> generators = "failed"

(* A handler that did not come to its finally block by itself is there     *)
(* only because it was cancelled, which happens to it once; so it stays    *)
(* there until everything is flushed, or the connection breaks.            *)
Flushed ==
  interrupts <= 1 => \A c \in Conns \ finishing :
    /\ handler[c] = "gone" => transport[c] = "broken" \/ unsent[c] = 0
    /\ handler[c] = "flushing" => stage # "running" /\ c \notin doomed

IInv == Places /\ BeforeTheEnd /\ OneInterrupt /\ Flushed

-----------------------------------------------------------------------------
(* The two tasks with a name are different, and no connections.            *)
LEMMA TasksDiffer ==
  Main # Generators /\ Main \notin Conns /\ Generators \notin Conns
BY ConnsAssumption DEF Main, Generators

(* The tasks that are alive, one by one.                                   *)
LEMMA WhoIsAlive ==
  /\ Main \in Alive <=> main # "over"
  /\ Generators \in Alive <=> generators = "sleeping"
  /\ \A c \in Conns : c \in Alive <=> handler[c] \notin {"none", "gone"}
  /\ Alive \subseteq Conns \cup {Main, Generators}
BY TasksDiffer DEF Alive

LEMMA InitEstablishesIInv == Init => IInv
<1> SUFFICES ASSUME Init PROVE IInv
  OBVIOUS
<1> USE LifecycleAssumption DEF Init
<1>1. Places
  BY DEF Places, TypeOK
<1>2. BeforeTheEnd /\ OneInterrupt /\ Flushed
  BY DEF BeforeTheEnd, OneInterrupt, Flushed
<1> QED
  BY <1>1, <1>2 DEF IInv

(* Every step keeps a handler and its transport together. *)
LEMMA PlacesKept == IInv /\ [Next]_vars => Places'
<1> SUFFICES ASSUME IInv, [Next]_vars PROVE Places'
  OBVIOUS
<1> USE LifecycleAssumption, TasksDiffer DEF IInv, Places, TypeOK, Alive, connVars, mainVars
<1>1. ASSUME NEW c \in Conns, Connect(c) PROVE Places'
  BY <1>1 DEF Connect, Moves
<1>2. ASSUME NEW c \in Conns, Arrive(c) PROVE Places'
  BY <1>2 DEF Arrive
<1>3. ASSUME NEW c \in Conns, PeerHangsUp(c) PROVE Places'
  BY <1>3 DEF PeerHangsUp
<1>4. ASSUME NEW c \in Conns, Serve(c) PROVE Places'
  BY <1>4 DEF Serve, Moves, AfterWrite
<1>5. ASSUME NEW c \in Conns, SeesEof(c) PROVE Places'
  BY <1>5 DEF SeesEof, Finish, Moves
<1>6. ASSUME NEW c \in Conns, Malformed(c) PROVE Places'
  BY <1>6 DEF Malformed, Finish, Moves
<1>7. ASSUME NEW c \in Conns, SocketTakes(c) PROVE Places'
  BY <1>7 DEF SocketTakes
<1>8. ASSUME NEW c \in Conns, Closes(c) PROVE Places'
  BY <1>8 DEF Closes, Disconnect
<1>9. ASSUME NEW c \in Conns, Breaks(c) PROVE Places'
  BY <1>9 DEF Breaks, Disconnect
<1>10. ASSUME NEW c \in Conns, HandlerCancelled(c) PROVE Places'
  BY <1>10 DEF HandlerCancelled, Cancelled
<1>11. CASE GeneratorFails
  BY <1>11 DEF GeneratorFails
<1>12. CASE GeneratorsCancelled
  BY <1>12 DEF GeneratorsCancelled
<1>13. CASE ServingCancelled
  BY <1>13 DEF ServingCancelled
<1>14. CASE LeaveWait
  BY <1>14 DEF LeaveWait, JoinCancels
<1>15. CASE MainEnds
  BY <1>15 DEF MainEnds, MainRaises
<1>16. CASE LoopEnds
  BY <1>16 DEF LoopEnds
<1>17. CASE Interrupt
  <2>1. Alive' = Alive
    BY <1>17 DEF Interrupt
  <2>2. doomed' \subseteq Alive
    <3>1. Main \in Alive \/ interrupts # 0
      BY DEF BeforeTheEnd
    <3> HIDE DEF Alive
    <3> QED
      BY <1>17, <3>1 DEF Interrupt
  <2>3. interrupts' \in 0..3
    BY <1>17 DEF Interrupt
  <2> HIDE DEF Alive
  <2> QED
    BY <1>17, <2>1, <2>2, <2>3 DEF Interrupt
<1>18. CASE UNCHANGED vars
  BY <1>18 DEF vars
<1> QED
  BY <1>1, <1>2, <1>3, <1>4, <1>5, <1>6, <1>7, <1>8, <1>9, <1>10, <1>11, <1>12, <1>13, <1>14, <1>15, <1>16, <1>17, <1>18 DEF Next, MainStep

(* Only Ctrl+C begins the end. *)
LEMMA BeforeTheEndKept == IInv /\ [Next]_vars => BeforeTheEnd'
<1> SUFFICES ASSUME IInv, [Next]_vars PROVE BeforeTheEnd'
  OBVIOUS
<1> USE LifecycleAssumption, TasksDiffer DEF IInv, Places, TypeOK, BeforeTheEnd, connVars, mainVars
<1>1. ASSUME NEW c \in Conns, Connect(c) PROVE BeforeTheEnd'
  BY <1>1 DEF Connect, Moves
<1>2. ASSUME NEW c \in Conns, Arrive(c) PROVE BeforeTheEnd'
  BY <1>2 DEF Arrive
<1>3. ASSUME NEW c \in Conns, PeerHangsUp(c) PROVE BeforeTheEnd'
  BY <1>3 DEF PeerHangsUp
<1>4. ASSUME NEW c \in Conns, Serve(c) PROVE BeforeTheEnd'
  BY <1>4 DEF Serve, Moves, AfterWrite
<1>5. ASSUME NEW c \in Conns, SeesEof(c) PROVE BeforeTheEnd'
  BY <1>5 DEF SeesEof, Finish, Moves
<1>6. ASSUME NEW c \in Conns, Malformed(c) PROVE BeforeTheEnd'
  BY <1>6 DEF Malformed, Finish, Moves
<1>7. ASSUME NEW c \in Conns, SocketTakes(c) PROVE BeforeTheEnd'
  BY <1>7 DEF SocketTakes
<1>8. ASSUME NEW c \in Conns, Closes(c) PROVE BeforeTheEnd'
  BY <1>8 DEF Closes, Disconnect
<1>9. ASSUME NEW c \in Conns, Breaks(c) PROVE BeforeTheEnd'
  BY <1>9 DEF Breaks, Disconnect
<1>10. ASSUME NEW c \in Conns, HandlerCancelled(c) PROVE BeforeTheEnd'
  BY <1>10 DEF HandlerCancelled, Cancelled
<1>11. CASE GeneratorFails
  BY <1>11 DEF GeneratorFails
<1>12. CASE GeneratorsCancelled
  BY <1>12 DEF GeneratorsCancelled
<1>13. CASE ServingCancelled
  BY <1>13 DEF ServingCancelled
<1>14. CASE LeaveWait
  BY <1>14 DEF LeaveWait, JoinCancels
<1>15. CASE MainEnds
  BY <1>15 DEF MainEnds, MainRaises
<1>16. CASE LoopEnds
  BY <1>16 DEF LoopEnds
<1>17. CASE Interrupt
  BY <1>17 DEF Interrupt
<1>18. CASE UNCHANGED vars
  BY <1>18 DEF vars
<1> QED
  BY <1>1, <1>2, <1>3, <1>4, <1>5, <1>6, <1>7, <1>8, <1>9, <1>10, <1>11, <1>12, <1>13, <1>14, <1>15, <1>16, <1>17, <1>18 DEF Next, MainStep

(* The outcome of one Ctrl+C is fixed with the end of the main task. *)
LEMMA OneInterruptKept == IInv /\ [Next]_vars => OneInterrupt'
<1> SUFFICES ASSUME IInv, [Next]_vars PROVE OneInterrupt'
  OBVIOUS
<1> USE LifecycleAssumption, TasksDiffer DEF IInv, Places, TypeOK, OneInterrupt, BeforeTheEnd, Alive, connVars, mainVars
<1>1. ASSUME NEW c \in Conns, Connect(c) PROVE OneInterrupt'
  BY <1>1 DEF Connect, Moves
<1>2. ASSUME NEW c \in Conns, Arrive(c) PROVE OneInterrupt'
  BY <1>2 DEF Arrive
<1>3. ASSUME NEW c \in Conns, PeerHangsUp(c) PROVE OneInterrupt'
  BY <1>3 DEF PeerHangsUp
<1>4. ASSUME NEW c \in Conns, Serve(c) PROVE OneInterrupt'
  BY <1>4 DEF Serve, Moves, AfterWrite
<1>5. ASSUME NEW c \in Conns, SeesEof(c) PROVE OneInterrupt'
  BY <1>5 DEF SeesEof, Finish, Moves
<1>6. ASSUME NEW c \in Conns, Malformed(c) PROVE OneInterrupt'
  BY <1>6 DEF Malformed, Finish, Moves
<1>7. ASSUME NEW c \in Conns, SocketTakes(c) PROVE OneInterrupt'
  BY <1>7 DEF SocketTakes
<1>8. ASSUME NEW c \in Conns, Closes(c) PROVE OneInterrupt'
  BY <1>8 DEF Closes, Disconnect
<1>9. ASSUME NEW c \in Conns, Breaks(c) PROVE OneInterrupt'
  BY <1>9 DEF Breaks, Disconnect
<1>10. ASSUME NEW c \in Conns, HandlerCancelled(c) PROVE OneInterrupt'
  BY <1>10 DEF HandlerCancelled, Cancelled
<1>11. CASE GeneratorFails
  BY <1>11 DEF GeneratorFails
<1>12. CASE GeneratorsCancelled
  BY <1>12 DEF GeneratorsCancelled
<1>13. CASE ServingCancelled
  BY <1>13 DEF ServingCancelled
<1>14. CASE LeaveWait
  BY <1>14 DEF LeaveWait, JoinCancels
<1>15. CASE MainEnds
  BY <1>15 DEF MainEnds, MainRaises
<1>16. CASE LoopEnds
  BY <1>16 DEF LoopEnds
<1>17. CASE Interrupt
  BY <1>17 DEF Interrupt
<1>18. CASE UNCHANGED vars
  BY <1>18 DEF vars
<1> QED
  BY <1>1, <1>2, <1>3, <1>4, <1>5, <1>6, <1>7, <1>8, <1>9, <1>10, <1>11, <1>12, <1>13, <1>14, <1>15, <1>16, <1>17, <1>18 DEF Next, MainStep

(* A handler that is cancelled once flushes its answers. *)
LEMMA FlushedKept == IInv /\ [Next]_vars => Flushed'
<1> SUFFICES ASSUME IInv, [Next]_vars PROVE Flushed'
  OBVIOUS
<1> USE LifecycleAssumption, TasksDiffer DEF IInv, Places, TypeOK, Flushed, BeforeTheEnd, OneInterrupt, connVars, mainVars
<1>1. ASSUME NEW c \in Conns, Connect(c) PROVE Flushed'
  BY <1>1 DEF Connect, Moves
<1>2. ASSUME NEW c \in Conns, Arrive(c) PROVE Flushed'
  BY <1>2 DEF Arrive
<1>3. ASSUME NEW c \in Conns, PeerHangsUp(c) PROVE Flushed'
  BY <1>3 DEF PeerHangsUp
<1>4. ASSUME NEW c \in Conns, Serve(c) PROVE Flushed'
  BY <1>4 DEF Serve, Moves, AfterWrite
<1>5. ASSUME NEW c \in Conns, SeesEof(c) PROVE Flushed'
  BY <1>5 DEF SeesEof, Finish, Moves
<1>6. ASSUME NEW c \in Conns, Malformed(c) PROVE Flushed'
  BY <1>6 DEF Malformed, Finish, Moves
<1>7. ASSUME NEW c \in Conns, SocketTakes(c) PROVE Flushed'
  BY <1>7 DEF SocketTakes
<1>8. ASSUME NEW c \in Conns, Closes(c) PROVE Flushed'
  BY <1>8 DEF Closes, Disconnect
<1>9. ASSUME NEW c \in Conns, Breaks(c) PROVE Flushed'
  BY <1>9 DEF Breaks, Disconnect
<1>10. ASSUME NEW c \in Conns, HandlerCancelled(c) PROVE Flushed'
  BY <1>10 DEF HandlerCancelled, Cancelled
<1>11. CASE GeneratorFails
  BY <1>11 DEF GeneratorFails
<1>12. CASE GeneratorsCancelled
  BY <1>12 DEF GeneratorsCancelled
<1>13. CASE ServingCancelled
  BY <1>13 DEF ServingCancelled
<1>14. CASE LeaveWait
  BY <1>14 DEF LeaveWait, JoinCancels
<1>15. CASE MainEnds
  BY <1>15 DEF MainEnds, MainRaises
<1>16. CASE LoopEnds
  BY <1>16 DEF LoopEnds
<1>17. CASE Interrupt
  BY <1>17 DEF Interrupt
<1>18. CASE UNCHANGED vars
  BY <1>18 DEF vars
<1> QED
  BY <1>1, <1>2, <1>3, <1>4, <1>5, <1>6, <1>7, <1>8, <1>9, <1>10, <1>11, <1>12, <1>13, <1>14, <1>15, <1>16, <1>17, <1>18 DEF Next, MainStep

-----------------------------------------------------------------------------
(* The invariant holds throughout.                                         *)
THEOREM IInvHolds == Spec => []IInv
<1>1. IInv /\ [Next]_vars => IInv'
  BY PlacesKept, BeforeTheEndKept, OneInterruptKept, FlushedKept DEF IInv
<1> QED
  BY InitEstablishesIInv, <1>1, PTL DEF Spec

(* The states are those the model means; above all, no transport holds     *)
(* more than one answer above the high-water mark, since a handler above   *)
(* it waits in drain, and only tasks that are alive are being cancelled.   *)
THEOREM TypeCorrect == Spec => []TypeOK
<1>1. IInv => TypeOK
  BY DEF IInv, Places
<1> QED
  BY IInvHolds, <1>1, PTL

(* One Ctrl+C loses no answer on a connection that does not break and      *)
(* whose handler was not in its finally block before it was cancelled      *)
(* (serve_forever, _handle_client).                                        *)
THEOREM OneInterruptFlushes == Spec => []AnswersAreFlushed
<1>1. IInv => AnswersAreFlushed
  <2> SUFFICES ASSUME IInv, stage = "ended", interrupts = 1, NEW c \in Conns \ finishing
               PROVE  transport[c] = "broken" \/ unsent[c] = 0
    BY DEF AnswersAreFlushed
  <2>1. c \notin Alive
    BY DEF IInv, OneInterrupt
  <2>2. handler[c] \in {"none", "gone"}
    BY <2>1, WhoIsAlive
  <2>3. CASE handler[c] = "none"
    BY <2>3 DEF IInv, Places
  <2>4. CASE handler[c] = "gone"
    BY <2>4 DEF IInv, Flushed
  <2> QED
    BY <2>2, <2>3, <2>4
<1> QED
  BY IInvHolds, <1>1, PTL

(* One Ctrl+C ends the program with the exception of the generator task    *)
(* exactly if that task has died (serve_forever, "await gen_task").        *)
THEOREM GeneratorFailureSurfaces == Spec => []FailureSurfaces
<1>1. IInv => FailureSurfaces
  BY DEF IInv, OneInterrupt, FailureSurfaces
<1> QED
  BY IInvHolds, <1>1, PTL
=============================================================================
