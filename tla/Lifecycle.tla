----------------------------- MODULE Lifecycle ------------------------------
(***************************************************************************)
(* The end of modbus-sim: asyncio.run(server.serve_forever()) and Ctrl+C.  *)
(* The main task, the generator task and one handler per connection are    *)
(* here with the places where a cancellation can find them; what handlers  *)
(* do between those places is in Server.                                   *)
(*                                                                         *)
(* task.cancel() only marks a task (it is "doomed"); CancelledError        *)
(* reaches it when the event loop runs it next.                            *)
(***************************************************************************)
EXTENDS Integers, FiniteSets

CONSTANTS
  Conns,     \* connections that may be made
  HIGH,      \* unsent answers above which drain waits, until none is left
  UNREAD,    \* bound: frames of one connection that wait to be dealt with
  BINDINGS,  \* are there generators?
  WAITS      \* may asyncio's Server.wait_closed wait for connections, and not?

ASSUME LifecycleAssumption ==
  HIGH \in Nat /\ UNREAD \in Nat /\ BINDINGS \in BOOLEAN /\ WAITS \subseteq BOOLEAN

Main == "main"
Generators == "generators"

(* A connection is none of the two tasks with a name. *)
ASSUME ConnsAssumption == Conns \cap {Main, Generators} = {}

VARIABLES
  waits,      \* does wait_closed wait for connections?  It depends on Python
  stage,      \* asyncio.run: "running" the main task, "cancelling" all tasks, "ended"
  main,       \* where the main task is
  generators, \* the generator task: "off", "sleeping", "failed" or "cancelled"
  handler,    \* handler[c]: "none" yet, "reading", "draining", "flushing", "gone"
  transport,  \* transport[c]: "none" yet, "open", "closing", "closed" or "broken"
  unread,     \* unread[c]: the frames received and not yet dealt with
  unsent,     \* unsent[c]: the answers written and not yet taken by the socket
  eof,        \* the connections whose peer has closed its side
  finishing,  \* history: the handlers that came to their finally block by themselves
  doomed,     \* the tasks that CancelledError is on the way to
  interrupts, \* how often Ctrl+C was pressed
  exit        \* how the program ended: "interrupt" is exit code 0

connVars == <<handler, transport, unread, unsent, eof, finishing>>
mainVars == <<waits, stage, main, generators, interrupts, exit>>
vars == <<connVars, mainVars, doomed>>

Init ==
  /\ waits \in WAITS
  /\ stage = "running" /\ main = "serving"
  /\ generators = IF BINDINGS THEN "sleeping" ELSE "off"
  /\ handler = [c \in Conns |-> "none"]
  /\ transport = [c \in Conns |-> "none"]
  /\ unread = [c \in Conns |-> 0]
  /\ unsent = [c \in Conns |-> 0]
  /\ eof = {} /\ finishing = {} /\ doomed = {}
  /\ interrupts = 0 /\ exit = "none"

Alive == (IF main = "over" THEN {} ELSE {Main})
           \cup (IF generators = "sleeping" THEN {Generators} ELSE {})
           \cup {c \in Conns : handler[c] \notin {"none", "gone"}}

Moves(c, from, to) == handler[c] = from /\ handler' = [handler EXCEPT ![c] = to]

-----------------------------------------------------------------------------
(* Connections and their handlers, as far as the end is concerned.         *)

(* The main task, once cancelled, runs before the loop polls the socket.   *)
Connect(c) ==
  /\ main = "serving" /\ Main \notin doomed
  /\ Moves(c, "none", "reading")
  /\ transport' = [transport EXCEPT ![c] = "open"]
  /\ UNCHANGED <<mainVars, unread, unsent, eof, finishing, doomed>>

(* A frame comes in.  Those that are dropped, for their protocol or their  *)
(* unit, leave no trace here.                                              *)
Arrive(c) ==
  /\ stage # "ended" /\ transport[c] = "open" /\ c \notin eof
  /\ unread[c] < UNREAD
  /\ unread' = [unread EXCEPT ![c] = @ + 1]
  /\ UNCHANGED <<mainVars, handler, transport, unsent, eof, finishing, doomed>>

PeerHangsUp(c) ==
  /\ stage # "ended" /\ transport[c] = "open" /\ c \notin eof
  /\ eof' = eof \cup {c}
  /\ UNCHANGED <<mainVars, handler, transport, unread, unsent, finishing, doomed>>

(* Mutant of AfterWrite: drain is not called. *)
AfterWriteNoDrain(c) == "reading"

(* drain waits above the high-water mark. *)
AfterWrite(c) == IF unsent[c] + 1 > HIGH THEN "draining" ELSE "reading"

(* A frame is answered, also when the peer has closed its side since.      *)
Serve(c) ==
  /\ stage # "ended" /\ c \notin doomed
  /\ transport[c] = "open" /\ unread[c] > 0
  /\ Moves(c, "reading", AfterWrite(c))
  /\ unread' = [unread EXCEPT ![c] = @ - 1]
  /\ unsent' = [unsent EXCEPT ![c] = @ + 1]
  /\ UNCHANGED <<mainVars, transport, eof, finishing, doomed>>

(* The handler leaves its loop: the finally block closes the transport and *)
(* waits until it has flushed what was written.                            *)
Finish(c) ==
  /\ stage # "ended" /\ c \notin doomed
  /\ transport[c] = "open"
  /\ Moves(c, "reading", "flushing")
  /\ transport' = [transport EXCEPT ![c] = "closing"]
  /\ unread' = [unread EXCEPT ![c] = 0]
  /\ finishing' = finishing \cup {c}
  /\ UNCHANGED <<mainVars, unsent, eof, doomed>>

(* read returned b"", which it does when everything received is read.      *)
SeesEof(c) == c \in eof /\ unread[c] = 0 /\ Finish(c)

(* A bad length field: ProtocolError.  What is behind it is never read.    *)
Malformed(c) == unread[c] > 0 /\ Finish(c)

(* The socket takes an answer, which may resume drain.                     *)
SocketTakes(c) ==
  /\ stage # "ended"
  /\ transport[c] \in {"open", "closing"} /\ unsent[c] > 0
  /\ unsent' = [unsent EXCEPT ![c] = @ - 1]
  /\ handler' = [handler EXCEPT ![c] = IF @ = "draining" /\ unsent[c] = 1 /\ c \notin doomed
                                       THEN "reading" ELSE @]
  /\ UNCHANGED <<mainVars, transport, unread, eof, finishing, doomed>>

(* connection_lost: a handler that waits for anything comes to its end.    *)
Disconnect(c, how) ==
  /\ stage # "ended"
  /\ transport' = [transport EXCEPT ![c] = how]
  /\ handler' = [handler EXCEPT ![c] = IF c \in doomed THEN @ ELSE "gone"]
  /\ UNCHANGED <<mainVars, unread, unsent, eof, finishing, doomed>>

(* A transport that was told to close has flushed everything.              *)
Closes(c) == transport[c] = "closing" /\ unsent[c] = 0 /\ Disconnect(c, "closed")

(* A connection breaks at any time, and what is unsent is lost.            *)
Breaks(c) == transport[c] \in {"open", "closing"} /\ Disconnect(c, "broken")

(* Mutant of Cancelled: the handler has no finally block. *)
CancelledAtOnce(c) == "gone"

(* What CancelledError does to a handler: from read or drain it goes       *)
(* through the finally block, in wait_closed it ends it.                   *)
Cancelled(c) ==
  IF handler[c] = "flushing" \/ transport[c] \in {"closed", "broken"} THEN "gone" ELSE "flushing"

HandlerCancelled(c) ==
  /\ stage # "ended" /\ c \in doomed
  /\ handler' = [handler EXCEPT ![c] = Cancelled(c)]
  /\ transport' = [transport EXCEPT ![c] = IF @ = "open" /\ handler'[c] = "flushing"
                                           THEN "closing" ELSE @]
  /\ doomed' = doomed \ {c}
  /\ UNCHANGED <<mainVars, unread, unsent, eof, finishing>>

-----------------------------------------------------------------------------
(* The generator task.                                                     *)

(* sample() raises; nobody looks at the task before the end.               *)
GeneratorFails ==
  /\ stage # "ended" /\ generators = "sleeping" /\ Generators \notin doomed
  /\ generators' = "failed"
  /\ UNCHANGED <<waits, stage, main, connVars, doomed, interrupts, exit>>

GeneratorsCancelled ==
  /\ stage # "ended" /\ generators = "sleeping" /\ Generators \in doomed
  /\ generators' = "cancelled"
  /\ doomed' = doomed \ {Generators}
  /\ UNCHANGED <<waits, stage, main, connVars, interrupts, exit>>

-----------------------------------------------------------------------------
(* The main task.                                                          *)

(* asyncio's serve_forever, cancelled, closes the listening socket and     *)
(* waits in wait_closed; leaving "async with" waits there again.           *)
ServingCancelled ==
  /\ stage # "ended" /\ main = "serving" /\ Main \in doomed
  /\ main' = "closing"
  /\ doomed' = doomed \ {Main}
  /\ UNCHANGED <<waits, stage, generators, connVars, interrupts, exit>>

AllClosed == waits => \A c \in Conns : transport[c] \in {"none", "closed", "broken"}

(* Mutant of JoinCancels: the generator task is awaited without cancel(). *)
JoinCancelsNothing == {}

JoinCancels == {Generators} \cap Alive

(* From one wait_closed to the next, and on to the finally block.          *)
LeaveWait ==
  /\ stage # "ended" /\ main \in {"closing", "exiting"}
  /\ AllClosed \/ Main \in doomed
  /\ main' = IF main = "closing" THEN "exiting" ELSE "joining"
  /\ doomed' = (doomed \ {Main}) \cup (IF main = "closing" THEN {} ELSE JoinCancels)
  /\ UNCHANGED <<waits, stage, generators, connVars, interrupts, exit>>

(* Mutant of MainRaises: every exception of the task is suppressed. *)
MainRaisesCancelled == "interrupt"

(* Only CancelledError is suppressed: the exception of a generator takes   *)
(* the place of the cancellation.                                          *)
MainRaises == IF generators = "failed" THEN "error" ELSE "interrupt"

(* await gen_task returns.  The runner goes on to _cancel_all_tasks.       *)
MainEnds ==
  /\ stage # "ended" /\ main = "joining" /\ generators # "sleeping"
  /\ main' = "over"
  /\ IF stage = "running"
     THEN /\ stage' = "cancelling" /\ exit' = MainRaises
          /\ doomed' = Alive \ {Main}
     ELSE /\ doomed' = doomed \ {Main}
          /\ UNCHANGED <<stage, exit>>
  /\ UNCHANGED <<waits, generators, connVars, interrupts>>

-----------------------------------------------------------------------------
(* asyncio.run.                                                            *)

(* The first Ctrl+C cancels the main task, another one raises              *)
(* KeyboardInterrupt in the event loop, the next in _cancel_all_tasks.     *)
Interrupt ==
  /\ stage # "ended" /\ interrupts < 3
  /\ interrupts' = interrupts + 1
  /\ IF interrupts = 0
     THEN doomed' = doomed \cup {Main} /\ UNCHANGED <<stage, exit>>
     ELSE /\ stage' = IF stage = "running" THEN "cancelling" ELSE "ended"
          /\ doomed' = IF stage = "running" THEN Alive ELSE {}
          /\ exit' = "interrupt"
  /\ UNCHANGED <<waits, main, generators, connVars>>

(* _cancel_all_tasks has gathered every task; the loop is closed.          *)
LoopEnds ==
  /\ stage = "cancelling" /\ Alive = {}
  /\ stage' = "ended"
  /\ UNCHANGED <<waits, main, generators, connVars, doomed, interrupts, exit>>

MainStep == ServingCancelled \/ LeaveWait \/ MainEnds \/ LoopEnds

Next ==
  \/ \E c \in Conns : \/ Connect(c) \/ Arrive(c) \/ PeerHangsUp(c)
                      \/ Serve(c) \/ SeesEof(c) \/ Malformed(c)
                      \/ SocketTakes(c) \/ Closes(c) \/ Breaks(c)
                      \/ HandlerCancelled(c)
  \/ GeneratorFails \/ GeneratorsCancelled
  \/ MainStep \/ Interrupt

Spec == Init /\ [][Next]_vars

(* Tasks that can run do, and a closed transport with nothing to send      *)
(* reports it.  Peers and the keyboard owe nothing.                        *)
Fairness ==
  /\ WF_vars(MainStep) /\ WF_vars(GeneratorsCancelled)
  /\ \A c \in Conns : /\ WF_vars(Serve(c) \/ SeesEof(c) \/ Malformed(c))
                      /\ WF_vars(HandlerCancelled(c)) /\ WF_vars(Closes(c))

(* Peers whose system keeps accepting what the server sends.               *)
TheyRead(readers) == \A c \in readers : WF_vars(SocketTakes(c))

(* Peers that will disconnect when the server waits for that.              *)
TheyLeave(leavers) == \A c \in leavers : WF_vars(waits /\ PeerHangsUp(c))

-----------------------------------------------------------------------------
TypeOK ==
  /\ stage \in {"running", "cancelling", "ended"}
  /\ main \in {"serving", "closing", "exiting", "joining", "over"}
  /\ generators \in {"off", "sleeping", "failed", "cancelled"}
  /\ handler \in [Conns -> {"none", "reading", "draining", "flushing", "gone"}]
  /\ transport \in [Conns -> {"none", "open", "closing", "closed", "broken"}]
  /\ unread \in [Conns -> 0..UNREAD]
  /\ unsent \in [Conns -> 0..HIGH + 1]
  /\ eof \subseteq Conns
  /\ finishing \subseteq Conns
  /\ doomed \subseteq Alive
  /\ exit \in {"none", "interrupt", "error"}

(* One Ctrl+C loses no answer: what was written before the end has reached *)
(* the sockets, wherever in read or drain it found the handlers.  There    *)
(* are two exceptions.  A handler that was in its finally block already,   *)
(* after end of file or a malformed frame, is cancelled in wait_closed and *)
(* waits no longer; and a connection that breaks loses what is unsent.     *)
AnswersAreFlushed ==
  stage = "ended" /\ interrupts = 1 =>
    \A c \in Conns \ finishing : transport[c] = "broken" \/ unsent[c] = 0

(* A generator that has died is not passed over in silence: one Ctrl+C     *)
(* ends the program with its exception and not with exit code 0.           *)
FailureSurfaces ==
  stage = "ended" /\ interrupts = 1 => (exit = "error" <=> generators = "failed")

(* Ctrl+C stops the program.                                               *)
InterruptStops == interrupts > 0 ~> stage = "ended"
=============================================================================
