---------------------------- MODULE ServerProofs ----------------------------
(***************************************************************************)
(* Proofs about Server, for every set of connections, scripts, devices,    *)
(* generator bindings and water marks: the safety properties, and that the *)
(* server implements ModbusService.  The inductive invariant says where    *)
(* every task may be relative to the event loop (Positions), that a lock   *)
(* is held by the running task or by nobody (LockOfRunning), what a paused *)
(* transport means for its writer (Writers), and what a handler that is    *)
(* closing has left undone (Dealt).                                        *)
(***************************************************************************)
EXTENDS Server, FiniteSetTheorems, SequenceTheorems, TLAPS

IsList(s) == \E S : s \in Seq(S)

GenPlaces == {"off", "sleep", "bind", "lock", "dead"}

(* TypeOK, in the form the provers reason with. *)
Types ==
  /\ script \in Scripts
  /\ link \in [Conns -> {"open", "eof", "lost"}]
  /\ pc \in [Conns -> Places]
  /\ paused \in [Conns -> BOOLEAN]
  /\ sent \in [Conns -> Nat] /\ pulled \in [Conns -> Nat]
  /\ done \in [Conns -> Nat] /\ taken \in [Conns -> Nat]
  /\ DOMAIN answers = Conns
  /\ \A c \in Conns : /\ sent[c] <= Len(script[c])
                      /\ pulled[c] <= sent[c]
                      /\ done[c] <= pulled[c]
                      /\ IsList(answers[c])
                      /\ taken[c] <= Len(answers[c])
  /\ DOMAIN waiters = Units
  /\ DOMAIN devices = Units
  /\ running \in Tasks \cup {Nobody}
  /\ gen \in [pc : GenPlaces, at : 1..Len(Bindings) + 1]

(* Which place allows a task to have the loop, and which one requires it. *)
Positions ==
  /\ \A c \in Conns :
       /\ running = c => pc[c] \in {"read", "woken", "frames", "lock", "drain", "close"}
       /\ pc[c] \in {"lock", "drain"} => running = c
       /\ pc[c] = "close" /\ link[c] # "lost" => running = c
       /\ pc[c] \in {"read", "await", "woken"} => done[c] = pulled[c]
       /\ pc[c] = "lock" => done[c] < pulled[c] /\ Answerable(NextIn(c))
  /\ running = Generators => gen.pc \in {"bind", "lock"}
  /\ gen.pc \in {"bind", "lock"} => running = Generators
  /\ gen.pc = "lock" => gen.at <= Len(Bindings)

(* Only the running task holds a lock, the one it stands at, and nobody    *)
(* ever waits for one.                                                     *)
AtLock(t) == IF t = Generators THEN gen.pc = "lock" ELSE t \in Conns /\ pc[t] = "lock"
LockOfRunning ==
  \A u \in Units :
    waiters[u] = IF AtLock(running) /\ WantsLockOf(running) = u THEN <<running>> ELSE <<>>

(* A transport is paused above the low-water mark only, and an unpaused    *)
(* one is below the high-water mark; the handler of a paused one waits.    *)
Writers ==
  \A c \in Conns :
    /\ paused[c] => Backlog(c) > LOW_WATER
    /\ link[c] # "lost" => /\ paused[c] => pc[c] \in {"drain", "paused"}
                           /\ ~paused[c] => Backlog(c) <= HIGH_WATER
                           /\ Backlog(c) <= HIGH_WATER + 1

(* CloseDealtWithAll, from the moment the handler leaves its loop. *)
Dealt ==
  \A c \in Conns :
    pc[c] \in {"close", "closing", "closed"} /\ link[c] # "lost" =>
      done[c] = sent[c] \/ NextIn(c).kind = "badlen"

IInv == Types /\ Positions /\ LockOfRunning /\ Writers /\ SuspendedForAReason /\ Dealt

-----------------------------------------------------------------------------
(* Lists, whatever their elements are.                                     *)
LEMMA EmptyList == IsList(<<>>) /\ Len(<<>>) = 0
<1>1. <<>> \in Seq({})
  BY EmptySeq
<1> QED
  BY <1>1, EmptySeq DEF IsList

LEMMA ListLen == ASSUME NEW s, IsList(s) PROVE Len(s) \in Nat
BY LenProperties DEF IsList

LEMMA ListAppend ==
  ASSUME NEW s, IsList(s), NEW e
  PROVE  /\ IsList(Append(s, e))
         /\ Len(Append(s, e)) = Len(s) + 1
         /\ \A i \in 1..Len(s) : Append(s, e)[i] = s[i]
         /\ Append(s, e)[Len(s) + 1] = e
<1>1. PICK S : s \in Seq(S)
  BY DEF IsList
<1> DEFINE T == S \cup {e}
<1>2. s \in Seq(T) /\ e \in T
  BY <1>1, SeqMonotonic
<1> HIDE DEF T
<1> QED
  BY <1>2, AppendProperties DEF IsList

(* A lock that is taken by one task and released again. *)
LEMMA OneWaiter ==
  ASSUME NEW t
  PROVE  Append(<<>>, t) = <<t>> /\ Tail(<<t>>) = <<>> /\ <<t>> # <<>> /\ Head(<<t>>) = t
<1>1. <<>> \in Seq({t}) /\ t \in {t} /\ <<t>> \in Seq({t})
  OBVIOUS
<1>2. Append(<<>>, t) = <<>> \o <<t>>
  BY <1>1, AppendIsConcat
<1>3. <<>> \o <<t>> = <<t>>
  BY <1>1, ConcatEmptySeq
<1> QED
  BY <1>2, <1>3, <1>1, HeadTailAppend

-----------------------------------------------------------------------------
(* One case per action, for a property of states.  Every preservation      *)
(* lemma below splits a step this way.                                     *)
LEMMA StepCases ==
  [Next]_vars =>
    \/ \E c \in Conns : \/ Arrive(c) \/ PeerCloses(c) \/ ConnectionLost(c) \/ SocketTakes(c)
                        \/ Read(c) \/ Data(c) \/ FramesExhausted(c) \/ RejectLength(c)
                        \/ Drop(c) \/ Lock(c) \/ Process(c) \/ Drain(c) \/ Close(c) \/ Closed(c)
    \/ \E t \in Tasks : Resume(t)
    \/ Tick \/ GenLock \/ (\E s \in Samples : GenUpdate(s)) \/ GenFail \/ GenSleep
    \/ UNCHANGED vars
BY DEF Next, PeerStep, HandlerStep, GeneratorStep

LEMMA TasksDiffer == Generators \notin Conns /\ Nobody \notin Conns /\ Nobody # Generators
BY ConnsAssumption DEF Generators, Nobody

(* Every binding is one of a device of the store. *)
LEMMA BindingsBound ==
  Len(Bindings) \in Nat /\ \A i \in 1..Len(Bindings) : Bindings[i].unit \in Units
<1>1. Len(Bindings) \in Nat
  BY LenProperties, BindingsAssumption
<1>2. \A i \in 1..Len(Bindings) :
        Bindings[i] \in [unit : Units, region : RegisterRegions, address : Nat]
  BY ElementOfSeq, BindingsAssumption
<1> QED
  BY <1>1, <1>2

(* The tasks that want a lock want one that exists. *)
LEMMA WantedLocksExist ==
  ASSUME Types, Positions
  PROVE  /\ \A c \in Conns : pc[c] = "lock" => NextIn(c).unit \in Units
         /\ gen.at <= Len(Bindings) => Bindings[gen.at].unit \in Units
<1>1. \A c \in Conns : pc[c] = "lock" => NextIn(c).unit \in Units
  BY DEF Positions, Answerable
<1>2. gen.at <= Len(Bindings) => gen.at \in 1..Len(Bindings)
  BY BindingsBound DEF Types
<1> QED
  BY <1>1, <1>2, BindingsBound

LEMMA TypesKept == IInv /\ [Next]_vars => Types'
<1> SUFFICES ASSUME IInv, [Next]_vars PROVE Types'
  OBVIOUS
<1> USE DEF IInv, Places
<1>1. ASSUME NEW c \in Conns, Arrive(c) PROVE Types'
  BY SMTT(30), <1>1, ScriptsAssumption DEF Types, Arrive, Goto, outVars
<1>2. ASSUME NEW c \in Conns, PeerCloses(c) PROVE Types'
  BY <1>2 DEF Types, PeerCloses, Goto, outVars
<1>3. ASSUME NEW c \in Conns, ConnectionLost(c) PROVE Types'
  BY <1>3 DEF Types, ConnectionLost, Goto, outVars
<1>4. ASSUME NEW c \in Conns, SocketTakes(c) PROVE Types'
  BY <1>4, ListLen DEF Types, SocketTakes, Goto, Backlog, peerVars
<1>5. ASSUME NEW c \in Conns, Read(c) PROVE Types'
  BY <1>5 DEF Types, Read, Goto, outVars, peerVars
<1>6. ASSUME NEW c \in Conns, Data(c) PROVE Types'
  BY SMTT(30), <1>6, WaterAssumption DEF Types, Data, Goto, Chunk, AfterRead, outVars, peerVars
<1>7. ASSUME NEW c \in Conns, FramesExhausted(c) \/ RejectLength(c) PROVE Types'
  BY ZenonT(40), <1>7 DEF Types, FramesExhausted, RejectLength, Goto, outVars, peerVars
<1>8. ASSUME NEW c \in Conns, Drop(c) PROVE Types'
  BY <1>8 DEF Types, Drop, outVars, peerVars
<1>9. ASSUME NEW c \in Conns, Lock(c) PROVE Types'
  BY <1>9 DEF Types, Lock, Goto, Acquire, Tasks, outVars, peerVars
<1>10. ASSUME NEW c \in Conns, Process(c) PROVE Types'
  <2> DEFINE reply == Reply(NextIn(c), Response(devices[NextIn(c).unit], NextIn(c).request))
  <2>1. /\ answers' = [answers EXCEPT ![c] = Append(@, reply)]
        /\ taken' = [taken EXCEPT ![c] = @ + 1] \/ taken' = taken
        /\ paused' \in [Conns -> BOOLEAN]
        /\ DOMAIN devices' = DOMAIN devices
        /\ DOMAIN waiters' = DOMAIN waiters
        /\ done' = [done EXCEPT ![c] = @ + 1]
        /\ pc' = [pc EXCEPT ![c] = "drain"]
        /\ UNCHANGED <<script, sent, link, pulled, running, gen>>
    BY <1>10 DEF Process, Goto, LeaveLock, Release, Types, peerVars
  <2> HIDE DEF reply
  <2>2. done[c] < pulled[c]
    BY <1>10 DEF Process, Positions
  <2>3. DOMAIN answers' = Conns /\ \A d \in Conns :
           answers'[d] = IF d = c THEN Append(answers[d], reply) ELSE answers[d]
    BY <2>1 DEF Types
  <2>4. \A d \in Conns : IsList(answers'[d]) /\ taken'[d] <= Len(answers'[d])
    <3>1. \A d \in Conns : IsList(answers[d]) /\ Len(answers[d]) \in Nat
      BY ListLen DEF Types
    <3>2. /\ IsList(Append(answers[c], reply))
          /\ Len(Append(answers[c], reply)) = Len(answers[c]) + 1
      BY <3>1, ListAppend
    <3> QED
      BY SMTT(30), <2>1, <2>3, <3>1, <3>2 DEF Types
  <2> QED
    BY SMTT(30), <2>1, <2>2, <2>3, <2>4 DEF Types
<1>11. ASSUME NEW c \in Conns, Drain(c) PROVE Types'
  BY <1>11 DEF Types, Drain, Goto, outVars, peerVars
<1>12. ASSUME NEW c \in Conns, Close(c) \/ Closed(c) PROVE Types'
  BY <1>12 DEF Types, Close, Closed, Goto, outVars, peerVars
<1>13. ASSUME NEW t \in Tasks, Resume(t) PROVE Types'
  BY <1>13 DEF Types, Resume, handlerVars, outVars, peerVars
<1>14. ASSUME Tick PROVE Types'
  BY <1>14, BindingsBound DEF Types, Tick, GenPlaces, Tasks, handlerVars, outVars, peerVars
<1>15. ASSUME GenLock \/ GenSleep PROVE Types'
  BY <1>15, BindingsBound
     DEF Types, GenLock, GenSleep, GenPlaces, Acquire, Tasks, handlerVars, outVars, peerVars
<1>16. ASSUME GenFail PROVE Types'
  BY <1>16 DEF Types, GenFail, GenPlaces, GenFailUnlocks, Release, handlerVars, outVars, peerVars
<1>17. ASSUME NEW s \in Samples, GenUpdate(s) PROVE Types'
  BY <1>17, BindingsBound
     DEF Types, GenUpdate, GenPlaces, Positions, Release, handlerVars, outVars, peerVars
<1>18. ASSUME UNCHANGED vars PROVE Types'
  BY <1>18 DEF Types, vars, handlerVars, outVars, peerVars
<1> QED
  BY <1>1, <1>2, <1>3, <1>4, <1>5, <1>6, <1>7, <1>8, <1>9, <1>10, <1>11, <1>12, <1>13,
     <1>14, <1>15, <1>16, <1>18, <1>17, StepCases

LEMMA PositionsKept == IInv /\ [Next]_vars => Positions'
<1> SUFFICES ASSUME IInv, [Next]_vars PROVE Positions'
  OBVIOUS
<1> USE TasksDiffer DEF IInv, Types, Positions, Places, Tasks, NextIn, Answerable
<1>1. ASSUME NEW c \in Conns, Arrive(c) \/ PeerCloses(c) \/ ConnectionLost(c) \/ SocketTakes(c)
      PROVE  Positions'
  BY SMTT(30), <1>1 DEF Arrive, PeerCloses, ConnectionLost, SocketTakes, Goto, peerVars, outVars
<1>2. ASSUME NEW c \in Conns, Read(c) \/ Data(c) \/ FramesExhausted(c) \/ RejectLength(c)
      PROVE  Positions'
  BY SMTT(30), <1>2 DEF Read, Data, AfterRead, FramesExhausted, RejectLength, Goto,
                        peerVars, outVars
<1>3. ASSUME NEW c \in Conns, Drop(c) PROVE Positions'
  BY <1>3 DEF Drop, peerVars, outVars
<1>4. ASSUME NEW c \in Conns, Lock(c) PROVE Positions'
  BY SMTT(30), <1>4 DEF Lock, Goto, Acquire, LockOfRunning, AtLock, peerVars, outVars
<1>5. ASSUME NEW c \in Conns, Process(c) PROVE Positions'
  BY <1>5 DEF Process, Goto, peerVars
<1>6. ASSUME NEW c \in Conns, Drain(c) \/ Close(c) \/ Closed(c) PROVE Positions'
  BY <1>6 DEF Drain, Close, Closed, Goto, peerVars, outVars
<1>7. ASSUME NEW t \in Tasks, Resume(t) PROVE Positions'
  BY <1>7 DEF Resume, Ready, peerVars, handlerVars, outVars
<1>8. ASSUME Tick \/ GenSleep PROVE Positions'
  BY <1>8 DEF Tick, GenSleep, peerVars, handlerVars, outVars
<1>9. ASSUME GenLock PROVE Positions'
  <2>1. running' = Generators
    BY <1>9, WantedLocksExist DEF GenLock, Acquire, LockOfRunning, AtLock
  <2> QED
    BY <1>9, <2>1 DEF GenLock, peerVars, handlerVars, outVars
<1>10. ASSUME GenFail PROVE Positions'
  BY <1>10 DEF GenFail, peerVars, handlerVars, outVars
<1>11. ASSUME NEW s \in Samples, GenUpdate(s) PROVE Positions'
  BY <1>11 DEF GenUpdate, peerVars, handlerVars, outVars
<1>12. ASSUME UNCHANGED vars PROVE Positions'
  BY <1>12 DEF vars, peerVars, handlerVars, outVars
<1> QED
  BY <1>1, <1>2, <1>3, <1>4, <1>5, <1>6, <1>7, <1>8, <1>9, <1>10, <1>11, <1>12, StepCases

LEMMA LockOfRunningKept == IInv /\ [Next]_vars => LockOfRunning'
<1> SUFFICES ASSUME IInv, [Next]_vars PROVE LockOfRunning'
  OBVIOUS
<1> USE TasksDiffer DEF IInv, Types, Positions, LockOfRunning, AtLock, WantsLockOf, NextIn
<1>1. ASSUME NEW c \in Conns,
             \/ Arrive(c) \/ PeerCloses(c) \/ ConnectionLost(c) \/ SocketTakes(c) \/ Closed(c)
             \/ Read(c) \/ Data(c) \/ FramesExhausted(c) \/ RejectLength(c)
             \/ Drop(c) \/ Drain(c) \/ Close(c)
      PROVE  LockOfRunning'
  BY <1>1 DEF Arrive, PeerCloses, ConnectionLost, SocketTakes, Closed, Read, Data, AfterRead,
              FramesExhausted, RejectLength, Drop, Drain, Close, Goto, peerVars, outVars
<1>2. ASSUME NEW c \in Conns, Lock(c) PROVE LockOfRunning'
  <2> DEFINE v == NextIn(c).unit
  <2>1. running = c /\ pc[c] = "frames" /\ v \in Units /\ ~AtLock(running)
    BY <1>2 DEF Lock, Answerable
  <2>2. waiters[v] = <<>>
    BY <2>1
  <2>3. /\ waiters' = [waiters EXCEPT ![v] = <<c>>]
        /\ running' = c
        /\ pc' = [pc EXCEPT ![c] = "lock"]
        /\ UNCHANGED <<script, done, gen>>
    BY <1>2, <2>2, OneWaiter DEF Lock, Acquire, Goto
  <2>4. AtLock(running)' /\ WantsLockOf(running)' = v
    BY <2>3
  <2> HIDE DEF AtLock, WantsLockOf, v
  <2> QED
    BY <2>1, <2>3, <2>4
<1>3. ASSUME NEW c \in Conns, Process(c) PROVE LockOfRunning'
  <2> DEFINE v == NextIn(c).unit
  <2>1. running = c /\ AtLock(running) /\ WantsLockOf(running) = v
    BY <1>3 DEF Process
  <2>2. waiters' = [waiters EXCEPT ![v] = Tail(waiters[v])] /\ ~AtLock(running)'
    BY <1>3 DEF Process, Goto, LeaveLock, Release
  <2>3. v \in Units
    BY <1>3, WantedLocksExist DEF Process
  <2> HIDE DEF AtLock, WantsLockOf, v
  <2> QED
    BY <2>1, <2>2, <2>3, OneWaiter
<1>4. ASSUME NEW t \in Tasks, Resume(t) PROVE LockOfRunning'
  BY <1>4 DEF Resume, Ready, Tasks, peerVars, handlerVars, outVars
<1>5. ASSUME Tick \/ GenSleep PROVE LockOfRunning'
  BY <1>5 DEF Tick, GenSleep, peerVars, handlerVars, outVars
<1>6. ASSUME GenLock PROVE LockOfRunning'
  BY <1>6, OneWaiter, WantedLocksExist DEF GenLock, Acquire, peerVars, handlerVars, outVars
<1>7. ASSUME GenFail \/ \E s \in Samples : GenUpdate(s) PROVE LockOfRunning'
  <2> DEFINE v == Bindings[gen.at].unit
  <2>1. AtLock(running) /\ WantsLockOf(running) = v
    BY <1>7 DEF GenFail, GenUpdate
  <2>2. waiters' = [waiters EXCEPT ![v] = Tail(waiters[v])] /\ ~AtLock(running)'
    <3>1. CASE GenFail
      BY <3>1 DEF GenFail, GenFailUnlocks, Release
    <3>2. CASE \E s \in Samples : GenUpdate(s)
      BY <3>2 DEF GenUpdate, Release
    <3> QED
      BY <1>7, <3>1, <3>2
  <2>3. v \in Units
    BY <1>7, WantedLocksExist DEF GenFail, GenUpdate
  <2> HIDE DEF AtLock, WantsLockOf, v
  <2> QED
    BY ZenonT(40), <2>1, <2>2, <2>3, OneWaiter
<1>8. ASSUME UNCHANGED vars PROVE LockOfRunning'
  BY <1>8 DEF vars, peerVars, handlerVars, outVars
<1> QED
  BY <1>1, <1>2, <1>3, <1>4, <1>5, <1>6, <1>7, <1>8, StepCases

LEMMA BacklogIsNat ==
  ASSUME Types PROVE \A c \in Conns : Backlog(c) \in Nat /\ Len(answers[c]) \in Nat
BY ListLen DEF Types, Backlog

LEMMA WritersKept == IInv /\ [Next]_vars => Writers'
<1> SUFFICES ASSUME IInv, [Next]_vars PROVE Writers'
  OBVIOUS
<1> USE BacklogIsNat, WaterAssumption DEF IInv, Types, Writers, Places
<1>1. ASSUME NEW c \in Conns,
             \/ Arrive(c) \/ PeerCloses(c) \/ ConnectionLost(c) \/ Closed(c) \/ Close(c)
             \/ Read(c) \/ Data(c) \/ FramesExhausted(c) \/ RejectLength(c)
             \/ Drop(c) \/ Lock(c)
      PROVE  Writers'
  BY ZenonT(40), <1>1 DEF Arrive, PeerCloses, ConnectionLost, Closed, Close, Read, Data, AfterRead,
              FramesExhausted, RejectLength, Drop, Lock, Goto, Backlog, peerVars, outVars
<1>2. ASSUME NEW c \in Conns, SocketTakes(c) PROVE Writers'
  <2>1. \A d \in Conns : Backlog(d)' = IF d = c THEN Backlog(c) - 1 ELSE Backlog(d)
    BY <1>2 DEF SocketTakes, Backlog
  <2>2. paused'[c] <=> paused[c] /\ ~(Backlog(c) - 1 <= LOW_WATER)
    BY <1>2 DEF SocketTakes
  <2>3. pc'[c] = IF paused[c] /\ Backlog(c) - 1 <= LOW_WATER /\ pc[c] = "paused"
                 THEN "frames" ELSE pc[c]
    BY <1>2 DEF SocketTakes, Goto
  <2>4. /\ link' = link
        /\ \A d \in Conns \ {c} : paused'[d] = paused[d] /\ pc'[d] = pc[d]
    BY <1>2 DEF SocketTakes, Goto, peerVars
  <2>5. /\ paused'[c] => Backlog(c)' > LOW_WATER
        /\ link[c] # "lost" => /\ paused'[c] => pc'[c] \in {"drain", "paused"}
                               /\ ~paused'[c] => Backlog(c)' <= HIGH_WATER
                               /\ Backlog(c)' <= HIGH_WATER + 1
    BY SMTT(30), <2>1, <2>2, <2>3
  <2> QED
    BY ZenonT(40), <2>1, <2>4, <2>5
<1>3. ASSUME NEW c \in Conns, Process(c) PROVE Writers'
  <2>1. \A d \in Conns \ {c} : Backlog(d)' = Backlog(d) /\ paused'[d] = paused[d]
    BY <1>3 DEF Process, Backlog
  <2>2. PICK reply : answers' = [answers EXCEPT ![c] = Append(@, reply)]
    BY <1>3 DEF Process
  <2>3. Len(answers'[c]) = Len(answers[c]) + 1
    BY <2>2, ListAppend
  <2>4. \/ Backlog(c) = 0 /\ Backlog(c)' = 0 /\ paused'[c] = paused[c]
        \/ /\ Backlog(c)' = Backlog(c) + 1
           /\ paused'[c] <=> paused[c] \/ (link[c] # "lost" /\ Backlog(c) + 1 > HIGH_WATER)
    <3>1. \/ Backlog(c) = 0 /\ taken'[c] = taken[c] + 1 /\ paused' = paused
          \/ /\ taken'[c] = taken[c]
             /\ paused' = [paused EXCEPT ![c] =
                             @ \/ (link[c] # "lost" /\ Backlog(c) + 1 > HIGH_WATER)]
      BY <1>3 DEF Process
    <3>2. taken'[c] = taken[c] => Backlog(c)' = Backlog(c) + 1
      BY <2>3 DEF Backlog
    <3>3. taken'[c] = taken[c] + 1 => Backlog(c)' = Backlog(c)
      BY <2>3 DEF Backlog
    <3>4. CASE Backlog(c) = 0 /\ taken'[c] = taken[c] + 1 /\ paused' = paused
      BY <3>3, <3>4
    <3>5. CASE /\ taken'[c] = taken[c]
               /\ paused' = [paused EXCEPT ![c] =
                               @ \/ (link[c] # "lost" /\ Backlog(c) + 1 > HIGH_WATER)]
      <4>1. paused'[c] <=> paused[c] \/ (link[c] # "lost" /\ Backlog(c) + 1 > HIGH_WATER)
        BY <3>5
      <4> QED
        BY <3>2, <3>5, <4>1
    <3> QED
      BY <3>1, <3>4, <3>5
  <2>5. pc[c] = "lock" /\ pc' = [pc EXCEPT ![c] = "drain"] /\ link' = link
    BY <1>3 DEF Process, Goto, peerVars
  <2>6. /\ paused'[c] => Backlog(c)' > LOW_WATER
        /\ link[c] # "lost" => /\ ~paused'[c] => Backlog(c)' <= HIGH_WATER
                               /\ Backlog(c)' <= HIGH_WATER + 1
    <3>1. CASE Backlog(c) = 0 /\ Backlog(c)' = 0 /\ paused'[c] = paused[c]
      BY <3>1
    <3>2. CASE /\ Backlog(c)' = Backlog(c) + 1
               /\ paused'[c] <=> paused[c] \/ (link[c] # "lost" /\ Backlog(c) + 1 > HIGH_WATER)
      <4>1. /\ paused[c] => Backlog(c) > LOW_WATER
            /\ link[c] # "lost" => ~paused[c] /\ Backlog(c) <= HIGH_WATER
            /\ Backlog(c) \in Nat /\ HIGH_WATER \in Nat /\ LOW_WATER \in 0..HIGH_WATER
        BY <2>5
      <4>2. CASE paused'[c]
        BY <3>2, <4>1, <4>2
      <4>3. CASE ~paused'[c]
        BY <3>2, <4>1, <4>3
      <4> QED
        BY <4>2, <4>3
    <3> QED
      BY <2>4, <3>1, <3>2
  <2> QED
    BY <2>1, <2>5, <2>6
<1>4. ASSUME NEW c \in Conns, Drain(c) PROVE Writers'
  BY <1>4 DEF Drain, DrainWaits, Goto, Backlog, peerVars, outVars
<1>5. ASSUME \/ \E t \in Tasks : Resume(t)
             \/ \E s \in Samples : GenUpdate(s)
             \/ Tick \/ GenLock \/ GenFail \/ GenSleep \/ UNCHANGED vars
      PROVE  Writers'
  BY <1>5 DEF Resume, Tick, GenLock, GenUpdate, GenFail, GenSleep, Backlog, vars,
              peerVars, handlerVars, outVars
<1> QED
  BY <1>1, <1>2, <1>3, <1>4, <1>5, StepCases

LEMMA SuspendedForAReasonKept == IInv /\ [Next]_vars => SuspendedForAReason'
<1> SUFFICES ASSUME IInv, [Next]_vars PROVE SuspendedForAReason'
  OBVIOUS
<1> USE BacklogIsNat, WaterAssumption DEF IInv, Types, SuspendedForAReason, Places, Backlog
<1>1. ASSUME NEW c \in Conns,
             \/ Arrive(c) \/ PeerCloses(c) \/ ConnectionLost(c) \/ Closed(c) \/ Close(c)
             \/ Data(c) \/ FramesExhausted(c) \/ RejectLength(c) \/ Drop(c) \/ Lock(c)
      PROVE  SuspendedForAReason'
  BY SMTT(30), <1>1 DEF Arrive, PeerCloses, ConnectionLost, Closed, Close, Data, AfterRead,
              FramesExhausted, RejectLength, Drop, Lock, Goto, peerVars, outVars
<1>2. ASSUME NEW c \in Conns, Read(c) PROVE SuspendedForAReason'
  BY SMTT(30), <1>2 DEF Read, AwaitsData, Goto, peerVars, outVars
<1>3. ASSUME NEW c \in Conns, SocketTakes(c) PROVE SuspendedForAReason'
  BY SMTT(30), <1>3 DEF SocketTakes, Goto, peerVars
<1>4. ASSUME NEW c \in Conns, Process(c) PROVE SuspendedForAReason'
  <2>1. \A d \in Conns \ {c} : /\ taken'[d] = taken[d] /\ paused'[d] = paused[d]
                               /\ answers'[d] = answers[d]
    BY <1>4 DEF Process
  <2> QED
    BY <1>4, <2>1 DEF Process, Goto, peerVars
<1>5. ASSUME NEW c \in Conns, Drain(c) PROVE SuspendedForAReason'
  <2>1. paused[c] => Len(answers[c]) - taken[c] > LOW_WATER
    BY DEF Writers
  <2> QED
    BY ZenonT(40), <1>5, <2>1 DEF Drain, DrainWaits, Goto, peerVars, outVars
<1>6. ASSUME \/ \E t \in Tasks : Resume(t)
             \/ \E s \in Samples : GenUpdate(s)
             \/ Tick \/ GenLock \/ GenFail \/ GenSleep \/ UNCHANGED vars
      PROVE  SuspendedForAReason'
  BY <1>6 DEF Resume, Tick, GenLock, GenUpdate, GenFail, GenSleep, vars, peerVars,
              handlerVars, outVars
<1> QED
  BY <1>1, <1>2, <1>3, <1>4, <1>5, <1>6, StepCases

LEMMA DealtKept == IInv /\ [Next]_vars => Dealt'
<1> SUFFICES ASSUME IInv, [Next]_vars PROVE Dealt'
  OBVIOUS
<1> USE TasksDiffer DEF IInv, Types, Positions, Dealt, Places, NextIn
<1>1. ASSUME NEW c \in Conns, Arrive(c) PROVE Dealt'
  BY <1>1 DEF Arrive, Goto, peerVars, outVars
<1>2. ASSUME NEW c \in Conns, PeerCloses(c) PROVE Dealt'
  BY <1>2 DEF PeerCloses, Goto, outVars
<1>3. ASSUME NEW c \in Conns, ConnectionLost(c) PROVE Dealt'
  BY <1>3 DEF ConnectionLost, Goto, outVars
<1>4. ASSUME NEW c \in Conns, SocketTakes(c) PROVE Dealt'
  BY <1>4 DEF SocketTakes, Goto, peerVars
<1>5. ASSUME NEW c \in Conns, Data(c) PROVE Dealt'
  <2>1. AfterRead(Chunk(c)) = "close" => done[c] = sent[c]
    BY <1>5, WaterAssumption DEF Data, Chunk, AfterRead
  <2> QED
    BY <1>5, <2>1 DEF Data, AfterRead, Goto, peerVars, outVars
<1>6. ASSUME NEW c \in Conns, RejectLength(c) PROVE Dealt'
  BY <1>6 DEF RejectLength, BreaksFraming, Goto, peerVars, outVars
<1>7. ASSUME NEW c \in Conns, Read(c) \/ Drain(c) PROVE Dealt'
  BY SMTT(30), <1>7 DEF Read, Drain, Goto, peerVars, outVars
<1>8. ASSUME NEW c \in Conns, FramesExhausted(c) PROVE Dealt'
  BY <1>8 DEF FramesExhausted, Goto, peerVars, outVars
<1>9. ASSUME NEW c \in Conns, Drop(c) PROVE Dealt'
  BY <1>9 DEF Drop, peerVars, outVars
<1>10. ASSUME NEW c \in Conns, Lock(c) PROVE Dealt'
  BY <1>10 DEF Lock, Goto, peerVars, outVars
<1>11. ASSUME NEW c \in Conns, Close(c) \/ Closed(c) PROVE Dealt'
  <2>1. CASE Close(c)
    BY <2>1 DEF Close, Goto, peerVars, outVars
  <2>2. CASE Closed(c)
    BY <2>2 DEF Closed, Goto, peerVars, outVars
  <2> QED
    BY <1>11, <2>1, <2>2
<1>12. ASSUME NEW c \in Conns, Process(c) PROVE Dealt'
  BY <1>12 DEF Process, Goto, peerVars
<1>13. ASSUME NEW t \in Tasks, Resume(t) PROVE Dealt'
  BY <1>13 DEF Resume, peerVars, handlerVars, outVars
<1>14. ASSUME NEW s \in Samples, GenUpdate(s) PROVE Dealt'
  BY <1>14 DEF GenUpdate, peerVars, handlerVars, outVars
<1>15. ASSUME Tick \/ GenLock \/ GenFail \/ GenSleep \/ UNCHANGED vars PROVE Dealt'
  BY <1>15 DEF Tick, GenLock, GenFail, GenSleep, vars, peerVars, handlerVars, outVars
<1> HIDE DEF IInv, Types, Positions, Dealt, Places, NextIn
<1> QED
  BY <1>1, <1>2, <1>3, <1>4, <1>5, <1>6, <1>7, <1>8, <1>9, <1>10, <1>11, <1>12, <1>13,
     <1>14, <1>15, StepCases

-----------------------------------------------------------------------------
LEMMA InitEstablishesIInv == Init => IInv
<1> SUFFICES ASSUME Init PROVE IInv
  OBVIOUS
<1>1. Types
  <2>1. gen \in [pc : GenPlaces, at : 1..Len(Bindings) + 1]
    BY BindingsBound DEF Init, GenPlaces
  <2>2. \A c \in Conns : IsList(answers[c]) /\ Len(answers[c]) = 0 /\ Len(script[c]) \in Nat
    BY EmptyList, ScriptsAssumption DEF Init
  <2>3. /\ sent \in [Conns -> Nat] /\ pulled \in [Conns -> Nat]
        /\ done \in [Conns -> Nat] /\ taken \in [Conns -> Nat]
        /\ \A c \in Conns : sent[c] = 0 /\ pulled[c] = 0 /\ done[c] = 0 /\ taken[c] = 0
    BY DEF Init
  <2>4. /\ link \in [Conns -> {"open", "eof", "lost"}] /\ pc \in [Conns -> Places]
        /\ paused \in [Conns -> BOOLEAN]
        /\ script \in Scripts /\ DOMAIN answers = Conns /\ DOMAIN waiters = Units
        /\ DOMAIN devices = Units /\ running = Nobody
    BY DEF Init, Places, Units
  <2> QED
    BY <2>1, <2>2, <2>3, <2>4 DEF Types
<1>2. Positions
  BY TasksDiffer DEF Init, Positions
<1>3. LockOfRunning
  BY TasksDiffer DEF Init, LockOfRunning, AtLock
<1>4. Writers /\ Dealt /\ SuspendedForAReason
  BY EmptyList, WaterAssumption DEF Init, Writers, Dealt, SuspendedForAReason, Backlog
<1> QED
  BY <1>1, <1>2, <1>3, <1>4 DEF IInv

(* The invariant holds in every state, for any connections and devices.    *)
THEOREM IInvHolds == Spec => []IInv
<1>1. IInv /\ [Next]_vars => IInv'
  BY TypesKept, PositionsKept, LockOfRunningKept, WritersKept, SuspendedForAReasonKept,
     DealtKept DEF IInv
<1> QED
  BY <1>1, InitEstablishesIInv, PTL DEF Spec

(* No task is ever suspended while it holds a device's lock, for any       *)
(* number of connections and devices.                                      *)
THEOREM NeverLockAcrossAwait == Spec => []NoLockAcrossAwait
<1>1. IInv => NoLockAcrossAwait
  BY TasksDiffer DEF IInv, LockOfRunning, AtLock, NoLockAcrossAwait
<1> QED
  BY <1>1, IInvHolds, PTL

(* No wake-up is ever lost: who is suspended has a reason to be.           *)
THEOREM AlwaysSuspendedForAReason == Spec => []SuspendedForAReason
<1>1. IInv => SuspendedForAReason
  BY DEF IInv
<1> QED
  BY <1>1, IInvHolds, PTL

(* The responses a transport holds exceed the high-water mark by one at    *)
(* most.                                                                   *)
THEOREM BacklogAlwaysBounded == Spec => []BacklogBounded
<1>1. IInv => BacklogBounded
  BY DEF IInv, Writers, BacklogBounded
<1> QED
  BY <1>1, IInvHolds, PTL

(* A handler that closes a working connection has dealt with everything    *)
(* that arrived on it, up to a malformed frame.                            *)
THEOREM CloseAlwaysDealtWithAll == Spec => []CloseDealtWithAll
<1>1. IInv => CloseDealtWithAll
  BY DEF IInv, Dealt, CloseDealtWithAll
<1> QED
  BY <1>1, IInvHolds, PTL

(* Only three actions touch what the clients or the devices can see.       *)
LEMMA VisibleSteps ==
  [Next]_vars =>
    \/ \E c \in Conns : Drop(c) \/ Process(c)
    \/ \E s \in Samples : GenUpdate(s)
    \/ UNCHANGED <<script, done, answers, devices>>
<1>1. ASSUME NEW c \in Conns,
             \/ Arrive(c) \/ PeerCloses(c) \/ ConnectionLost(c) \/ SocketTakes(c)
             \/ Read(c) \/ Data(c) \/ FramesExhausted(c) \/ RejectLength(c)
             \/ Lock(c) \/ Drain(c) \/ Close(c) \/ Closed(c)
      PROVE  UNCHANGED <<script, done, answers, devices>>
  BY <1>1 DEF Arrive, PeerCloses, ConnectionLost, SocketTakes, Read, Data, FramesExhausted,
              RejectLength, Lock, Drain, Close, Closed, peerVars, outVars
<1>2. ASSUME \/ \E t \in Tasks : Resume(t)
             \/ Tick \/ GenLock \/ GenFail \/ GenSleep \/ UNCHANGED vars
      PROVE  UNCHANGED <<script, done, answers, devices>>
  BY <1>2 DEF Resume, Tick, GenLock, GenFail, GenSleep, vars, handlerVars, outVars
<1> QED
  BY <1>1, <1>2, StepCases

-----------------------------------------------------------------------------
(* The answerable frames among the first n, one n after the other. *)
LEMMA AskedIsFinite ==
  ASSUME NEW c, NEW n \in Nat
  PROVE  IsFiniteSet(Asked(c, n)) /\ Cardinality(Asked(c, n)) \in Nat
<1>1. IsFiniteSet(1..n) /\ Asked(c, n) \subseteq 1..n
  BY FS_Interval DEF Asked
<1> QED
  BY <1>1, FS_Subset, FS_CardinalityType

LEMMA AskedNext ==
  ASSUME NEW c, NEW n \in Nat
  PROVE  /\ Asked(c, n + 1) =
              IF Answerable(script[c][n + 1]) THEN Asked(c, n) \cup {n + 1} ELSE Asked(c, n)
         /\ Cardinality(Asked(c, n + 1)) =
              IF Answerable(script[c][n + 1]) THEN Cardinality(Asked(c, n)) + 1
                                              ELSE Cardinality(Asked(c, n))
<1>1. 1..n + 1 = (1..n) \cup {n + 1} /\ n + 1 \notin 1..n
  OBVIOUS
<1>2. Asked(c, n + 1) =
        IF Answerable(script[c][n + 1]) THEN Asked(c, n) \cup {n + 1} ELSE Asked(c, n)
  BY <1>1 DEF Asked
<1>3. n + 1 \notin Asked(c, n)
  BY <1>1 DEF Asked
<1> QED
  BY <1>2, <1>3, AskedIsFinite, FS_AddElement

(* A frame's answer has a place among the answers given so far. *)
LEMMA AskedHasPlace ==
  ASSUME NEW c, NEW n \in Nat, NEW i \in Asked(c, n)
  PROVE  Cardinality(Asked(c, i)) \in 1..Cardinality(Asked(c, n))
<1>1. i \in 1..n /\ i \in Asked(c, i) /\ Asked(c, i) \subseteq Asked(c, n)
  BY DEF Asked
<1>2. Cardinality(Asked(c, i)) <= Cardinality(Asked(c, n))
  BY <1>1, AskedIsFinite, FS_Subset
<1>3. Cardinality(Asked(c, i)) # 0
  BY <1>1, AskedIsFinite, FS_EmptySet
<1> QED
  BY <1>1, <1>2, <1>3, AskedIsFinite

(* A response carries the function code of its request. *)
LEMMA ResponseKeepsCode == ASSUME NEW d, NEW request PROVE Response(d, request).fc = request.fc
BY DEF Response, Answer, Exception

Replies ==
  /\ AnsweredInOrder
  /\ \A c \in Conns : \A i \in 1..Len(answers[c]) : IsAnswer(answers[c][i])

LEMMA RepliesKept == IInv /\ Replies /\ [Next]_vars => Replies'
<1> SUFFICES ASSUME IInv, Replies, [Next]_vars PROVE Replies'
  OBVIOUS
<1>1. \A c \in Conns : done[c] \in Nat /\ Len(answers[c]) \in Nat
  BY ListLen DEF IInv, Types
<1>2. ASSUME NEW c \in Conns, Drop(c) PROVE Replies'
  <2>1. /\ \A d \in Conns : done'[d] = IF d = c THEN done[c] + 1 ELSE done[d]
        /\ UNCHANGED <<script, answers>>
    BY <1>2 DEF Drop, outVars, IInv, Types
  <2>2. ~Answerable(script[c][done[c] + 1])
    BY <1>2 DEF Drop, Dropped, NextIn
  <2>3. Asked(c, done[c] + 1) = Asked(c, done[c])
    BY <1>1, <2>2, AskedNext
  <2>4. \A d \in Conns : Asked(d, done[d])' = Asked(d, done[d])
    BY <2>1, <2>3 DEF Asked
  <2>5. \A d, i : Asked(d, i)' = Asked(d, i)
    BY <2>1 DEF Asked
  <2> QED
    BY <2>1, <2>4, <2>5 DEF Replies, AnsweredInOrder
<1>3. ASSUME NEW c \in Conns, Process(c) PROVE Replies'
  <2> DEFINE f == script[c][done[c] + 1]
             reply == Reply(f, Response(devices[f.unit], f.request))
             n == done[c]
  <2>1. /\ \A d \in Conns : done'[d] = IF d = c THEN n + 1 ELSE done[d]
        /\ \A d \in Conns : answers'[d] = IF d = c THEN Append(answers[c], reply) ELSE answers[d]
        /\ script' = script
    BY <1>3 DEF Process, NextIn, IInv, Types
  <2>2. Answerable(f)
    BY <1>3 DEF Process, NextIn, IInv, Positions
  <2>3. IsAnswer(reply) /\ IsAnswerTo(f, reply)
    BY ResponseKeepsCode DEF IsAnswer, IsAnswerTo, Reply
  <2> HIDE DEF reply
  <2>4. /\ Len(Append(answers[c], reply)) = Len(answers[c]) + 1
        /\ \A i \in 1..Len(answers[c]) : Append(answers[c], reply)[i] = answers[c][i]
        /\ Append(answers[c], reply)[Len(answers[c]) + 1] = reply
    BY ListAppend DEF IInv, Types
  <2>5. /\ Asked(c, n + 1) = Asked(c, n) \cup {n + 1}
        /\ Cardinality(Asked(c, n + 1)) = Len(answers[c]) + 1
    BY <1>1, <2>2, AskedNext DEF Replies, AnsweredInOrder
  <2>6. \A d, i : Asked(d, i)' = Asked(d, i)
    BY <2>1 DEF Asked
  <2>7. \A d \in Conns : Asked(d, done[d])' = IF d = c THEN Asked(c, n + 1) ELSE Asked(d, done[d])
    BY <2>1 DEF Asked
  <2>8. \A i \in Asked(c, n) : Cardinality(Asked(c, i)) \in 1..Len(answers[c])
    BY <1>1, AskedHasPlace DEF Replies, AnsweredInOrder
  <2>9. ASSUME NEW i \in Asked(c, n + 1)
        PROVE  IsAnswerTo(script[c][i], answers'[c][Cardinality(Asked(c, i))])
    <3>1. CASE i = n + 1
      BY <2>1, <2>3, <2>4, <2>5, <3>1
    <3>2. CASE i \in Asked(c, n)
      BY <2>1, <2>4, <2>8, <3>2 DEF Replies, AnsweredInOrder
    <3> QED
      BY <2>5, <2>9, <3>1, <3>2
  <2>10. AnsweredInOrder'
    <3> SUFFICES ASSUME NEW d \in Conns
                 PROVE  /\ Len(answers'[d]) = Cardinality(Asked(d, done[d])')
                        /\ \A i \in Asked(d, done[d])' :
                             IsAnswerTo(script[d][i], answers'[d][Cardinality(Asked(d, i))])
      BY <2>1, <2>6 DEF AnsweredInOrder, IsAnswerTo
    <3>1. CASE d = c
      BY <2>1, <2>4, <2>5, <2>7, <2>9, <3>1
    <3>2. CASE d # c
      BY <2>1, <2>7, <3>2 DEF Replies, AnsweredInOrder
    <3> QED
      BY <3>1, <3>2
  <2>11. ASSUME NEW d \in Conns, NEW i \in 1..Len(answers'[d]) PROVE IsAnswer(answers'[d][i])
    <3>1. CASE d = c /\ i = Len(answers[c]) + 1
      BY <2>1, <2>3, <2>4, <3>1
    <3>2. CASE d # c \/ i \in 1..Len(answers[c])
      BY <2>1, <2>4, <2>11, <3>2 DEF Replies
    <3>3. d = c => i \in 1..Len(answers[c]) + 1
      BY <2>1, <2>4, <2>11
    <3>4. d = c => i = Len(answers[c]) + 1 \/ i \in 1..Len(answers[c])
      BY <1>1, <3>3
    <3> QED
      BY <3>1, <3>2, <3>4
  <2> QED
    BY <2>10, <2>11 DEF Replies, IsAnswer
<1>4. CASE UNCHANGED <<script, done, answers>>
  <2>1. \A d, i : Asked(d, i)' = Asked(d, i)
    BY <1>4 DEF Asked
  <2>2. \A d \in Conns : Asked(d, done[d])' = Asked(d, done[d])
    BY <1>4 DEF Asked
  <2> QED
    BY <1>4, <2>1, <2>2 DEF Replies, AnsweredInOrder, IsAnswerTo, IsAnswer
<1>5. ASSUME NEW s \in Samples, GenUpdate(s) PROVE UNCHANGED <<script, done, answers>>
  BY <1>5 DEF GenUpdate, handlerVars, outVars
<1> QED
  BY <1>2, <1>3, <1>4, <1>5, VisibleSteps

LEMMA InitEstablishesReplies == Init => Replies
<1> SUFFICES ASSUME Init PROVE Replies
  OBVIOUS
<1>1. \A c \in Conns : Len(answers[c]) = 0 /\ Asked(c, done[c]) = {}
  BY EmptyList DEF Init, Asked
<1>2. AnsweredInOrder
  BY <1>1, FS_EmptySet DEF AnsweredInOrder
<1>3. \A c \in Conns : 1..Len(answers[c]) = {}
  BY <1>1
<1> QED
  BY <1>2, <1>3 DEF Replies

LEMMA RepliesHold == Spec => []Replies
BY InitEstablishesReplies, RepliesKept, IInvHolds, PTL DEF Spec

(* Every connection gets the answers to its answerable frames, one each,   *)
(* in order, each with its request's transaction id, unit and code.        *)
THEOREM AlwaysAnsweredInOrder == Spec => []AnsweredInOrder
<1>1. Replies => AnsweredInOrder
  BY DEF Replies
<1> QED
  BY <1>1, RepliesHold, PTL

(* The variables keep their types.                                         *)
THEOREM TypeCorrect == Spec => []TypeOK
<1>1. IInv /\ Replies => TypeOK
  <2> SUFFICES ASSUME IInv, Replies PROVE TypeOK
    OBVIOUS
  <2>1. \A c \in Conns : /\ sent[c] \in 0..Len(script[c])
                         /\ pulled[c] \in 0..sent[c]
                         /\ done[c] \in 0..pulled[c]
                         /\ taken[c] \in 0..Len(answers[c])
    BY ScriptsAssumption, ListLen DEF IInv, Types
  <2>2. \A u \in Units : \A i \in 1..Len(waiters[u]) : waiters[u][i] \in Tasks
    BY TasksDiffer, EmptyList DEF IInv, LockOfRunning, AtLock, Tasks
  <2> QED
    BY <2>1, <2>2 DEF IInv, Types, GenPlaces, Replies, TypeOK
<1> QED
  BY <1>1, IInvHolds, RepliesHold, PTL

-----------------------------------------------------------------------------
(* The server implements ModbusService: dropping a frame, processing one   *)
(* and updating a binding are its three actions, and every other step      *)
(* leaves what clients can see alone.                                      *)
LEMMA InitIsServiceInit == Init => Service!Init
BY DEF Init, Service!Init

LEMMA DropIsIgnore ==
  ASSUME IInv, NEW c \in Conns, Drop(c)
  PROVE  Service!Ignore(c)
<1>1. done[c] < Len(script[c]) /\ NextIn(c) = Service!Oldest(c)
  BY ScriptsAssumption DEF IInv, Types, Drop, NextIn, Service!Oldest
<1>2. NextIn(c).kind # "badlen" /\ ~Service!ForUs(NextIn(c))
  BY DEF Drop, Dropped, Answerable, IInv, Types, Service!ForUs
<1> QED
  BY <1>1, <1>2 DEF Drop, Service!Ignore, Service!Serving, outVars

(* The abstract specification instantiates the same dispatcher. *)
LEMMA SameDispatcher ==
  ASSUME NEW d, NEW request
  PROVE  /\ Service!Response(d, request) = Response(d, request)
         /\ Service!Effect(d, request) = Effect(d, request)
BY DEF Response, Effect, Verdict, Answer, Exception, QuantityAccepted, AddressAccepted,
       Quantity, LimitOf, RegionOf, InBlock, ReadBlock, WriteBlock, READ_CODES,
       WRITE_CODES, SINGLE_WRITE_CODES, MULTI_WRITE_CODES, READ_COILS,
       READ_DISCRETE_INPUTS, READ_HOLDING_REGISTERS, READ_INPUT_REGISTERS,
       WRITE_SINGLE_COIL, WRITE_SINGLE_REGISTER, WRITE_MULTIPLE_COILS,
       WRITE_MULTIPLE_REGISTERS, COILS, DISCRETE_INPUTS, HOLDING_REGISTERS,
       INPUT_REGISTERS, NO_EXCEPTION, ILLEGAL_DATA_VALUE, ILLEGAL_DATA_ADDRESS,
       Service!Response, Service!Effect, Service!Verdict, Service!Answer,
       Service!Exception, Service!QuantityAccepted, Service!AddressAccepted,
       Service!Quantity, Service!LimitOf, Service!RegionOf, Service!InBlock,
       Service!ReadBlock, Service!WriteBlock, Service!READ_CODES, Service!WRITE_CODES,
       Service!SINGLE_WRITE_CODES, Service!MULTI_WRITE_CODES, Service!READ_COILS,
       Service!READ_DISCRETE_INPUTS, Service!READ_HOLDING_REGISTERS,
       Service!READ_INPUT_REGISTERS, Service!WRITE_SINGLE_COIL,
       Service!WRITE_SINGLE_REGISTER, Service!WRITE_MULTIPLE_COILS,
       Service!WRITE_MULTIPLE_REGISTERS, Service!COILS, Service!DISCRETE_INPUTS,
       Service!HOLDING_REGISTERS, Service!INPUT_REGISTERS, Service!NO_EXCEPTION,
       Service!ILLEGAL_DATA_VALUE, Service!ILLEGAL_DATA_ADDRESS

LEMMA ProcessIsServe ==
  ASSUME IInv, NEW c \in Conns, Process(c)
  PROVE  Service!Serve(c)
<1>1. /\ done[c] < Len(script[c])
      /\ NextIn(c) = Service!Oldest(c)
      /\ Answerable(NextIn(c))
  BY ScriptsAssumption DEF IInv, Types, Positions, Process, NextIn, Service!Oldest
<1>2. NextIn(c).kind # "badlen" /\ Service!ForUs(NextIn(c))
  BY <1>1 DEF Answerable, IInv, Types, Service!ForUs
<1> QED
  <2> DEFINE f == NextIn(c)
  <2>1. /\ answers' = [answers EXCEPT ![c] =
                         Append(@, [tid |-> f.tid, unit |-> f.unit,
                                    body |-> Response(devices[f.unit], f.request)])]
        /\ devices' = [devices EXCEPT ![f.unit] = Effect(devices[f.unit], f.request)]
        /\ done' = [done EXCEPT ![c] = @ + 1]
        /\ script' = script
    BY DEF Process, Reply
  <2>2. Service!Oldest(c) = f
    BY <1>1
  <2> HIDE DEF f
  <2> QED
    BY <1>1, <1>2, <2>1, <2>2, SameDispatcher DEF Service!Serve, Service!Serving

LEMMA UpdateIsRefresh ==
  ASSUME IInv, NEW s \in Samples, GenUpdate(s)
  PROVE  \E i \in DOMAIN Bindings : Service!Refresh(Bindings[i], s)
<1>1. gen.at \in DOMAIN Bindings
  BY LenProperties, BindingsAssumption, BindingsBound DEF IInv, Types, Positions, GenUpdate
<1>2. Service!Refresh(Bindings[gen.at], s)
  BY DEF GenUpdate, SetSlot, Service!Refresh, handlerVars, outVars
<1> QED
  BY <1>1, <1>2

LEMMA StepIsServiceStep == IInv /\ [Next]_vars => [Service!Next]_(Service!vars)
<1> SUFFICES ASSUME IInv, [Next]_vars, ~ UNCHANGED <<script, done, answers, devices>>
             PROVE  Service!Next
  BY DEF Service!vars
<1>1. ASSUME NEW c \in Conns, Drop(c) PROVE Service!Next
  BY <1>1, DropIsIgnore DEF Service!Next
<1>2. ASSUME NEW c \in Conns, Process(c) PROVE Service!Next
  BY <1>2, ProcessIsServe DEF Service!Next
<1>3. ASSUME NEW s \in Samples, GenUpdate(s) PROVE Service!Next
  BY <1>3, UpdateIsRefresh DEF Service!Next
<1> QED
  BY <1>1, <1>2, <1>3, VisibleSteps

(* For its clients the server behaves as if it had no tasks, buffers or    *)
(* locks: it handles one request at a time, each connection's in order.    *)
THEOREM ServerImplementsService == Spec => ServesLikeOneAtATime
BY InitIsServiceInit, StepIsServiceStep, IInvHolds, PTL
   DEF Spec, ServesLikeOneAtATime, Service!Spec
=============================================================================
