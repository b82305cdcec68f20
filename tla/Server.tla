------------------------------- MODULE Server -------------------------------
(***************************************************************************)
(* modbus_sim/server.py, ModbusServer while it serves: one handler task    *)
(* per accepted connection (_handle_client, _process_frame) and the        *)
(* background task _run_generators, on one asyncio event loop.             *)
(*                                                                         *)
(* A task keeps the loop until an await really suspends it.  "running" is  *)
(* the task that has the loop; Nobody means that the loop is between two   *)
(* tasks, and only then do transport callbacks and timers run and does     *)
(* Resume pick the next ready task.  StreamFramer is used through what its *)
(* own module proves: the handler sees the peer's whole frames, in order,  *)
(* and a bad length field only when it stands at a frame boundary.         *)
(***************************************************************************)
EXTENDS Dispatcher, FiniteSets

CONSTANTS
  Conns,        \* the accepted connections
  Scripts,      \* what the peers send: a set of [Conns -> Seq(frame)]
  NewDevices,   \* the data store at start: [unit ids -> device]
  Bindings,     \* self.bindings: a sequence of [unit, region, address]
  FAILING,      \* the indices of bindings whose sample() may raise
  Samples,      \* the values generators produce
  READ_FRAMES,  \* how many whole frames one read(_READ_CHUNK) may return
  HIGH_WATER,   \* a transport with more unsent responses pauses its writer
  LOW_WATER     \* and resumes it when no more than this many are unsent

ASSUME WaterAssumption ==
  /\ HIGH_WATER \in Nat /\ LOW_WATER \in 0..HIGH_WATER
  /\ READ_FRAMES \in Nat \ {0}

Units      == DOMAIN NewDevices
Generators == "generators"     \* the name serve_forever gives the task
Nobody     == "nobody"
Tasks      == Conns \cup {Generators}

ASSUME ConnsAssumption == Generators \notin Conns /\ Nobody \notin Conns
ASSUME ScriptsAssumption ==
  \A s \in Scripts : DOMAIN s = Conns /\ \A c \in Conns : Len(s[c]) \in Nat
ASSUME BindingsAssumption ==      \* they are built for devices of the store
  Bindings \in Seq([unit : Units, region : RegisterRegions, address : Nat])

VARIABLES
  script,   \* script[c]: the frames the peer of c sends, in full
  sent,     \* sent[c]: how many of them are in c's StreamReader or beyond
  link,     \* link[c]: the TCP connection: "open", "eof" or "lost"
  pulled,   \* pulled[c]: how many frames read() has handed to the framer
  done,     \* done[c]: how many of those the handler is finished with
  pc,       \* pc[c]: where c's handler task is
  answers,  \* answers[c]: the responses given to writer.write, in order
  taken,    \* taken[c]: how many of them have left the transport
  paused,   \* paused[c]: the transport has called pause_writing
  waiters,  \* waiters[u]: the tasks that hold or want device u's lock
  devices,  \* the data store
  running,  \* the task that has the event loop
  gen       \* the generator task: its place and the binding it is at

peerVars    == <<sent, link>>
handlerVars == <<pulled, done, pc>>
outVars     == <<answers, taken, paused>>
vars == <<script, peerVars, handlerVars, outVars, waiters, devices, running, gen>>

(* A frame is [kind, tid, unit, request].  "modbus" has protocol id 0,     *)
(* "foreign" another one, and "badlen" a length field out of range.        *)
Kinds == {"modbus", "foreign", "badlen"}

(* Places of a handler task.  It is suspended in "await" (read waits for   *)
(* data), "paused" (drain waits for the transport) and "closing"           *)
(* (wait_closed); in "woken" read has its data and the task is to run.     *)
Places == {"read", "await", "woken", "frames", "lock", "drain", "paused",
           "close", "closing", "closed"}

Init ==
  /\ script \in Scripts
  /\ sent = [c \in Conns |-> 0]
  /\ link = [c \in Conns |-> "open"]
  /\ pulled = [c \in Conns |-> 0]
  /\ done = [c \in Conns |-> 0]
  /\ pc = [c \in Conns |-> "read"]
  /\ answers = [c \in Conns |-> <<>>]
  /\ taken = [c \in Conns |-> 0]
  /\ paused = [c \in Conns |-> FALSE]
  /\ waiters = [u \in Units |-> <<>>]
  /\ devices = NewDevices
  /\ running = Nobody
  /\ gen = [pc |-> IF Bindings = <<>> THEN "off" ELSE "sleep", at |-> 1]

Goto(c, place) == pc' = [pc EXCEPT ![c] = place]
Backlog(c) == Len(answers[c]) - taken[c]

(* Mutant of NextIn: the batch is collected first, and every frame of it   *)
(* is processed as if it were the last one.                                *)
LastOfBatch(c) == script[c][IF done[c] < pulled[c] THEN pulled[c] ELSE done[c] + 1]

NextIn(c) == script[c][done[c] + 1]       \* the frame the framer yields next

-----------------------------------------------------------------------------
(* The peers and the transports.                                           *)

(* data_received: the next frame of the peer is complete in the reader. *)
Arrive(c) ==
  /\ running = Nobody
  /\ link[c] = "open"
  /\ pc[c] \notin {"closing", "closed"}
  /\ sent[c] < Len(script[c])
  /\ sent' = [sent EXCEPT ![c] = @ + 1]
  /\ Goto(c, IF pc[c] = "await" THEN "woken" ELSE pc[c])
  /\ UNCHANGED <<script, link, pulled, done, outVars, waiters, devices, running, gen>>

(* eof_received: the peer closed its side; it can still be answered. *)
PeerCloses(c) ==
  /\ running = Nobody
  /\ link[c] = "open"
  /\ pc[c] \notin {"closing", "closed"}
  /\ link' = [link EXCEPT ![c] = "eof"]
  /\ Goto(c, IF pc[c] = "await" THEN "woken" ELSE pc[c])
  /\ UNCHANGED <<script, sent, pulled, done, outVars, waiters, devices, running, gen>>

(* connection_lost with an exception: what waits on c is woken with it. *)
ConnectionLost(c) ==
  /\ running = Nobody
  /\ link[c] # "lost"
  /\ pc[c] # "closed"
  /\ link' = [link EXCEPT ![c] = "lost"]
  /\ Goto(c, IF pc[c] \in {"await", "paused"} THEN "close" ELSE pc[c])
  /\ UNCHANGED <<script, sent, pulled, done, outVars, waiters, devices, running, gen>>

(* The socket accepts the oldest unsent response; at the low-water mark    *)
(* resume_writing wakes the drain.                                         *)
SocketTakes(c) ==
  /\ running = Nobody
  /\ link[c] # "lost"
  /\ Backlog(c) > 0
  /\ taken' = [taken EXCEPT ![c] = @ + 1]
  /\ LET resumes == paused[c] /\ Backlog(c) - 1 <= LOW_WATER
     IN  /\ paused' = [paused EXCEPT ![c] = @ /\ ~resumes]
         /\ Goto(c, IF resumes /\ pc[c] = "paused" THEN "frames" ELSE pc[c])
  /\ UNCHANGED <<script, peerVars, pulled, done, answers, waiters, devices, running, gen>>

-----------------------------------------------------------------------------
(* The event loop and the lock.                                            *)

IsFirst(t, u) == waiters[u] # <<>> /\ Head(waiters[u]) = t

WantsLockOf(t) ==
  IF t = Generators THEN Bindings[gen.at].unit ELSE NextIn(t).unit

Ready(t) ==
  IF t = Generators
  THEN gen.pc = "lock" /\ IsFirst(t, WantsLockOf(t))
  ELSE \/ pc[t] \in {"read", "woken", "frames", "close"}
       \/ pc[t] = "lock" /\ IsFirst(t, WantsLockOf(t))

(* The loop runs a ready task until its next suspension. *)
Resume(t) ==
  /\ running = Nobody
  /\ Ready(t)
  /\ running' = t
  /\ UNCHANGED <<script, peerVars, handlerVars, outVars, waiters, devices, gen>>

(* Lock.acquire: with nobody before it the task goes on at once, otherwise *)
(* it is suspended and served in the order of arrival.                     *)
Acquire(t, u) ==
  /\ waiters' = [waiters EXCEPT ![u] = Append(@, t)]
  /\ running' = IF waiters[u] = <<>> THEN t ELSE Nobody

Release(u) == waiters' = [waiters EXCEPT ![u] = Tail(@)]

-----------------------------------------------------------------------------
(* _handle_client.                                                         *)

(* Mutant of AwaitsData: bytes that are already buffered are overlooked. *)
AwaitsFreshData(c) == link[c] = "open"

(* read suspends its caller: nothing is buffered and more may come. *)
AwaitsData(c) == link[c] = "open" /\ sent[c] = pulled[c]

(* await reader.read(_READ_CHUNK), called. *)
Read(c) ==
  /\ running = c
  /\ pc[c] = "read"
  /\ \/ /\ link[c] = "lost"                     \* raises
        /\ Goto(c, "close")
        /\ UNCHANGED running
     \/ /\ link[c] # "lost" /\ ~AwaitsData(c)
        /\ Goto(c, "woken")
        /\ UNCHANGED running
     \/ /\ link[c] # "lost" /\ AwaitsData(c)
        /\ Goto(c, "await")
        /\ running' = Nobody
  /\ UNCHANGED <<script, peerVars, pulled, done, outVars, waiters, devices, gen>>

(* Mutant of Chunk: read always returns as much as it was asked for. *)
FullChunk(c) == READ_FRAMES

(* How many frames read returns: what is buffered, up to _READ_CHUNK. *)
Chunk(c) ==
  LET waiting == sent[c] - pulled[c]
  IN  IF waiting < READ_FRAMES THEN waiting ELSE READ_FRAMES

(* Mutant of AfterRead: b"" is not taken as the end of the stream. *)
AfterAnyRead(n) == "frames"

AfterRead(n) == IF n = 0 THEN "close" ELSE "frames"

(* The data read returns: b"" ends the loop, anything else goes to feed(). *)
Data(c) ==
  /\ running = c
  /\ pc[c] = "woken"
  /\ pulled' = [pulled EXCEPT ![c] = @ + Chunk(c)]
  /\ Goto(c, AfterRead(Chunk(c)))
  /\ UNCHANGED <<script, peerVars, done, outVars, waiters, devices, running, gen>>

(* feed() has no further whole frame. *)
FramesExhausted(c) ==
  /\ running = c
  /\ pc[c] = "frames"
  /\ done[c] = pulled[c]
  /\ Goto(c, "read")
  /\ UNCHANGED <<script, peerVars, pulled, done, outVars, waiters, devices, running, gen>>

(* Mutant of BreaksFraming: feed() collects its frames in a list before it *)
(* returns, so a bad length throws away the good frames in front of it.    *)
BreaksBatch(c) == \E i \in done[c] + 1 .. pulled[c] : script[c][i].kind = "badlen"

(* The next frame has a length field out of range. *)
BreaksFraming(c) == done[c] < pulled[c] /\ NextIn(c).kind = "badlen"

(* feed() raises ProtocolError. *)
RejectLength(c) ==
  /\ running = c
  /\ pc[c] = "frames"
  /\ BreaksFraming(c)
  /\ Goto(c, "close")
  /\ UNCHANGED <<script, peerVars, pulled, done, outVars, waiters, devices, running, gen>>

-----------------------------------------------------------------------------
(* _process_frame.                                                         *)

Answerable(f) == f.kind = "modbus" /\ f.unit \in Units

(* Mutant of Dropped: a malformed frame is skipped like a foreign one. *)
DroppedOrMalformed(f) == ~Answerable(f)

Dropped(f) == f.kind # "badlen" /\ ~Answerable(f)

(* The early returns: a foreign protocol id, a unit that does not exist. *)
Drop(c) ==
  /\ running = c
  /\ pc[c] = "frames"
  /\ done[c] < pulled[c]
  /\ Dropped(NextIn(c))
  /\ done' = [done EXCEPT ![c] = @ + 1]
  /\ UNCHANGED <<script, peerVars, pulled, pc, outVars, waiters, devices, running, gen>>

Lock(c) ==
  /\ running = c
  /\ pc[c] = "frames"
  /\ done[c] < pulled[c]
  /\ Answerable(NextIn(c))
  /\ Goto(c, "lock")
  /\ Acquire(c, NextIn(c).unit)
  /\ UNCHANGED <<script, peerVars, pulled, done, outVars, devices, gen>>

Reply(f, body) == [tid |-> f.tid, unit |-> f.unit, body |-> body]

(* Mutant of LeaveLock: drain is awaited inside "async with device.lock",  *)
(* so a task whose transport is paused keeps the lock.                     *)
LeaveLockAfterDrain(c) ==
  IF paused'[c] THEN UNCHANGED waiters ELSE Release(NextIn(c).unit)

(* The block under "async with device.lock" ends before write and drain. *)
LeaveLock(c) == Release(NextIn(c).unit)

(* process_pdu under the lock, release, build_adu and writer.write: no     *)
(* await in between.  write() hands the response to the socket at once if  *)
(* nothing is queued before it and the socket accepts it.                  *)
Process(c) ==
  /\ running = c
  /\ pc[c] = "lock"
  /\ LET f == NextIn(c)
     IN  /\ devices' = [devices EXCEPT ![f.unit] = Effect(@, f.request)]
         /\ answers' = [answers EXCEPT ![c] =
                          Append(@, Reply(f, Response(devices[f.unit], f.request)))]
  /\ \/ /\ link[c] # "lost" /\ Backlog(c) = 0
        /\ taken' = [taken EXCEPT ![c] = @ + 1]
        /\ UNCHANGED paused
     \/ /\ paused' = [paused EXCEPT ![c] =
                        @ \/ (link[c] # "lost" /\ Backlog(c) + 1 > HIGH_WATER)]
        /\ UNCHANGED taken
  /\ LeaveLock(c)
  /\ done' = [done EXCEPT ![c] = @ + 1]
  /\ Goto(c, "drain")
  /\ UNCHANGED <<script, peerVars, pulled, running, gen>>

(* Mutant of DrainWaits: the writer is never awaited. *)
DrainNeverWaits(c) == FALSE

DrainWaits(c) == paused[c]

(* await writer.drain(). *)
Drain(c) ==
  /\ running = c
  /\ pc[c] = "drain"
  /\ \/ /\ link[c] = "lost"                     \* raises
        /\ Goto(c, "close")
        /\ UNCHANGED running
     \/ /\ link[c] # "lost" /\ ~DrainWaits(c)
        /\ Goto(c, "frames")
        /\ UNCHANGED running
     \/ /\ link[c] # "lost" /\ DrainWaits(c)
        /\ Goto(c, "paused")
        /\ running' = Nobody
  /\ UNCHANGED <<script, peerVars, pulled, done, outVars, waiters, devices, gen>>

(* The finally block: writer.close(), await writer.wait_closed(). *)
Close(c) ==
  /\ running = c
  /\ pc[c] = "close"
  /\ Goto(c, "closing")
  /\ running' = Nobody
  /\ UNCHANGED <<script, peerVars, pulled, done, outVars, waiters, devices, gen>>

(* The transport is closed once it is flushed or lost; the handler ends. *)
Closed(c) ==
  /\ running = Nobody
  /\ pc[c] = "closing"
  /\ Backlog(c) = 0 \/ link[c] = "lost"
  /\ Goto(c, "closed")
  /\ UNCHANGED <<script, peerVars, pulled, done, outVars, waiters, devices, running, gen>>

-----------------------------------------------------------------------------
(* _run_generators.                                                        *)

(* asyncio.sleep(GENERATOR_INTERVAL_S) is over. *)
Tick ==
  /\ running = Nobody
  /\ gen.pc = "sleep"
  /\ running' = Generators
  /\ gen' = [pc |-> "bind", at |-> 1]
  /\ UNCHANGED <<script, peerVars, handlerVars, outVars, waiters, devices>>

GenLock ==
  /\ running = Generators
  /\ gen.pc = "bind"
  /\ gen.at <= Len(Bindings)
  /\ gen' = [gen EXCEPT !.pc = "lock"]
  /\ Acquire(Generators, Bindings[gen.at].unit)
  /\ UNCHANGED <<script, peerVars, handlerVars, outVars, devices>>

(* binding.update(elapsed) under the lock. *)
GenUpdate(sample) ==
  /\ running = Generators
  /\ gen.pc = "lock"
  /\ LET b == Bindings[gen.at]
     IN  /\ devices' = [devices EXCEPT ![b.unit][b.region] = SetSlot(@, b.address, sample)]
         /\ Release(b.unit)
  /\ gen' = [pc |-> "bind", at |-> gen.at + 1]
  /\ UNCHANGED <<script, peerVars, handlerVars, outVars, running>>

(* Mutant of GenFailUnlocks: acquire() without "async with" or "finally". *)
GenFailHoldsLock == UNCHANGED waiters

GenFailUnlocks == Release(Bindings[gen.at].unit)

(* sample() raises: async with releases the lock and the task ends. *)
GenFail ==
  /\ running = Generators
  /\ gen.pc = "lock"
  /\ gen.at \in FAILING
  /\ GenFailUnlocks
  /\ gen' = [gen EXCEPT !.pc = "dead"]
  /\ running' = Nobody
  /\ UNCHANGED <<script, peerVars, handlerVars, outVars, devices>>

GenSleep ==
  /\ running = Generators
  /\ gen.pc = "bind"
  /\ gen.at > Len(Bindings)
  /\ gen' = [pc |-> "sleep", at |-> 1]
  /\ running' = Nobody
  /\ UNCHANGED <<script, peerVars, handlerVars, outVars, waiters, devices>>

-----------------------------------------------------------------------------
HandlerStep(c) ==
  \/ Read(c) \/ Data(c) \/ FramesExhausted(c) \/ RejectLength(c)
  \/ Drop(c) \/ Lock(c) \/ Process(c) \/ Drain(c) \/ Close(c)

GeneratorStep ==
  GenLock \/ (\E s \in Samples : GenUpdate(s)) \/ GenFail \/ GenSleep

PeerStep(c) == Arrive(c) \/ PeerCloses(c) \/ ConnectionLost(c) \/ SocketTakes(c)

Next ==
  \/ \E c \in Conns : PeerStep(c) \/ HandlerStep(c) \/ Closed(c)
  \/ \E t \in Tasks : Resume(t)
  \/ Tick
  \/ GeneratorStep

Spec == Init /\ [][Next]_vars

(* asyncio's ready queue is first in, first out, so a task that is ready    *)
(* again and again gets the loop, and the one that has it goes on; timers  *)
(* and transport callbacks are run in every turn of the loop.  Nothing     *)
(* obliges a peer to send, to close or to fail, and only the sockets of    *)
(* Readers keep taking what they are sent.                                 *)
Fairness(Readers) ==
  /\ \A t \in Tasks : SF_vars(Resume(t))
  /\ \A c \in Conns : WF_vars(HandlerStep(c)) /\ SF_vars(Closed(c))
  /\ WF_vars(GeneratorStep)
  /\ SF_vars(Tick)
  /\ \A c \in Readers : SF_vars(SocketTakes(c))

-----------------------------------------------------------------------------
IsAnswer(a) == DOMAIN a = {"tid", "unit", "body"}

(* The variables stay in their types, and a frame is done after it was     *)
(* pulled, pulled after it was sent and taken after it was answered.       *)
TypeOK ==
  /\ script \in Scripts
  /\ link \in [Conns -> {"open", "eof", "lost"}]
  /\ pc \in [Conns -> Places]
  /\ paused \in [Conns -> BOOLEAN]
  /\ \A c \in Conns : /\ sent[c] \in 0..Len(script[c])
                      /\ pulled[c] \in 0..sent[c]
                      /\ done[c] \in 0..pulled[c]
                      /\ \A i \in 1..Len(answers[c]) : IsAnswer(answers[c][i])
                      /\ taken[c] \in 0..Len(answers[c])
  /\ \A u \in Units : \A i \in 1..Len(waiters[u]) : waiters[u][i] \in Tasks
  /\ DOMAIN devices = Units
  /\ running \in Tasks \cup {Nobody}
  /\ gen.pc \in {"off", "sleep", "bind", "lock", "dead"}
  /\ gen.at \in 1..Len(Bindings) + 1

IsAnswerTo(f, a) == a.tid = f.tid /\ a.unit = f.unit /\ a.body.fc = f.request.fc

(* The positions of the answerable frames among the first n of c. *)
Asked(c, n) == {i \in 1..n : Answerable(script[c][i])}

(* The responses written to a connection are those of its answerable       *)
(* frames, one each, in the order in which they were sent, each with the   *)
(* transaction id, unit and function code of its own request.              *)
AnsweredInOrder ==
  \A c \in Conns :
    /\ Len(answers[c]) = Cardinality(Asked(c, done[c]))
    /\ \A i \in Asked(c, done[c]) :
         IsAnswerTo(script[c][i], answers[c][Cardinality(Asked(c, i))])

(* No task is suspended while it holds a device's lock, nor is the lock    *)
(* left behind by a task that ended, so nobody ever waits for one: a peer  *)
(* that reads slowly cannot stall another one or the generators.           *)
NoLockAcrossAwait == running = Nobody => \A u \in Units : waiters[u] = <<>>

(* No lost wake-up: a handler is suspended in read only while there is     *)
(* nothing to read, and in drain only while its transport is above the     *)
(* low-water mark, and never on a connection that is lost.                 *)
SuspendedForAReason ==
  \A c \in Conns :
    /\ pc[c] = "await" => link[c] = "open" /\ sent[c] = pulled[c]
    /\ pc[c] = "paused" => link[c] # "lost" /\ paused[c] /\ Backlog(c) > LOW_WATER

(* A peer that keeps sending and never reads makes the server hold at most *)
(* one response more than the high-water mark for it.                      *)
BacklogBounded ==
  \A c \in Conns : link[c] # "lost" => Backlog(c) <= HIGH_WATER + 1

(* A handler that closes a working connection has dealt with everything    *)
(* that arrived on it, up to the malformed frame if there is one: neither  *)
(* end of file nor a protocol error discards an earlier request.           *)
CloseDealtWithAll ==
  \A c \in Conns :
    pc[c] \in {"closing", "closed"} /\ link[c] # "lost" =>
      done[c] = sent[c] \/ NextIn(c).kind = "badlen"

(* With a peer that takes its responses the server always catches up: it   *)
(* deals with every frame that has reached it, or it closes the            *)
(* connection, whatever the other peers do or fail to do.                  *)
ArrivedIsServed(Readers) ==
  \A c \in Readers : []<>(done[c] = sent[c] \/ pc[c] \in {"closing", "closed"})

(* No handler outlives its connection: after end of file from a peer that  *)
(* takes its responses, and after the loss of any connection, it ends.     *)
HandlersEnd(Readers) ==
  \A c \in Conns :
    link[c] = "lost" \/ (c \in Readers /\ link[c] = "eof") ~> pc[c] = "closed"

(* The generators are run again and again. *)
GeneratorsKeepRunning == []<>(running = Generators)

Service == INSTANCE ModbusService WITH dealt <- done, replies <- answers, store <- devices

(* The server implements ModbusService. *)
ServesLikeOneAtATime == Service!Spec

=============================================================================
