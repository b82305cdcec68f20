------------------------------- MODULE Client -------------------------------
(***************************************************************************)
(* modbus_sim/client.py: ModbusClient over a connection that may be slow,  *)
(* cut the answers anywhere, end or break, with timeouts in _transact, and *)
(* with callers that share one client, stop at the first error (the CLI)   *)
(* or go on with the same client after it (the benchmark's _worker).       *)
(*                                                                         *)
(* The stream of answers is kept in bytes, because a call that fails       *)
(* between two frames, or inside one, leaves the next call to read what is *)
(* left.  The StreamReader is asyncio's: one future, "waiter", links the   *)
(* arriving data to the coroutine that waits for it.                       *)
(***************************************************************************)
EXTENDS Calls, FiniteSets

CONSTANTS
  Callers,    \* the tasks that may share the client
  Uses,       \* the ways of using it, see ClientAssumption
  USED_TID,   \* the transaction id used last when the behaviour begins
  LAST_TID    \* the id after which the client starts at 1 again

Nobody == "nobody"

BitCodes == {READ_COILS, READ_DISCRETE_INPUTS}

Returns(values) == [returns |-> values]

(* What the typed method makes of the response: a read returns its bits or *)
(* its registers, a write returns nothing.                                 *)
Typed(request, response) ==
  IF Raised(response) THEN response
  ELSE IF response.error # NO_EXCEPTION THEN Raises("ModbusExceptionError")
  ELSE IF request.fc \notin READ_CODES THEN Returns(<<>>)
  ELSE IF response.fc \in READ_CODES /\ (response.fc \in BitCodes <=> request.fc \in BitCodes)
  THEN Returns(response.values)
  ELSE Raises("AttributeError")

(* A frame that this server does not send: whatever of its PDU its length  *)
(* field covers is no answer to the request, and no exception PDU either.  *)
(* A length field of 0 is refused, and one beyond the PDU never satisfied. *)
IsOdd(odd, request) ==
  /\ odd.length \in Word /\ odd.pdu \in Seq(Byte)
  /\ odd.length \in 1..1 + Len(odd.pdu) =>
       LET pdu    == SubSeq(odd.pdu, 1, odd.length - 1)
           result == Typed(request, DecodeResponse(pdu, BitsAsked(request)))
       IN  Raised(result) /\ result.raises # "ModbusExceptionError"

(* A use says who calls, what they want, how many calls there are at most  *)
(* (a bound), whether a caller goes on after a failed call, and which      *)
(* malformed answers, [length, pdu], the server may send.                  *)
ASSUME ClientAssumption ==
  /\ LAST_TID \in Word \ {0} /\ USED_TID \in 0..LAST_TID
  /\ Nobody \notin Callers
  /\ \A u \in Uses :
       /\ u.callers \subseteq Callers /\ IsFiniteSet(u.callers)
       /\ u.max_calls \in Nat /\ u.goes_on \in BOOLEAN
       /\ \A request \in u.wanted :
            /\ IsCall(request) /\ Encodable(request)
            /\ \A odd \in u.oddities : IsOdd(odd, request)

VARIABLES
  use,      \* how the client is used, fixed
  link,     \* _reader and _writer: "none", "open", or "lost" by an error
  eof,      \* the server has closed its side
  tid,      \* the transaction id drawn last
  pc,       \* pc[t]: "idle", or reading the "head" or the "body" of an answer
  coro,     \* coro[t]: its readexactly is "called", "asleep" or "woken"
  call,     \* call[t]: t's call under way, or its last one
  outcome,  \* outcome[t]: what t's last call returned or raised
  waiter,   \* StreamReader._waiter: the caller that data will wake
  pending,  \* the requests the server has to answer, in order
  stream,   \* the bytes the server has sent on this connection ...
  arrived,  \* ... how many of them have reached the StreamReader
  at,       \* ... and how many it has handed out
  sent,     \* the answers in the stream: where each begins and whose it is
  calls,    \* how many calls were made
  clean     \* no call on this connection failed, other than by an exception PDU

netVars  == <<pending, stream, arrived, sent>>
vars == <<use, link, eof, tid, pc, coro, call, outcome, waiter, netVars, at, calls, clean>>

NoCall == [n |-> 0, tid |-> 0, request |-> Refuse(0, NO_EXCEPTION),
           from |-> 0, body |-> 0, length |-> 0]

Init ==
  /\ use \in Uses
  /\ link = "open" /\ eof = FALSE
  /\ tid = USED_TID
  /\ pc = [t \in Callers |-> "idle"]
  /\ coro = [t \in Callers |-> "called"]
  /\ call = [t \in Callers |-> NoCall]
  /\ outcome = [t \in Callers |-> Returns(<<>>)]
  /\ waiter = Nobody
  /\ pending = <<>> /\ stream = <<>> /\ sent = <<>>
  /\ arrived = 0 /\ at = 0
  /\ calls = 0
  /\ clean = TRUE

(* Mutant of NextTid: the ids do not start again. *)
NextTidEndless == tid + 1

NextTid == IF tid = LAST_TID THEN 1 ELSE tid + 1

(* A call is over; an exception PDU is an answer like any other. *)
Harmless(result) == Raised(result) => result.raises = "ModbusExceptionError"

Finish(t, result) ==
  /\ pc' = [pc EXCEPT ![t] = "idle"]
  /\ outcome' = [outcome EXCEPT ![t] = result]
  /\ clean' = (clean /\ Harmless(result))

-----------------------------------------------------------------------------
(* A caller begins a call: _transact up to its first readexactly.          *)

(* The CLI's loop ends with the exception, the benchmark counts it.        *)
GivesUp(t) == Raised(outcome[t]) /\ ~use.goes_on

MayCall(t) ==
  /\ pc[t] = "idle" /\ ~GivesUp(t)
  /\ t \in use.callers /\ calls < use.max_calls
  /\ calls' = calls + 1

(* Without a connection the call ends before an id is drawn; on a lost one *)
(* it ends in drain, after that.                                           *)
CallFails(t, request) ==
  /\ MayCall(t)
  /\ link # "open"
  /\ tid' = IF link = "none" THEN tid ELSE NextTid
  /\ call' = [call EXCEPT ![t] = [NoCall EXCEPT !.n = calls', !.tid = tid', !.request = request]]
  /\ Finish(t, Raises(IF link = "none" THEN "RuntimeError" ELSE "OSError"))
  /\ UNCHANGED <<use, link, eof, coro, waiter, netVars, at>>

Ask(t, request) ==
  /\ MayCall(t)
  /\ link = "open"
  /\ tid' = NextTid
  /\ call' = [call EXCEPT ![t] = [NoCall EXCEPT !.n = calls', !.tid = tid', !.request = request]]
  /\ pending' = IF eof THEN pending
                ELSE Append(pending, [n |-> calls', tid |-> tid', request |-> request])
  /\ pc' = [pc EXCEPT ![t] = "head"]
  /\ coro' = [coro EXCEPT ![t] = "called"]
  /\ UNCHANGED <<use, link, eof, outcome, waiter, stream, arrived, at, sent, clean>>

-----------------------------------------------------------------------------
(* readexactly.                                                            *)

(* Mutant of Need: the unit id is counted twice. *)
NeedShort(t) == IF pc[t] = "head" THEN MBAP_HEADER_LEN ELSE call[t].length - 2

Need(t)   == IF pc[t] = "head" THEN MBAP_HEADER_LEN ELSE call[t].length - 1
Enough(t) == Need(t) <= arrived - at
Chunk(t)  == SubSeq(stream, at + 1, at + Need(t))

(* What is checked when readexactly is called, and not when it is resumed. *)
Refused(t) == coro[t] = "called" /\ (Need(t) < 0 \/ link = "lost")
Running(t) == pc[t] # "idle" /\ coro[t] # "asleep"

(* _wait_for_data, resumed, clears _waiter in its finally block, even when *)
(* another coroutine has set it in the meantime.                           *)
WaiterSeenBy(t) == IF coro[t] = "woken" THEN Nobody ELSE waiter

ReadRefused(t) ==
  /\ Running(t) /\ Refused(t)
  /\ Finish(t, Raises(IF Need(t) < 0 THEN "ValueError" ELSE "OSError"))
  /\ UNCHANGED <<use, link, eof, tid, coro, call, waiter, netVars, at, calls>>

(* Mutant of Echoes: the transaction id is not looked at. *)
EchoesAnything(t, header) == header.length \in Word

Echoes(t, header) == header.transaction_id = call[t].tid

(* The header is there: on with the body, unless it is another call's. *)
ReadHead(t) ==
  /\ pc[t] = "head" /\ Running(t) /\ ~Refused(t) /\ Enough(t)
  /\ LET header == DecodeMbap(Chunk(t))
     IN  /\ call' = [call EXCEPT ![t].from = at, ![t].length = header.length]
         /\ IF Echoes(t, header)
            THEN /\ pc' = [pc EXCEPT ![t] = "body"]
                 /\ coro' = [coro EXCEPT ![t] = "called"]
                 /\ UNCHANGED <<outcome, clean>>
            ELSE Finish(t, Raises("OSError")) /\ UNCHANGED coro
  /\ at' = at + MBAP_HEADER_LEN
  /\ waiter' = WaiterSeenBy(t)
  /\ UNCHANGED <<use, link, eof, tid, netVars, calls>>

ReadBody(t) ==
  /\ pc[t] = "body" /\ Running(t) /\ ~Refused(t) /\ Enough(t)
  /\ LET request == call[t].request
     IN  Finish(t, Typed(request, DecodeResponse(Chunk(t), BitsAsked(request))))
  /\ call' = [call EXCEPT ![t].body = at]
  /\ at' = at + Need(t)
  /\ waiter' = WaiterSeenBy(t)
  /\ UNCHANGED <<use, link, eof, tid, coro, netVars, calls>>

(* Too few bytes and no more to come: IncompleteReadError, and the reader  *)
(* throws away what it had.                                                *)
ReadEof(t) ==
  /\ Running(t) /\ ~Refused(t) /\ ~Enough(t) /\ eof
  /\ Finish(t, Raises("IncompleteReadError"))
  /\ at' = arrived
  /\ waiter' = WaiterSeenBy(t)
  /\ UNCHANGED <<use, link, eof, tid, coro, call, netVars, calls>>

(* Another coroutine waits for data already. *)
ReadClash(t) ==
  /\ Running(t) /\ ~Refused(t) /\ ~Enough(t) /\ ~eof
  /\ WaiterSeenBy(t) # Nobody
  /\ Finish(t, Raises("RuntimeError"))
  /\ UNCHANGED <<use, link, eof, tid, coro, call, waiter, netVars, at, calls>>

ReadSleeps(t) ==
  /\ Running(t) /\ ~Refused(t) /\ ~Enough(t) /\ ~eof
  /\ WaiterSeenBy(t) = Nobody
  /\ coro' = [coro EXCEPT ![t] = "asleep"]
  /\ waiter' = t
  /\ UNCHANGED <<use, link, eof, tid, pc, call, outcome, netVars, at, calls, clean>>

(* Mutant of TimedReads: the first wait has no timeout. *)
BodyTimedOnly == {"body"}

TimedReads == {"head", "body"}    \* the awaits inside asyncio.wait_for

(* Mutant of TimedOut: the timeout is suppressed. *)
TimeoutSuppressed == Returns(<<>>)

TimedOut == Raises("TimeoutError")

(* asyncio.wait_for cancels the read, which may have been woken already;   *)
(* nothing of it has been consumed.                                        *)
Timeout(t) ==
  /\ pc[t] \in TimedReads /\ coro[t] # "called"
  /\ Finish(t, TimedOut)
  /\ waiter' = Nobody
  /\ UNCHANGED <<use, link, eof, tid, coro, call, netVars, at, calls>>

-----------------------------------------------------------------------------
(* The server, and the network between the two.                            *)

(* feed_data and feed_eof wake the waiter. *)
Wake ==
  /\ coro' = [t \in Callers |-> IF t = waiter THEN "woken" ELSE coro[t]]
  /\ waiter' = Nobody

Sends(length, pdu, odd) ==
  LET q == Head(pending)
  IN  /\ sent' = Append(sent, [start |-> Len(stream), n |-> q.n, odd |-> odd])
      /\ stream' = stream
                     \o (PackWord(q.tid) \o PackWord(PROTOCOL_ID) \o PackWord(length) \o <<UNIT>>)
                     \o pdu
      /\ pending' = Tail(pending)
      /\ UNCHANGED <<use, link, eof, tid, pc, coro, call, outcome, waiter, arrived, at, calls, clean>>

(* modbus-sim: whole answers, in the order of the requests. *)
ServerAnswers ==
  /\ link = "open" /\ ~eof /\ pending # <<>>
  /\ LET pdu == EncodeResponse(Response(NewDevice, Head(pending).request))
     IN  Sends(1 + Len(pdu), pdu, FALSE)

(* Another server: a frame that is none. *)
ServerBabbles ==
  /\ link = "open" /\ ~eof /\ pending # <<>>
  /\ \E odd \in use.oddities : Sends(odd.length, odd.pdu, TRUE)

(* TCP delivers any part of what is under way. *)
Deliver(n) ==
  /\ link = "open" /\ ~eof
  /\ arrived + n <= Len(stream)
  /\ arrived' = arrived + n
  /\ Wake
  /\ UNCHANGED <<use, link, eof, tid, pc, call, outcome, pending, stream, sent, at, calls, clean>>

ServerCloses ==
  /\ link = "open" /\ ~eof
  /\ arrived = Len(stream)
  /\ eof' = TRUE
  /\ pending' = <<>>
  /\ Wake
  /\ UNCHANGED <<use, link, tid, pc, call, outcome, stream, arrived, sent, at, calls, clean>>

(* connection_lost with an exception: the waiter's call ends with it. *)
ConnectionLost ==
  /\ link = "open"
  /\ link' = "lost"
  /\ IF waiter = Nobody THEN UNCHANGED <<pc, outcome, clean>>
                        ELSE Finish(waiter, Raises("OSError"))
  /\ waiter' = Nobody
  /\ UNCHANGED <<use, eof, tid, coro, call, netVars, at, calls>>

(* close(), between calls. *)
Close ==
  /\ link # "none"
  /\ \A t \in Callers : pc[t] = "idle"
  /\ link' = "none"
  /\ UNCHANGED <<use, eof, tid, pc, coro, call, outcome, waiter, netVars, at, calls, clean>>

(* connect() after it: a new connection, but the old transaction ids. *)
Connect ==
  /\ link = "none"
  /\ link' = "open" /\ eof' = FALSE
  /\ pending' = <<>> /\ stream' = <<>> /\ sent' = <<>>
  /\ arrived' = 0 /\ at' = 0
  /\ clean' = TRUE
  /\ outcome' = [t \in Callers |-> Returns(<<>>)]
  /\ call' = [t \in Callers |-> NoCall]
  /\ UNCHANGED <<use, tid, pc, coro, waiter, calls>>

-----------------------------------------------------------------------------
Reading(t) == ReadRefused(t) \/ ReadHead(t) \/ ReadBody(t) \/ ReadEof(t)
                \/ ReadClash(t) \/ ReadSleeps(t)

Next ==
  \/ \E t \in Callers : \/ \E request \in use.wanted : CallFails(t, request) \/ Ask(t, request)
                        \/ Reading(t) \/ Timeout(t)
  \/ ServerAnswers \/ ServerBabbles \/ ServerCloses \/ ConnectionLost
  \/ \E n \in 1..Len(stream) : Deliver(n)
  \/ Close \/ Connect

Spec == Init /\ [][Next]_vars

(* A coroutine that can run does, and wait_for's timer fires; the server   *)
(* and the network owe nothing.                                            *)
Fairness == \A t \in Callers : WF_vars(Reading(t)) /\ WF_vars(Timeout(t))

-----------------------------------------------------------------------------
TypeOK ==
  /\ link \in {"none", "open", "lost"} /\ eof \in BOOLEAN
  /\ tid \in 0..LAST_TID
  /\ pc \in [Callers -> {"idle", "head", "body"}]
  /\ coro \in [Callers -> {"called", "asleep", "woken"}]
  /\ waiter \in Callers \cup {Nobody}
  /\ 0 <= at /\ at <= arrived /\ arrived <= Len(stream)
  /\ calls \in 0..use.max_calls

Returned(t) == pc[t] = "idle" /\ ~Raised(outcome[t]) /\ call[t].n > 0

(* The frame that t read its answer from, head and body, is the one that   *)
(* the server sent in answer to t's call, and it was well formed.          *)
ReadsItsOwn(t) ==
  \E i \in 1..Len(sent) :
    /\ sent[i].start = call[t].from /\ sent[i].n = call[t].n /\ ~sent[i].odd
    /\ call[t].body = call[t].from + MBAP_HEADER_LEN

(* What a call returns is the server's answer to that very call: no late   *)
(* answer of an earlier one, no answer of another caller's, nothing made   *)
(* of malformed bytes.                                                     *)
AnswersAreOwn == \A t \in Callers : Returned(t) => ReadsItsOwn(t)

(* No id has come again, and no malformed frame declares more than it has. *)
Distinct ==
  /\ calls <= LAST_TID
  /\ \A odd \in use.oddities : odd.length <= 1 + Len(odd.pdu)

(* The same as far as the transaction id can see to it: for calls that     *)
(* found the stream between two frames and read head and body without      *)
(* another caller in between.                                              *)
AnswersAreOwnInStep ==
  Distinct => \A t \in Callers :
    /\ Returned(t)
    /\ \E i \in 1..Len(sent) : sent[i].start = call[t].from
    /\ call[t].body = call[t].from + MBAP_HEADER_LEN
    => ReadsItsOwn(t)

Unshared == Cardinality(use.callers) = 1

(* As long as no call of a single caller fails on a connection, exception  *)
(* answers apart, his calls leave nothing behind: when he is not calling,  *)
(* nothing is asked, nothing under way and nothing unread.  So a new       *)
(* connection is all it takes to recover from a failed call.               *)
NothingLeftBehind ==
  Unshared /\ clean /\ link = "open" /\ (\A t \in Callers : pc[t] = "idle") =>
    /\ pending = <<>>
    /\ at = Len(stream)

(* A use like the CLI's: one caller, that gives up at its first error.     *)
Cautious == ~use.goes_on /\ Unshared

(* A cautious caller never gets another call's answer.                     *)
CautiousAnswersAreOwn == Cautious => AnswersAreOwn

(* With this server it sees only timeouts, the errors of the connection    *)
(* and exception answers: nothing that decoding an answer may raise.       *)
FailuresAreOfTheConnection ==
  \A t \in Callers :
    Cautious /\ use.oddities = {} /\ Raised(outcome[t]) =>
      outcome[t].raises \in {"TimeoutError", "OSError", "IncompleteReadError",
                             "ModbusExceptionError"} \cup
                            (IF link = "none" THEN {"RuntimeError"} ELSE {})

(* Every call ends, also when the server is silent, when a wake-up is lost *)
(* to another caller and when garbage declares bytes that never come.      *)
EveryCallEnds == \A t \in Callers : pc[t] # "idle" ~> pc[t] = "idle"
=============================================================================
