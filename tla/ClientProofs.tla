---------------------------- MODULE ClientProofs ----------------------------
(***************************************************************************)
(* The properties of Client for every way of using it: any callers and     *)
(* requests, any number of calls, and whatever malformed frames the server *)
(* may send.                                                               *)
(***************************************************************************)
EXTENDS Client, DataLemmas, FiniteSetTheorems

(* The answer to a request, as the server puts it on the wire.             *)
Reply(request) == EncodeResponse(Response(NewDevice, request))

-----------------------------------------------------------------------------
(* The types, and what the StreamReader and its users owe each other.      *)

Asked == [n : Nat, tid : Word, request : use.wanted]
Answered == [start : Nat, n : Nat, odd : BOOLEAN]
CallRecord ==
  [n : Nat, tid : Nat, request : use.wanted \cup {NoCall.request},
   from : Nat, body : Nat, length : Word]

Types ==
  /\ use \in Uses
  /\ link \in {"none", "open", "lost"} /\ eof \in BOOLEAN /\ clean \in BOOLEAN
  /\ tid \in 0..LAST_TID
  /\ pc \in [Callers -> {"idle", "head", "body"}]
  /\ coro \in [Callers -> {"called", "asleep", "woken"}]
  /\ waiter \in Callers \cup {Nobody}
  /\ call \in [Callers -> CallRecord]
  /\ DOMAIN outcome = Callers
  /\ pending \in Seq(Asked) /\ sent \in Seq(Answered) /\ stream \in Seq(Byte)
  /\ arrived \in Nat /\ at \in Nat /\ at <= arrived /\ arrived <= Len(stream)
  /\ calls \in 0..use.max_calls

(* A coroutine that reads has called; a body it waits for has a length;    *)
(* and who is to be woken sleeps.                                          *)
Reads(t) ==
  /\ pc[t] # "idle" => t \in use.callers /\ call[t].request \in use.wanted
  /\ pc[t] = "body" /\ coro[t] # "called" => call[t].length >= 1
Waits == waiter # Nobody => /\ waiter \in Callers
                            /\ pc[waiter] # "idle" /\ coro[waiter] = "asleep"

(* Who does not use the client has not called.                             *)
Uninvolved(t) == t \notin use.callers => outcome[t] = Returns(<<>>) /\ call[t] = NoCall

(* Nobody reads without a connection.                                      *)
Unlinked == link = "none" => \A t \in Callers : pc[t] = "idle"

Basics == Types /\ Waits /\ Unlinked /\ \A t \in Callers : Reads(t) /\ Uninvolved(t)

-----------------------------------------------------------------------------
(* A single caller, as long as no call of his fails.                       *)

(* The bytes from start on are a frame with this length field and PDU.     *)
Carries(start, length, pdu) ==
  /\ start + MBAP_HEADER_LEN + Len(pdu) <= Len(stream)
  /\ WordAt(stream, start + 5) = length
  /\ \A j \in 1..Len(pdu) : stream[start + MBAP_HEADER_LEN + j] = pdu[j]

(* The last frame of the stream is there, and is the answer to t's call or *)
(* an odd frame instead.                                                   *)
Ends(start, pdu) == Len(stream) = start + MBAP_HEADER_LEN + Len(pdu)
Replied(t, start) ==
  LET last == sent[Len(sent)]
      reply == Reply(call[t].request)
  IN  /\ pending = <<>> /\ sent # <<>>
      /\ last.start = start /\ last.n = call[t].n
      /\ IF last.odd THEN \E odd \in use.oddities : /\ Carries(start, odd.length, odd.pdu)
                                                    /\ Ends(start, odd.pdu)
                     ELSE Carries(start, 1 + Len(reply), reply) /\ Ends(start, reply)

Silent == pending = <<>> /\ at = Len(stream)
Awaited(t) ==
  /\ at = Len(stream)
  /\ pending = <<[n |-> call[t].n, tid |-> call[t].tid, request |-> call[t].request]>>

InStep(t) ==
  /\ pc[t] = "idle" => Silent
  /\ pc[t] = "head" => Silent \/ Awaited(t) \/ Replied(t, at)
  /\ pc[t] = "body" => /\ Replied(t, call[t].from)
                       /\ at = call[t].from + MBAP_HEADER_LEN
                       /\ call[t].length = WordAt(stream, call[t].from + 5)

Alone(t) == use.callers = {t}
Solo(t) == Alone(t) /\ clean => InStep(t)

(* A caller that gives up: a failure is the last that it does.             *)
Gave(t) ==
  Alone(t) /\ ~use.goes_on =>
    /\ ~clean => pc[t] = "idle" /\ Raised(outcome[t])
    /\ Returned(t) => ReadsItsOwn(t)

IInv == Basics /\ \A t \in Callers : Solo(t) /\ Gave(t)

-----------------------------------------------------------------------------
(* Several callers, that have made no more calls than there are ids.       *)

Age(x) == IF x <= tid THEN tid - x ELSE LAST_TID - x + tid
Fresh(n, x) == n \in 1..calls /\ x \in 1..LAST_TID /\ Age(x) <= calls - n

TidAt(start) == WordAt(stream, start + 1)
Whole(i) == sent[i].start + MBAP_HEADER_LEN <= Len(stream)
OddIsOdd(i) ==
  sent[i].odd => \E odd \in use.oddities : Carries(sent[i].start, odd.length, odd.pdu)

(* The ids of what is asked and answered are as young as the calls.        *)
FreshIds ==
  /\ \A i \in 1..Len(pending) : Fresh(pending[i].n, pending[i].tid)
  /\ \A i \in 1..Len(sent) : Whole(i) /\ OddIsOdd(i) /\ Fresh(sent[i].n, TidAt(sent[i].start))

(* Whoever waits for a header knows his call by its id.                    *)
KnownById(t) ==
  pc[t] = "head" =>
    /\ Fresh(call[t].n, call[t].tid)
    /\ \A i \in 1..Len(pending) : pending[i].tid = call[t].tid => pending[i].n = call[t].n
    /\ \A i \in 1..Len(sent) : TidAt(sent[i].start) = call[t].tid => sent[i].n = call[t].n

(* Whoever reads a body, or has read one, has had his own header.          *)
HadHeader(t) ==
  /\ call[t].from + MBAP_HEADER_LEN <= Len(stream)
  /\ \A i \in 1..Len(sent) :
       sent[i].start = call[t].from =>
         sent[i].n = call[t].n /\ call[t].length = WordAt(stream, call[t].from + 5)
OwnHeader(t) == pc[t] = "body" => HadHeader(t)
OwnAnswer(t) ==
  Returned(t) =>
    /\ call[t].from + MBAP_HEADER_LEN <= Len(stream)
    /\ \A i \in 1..Len(sent) :
         sent[i].start = call[t].from /\ call[t].body = call[t].from + MBAP_HEADER_LEN =>
           sent[i].n = call[t].n /\ ~sent[i].odd

OwnIds(t) == KnownById(t) /\ OwnHeader(t) /\ OwnAnswer(t)
Ids == FreshIds /\ \A t \in Callers : OwnIds(t)

IdInv == Basics /\ (Distinct => Ids)

-----------------------------------------------------------------------------
(* What the bytes say.                                                     *)

(* The stream c is the stream s with one more frame.                       *)
Grown(c, s, t, length, pdu) ==
  /\ c \in Seq(Byte) /\ Len(c) = Len(s) + MBAP_HEADER_LEN + Len(pdu)
  /\ \A i \in 1..Len(s) : c[i] = s[i]
  /\ WordAt(c, Len(s) + 1) = t /\ WordAt(c, Len(s) + 5) = length
  /\ \A j \in 1..Len(pdu) : c[Len(s) + MBAP_HEADER_LEN + j] = pdu[j]

(* What the server writes for one answer is a frame at the end of the      *)
(* stream.                                                                 *)
LEMMA FrameOnStream ==
  ASSUME NEW s \in Seq(Byte), NEW t \in Word, NEW length \in Word, NEW pdu \in Seq(Byte)
  PROVE  Grown(s \o (PackWord(t) \o PackWord(PROTOCOL_ID) \o PackWord(length) \o <<UNIT>>) \o pdu,
               s, t, length, pdu)
<1>1. PICK z \in Word : z = PROTOCOL_ID
  BY WordRange DEF PROTOCOL_ID
<1>2. PICK h : h = PackWord(t) \o PackWord(z) \o PackWord(length) \o <<UNIT>>
  OBVIOUS
<1>3. IsHeader(h, t, z, length, UNIT)
  BY <1>2, HeaderIsFields, UnitAssumption, Zenon
<1>4. /\ h \in Seq(Byte) /\ Len(h) = 7
      /\ h[1] = t \div 256 /\ h[2] = t % 256 /\ h[5] = length \div 256 /\ h[6] = length % 256
  BY <1>3 DEF IsHeader, Strings
<1>5. PICK b, c : b = s \o h /\ c = b \o pdu
  OBVIOUS
<1>6. PICK m \in Nat, n \in Nat : m = Len(s) /\ n = Len(pdu)
  BY LenProperties
<1>7. /\ b \in Strings(Byte, m + 7)
      /\ \A i \in 1..m + 7 : b[i] = IF i <= m THEN s[i] ELSE h[i - m]
  <2>1. s \in Strings(Byte, m) /\ h \in Strings(Byte, 7) /\ 7 \in Nat
    BY <1>4, <1>6 DEF Strings
  <2>2. b \in Strings(Byte, m + 7) /\ IsJoin(b, s, m, h, 7)
    BY <1>5, <2>1, Join, Zenon
  <2> QED
    BY <2>2 DEF IsJoin
<1>8. /\ c \in Seq(Byte) /\ Len(c) = m + 7 + n
      /\ \A i \in 1..m + 7 + n : c[i] = IF i <= m + 7 THEN b[i] ELSE pdu[i - (m + 7)]
  <2>1. pdu \in Strings(Byte, n) /\ m + 7 \in Nat
    BY <1>6 DEF Strings
  <2>2. c \in Strings(Byte, m + 7 + n) /\ IsJoin(c, b, m + 7, pdu, n)
    BY <1>5, <1>7, <2>1, Join, Zenon
  <2> QED
    BY <2>2 DEF IsJoin, Strings
<1>9. \A i \in 1..m : c[i] = s[i]
  BY <1>7, <1>8
<1>10. /\ c[m + 1] = h[1] /\ c[m + 2] = h[2] /\ c[m + 5] = h[5] /\ c[m + 6] = h[6]
  <2>1. \A k \in 1..7 : c[m + k] = h[k]
    <3> SUFFICES ASSUME NEW k \in 1..7 PROVE c[m + k] = h[k]
      OBVIOUS
    <3>1. m + k \in 1..m + 7 /\ m + k \in 1..m + 7 + n /\ ~(m + k <= m) /\ m + k - m = k
      OBVIOUS
    <3> QED
      BY <1>7, <1>8, <3>1
  <2> QED
    BY <2>1
<1>11. \A j \in 1..n : c[m + 7 + j] = pdu[j]
  <2> SUFFICES ASSUME NEW j \in 1..n PROVE c[m + 7 + j] = pdu[j]
    OBVIOUS
  <2>1. m + 7 + j \in 1..m + 7 + n /\ ~(m + 7 + j <= m + 7) /\ m + 7 + j - (m + 7) = j
    OBVIOUS
  <2> QED
    BY <1>8, <2>1
<1>12. WordAt(c, m + 1) = t /\ WordAt(c, m + 5) = length
  <2>1. m + 1 + 1 = m + 2 /\ m + 5 + 1 = m + 6
    OBVIOUS
  <2>2. /\ UnpackWord(h[1], h[2]) = t /\ UnpackWord(h[5], h[6]) = length
    BY <1>4, WordIsTwoBytes
  <2> QED
    BY <1>10, <2>1, <2>2 DEF WordAt
<1> QED
  BY <1>1, <1>2, <1>5, <1>6, <1>8, <1>9, <1>11, <1>12 DEF Grown, MBAP_HEADER_LEN

(* The fields of a header that is somewhere in the stream.                 *)
LEMMA WordInStream ==
  ASSUME NEW s \in Seq(Byte), NEW i \in Int, 1 <= i, i < Len(s)
  PROVE  WordAt(s, i) \in Word
<1>1. s[i] \in Byte /\ s[i + 1] \in Byte
  BY LenProperties, ElementOfSeq
<1> QED
  BY <1>1, TwoBytesAreWord DEF WordAt

LEMMA HeaderInStream ==
  ASSUME NEW s \in Seq(Byte), NEW k \in Nat, k + MBAP_HEADER_LEN <= Len(s),
         NEW h, h = DecodeMbap(SubSeq(s, k + 1, k + MBAP_HEADER_LEN))
  PROVE  /\ h.transaction_id = WordAt(s, k + 1) /\ h.transaction_id \in Word
         /\ h.length = WordAt(s, k + 5) /\ h.length \in Word
<1>0. Len(s) \in Nat
  BY LenProperties
<1>1. PICK d : d = SubSeq(s, k + 1, k + 7)
  OBVIOUS
<1>2. \A i \in k + 1..k + 7 : s[i] \in Byte
  BY <1>0, ElementOfSeq DEF MBAP_HEADER_LEN
<1>3. \A i \in 1..(k + 7) - (k + 1) + 1 : d[i] = s[(k + 1) + i - 1]
  BY <1>1, <1>2, SubSeqProperties
<1>4. \A i \in 1..7 : d[i] = s[k + i]
  <2> SUFFICES ASSUME NEW i \in 1..7 PROVE d[i] = s[k + i]
    OBVIOUS
  <2>1. i \in 1..(k + 7) - (k + 1) + 1 /\ (k + 1) + i - 1 = k + i
    OBVIOUS
  <2> QED
    BY <1>3, <2>1
<1>5. d[1] = s[k + 1] /\ d[2] = s[k + 1 + 1] /\ d[5] = s[k + 5] /\ d[6] = s[k + 5 + 1]
  BY <1>4
<1>6. h.transaction_id = UnpackWord(d[1], d[2]) /\ h.length = UnpackWord(d[5], d[6])
  BY <1>1 DEF DecodeMbap, MBAP_HEADER_LEN
<1>7. h.transaction_id = WordAt(s, k + 1) /\ h.length = WordAt(s, k + 5)
  BY <1>5, <1>6 DEF WordAt
<1> QED
  BY <1>0, <1>7, WordInStream DEF MBAP_HEADER_LEN

-----------------------------------------------------------------------------
(* What the answers make of a call.                                        *)

(* What is returned is not raised.                                         *)
LEMMA ResultsAre ==
  /\ \A values : ~Raised(Returns(values))
  /\ \A what : Raised(Raises(what)) /\ Raises(what).raises = what
<1>1. \A values : DOMAIN Returns(values) = {"returns"}
  BY DEF Returns
<1>2. \A what : DOMAIN Raises(what) = {"raises"} /\ Raises(what).raises = what
  BY DEF Raises
<1> QED
  BY <1>1, <1>2 DEF Raised

(* A reply fits a frame, and the call that reads it returns or raises what *)
(* the exception PDU says.                                                 *)
Expected(result) == result = Raises("ModbusExceptionError") \/ \E v : result = Returns(v)

LEMMA ReplyIsExpected ==
  ASSUME use \in Uses, NEW r \in use.wanted
  PROVE  /\ Reply(r) \in Seq(Byte) /\ Len(Reply(r)) >= 1 /\ 1 + Len(Reply(r)) \in Word
         /\ Expected(Typed(r, DecodeResponse(Reply(r), BitsAsked(r))))
<1>1. IsCall(r) /\ Encodable(r)
  BY ClientAssumption
<1>2. Sendable(r)
  BY <1>1, CallIsSendable
<1>3. Holds(NewDevice)
  BY DeviceAssumption DEF Holds, Sizes
<1>4. PICK response : response = Response(NewDevice, r)
  OBVIOUS
<1>5. ComesBack(response, r.fc, BitsAsked(r))
  BY <1>2, <1>3, <1>4, ResponseComesBack
<1>6. /\ ReplyFits(Reply(r), r.fc) /\ ~Raised(response)
      /\ DecodeResponse(Reply(r), BitsAsked(r)) = response
  BY <1>4, <1>5, Zenon DEF ComesBack, Reply
<1>7. Reply(r) \in Seq(Byte) /\ Reply(r) # <<>> /\ Len(Reply(r)) <= 253
  BY <1>6 DEF ReplyFits, MAX_PDU_LEN
<1>8. Len(Reply(r)) \in Nat /\ Len(Reply(r)) >= 1
  BY <1>7, EmptySeq, LenProperties
<1>9. 1 + Len(Reply(r)) \in Word
  BY <1>7, <1>8, WordRange
<1>10. response.fc = r.fc
  <2>1. CASE Verdict(NewDevice, r) = NO_EXCEPTION
    BY <1>4, <2>1 DEF Response, Answer
  <2>2. CASE Verdict(NewDevice, r) # NO_EXCEPTION
    BY <1>4, <2>2 DEF Response, Exception
  <2> QED
    BY <2>1, <2>2
<1>11. Expected(Typed(r, response))
  <2>1. CASE response.error # NO_EXCEPTION
    BY <1>6, <2>1, Zenon DEF Typed, Expected
  <2>2. CASE response.error = NO_EXCEPTION /\ r.fc \notin READ_CODES
    BY <1>6, <2>2, Zenon DEF Typed, Expected
  <2>3. CASE response.error = NO_EXCEPTION /\ r.fc \in READ_CODES
    BY <1>6, <1>10, <2>3, Zenon DEF Typed, Expected
  <2> QED
    BY <2>1, <2>2, <2>3
<1> QED
  BY <1>6, <1>7, <1>8, <1>9, <1>11

(* A malformed frame is no answer to any request of this use.              *)
LEMMA OddIsNone ==
  ASSUME use \in Uses, NEW r \in use.wanted, NEW odd \in use.oddities
  PROVE  IsOdd(odd, r)
BY ClientAssumption

-----------------------------------------------------------------------------
(* Basics is kept by every step.                                           *)

(* ServerAnswers and ServerBabbles send one frame each.                    *)
Sending(length, pdu, odd) ==
  /\ pending # <<>> /\ Sends(length, pdu, odd)
  /\ length \in Word /\ pdu \in Seq(Byte)
  /\ IF odd THEN \E o \in use.oddities : o.length = length /\ o.pdu = pdu
            ELSE length = 1 + Len(pdu) /\ pdu = Reply(Head(pending).request)

(* The ids are those from 1 on, and 16 bits wide.                          *)
LEMMA NextTidIsTid ==
  ASSUME tid \in 0..LAST_TID
  PROVE  NextTid \in 1..LAST_TID /\ NextTid \in Word
<1>1. LAST_TID \in Nat /\ LAST_TID >= 1 /\ LAST_TID <= 65535
  <2>1. LAST_TID \in Word \ {0}
    BY ClientAssumption
  <2> QED
    BY <2>1 DEF Word
<1>2. NextTid \in 1..LAST_TID
  BY <1>1 DEF NextTid
<1> QED
  BY SMTT(30), <1>1, <1>2, WordRange

(* The request that is answered next.                                      *)
LEMMA FirstPending ==
  ASSUME Types, pending # <<>>
  PROVE  /\ Head(pending) \in Asked /\ Tail(pending) \in Seq(Asked)
         /\ Len(Tail(pending)) = Len(pending) - 1 /\ Len(pending) \in Nat
         /\ Head(pending) = pending[1] /\ 1 \in 1..Len(pending)
         /\ \A i \in 1..Len(Tail(pending)) : Tail(pending)[i] = pending[i + 1]
<1>1. pending \in Seq(Asked)
  BY DEF Types
<1>2. /\ Head(pending) \in Asked /\ Tail(pending) \in Seq(Asked)
      /\ Len(Tail(pending)) = Len(pending) - 1
      /\ \A i \in 1..Len(Tail(pending)) : Tail(pending)[i] = pending[i + 1]
  BY <1>1, HeadTailProperties
<1>3. Len(pending) \in Nat \ {0}
  BY <1>1, EmptySeq
<1> QED
  BY <1>1, <1>2, <1>3

LEMMA SendingIs ==
  ASSUME Types, ServerAnswers \/ ServerBabbles
  PROVE  \E length, pdu : \E odd \in BOOLEAN : Sending(length, pdu, odd)
<1>1. pending # <<>> /\ use \in Uses
  BY DEF Types, ServerAnswers, ServerBabbles
<1>2. PICK r : r = Head(pending).request /\ r \in use.wanted
  BY <1>1, FirstPending DEF Asked
<1>3. CASE ServerAnswers
  <2>1. PICK pdu : pdu = Reply(r)
    OBVIOUS
  <2>2. Sends(1 + Len(pdu), pdu, FALSE)
    BY <1>2, <1>3, <2>1 DEF ServerAnswers, Reply
  <2>3. pdu \in Seq(Byte) /\ 1 + Len(pdu) \in Word
    BY <1>1, <1>2, <2>1, ReplyIsExpected
  <2>4. Sending(1 + Len(pdu), pdu, FALSE)
    BY <1>1, <1>2, <2>1, <2>2, <2>3 DEF Sending
  <2> QED
    BY <2>4
<1>4. CASE ServerBabbles
  <2>1. PICK odd \in use.oddities : Sends(odd.length, odd.pdu, TRUE)
    BY <1>4 DEF ServerBabbles
  <2>2. IsOdd(odd, r)
    BY <1>1, <1>2, OddIsNone
  <2>3. odd.length \in Word /\ odd.pdu \in Seq(Byte)
    BY <2>2 DEF IsOdd
  <2>4. Sending(odd.length, odd.pdu, TRUE)
    BY <1>1, <2>1, <2>3 DEF Sending
  <2> QED
    BY <2>4
<1> QED
  BY <1>3, <1>4

(* What it does to the stream and the list of answers.                     *)
LEMMA FrameSent ==
  ASSUME Types, NEW length, NEW pdu, NEW odd \in BOOLEAN, Sending(length, pdu, odd)
  PROVE  /\ Grown(stream', stream, Head(pending).tid, length, pdu)
         /\ sent' \in Seq(Answered) /\ Len(sent') = Len(sent) + 1 /\ Len(sent) \in Nat
         /\ \A i \in 1..Len(sent) : sent'[i] = sent[i]
         /\ sent'[Len(sent) + 1] = [start |-> Len(stream), n |-> Head(pending).n, odd |-> odd]
         /\ pending' = Tail(pending)
         /\ UNCHANGED <<use, link, eof, tid, pc, coro, call, outcome, waiter, arrived, at,
                        calls, clean>>
<1>1. Head(pending) \in Asked
  BY FirstPending DEF Sending
<1>2. PICK q : q = Head(pending) /\ q.tid \in Word /\ q.n \in Nat
  BY <1>1 DEF Asked
<1>3. /\ stream \in Seq(Byte) /\ length \in Word /\ pdu \in Seq(Byte) /\ sent \in Seq(Answered)
  BY DEF Types, Sending
<1>4. Grown(stream', stream, q.tid, length, pdu)
  BY <1>2, <1>3, FrameOnStream DEF Sending, Sends
<1>5. PICK e : e = [start |-> Len(stream), n |-> q.n, odd |-> odd]
  OBVIOUS
<1>6. e \in Answered
  BY <1>2, <1>3, <1>5, LenProperties DEF Answered
<1>7. sent' = Append(sent, e)
  BY <1>2, <1>5 DEF Sending, Sends
<1> QED
  BY <1>2, <1>3, <1>4, <1>5, <1>6, <1>7 DEF Sending, Sends

LEMMA SameUse ==
  ASSUME UNCHANGED use
  PROVE  Asked' = Asked /\ CallRecord' = CallRecord
BY DEF Asked, CallRecord

(* The bounds of a use. *)
LEMMA UseIs ==
  ASSUME Types
  PROVE  use.callers \subseteq Callers /\ use.max_calls \in Nat
BY ClientAssumption DEF Types

(* What a call is when it begins.                                          *)
LEMMA NoCallIs == NoCall \in CallRecord /\ NoCall.n = 0 /\ NoCall.from = 0 /\ NoCall.body = 0
<1>1. 0 \in Word /\ NoCall.request \in use.wanted \cup {NoCall.request}
  BY WordRange
<1> QED
  BY <1>1 DEF NoCall, CallRecord

Begun(n, x, r) == [NoCall EXCEPT !.n = n, !.tid = x, !.request = r]

(* The call that a caller makes keeps what it asks.                        *)
LEMMA BegunIs ==
  ASSUME NEW n \in Nat, NEW x \in Nat, NEW r \in use.wanted
  PROVE  /\ Begun(n, x, r) \in CallRecord
         /\ Begun(n, x, r).n = n /\ Begun(n, x, r).tid = x /\ Begun(n, x, r).request = r
         /\ Begun(n, x, r).from = 0 /\ Begun(n, x, r).body = 0
<1>1. Begun(n, x, r) \in CallRecord
  BY NoCallIs DEF CallRecord, Begun
<1> QED
  BY <1>1, NoCallIs DEF CallRecord, Begun

(* What a running coroutine asks for is never negative.                    *)
LEMMA NeedIsNatural ==
  ASSUME Basics, NEW t \in Callers, Running(t), ~Refused(t)
  PROVE  Need(t) \in Nat
<1>1. call[t] \in CallRecord /\ coro[t] \in {"called", "asleep", "woken"}
      /\ pc[t] \in {"idle", "head", "body"} /\ Reads(t)
  BY DEF Basics, Types
<1>2. PICK l \in Word : l = call[t].length
  BY <1>1 DEF CallRecord
<1>3. CASE pc[t] = "head"
  BY <1>3 DEF Need, MBAP_HEADER_LEN
<1>4. CASE pc[t] = "body"
  <2>0. l \in Int
    BY DEF Word
  <2>1. Need(t) = l - 1 /\ l \in Int
    BY <1>2, <1>4, <2>0 DEF Need
  <2>2. l - 1 >= 0
    <3>1. CASE coro[t] # "called"
      BY <1>1, <1>2, <1>4, <2>1, <3>1 DEF Reads
    <3>2. CASE coro[t] = "called"
      BY <2>1, <3>2 DEF Refused
    <3> QED
      BY <3>1, <3>2
  <2> QED
    BY SMTT(30), <2>1, <2>2
<1> QED
  BY <1>1, <1>3, <1>4 DEF Running

(* One lemma per action; those that end a call share OverBasics.           *)
LEMMA CallFailsBasics ==
  ASSUME Basics, NEW t \in Callers, NEW r \in use.wanted, CallFails(t, r)
  PROVE  Basics'
<1>1. PICK c : c = Begun(calls', tid', r)
  OBVIOUS
<1>2. /\ pc[t] = "idle" /\ t \in use.callers /\ calls < use.max_calls /\ calls' = calls + 1
      /\ tid' = IF link = "none" THEN tid ELSE NextTid
      /\ call' = [call EXCEPT ![t] = c]
      /\ pc' = [pc EXCEPT ![t] = "idle"] /\ DOMAIN outcome' = DOMAIN outcome
      /\ \A u \in Callers : u # t => outcome'[u] = outcome[u]
      /\ clean' \in BOOLEAN
      /\ UNCHANGED <<use, link, eof, coro, waiter, netVars, at>>
  BY <1>1 DEF CallFails, MayCall, Finish, Begun, Basics, Types
<1>3. tid' \in 0..LAST_TID /\ tid' \in Nat
  BY <1>2, NextTidIsTid DEF Basics, Types
<1>4. calls' \in Nat /\ calls' <= use.max_calls
  BY <1>2, UseIs DEF Basics, Types
<1>5. c \in CallRecord
  BY <1>1, <1>3, <1>4, BegunIs
<1>6. Types'
  BY <1>2, <1>3, <1>4, <1>5, SameUse, UseIs DEF Basics, Types, netVars
<1>7. Waits'
  BY <1>2 DEF Basics, Waits, Types
<1>8. \A u \in Callers : Reads(u)' /\ Uninvolved(u)'
  BY <1>2 DEF Basics, Types, Reads, Uninvolved
<1>9. Unlinked'
  BY <1>2 DEF Basics, Types, Unlinked
<1> QED
  BY <1>6, <1>7, <1>8, <1>9 DEF Basics

LEMMA AskBasics ==
  ASSUME Basics, NEW t \in Callers, NEW r \in use.wanted, Ask(t, r)
  PROVE  Basics'
<1>1. PICK c, q : /\ c = Begun(calls', tid', r)
                  /\ q = [n |-> calls', tid |-> tid', request |-> r]
  OBVIOUS
<1>2. /\ pc[t] = "idle" /\ t \in use.callers /\ calls < use.max_calls /\ calls' = calls + 1
      /\ tid' = NextTid /\ call' = [call EXCEPT ![t] = c]
      /\ pending' = IF eof THEN pending ELSE Append(pending, q)
      /\ pc' = [pc EXCEPT ![t] = "head"] /\ coro' = [coro EXCEPT ![t] = "called"]
      /\ UNCHANGED <<use, link, eof, outcome, waiter, stream, arrived, at, sent, clean>>
  BY <1>1 DEF Ask, MayCall, Begun
<1>3. tid' \in 0..LAST_TID /\ tid' \in Nat /\ tid' \in Word
  BY <1>2, NextTidIsTid DEF Basics, Types
<1>4. calls' \in Nat /\ calls' <= use.max_calls
  BY <1>2, UseIs DEF Basics, Types
<1>5. c \in CallRecord /\ c.request = r /\ q \in Asked
  BY <1>1, <1>3, <1>4, BegunIs DEF Asked
<1>6. pending' \in Seq(Asked)
  BY <1>2, <1>5 DEF Basics, Types
<1>7. Types'
  BY <1>2, <1>3, <1>4, <1>5, <1>6, SameUse, UseIs DEF Basics, Types
<1>8. Waits'
  BY <1>2 DEF Basics, Waits, Types
<1>9. \A u \in Callers : Reads(u)' /\ Uninvolved(u)'
  BY <1>2, <1>5 DEF Basics, Types, Reads, Uninvolved
<1>10. Unlinked'
  BY <1>2 DEF Ask, Unlinked
<1> QED
  BY <1>7, <1>8, <1>9, <1>10 DEF Basics

(* A call that ends, with whatever was read.                               *)
Over(t, result) ==
  /\ pc[t] # "idle" /\ Finish(t, result)
  /\ at' \in Nat /\ at' <= arrived
  /\ UNCHANGED <<use, link, eof, tid, coro, netVars, calls>>

LEMMA OverBasics ==
  ASSUME Basics, NEW t \in Callers, NEW result, Over(t, result),
         call' \in [Callers -> CallRecord],
         \A u \in Callers : u # t => call'[u] = call[u],
         waiter' \in {Nobody, waiter}, waiter' # t \/ waiter' = Nobody
  PROVE  Basics'
<1>1. /\ pc' = [pc EXCEPT ![t] = "idle"] /\ DOMAIN outcome' = DOMAIN outcome
      /\ \A u \in Callers : u # t => outcome'[u] = outcome[u]
      /\ clean' \in BOOLEAN /\ t \in use.callers
      /\ UNCHANGED <<use, link, eof, tid, coro, pending, stream, sent, arrived, calls>>
  BY DEF Over, Finish, Basics, Types, Reads, netVars
<1>2. Types'
  BY <1>1, SameUse DEF Basics, Types, Over
<1>3. Waits'
  BY <1>1 DEF Basics, Waits, Types
<1>4. \A u \in Callers : Reads(u)' /\ Uninvolved(u)'
  BY <1>1 DEF Basics, Types, Reads, Uninvolved
<1>5. Unlinked'
  BY <1>1 DEF Basics, Types, Unlinked
<1> QED
  BY <1>2, <1>3, <1>4, <1>5 DEF Basics

(* What ReadHead finds in the stream.                                      *)
LEMMA HeaderRead ==
  ASSUME Types, NEW t \in Callers, pc[t] = "head", Enough(t),
         NEW header, header = DecodeMbap(Chunk(t))
  PROVE  /\ at \in Nat /\ at + MBAP_HEADER_LEN \in Nat /\ at + MBAP_HEADER_LEN <= arrived
         /\ at + MBAP_HEADER_LEN <= Len(stream)
         /\ header.transaction_id = TidAt(at)
         /\ header.length = WordAt(stream, at + 5) /\ header.length \in Word
<1>1. /\ stream \in Seq(Byte) /\ at \in Nat /\ arrived \in Nat /\ arrived <= Len(stream)
      /\ Len(stream) \in Nat
  BY LenProperties DEF Types
<1>2. Need(t) = MBAP_HEADER_LEN /\ MBAP_HEADER_LEN \in Nat
  BY DEF Need, MBAP_HEADER_LEN
<1>3. at + MBAP_HEADER_LEN <= arrived /\ at + MBAP_HEADER_LEN <= Len(stream)
  BY <1>1, <1>2 DEF Enough
<1>4. header = DecodeMbap(SubSeq(stream, at + 1, at + MBAP_HEADER_LEN))
  BY <1>2 DEF Chunk
<1> QED
  BY <1>1, <1>2, <1>3, <1>4, HeaderInStream DEF TidAt

(* A reader that runs is not the one that waits.                           *)
LEMMA RunnerIsNotWaiter ==
  ASSUME Waits, NEW t \in Callers, Running(t)
  PROVE  /\ waiter # t \/ waiter = Nobody
         /\ WaiterSeenBy(t) \in {Nobody, waiter}
         /\ WaiterSeenBy(t) # t \/ WaiterSeenBy(t) = Nobody
BY DEF Waits, Running, WaiterSeenBy

LEMMA ReadHeadBasics ==
  ASSUME Basics, NEW t \in Callers, ReadHead(t)
  PROVE  Basics'
<1>1. PICK header : header = DecodeMbap(Chunk(t))
  OBVIOUS
<1>2. /\ pc[t] = "head" /\ Running(t) /\ Enough(t)
      /\ call' = [call EXCEPT ![t].from = at, ![t].length = header.length]
      /\ at' = at + MBAP_HEADER_LEN
      /\ waiter' = WaiterSeenBy(t)
      /\ UNCHANGED <<use, link, eof, tid, netVars, calls>>
      /\ IF Echoes(t, header)
         THEN /\ pc' = [pc EXCEPT ![t] = "body"]
              /\ coro' = [coro EXCEPT ![t] = "called"]
              /\ UNCHANGED <<outcome, clean>>
         ELSE Finish(t, Raises("OSError")) /\ UNCHANGED coro
  BY <1>1 DEF ReadHead
<1>3. at' \in Nat /\ at' <= arrived /\ header.length \in Word /\ at \in Nat
  BY <1>1, <1>2, HeaderRead DEF Basics
<1>4. /\ call' \in [Callers -> CallRecord]
      /\ \A u \in Callers : u # t => call'[u] = call[u]
      /\ call'[t].request = call[t].request
  BY ZenonT(40), <1>2, <1>3 DEF Basics, Types, CallRecord
<1>5. /\ waiter' \in {Nobody, waiter}
      /\ waiter' # t \/ waiter' = Nobody
  BY <1>2, RunnerIsNotWaiter DEF Basics
<1>6. CASE ~Echoes(t, header)
  <2>1. Over(t, Raises("OSError"))
    BY <1>2, <1>3, <1>6 DEF Over
  <2> QED
    BY <1>4, <1>5, <2>1, OverBasics
<1>7. CASE Echoes(t, header)
  <2>1. t \in use.callers
    BY <1>2 DEF Basics, Reads
  <2>2. Types'
    BY ZenonT(40), <1>2, <1>3, <1>4, <1>5, <1>7, SameUse DEF Basics, Types, netVars
  <2>3. Waits'
    BY <1>2, <1>5, <1>7 DEF Basics, Waits, Types
  <2>4. \A u \in Callers : Reads(u)' /\ Uninvolved(u)'
    BY <1>2, <1>4, <1>7, <2>1 DEF Basics, Types, Reads, Uninvolved
  <2>5. Unlinked'
    BY <1>2, <1>7 DEF Basics, Types, Unlinked
  <2> QED
    BY <2>2, <2>3, <2>4, <2>5 DEF Basics
<1> QED
  BY <1>6, <1>7

LEMMA ReadBodyBasics ==
  ASSUME Basics, NEW t \in Callers, ReadBody(t)
  PROVE  /\ Basics'
         /\ Need(t) \in Nat /\ at' = at + Need(t) /\ at' <= arrived
         /\ \A u \in Callers : u # t => call'[u] = call[u]
         /\ call'[t] \in CallRecord
         /\ call'[t].body = at /\ call'[t].from = call[t].from /\ call'[t].n = call[t].n
<1>1. PICK result : result = Typed(call[t].request,
                                   DecodeResponse(Chunk(t), BitsAsked(call[t].request)))
  OBVIOUS
<1>2. /\ pc[t] = "body" /\ Running(t) /\ ~Refused(t) /\ Enough(t)
      /\ Finish(t, result)
      /\ call' = [call EXCEPT ![t].body = at]
      /\ at' = at + Need(t) /\ waiter' = WaiterSeenBy(t)
      /\ UNCHANGED <<use, link, eof, tid, coro, netVars, calls>>
  BY <1>1 DEF ReadBody
<1>3. Need(t) \in Nat
  BY <1>2, NeedIsNatural
<1>4. at' \in Nat /\ at' <= arrived /\ at \in Nat
  BY <1>2, <1>3 DEF Basics, Types, Enough
<1>5. /\ call' \in [Callers -> CallRecord]
      /\ \A u \in Callers : u # t => call'[u] = call[u]
      /\ call'[t].body = at /\ call'[t].from = call[t].from /\ call'[t].n = call[t].n
  BY ZenonT(40), <1>2, <1>4 DEF Basics, Types, CallRecord
<1>6. /\ waiter' \in {Nobody, waiter}
      /\ waiter' # t \/ waiter' = Nobody
  BY <1>2, RunnerIsNotWaiter DEF Basics
<1>7. Over(t, result)
  BY <1>2, <1>4 DEF Over
<1>8. Basics'
  BY <1>5, <1>6, <1>7, OverBasics
<1> QED
  BY <1>2, <1>3, <1>4, <1>5, <1>8

(* The calls that end without a byte being read.                           *)
LEMMA FailureBasics ==
  ASSUME Basics, NEW t \in Callers,
         ReadRefused(t) \/ ReadEof(t) \/ ReadClash(t) \/ Timeout(t)
  PROVE  Basics'
<1>1. call \in [Callers -> CallRecord] /\ at \in Nat /\ arrived \in Nat /\ at <= arrived
  BY DEF Basics, Types
<1>2. CASE ReadRefused(t)
  <2>1. Over(t, Raises(IF Need(t) < 0 THEN "ValueError" ELSE "OSError"))
    BY <1>1, <1>2 DEF ReadRefused, Over, Running
  <2>2. /\ UNCHANGED <<call, waiter>> /\ Running(t)
    BY <1>2 DEF ReadRefused
  <2> QED
    BY <1>1, <2>1, <2>2, OverBasics, RunnerIsNotWaiter DEF Basics
<1>3. CASE ReadEof(t)
  <2>1. Over(t, Raises("IncompleteReadError"))
    BY <1>1, <1>3 DEF ReadEof, Over, Running, netVars
  <2>2. /\ UNCHANGED call /\ waiter' = WaiterSeenBy(t) /\ Running(t)
    BY <1>3 DEF ReadEof
  <2> QED
    BY <1>1, <2>1, <2>2, OverBasics, RunnerIsNotWaiter DEF Basics
<1>4. CASE ReadClash(t)
  <2>1. Over(t, Raises("RuntimeError"))
    BY <1>1, <1>4 DEF ReadClash, Over, Running
  <2>2. /\ UNCHANGED <<call, waiter>> /\ Running(t)
    BY <1>4 DEF ReadClash
  <2> QED
    BY <1>1, <2>1, <2>2, OverBasics, RunnerIsNotWaiter DEF Basics
<1>5. CASE Timeout(t)
  <2>1. Over(t, TimedOut)
    BY <1>1, <1>5 DEF Timeout, Over, TimedReads
  <2>2. UNCHANGED call /\ waiter' = Nobody
    BY <1>5 DEF Timeout
  <2> QED
    BY <1>1, <2>1, <2>2, OverBasics
<1> QED
  BY <1>2, <1>3, <1>4, <1>5

LEMMA ReadSleepsBasics ==
  ASSUME Basics, NEW t \in Callers, ReadSleeps(t)
  PROVE  Basics'
<1>1. /\ Running(t) /\ ~Refused(t) /\ WaiterSeenBy(t) = Nobody
      /\ coro' = [coro EXCEPT ![t] = "asleep"] /\ waiter' = t
      /\ UNCHANGED <<use, link, eof, tid, pc, call, outcome, netVars, at, calls, clean>>
  BY DEF ReadSleeps
<1>2. Need(t) \in Nat
  BY <1>1, NeedIsNatural
<1>3. pc[t] = "body" => call[t].length >= 1
  <2> SUFFICES ASSUME pc[t] = "body" PROVE call[t].length >= 1
    OBVIOUS
  <2>1. PICK l \in Word : l = call[t].length
    BY SMTT(30) DEF Basics, Types, CallRecord
  <2>2. l \in Int
    BY DEF Word
  <2>3. Need(t) = l - 1
    BY <2>1, <2>2 DEF Need
  <2> QED
    BY <1>2, <2>1, <2>2, <2>3
<1>4. Types'
  BY <1>1, SameUse DEF Basics, Types, netVars
<1>5. Waits'
  BY <1>1 DEF Basics, Waits, Types, Running
<1>6. \A u \in Callers : Reads(u)' /\ Uninvolved(u)'
  BY <1>1, <1>3 DEF Basics, Types, Reads, Uninvolved
<1>7. Unlinked'
  BY <1>1 DEF Basics, Types, Unlinked
<1> QED
  BY <1>4, <1>5, <1>6, <1>7 DEF Basics

LEMMA SendingBasics ==
  ASSUME Basics, NEW length, NEW pdu, NEW odd \in BOOLEAN, Sending(length, pdu, odd)
  PROVE  Basics'
<1>1. /\ stream' \in Seq(Byte) /\ Len(stream') = Len(stream) + MBAP_HEADER_LEN + Len(pdu)
      /\ sent' \in Seq(Answered) /\ pending' = Tail(pending)
      /\ UNCHANGED <<use, link, eof, tid, pc, coro, call, outcome, waiter, arrived, at,
                     calls, clean>>
  BY FrameSent DEF Basics, Grown
<1>2. /\ Tail(pending) \in Seq(Asked) /\ Len(stream) \in Nat /\ Len(pdu) \in Nat
  BY FirstPending, LenProperties DEF Basics, Types, Sending
<1>3. arrived' <= Len(stream')
  BY <1>1, <1>2 DEF Basics, Types, MBAP_HEADER_LEN
<1>4. Types'
  BY <1>1, <1>2, <1>3, SameUse DEF Basics, Types, Answered
<1>5. Waits'
  BY <1>1 DEF Basics, Waits
<1>6. \A u \in Callers : Reads(u)' /\ Uninvolved(u)'
  BY <1>1 DEF Basics, Reads, Uninvolved
<1>7. Unlinked'
  BY <1>1 DEF Basics, Unlinked
<1> QED
  BY <1>4, <1>5, <1>6, <1>7 DEF Basics

(* The steps of the network wake the waiter, who goes on with its read.    *)
LEMMA WakeBasics ==
  ASSUME Basics, Wake, pending' \in {pending, <<>>}, eof' \in BOOLEAN,
         arrived' \in Nat, at <= arrived', arrived' <= Len(stream),
         UNCHANGED <<use, link, tid, pc, call, outcome, stream, sent, at, calls, clean>>
  PROVE  Basics'
<1>1. pending' \in Seq(Asked)
  BY EmptySeq DEF Basics, Types
<1>2. Types'
  BY <1>1, SameUse DEF Basics, Types, Wake
<1>3. Waits'
  BY DEF Waits, Wake
<1>4. \A u \in Callers : Reads(u)' /\ Uninvolved(u)'
  <2> SUFFICES ASSUME NEW u \in Callers PROVE Reads(u)' /\ Uninvolved(u)'
    OBVIOUS
  <2>1. coro'[u] = (IF u = waiter THEN "woken" ELSE coro[u])
    BY DEF Wake
  <2>2. u # Nobody
    BY ClientAssumption
  <2>3. coro'[u] # "called" => coro[u] # "called"
    BY <2>1, <2>2 DEF Basics, Waits
  <2>4. Reads(u) /\ Uninvolved(u)
    BY DEF Basics
  <2> QED
    BY <2>3, <2>4 DEF Reads, Uninvolved
<1>5. Unlinked'
  BY DEF Basics, Unlinked
<1> QED
  BY <1>2, <1>3, <1>4, <1>5 DEF Basics

LEMMA NetworkBasics ==
  ASSUME Basics, ServerCloses \/ \E n \in 1..Len(stream) : Deliver(n)
  PROVE  Basics'
<1>1. /\ arrived \in Nat /\ at \in Nat /\ at <= arrived /\ arrived <= Len(stream)
      /\ Len(stream) \in Nat /\ eof \in BOOLEAN
  BY LenProperties DEF Basics, Types
<1>2. CASE ServerCloses
  BY <1>1, <1>2, WakeBasics DEF ServerCloses
<1>3. ASSUME NEW n \in 1..Len(stream), Deliver(n) PROVE Basics'
  <2>1. arrived' = arrived + n /\ arrived + n <= Len(stream)
    BY <1>3 DEF Deliver
  <2>2. arrived' \in Nat /\ at <= arrived' /\ arrived' <= Len(stream)
    BY <1>1, <2>1
  <2> QED
    BY <1>1, <1>3, <2>2, WakeBasics DEF Deliver
<1> QED
  BY <1>2, <1>3

LEMMA LinkBasics ==
  ASSUME Basics, ConnectionLost \/ Close \/ Connect
  PROVE  Basics'
<1>1. CASE ConnectionLost /\ waiter # Nobody
  <2>1. PICK t \in Callers : t = waiter /\ pc[t] # "idle"
    BY <1>1 DEF Basics, Waits
  <2>2. /\ link' = "lost" /\ Finish(t, Raises("OSError")) /\ waiter' = Nobody
        /\ UNCHANGED <<use, eof, tid, coro, call, netVars, at, calls>>
    BY <1>1, <2>1 DEF ConnectionLost
  <2>3. /\ pc' = [pc EXCEPT ![t] = "idle"] /\ DOMAIN outcome' = DOMAIN outcome
        /\ \A u \in Callers : u # t => outcome'[u] = outcome[u]
        /\ clean' \in BOOLEAN /\ t \in use.callers
    BY <2>1, <2>2 DEF Finish, Basics, Types, Reads
  <2>4. Types'
    BY <2>2, <2>3, SameUse DEF Basics, Types, netVars
  <2>5. Waits'
    BY <2>2 DEF Waits
  <2>6. \A u \in Callers : Reads(u)' /\ Uninvolved(u)'
    BY <2>2, <2>3 DEF Basics, Types, Reads, Uninvolved
  <2>7. Unlinked'
    BY <2>2 DEF Unlinked
  <2> QED
    BY <2>4, <2>5, <2>6, <2>7 DEF Basics
<1>2. CASE (ConnectionLost /\ waiter = Nobody) \/ Close
  <2>1. /\ link' \in {"none", "lost"}
        /\ UNCHANGED <<use, eof, tid, pc, coro, call, outcome, netVars, at, calls, clean, waiter>>
    BY <1>2 DEF ConnectionLost, Close
  <2>2. Types'
    BY <2>1, SameUse DEF Basics, Types, netVars
  <2>3. Waits'
    BY <2>1 DEF Basics, Waits
  <2>4. \A u \in Callers : Reads(u)' /\ Uninvolved(u)'
    BY <2>1 DEF Basics, Reads, Uninvolved
  <2>5. Unlinked'
    BY <1>2, <2>1 DEF Basics, Unlinked, ConnectionLost, Close
  <2> QED
    BY <2>2, <2>3, <2>4, <2>5 DEF Basics
<1>3. CASE Connect
  <2>1. /\ link' = "open" /\ eof' = FALSE /\ clean' = TRUE
        /\ pending' = <<>> /\ stream' = <<>> /\ sent' = <<>> /\ arrived' = 0 /\ at' = 0
        /\ outcome' = [t \in Callers |-> Returns(<<>>)]
        /\ call' = [t \in Callers |-> NoCall]
        /\ UNCHANGED <<use, tid, pc, coro, waiter, calls>>
    BY <1>3 DEF Connect
  <2>2. call' \in [Callers -> CallRecord]
    <3>1. NoCall \in CallRecord
      BY NoCallIs
    <3> QED
      BY <2>1, <3>1
  <2>3. /\ <<>> \in Seq(Asked) /\ <<>> \in Seq(Answered) /\ <<>> \in Seq(Byte) /\ Len(<<>>) = 0
    BY EmptySeq
  <2>4. Types'
    <3>1. Len(stream') = 0 /\ at' \in Nat /\ arrived' \in Nat
      BY <2>1, <2>3
    <3>2. /\ call' \in [Callers -> CallRecord'] /\ DOMAIN outcome' = Callers
          /\ pending' \in Seq(Asked') /\ sent' \in Seq(Answered) /\ stream' \in Seq(Byte)
      BY <2>1, <2>2, <2>3, SameUse
    <3>3. Answered' = Answered
      BY DEF Answered
    <3> QED
      <4>1. /\ use' \in Uses /\ link' \in {"none", "open", "lost"} /\ eof' \in BOOLEAN
            /\ clean' \in BOOLEAN /\ tid' \in 0..LAST_TID
        BY <2>1 DEF Basics, Types
      <4>2. /\ pc' \in [Callers -> {"idle", "head", "body"}]
            /\ coro' \in [Callers -> {"called", "asleep", "woken"}]
            /\ waiter' \in Callers \cup {Nobody}
        BY <2>1 DEF Basics, Types
      <4>3. calls' \in 0..use'.max_calls /\ at' <= arrived' /\ arrived' <= Len(stream')
        BY <2>1, <3>1 DEF Basics, Types
      <4> QED
        BY <3>1, <3>2, <3>3, <4>1, <4>2, <4>3 DEF Types
  <2>5. Waits'
    BY <2>1 DEF Basics, Waits
  <2>6. \A u \in Callers : pc[u] = "idle"
    BY <1>3 DEF Connect, Basics, Unlinked
  <2>7. \A u \in Callers : Reads(u)' /\ Uninvolved(u)'
    BY <2>1, <2>6 DEF Basics, Reads, Uninvolved
  <2>8. Unlinked'
    BY <2>1, <2>6 DEF Unlinked
  <2> QED
    BY <2>4, <2>5, <2>7, <2>8 DEF Basics
<1> QED
  BY <1>1, <1>2, <1>3

LEMMA InitBasics == Init => Basics
<1> SUFFICES ASSUME Init PROVE Basics
  OBVIOUS
<1>1. USED_TID \in 0..LAST_TID /\ use \in Uses /\ use.max_calls \in Nat
  BY ClientAssumption DEF Init
<1>2. NoCall \in CallRecord
  BY NoCallIs
<1>3. call \in [Callers -> CallRecord] /\ DOMAIN outcome = Callers
  BY <1>2 DEF Init
<1>4. /\ <<>> \in Seq(Asked) /\ <<>> \in Seq(Answered) /\ <<>> \in Seq(Byte) /\ Len(<<>>) = 0
  BY EmptySeq
<1>5. pending \in Seq(Asked) /\ sent \in Seq(Answered) /\ stream \in Seq(Byte) /\ Len(stream) = 0
  BY <1>4 DEF Init
<1>6. Types
  <2>1. /\ pc \in [Callers -> {"idle", "head", "body"}]
        /\ coro \in [Callers -> {"called", "asleep", "woken"}]
        /\ link \in {"none", "open", "lost"} /\ eof \in BOOLEAN /\ clean \in BOOLEAN
        /\ waiter \in Callers \cup {Nobody}
    BY DEF Init
  <2>2. /\ arrived \in Nat /\ at \in Nat /\ at <= arrived /\ arrived <= Len(stream)
        /\ calls \in 0..use.max_calls /\ tid \in 0..LAST_TID
    BY <1>1, <1>5 DEF Init
  <2> QED
    BY <1>1, <1>3, <1>5, <2>1, <2>2 DEF Types
<1>7. Waits /\ Unlinked
  BY DEF Init, Waits, Unlinked
<1>8. \A t \in Callers : Reads(t) /\ Uninvolved(t)
  BY DEF Init, Reads, Uninvolved
<1> QED
  BY <1>6, <1>7, <1>8 DEF Basics

LEMMA NextBasics == Basics /\ [Next]_vars => Basics'
<1> SUFFICES ASSUME Basics, [Next]_vars PROVE Basics'
  OBVIOUS
<1>1. ASSUME NEW t \in Callers, NEW r \in use.wanted, CallFails(t, r) PROVE Basics'
  BY <1>1, CallFailsBasics
<1>2. ASSUME NEW t \in Callers, NEW r \in use.wanted, Ask(t, r) PROVE Basics'
  BY <1>2, AskBasics
<1>3. ASSUME NEW t \in Callers, ReadHead(t) PROVE Basics'
  BY <1>3, ReadHeadBasics
<1>4. ASSUME NEW t \in Callers, ReadBody(t) PROVE Basics'
  BY <1>4, ReadBodyBasics
<1>5. ASSUME NEW t \in Callers, ReadRefused(t) \/ ReadEof(t) \/ ReadClash(t) \/ Timeout(t)
      PROVE  Basics'
  BY <1>5, FailureBasics
<1>6. ASSUME NEW t \in Callers, ReadSleeps(t) PROVE Basics'
  BY <1>6, ReadSleepsBasics
<1>7. CASE ServerAnswers \/ ServerBabbles
  <2>1. PICK length, pdu : \E odd \in BOOLEAN : Sending(length, pdu, odd)
    BY <1>7, SendingIs DEF Basics
  <2>2. PICK odd \in BOOLEAN : Sending(length, pdu, odd)
    BY <2>1
  <2> QED
    BY <2>2, SendingBasics
<1>8. CASE ServerCloses \/ \E n \in 1..Len(stream) : Deliver(n)
  BY <1>8, NetworkBasics
<1>9. CASE ConnectionLost \/ Close \/ Connect
  BY <1>9, LinkBasics
<1>10. CASE UNCHANGED vars
  <2>1. UNCHANGED <<use, link, eof, tid, pc, coro, call, outcome, waiter, pending, stream,
                    arrived, sent, at, calls, clean>>
    BY <1>10 DEF vars, netVars
  <2>2. Types' /\ Waits' /\ Unlinked'
    BY <2>1, SameUse DEF Basics, Types, Waits, Unlinked, Answered
  <2>3. \A u \in Callers : Reads(u)' /\ Uninvolved(u)'
    BY <2>1 DEF Basics, Reads, Uninvolved
  <2> QED
    BY <2>2, <2>3 DEF Basics
<1> QED
  BY <1>1, <1>2, <1>3, <1>4, <1>5, <1>6, <1>7, <1>8, <1>9, <1>10, Zenon DEF Next, Reading

(* The types and the bookkeeping of the StreamReader hold always.          *)
THEOREM BasicsHold == Spec => []Basics
<1>1. Init => Basics
  BY InitBasics
<1>2. Basics /\ [Next]_vars => Basics'
  BY NextBasics
<1> QED
  BY <1>1, <1>2, PTL DEF Spec

(* Client.TypeOK: the client's ids, states and counters stay in their      *)
(* ranges, and it never hands out more bytes than have arrived.            *)
THEOREM TypeCorrect == Spec => []TypeOK
<1>1. Basics => TypeOK
  BY DEF Basics, Types, TypeOK
<1> QED
  BY <1>1, BasicsHold, PTL

-----------------------------------------------------------------------------
(* A single caller stays in step with the stream.                          *)

(* Bytes of a frame in the stream are bytes of its PDU.                    *)
LEMMA BytesOfFrame ==
  ASSUME stream \in Seq(Byte), NEW start \in Nat, NEW length, NEW pdu \in Seq(Byte),
         Carries(start, length, pdu), NEW k \in Nat, k <= Len(pdu)
  PROVE  SubSeq(stream, start + MBAP_HEADER_LEN + 1, start + MBAP_HEADER_LEN + k) =
           SubSeq(pdu, 1, k)
<1>1. PICK b \in Nat : b = start + MBAP_HEADER_LEN
  BY DEF MBAP_HEADER_LEN
<1>2. PICK m \in Nat : m = Len(pdu)
  BY LenProperties
<1>3. PICK d, e : d = SubSeq(stream, b + 1, b + k) /\ e = SubSeq(pdu, 1, k)
  OBVIOUS
<1>4. /\ \A j \in 1..m : stream[b + j] = pdu[j]
      /\ b + m <= Len(stream) /\ Len(stream) \in Nat
  BY <1>1, <1>2, LenProperties DEF Carries
<1>5. k <= m
  BY <1>2
<1>6. \A i \in b + 1..b + k : stream[i] \in Byte
  BY <1>4, <1>5, ElementOfSeq
<1>7. \A i \in 1..k : pdu[i] \in Byte
  BY <1>2, <1>5, ElementOfSeq
<1>8. /\ d \in Seq(Byte) /\ Len(d) = (IF b + 1 <= b + k THEN b + k - (b + 1) + 1 ELSE 0)
      /\ \A i \in 1..b + k - (b + 1) + 1 : d[i] = stream[b + 1 + i - 1]
  BY <1>3, <1>6, SubSeqProperties
<1>9. /\ e \in Seq(Byte) /\ Len(e) = (IF 1 <= k THEN k - 1 + 1 ELSE 0)
      /\ \A i \in 1..k - 1 + 1 : e[i] = pdu[1 + i - 1]
  BY <1>3, <1>7, SubSeqProperties
<1>10. Len(d) = k /\ Len(e) = k
  BY <1>8, <1>9
<1>11. \A i \in 1..k : d[i] = e[i]
  <2> SUFFICES ASSUME NEW i \in 1..k PROVE d[i] = e[i]
    OBVIOUS
  <2>1. d[i] = stream[b + i]
    <3>1. i \in 1..b + k - (b + 1) + 1 /\ b + 1 + i - 1 = b + i
      OBVIOUS
    <3> QED
      BY <1>8, <3>1
  <2>2. e[i] = pdu[i]
    <3>1. i \in 1..k - 1 + 1 /\ 1 + i - 1 = i
      OBVIOUS
    <3> QED
      BY <1>9, <3>1
  <2>3. i \in 1..m
    BY <1>5
  <2> QED
    BY <1>4, <2>1, <2>2, <2>3
<1>12. d = e
  BY <1>8, <1>9, <1>10, <1>11, SeqEqual
<1> QED
  BY <1>1, <1>3, <1>12

(* The body of an odd frame ends the call, and not with an exception PDU.  *)
LEMMA OddBody ==
  ASSUME Basics, NEW t \in Callers, pc[t] = "body", Need(t) \in Nat,
         NEW odd \in use.oddities, Carries(call[t].from, odd.length, odd.pdu),
         at = call[t].from + MBAP_HEADER_LEN,
         call[t].length = WordAt(stream, call[t].from + 5),
         at + Need(t) <= at + Len(odd.pdu),
         NEW result,
         result = Typed(call[t].request, DecodeResponse(Chunk(t), BitsAsked(call[t].request)))
  PROVE  Raised(result) /\ ~Harmless(result)
<1>1. PICK f \in Nat : f = call[t].from
  BY DEF Basics, Types, CallRecord
<1>2. PICK r : r = call[t].request /\ r \in use.wanted
  BY DEF Basics, Reads
<1>3. IsOdd(odd, r)
  BY <1>2, OddIsNone DEF Basics, Types
<1>4. odd.length \in Word /\ odd.pdu \in Seq(Byte)
  BY <1>3 DEF IsOdd
<1>5. PICK k \in Nat : k = Need(t)
  OBVIOUS
<1>6. odd.length \in Int /\ Len(odd.pdu) \in Nat /\ at \in Nat
  <2>1. odd.length \in Int
    BY <1>4, FieldsAreNumbers
  <2>2. Len(odd.pdu) \in Nat
    BY <1>4, LenProperties
  <2> QED
    BY <1>4, <2>1, <2>2 DEF Basics, Types
<1>7. call[t].length = odd.length
  BY <1>1 DEF Carries
<1>8. k = odd.length - 1 /\ k <= Len(odd.pdu)
  BY <1>5, <1>6, <1>7 DEF Need
<1>9. odd.length \in 1..1 + Len(odd.pdu)
  BY <1>6, <1>8
<1>10. Chunk(t) = SubSeq(stream, f + MBAP_HEADER_LEN + 1, f + MBAP_HEADER_LEN + k)
  BY <1>1, <1>5 DEF Chunk
<1>11. Chunk(t) = SubSeq(odd.pdu, 1, k)
  <2>1. stream \in Seq(Byte)
    BY DEF Basics, Types
  <2> QED
    BY <1>1, <1>4, <1>8, <1>10, <2>1, BytesOfFrame
<1>12. Raised(result) /\ result.raises # "ModbusExceptionError"
  BY <1>2, <1>3, <1>8, <1>9, <1>11 DEF IsOdd
<1> QED
  BY <1>12 DEF Harmless

(* The body of a reply is all of it.                                       *)
LEMMA ReplyBody ==
  ASSUME Basics, NEW t \in Callers, pc[t] = "body",
         NEW reply, reply = Reply(call[t].request),
         Carries(call[t].from, 1 + Len(reply), reply),
         at = call[t].from + MBAP_HEADER_LEN,
         call[t].length = WordAt(stream, call[t].from + 5),
         NEW result,
         result = Typed(call[t].request, DecodeResponse(Chunk(t), BitsAsked(call[t].request)))
  PROVE  Expected(result) /\ Need(t) = Len(reply) /\ Len(reply) \in Nat
<1>1. PICK f \in Nat : f = call[t].from
  BY DEF Basics, Types, CallRecord
<1>2. PICK r : r = call[t].request /\ r \in use.wanted
  BY DEF Basics, Reads
<1>3. /\ reply \in Seq(Byte) /\ Len(reply) \in Nat
      /\ Expected(Typed(r, DecodeResponse(reply, BitsAsked(r))))
  BY <1>2, ReplyIsExpected, LenProperties DEF Basics, Types
<1>4. PICK k \in Nat : k = Len(reply)
  BY <1>3
<1>5. Need(t) = k
  BY <1>1, <1>4 DEF Need, Carries
<1>6. Chunk(t) = SubSeq(stream, f + MBAP_HEADER_LEN + 1, f + MBAP_HEADER_LEN + k)
  BY <1>1, <1>5 DEF Chunk
<1>7. SubSeq(stream, f + MBAP_HEADER_LEN + 1, f + MBAP_HEADER_LEN + k) = SubSeq(reply, 1, k)
  <2>1. stream \in Seq(Byte)
    BY DEF Basics, Types
  <2>2. Carries(f, 1 + Len(reply), reply) /\ k <= Len(reply)
    BY <1>1, <1>4
  <2> QED
    BY <1>3, <2>1, <2>2, BytesOfFrame
<1>8. Chunk(t) = reply
  BY <1>3, <1>4, <1>6, <1>7, SubSeqFull
<1> QED
  BY <1>2, <1>3, <1>4, <1>5, <1>8

(* What each kind of step leaves to the single caller s.                   *)
Kept(s) == Solo(s)' /\ Gave(s)'

(* A step that he does not notice, or by which the server gives him up.    *)
LEMMA NothingSeen ==
  ASSUME NEW s \in Callers, Solo(s), Gave(s), pending' \in {pending, <<>>},
         UNCHANGED <<use, stream, sent, at, clean>>,
         pc'[s] = pc[s], call'[s] = call[s], outcome'[s] = outcome[s]
  PROVE  Kept(s)
<1>1. Alone(s)' <=> Alone(s)
  BY DEF Alone
<1>2. \A start : Replied(s, start) => Replied(s, start)'
  BY DEF Replied, Carries, Ends
<1>3. Silent => Silent'
  BY DEF Silent
<1>4. Awaited(s) => Awaited(s)' \/ Silent'
  BY DEF Awaited, Silent
<1>5. Solo(s)'
  BY <1>1, <1>2, <1>3, <1>4 DEF Solo, InStep
<1>6. (Returned(s) <=> Returned(s)') /\ (ReadsItsOwn(s) => ReadsItsOwn(s)')
  BY DEF Returned, ReadsItsOwn
<1>7. Gave(s)'
  BY <1>1, <1>6 DEF Gave
<1> QED
  BY <1>5, <1>7 DEF Kept

(* A failure, which ends his part if he gives up.                          *)
LEMMA Failed ==
  ASSUME Types, NEW s \in Callers, NEW what, what # "ModbusExceptionError",
         Finish(s, Raises(what))
  PROVE  Kept(s)
<1>1. pc'[s] = "idle" /\ Raised(outcome'[s]) /\ ~clean'
  BY ResultsAre DEF Finish, Types, Harmless
<1> QED
  BY <1>1 DEF Kept, Solo, Gave, Returned

(* A single caller that asks finds nothing asked and nothing unread, so    *)
(* the next that the server sends is his.                                  *)
LEMMA AskKept ==
  ASSUME Basics, NEW s \in Callers, Alone(s), Solo(s), Gave(s),
         NEW r \in use.wanted, Ask(s, r)
  PROVE  Kept(s)
<1>1. PICK c, q : /\ c = Begun(calls', tid', r)
                  /\ q = [n |-> calls', tid |-> tid', request |-> r]
  OBVIOUS
<1>2. /\ pc[s] = "idle" /\ ~GivesUp(s) /\ calls' = calls + 1
      /\ tid' = NextTid /\ call' = [call EXCEPT ![s] = c]
      /\ pending' = IF eof THEN pending ELSE Append(pending, q)
      /\ pc' = [pc EXCEPT ![s] = "head"]
      /\ UNCHANGED <<use, link, eof, outcome, waiter, stream, arrived, at, sent, clean>>
  BY <1>1 DEF Ask, MayCall, Begun
<1>3. c.n = calls' /\ c.tid = tid' /\ c.request = r
  <2>1. calls' \in Nat /\ tid' \in Nat
    BY <1>2, NextTidIsTid, UseIs DEF Basics, Types
  <2> QED
    BY <1>1, <2>1, BegunIs
<1>4. pc'[s] = "head" /\ call'[s] = c
  BY <1>2 DEF Basics, Types
<1>5. Solo(s)'
  <2> SUFFICES ASSUME clean PROVE InStep(s)'
    BY <1>2 DEF Solo
  <2>1. pending = <<>> /\ at = Len(stream)
    BY <1>2 DEF Solo, InStep, Silent
  <2>2. pending' = <<>> \/ pending' = <<q>>
    BY <1>2, <2>1
  <2>3. CASE pending' = <<>>
    BY <1>2, <1>4, <2>1, <2>3 DEF InStep, Silent
  <2>4. CASE pending' = <<q>>
    <3>1. q = [n |-> call'[s].n, tid |-> call'[s].tid, request |-> call'[s].request]
      BY <1>1, <1>3, <1>4
    <3>2. Awaited(s)'
      BY <1>2, <2>1, <2>4, <3>1 DEF Awaited
    <3> QED
      BY <1>4, <3>2 DEF InStep
  <2> QED
    BY <2>2, <2>3, <2>4
<1>6. Gave(s)'
  BY <1>2, <1>4 DEF Gave, Alone, Returned, GivesUp
<1> QED
  BY <1>5, <1>6 DEF Kept

(* A header with his id is at the beginning of the last frame, or he fails. *)
LEMMA ReadHeadKept ==
  ASSUME Basics, NEW s \in Callers, Alone(s), Solo(s), Gave(s), ReadHead(s)
  PROVE  Kept(s)
<1>1. PICK header : header = DecodeMbap(Chunk(s))
  OBVIOUS
<1>2. /\ pc[s] = "head" /\ Enough(s) /\ at' = at + MBAP_HEADER_LEN
      /\ call' = [call EXCEPT ![s].from = at, ![s].length = header.length]
      /\ UNCHANGED <<use, netVars>>
      /\ IF Echoes(s, header)
         THEN pc' = [pc EXCEPT ![s] = "body"] /\ UNCHANGED <<outcome, clean>>
         ELSE Finish(s, Raises("OSError"))
  BY <1>1 DEF ReadHead
<1>3. CASE ~Echoes(s, header)
  BY <1>2, <1>3, Failed DEF Basics
<1>4. CASE Echoes(s, header)
  <2>1. /\ at \in Nat /\ at + MBAP_HEADER_LEN <= Len(stream)
        /\ header.length = WordAt(stream, at + 5)
    BY <1>1, <1>2, HeaderRead DEF Basics
  <2>2. /\ pc'[s] = "body" /\ call'[s].from = at /\ call'[s].length = header.length
        /\ call'[s].n = call[s].n /\ call'[s].request = call[s].request
    BY <1>2, <1>4 DEF Basics, Types, CallRecord
  <2>3. Solo(s)'
    <3> SUFFICES ASSUME clean PROVE InStep(s)'
      BY <1>2, <1>4 DEF Solo
    <3>1. InStep(s)
      BY DEF Solo
    <3>2. at # Len(stream)
      BY <2>1, LenProperties DEF Basics, Types, MBAP_HEADER_LEN
    <3>3. Replied(s, at)
      BY <1>2, <3>1, <3>2 DEF InStep, Silent, Awaited
    <3>4. UNCHANGED <<use, pending, stream, sent>>
      BY <1>2 DEF netVars
    <3>5. Replied(s, call[s].from)'
      BY <2>2, <3>3, <3>4 DEF Replied, Carries, Ends
    <3> QED
      BY <1>2, <2>1, <2>2, <3>4, <3>5 DEF InStep
  <2>4. Gave(s)'
    BY <1>2, <1>4, <2>2 DEF Gave, Alone, Returned
  <2> QED
    BY <2>3, <2>4 DEF Kept
<1> QED
  BY <1>3, <1>4

(* The body he reads is all of the frame behind its header, or he fails.   *)
LEMMA ReadBodyKept ==
  ASSUME Basics, NEW s \in Callers, Alone(s), Solo(s), Gave(s), ReadBody(s)
  PROVE  Kept(s)
<1>1. PICK result : result = Typed(call[s].request,
                                   DecodeResponse(Chunk(s), BitsAsked(call[s].request)))
  OBVIOUS
<1>2. /\ pc[s] = "body" /\ Enough(s) /\ Finish(s, result)
      /\ UNCHANGED <<use, pending, stream, sent>>
  BY <1>1 DEF ReadBody, netVars
<1>3. /\ Need(s) \in Nat /\ at' = at + Need(s) /\ at' <= arrived
      /\ call'[s].body = at /\ call'[s].from = call[s].from /\ call'[s].n = call[s].n
  BY ReadBodyBasics
<1>4. pc'[s] = "idle" /\ outcome'[s] = result /\ clean' = (clean /\ Harmless(result))
  BY <1>2 DEF Finish, Basics, Types
<1>5. at \in Nat /\ arrived \in Nat /\ arrived <= Len(stream) /\ Len(stream) \in Nat
  BY LenProperties DEF Basics, Types
<1>6. PICK f \in Nat : f = call[s].from
  BY DEF Basics, Types, CallRecord
<1>7. CASE clean
  <2>1. /\ Replied(s, f) /\ at = f + MBAP_HEADER_LEN
        /\ call[s].length = WordAt(stream, f + 5)
    BY <1>2, <1>6, <1>7 DEF Solo, InStep
  <2>2. PICK last : last = sent[Len(sent)]
    OBVIOUS
  <2>3. /\ pending = <<>> /\ sent # <<>> /\ last.start = f /\ last.n = call[s].n
    BY <2>1, <2>2 DEF Replied
  <2>4. CASE last.odd
    <3>1. PICK odd \in use.oddities : Carries(f, odd.length, odd.pdu) /\ Ends(f, odd.pdu)
      BY <2>1, <2>2, <2>4 DEF Replied
    <3>2. at + Need(s) <= at + Len(odd.pdu)
      BY <1>3, <1>5, <2>1, <3>1 DEF Ends
    <3>3. Raised(result) /\ ~Harmless(result)
      BY <1>1, <1>2, <1>3, <1>6, <2>1, <3>1, <3>2, OddBody
    <3> QED
      BY <1>4, <3>3 DEF Kept, Solo, Gave, Returned
  <2>5. CASE ~last.odd
    <3>1. PICK reply : reply = Reply(call[s].request)
      OBVIOUS
    <3>2. Carries(f, 1 + Len(reply), reply) /\ Ends(f, reply)
      BY <2>1, <2>2, <2>5, <3>1 DEF Replied
    <3>3. Expected(result) /\ Need(s) = Len(reply) /\ Len(reply) \in Nat
      BY <1>1, <1>2, <1>6, <2>1, <3>1, <3>2, ReplyBody
    <3>4. Harmless(result)
      BY <3>3, ResultsAre DEF Expected, Harmless
    <3>5. at' = Len(stream)
      BY <1>3, <1>5, <2>1, <3>2, <3>3 DEF Ends
    <3>6. Solo(s)'
      BY <1>2, <1>4, <2>3, <3>5 DEF Solo, InStep, Silent
    <3>7. ReadsItsOwn(s)'
      <4>1. Len(sent) \in 1..Len(sent)
        BY <2>3, EmptySeq DEF Basics, Types
      <4>2. /\ sent'[Len(sent)].start = call'[s].from /\ sent'[Len(sent)].n = call'[s].n
            /\ ~sent'[Len(sent)].odd /\ call'[s].body = call'[s].from + MBAP_HEADER_LEN
        BY <1>2, <1>3, <1>6, <2>1, <2>2, <2>3, <2>5
      <4> QED
        BY <1>2, <4>1, <4>2 DEF ReadsItsOwn
    <3>8. Gave(s)'
      BY <1>4, <1>7, <3>4, <3>7 DEF Gave
    <3> QED
      BY <3>6, <3>8 DEF Kept
  <2> QED
    BY <2>4, <2>5
<1>8. CASE ~clean
  BY <1>2, <1>4, <1>8 DEF Kept, Solo, Gave, Alone
<1> QED
  BY <1>7, <1>8

(* The server sends only what he waits for.                                *)
LEMMA SendingKept ==
  ASSUME Basics, NEW s \in Callers, Alone(s), Solo(s), Gave(s),
         NEW length, NEW pdu, NEW odd \in BOOLEAN, Sending(length, pdu, odd)
  PROVE  Kept(s)
<1>1. PICK q : q = Head(pending)
  OBVIOUS
<1>2. /\ Grown(stream', stream, q.tid, length, pdu)
      /\ Len(sent') = Len(sent) + 1 /\ Len(sent) \in Nat
      /\ \A i \in 1..Len(sent) : sent'[i] = sent[i]
      /\ sent'[Len(sent) + 1] = [start |-> Len(stream), n |-> q.n, odd |-> odd]
      /\ pending' = Tail(pending)
      /\ UNCHANGED <<use, pc, call, outcome, at, clean>>
  BY <1>1, FrameSent DEF Basics
<1>3. sent' # <<>>
  <2>1. Len(<<>>) = 0
    BY EmptySeq
  <2> QED
    BY <1>2, <2>1
<1>4. PICK m \in Nat : m = Len(stream)
  BY LenProperties DEF Basics, Types
<1>5. Solo(s)'
  <2> SUFFICES ASSUME clean PROVE InStep(s)'
    BY <1>2 DEF Solo
  <2>1. pending # <<>> /\ InStep(s)
    BY DEF Sending, Solo
  <2>2. /\ pc[s] = "head" /\ at = m
        /\ pending = <<[n |-> call[s].n, tid |-> call[s].tid, request |-> call[s].request]>>
    BY <1>4, <2>1 DEF InStep, Silent, Awaited, Replied, Basics, Types
  <2>3. /\ pending' = <<>> /\ q.n = call[s].n /\ q.request = call[s].request
    BY <1>1, <1>2, <2>2
  <2>4. PICK last : last = sent'[Len(sent')]
    OBVIOUS
  <2>5. last.start = m /\ last.n = call[s].n /\ last.odd = odd
    BY <1>2, <1>4, <2>3, <2>4
  <2>6. Carries(m, length, pdu)' /\ Ends(m, pdu)'
    <3>1. Len(pdu) \in Nat
      BY LenProperties DEF Sending
    <3> QED
      BY <1>2, <1>4, <3>1 DEF Grown, Carries, Ends, MBAP_HEADER_LEN
  <2>7. CASE odd
    <3>1. PICK o \in use.oddities : o.length = length /\ o.pdu = pdu
      BY <2>7 DEF Sending
    <3>2. o \in use'.oddities
      BY <1>2
    <3>3. Replied(s, at)'
      BY <1>2, <1>3, <2>2, <2>3, <2>4, <2>5, <2>6, <2>7, <3>1, <3>2 DEF Replied
    <3> QED
      BY <1>2, <2>2, <3>3 DEF InStep
  <2>8. CASE ~odd
    <3>1. length = 1 + Len(pdu) /\ pdu = Reply(call[s].request)
      BY <1>1, <2>3, <2>8 DEF Sending
    <3>2. Replied(s, at)'
      BY <1>2, <1>3, <2>2, <2>3, <2>4, <2>5, <2>6, <2>8, <3>1 DEF Replied
    <3> QED
      BY <1>2, <2>2, <3>2 DEF InStep
  <2> QED
    BY <2>7, <2>8
<1>6. Gave(s)'
  <2>1. ReadsItsOwn(s) => ReadsItsOwn(s)'
    BY <1>2 DEF ReadsItsOwn
  <2>2. Returned(s)' <=> Returned(s)
    BY <1>2 DEF Returned
  <2> QED
    BY <1>2, <2>1, <2>2 DEF Gave, Alone
<1> QED
  BY <1>5, <1>6 DEF Kept

(* Who acts is the single caller.                                          *)
LEMMA ActorIsAlone ==
  ASSUME Basics, NEW s \in Callers, Alone(s), NEW t \in Callers,
         pc[t] # "idle" \/ MayCall(t)
  PROVE  t = s
<1>1. t \in use.callers
  BY DEF Basics, Reads, MayCall
<1> QED
  BY <1>1 DEF Alone

(* Whatever else ends his call is a failure.                               *)
LEMMA FailureKept ==
  ASSUME Basics, NEW s \in Callers, Alone(s), Solo(s), Gave(s),
         ReadRefused(s) \/ ReadEof(s) \/ ReadClash(s) \/ Timeout(s)
  PROVE  Kept(s)
<1>1. CASE ReadRefused(s)
  BY <1>1, Failed DEF ReadRefused, Basics
<1>2. CASE ReadEof(s)
  BY <1>2, Failed DEF ReadEof, Basics
<1>3. CASE ReadClash(s)
  BY <1>3, Failed DEF ReadClash, Basics
<1>4. CASE Timeout(s)
  BY <1>4, Failed DEF Timeout, TimedOut, Basics
<1> QED
  BY <1>1, <1>2, <1>3, <1>4

(* A new connection is silent, and its caller in step with it.             *)
LEMMA ConnectKept ==
  ASSUME Basics, NEW s \in Callers, Connect
  PROVE  Kept(s)
<1>1. /\ pending' = <<>> /\ stream' = <<>> /\ at' = 0 /\ clean' = TRUE
      /\ call'[s] = NoCall /\ pc'[s] = "idle"
  BY DEF Connect, Basics, Unlinked
<1>2. Len(stream') = 0
  BY <1>1, EmptySeq
<1>3. call'[s].n = 0
  BY SMTT(30), <1>1, NoCallIs
<1> QED
  BY <1>1, <1>2, <1>3 DEF Kept, Solo, InStep, Silent, Gave, Returned

LEMMA UseStays ==
  ASSUME [Next]_vars
  PROVE  UNCHANGED use
BY DEF Next, vars, CallFails, Ask, Reading, ReadRefused, ReadHead, ReadBody, ReadEof,
       ReadClash, ReadSleeps, Timeout, ServerAnswers, ServerBabbles, Sends, ServerCloses,
       ConnectionLost, Deliver, Close, Connect

LEMMA NextKept ==
  ASSUME Basics, NEW s \in Callers, Solo(s), Gave(s), [Next]_vars
  PROVE  Kept(s)
<1>1. CASE ~Alone(s)
  <2>1. UNCHANGED use
    BY UseStays
  <2> QED
    BY <1>1, <2>1 DEF Kept, Solo, Gave, Alone
<1>2. CASE Alone(s)
  <2>1. ASSUME NEW t \in Callers, NEW r \in use.wanted, CallFails(t, r) PROVE Kept(s)
    <3>1. t = s
      BY <1>2, <2>1, ActorIsAlone DEF CallFails
    <3> QED
      BY <2>1, <3>1, Failed DEF CallFails, Basics
  <2>2. ASSUME NEW t \in Callers, NEW r \in use.wanted, Ask(t, r) PROVE Kept(s)
    <3>1. t = s
      BY <1>2, <2>2, ActorIsAlone DEF Ask
    <3> QED
      BY <1>2, <2>2, <3>1, AskKept
  <2>3. ASSUME NEW t \in Callers, ReadHead(t) PROVE Kept(s)
    <3>1. t = s
      BY <1>2, <2>3, ActorIsAlone DEF ReadHead
    <3> QED
      BY <1>2, <2>3, <3>1, ReadHeadKept
  <2>4. ASSUME NEW t \in Callers, ReadBody(t) PROVE Kept(s)
    <3>1. t = s
      BY <1>2, <2>4, ActorIsAlone DEF ReadBody
    <3> QED
      BY <1>2, <2>4, <3>1, ReadBodyKept
  <2>5. ASSUME NEW t \in Callers, ReadRefused(t) \/ ReadEof(t) \/ ReadClash(t) \/ Timeout(t)
        PROVE  Kept(s)
    <3>1. t = s
      BY <1>2, <2>5, ActorIsAlone
         DEF ReadRefused, ReadEof, ReadClash, Running, Timeout, TimedReads
    <3> QED
      BY <1>2, <2>5, <3>1, FailureKept
  <2>6. ASSUME NEW t \in Callers, ReadSleeps(t) PROVE Kept(s)
    BY <2>6, NothingSeen DEF ReadSleeps, netVars
  <2>7. CASE ServerAnswers \/ ServerBabbles
    <3>1. PICK length, pdu : \E odd \in BOOLEAN : Sending(length, pdu, odd)
      BY <2>7, SendingIs DEF Basics
    <3>2. PICK odd \in BOOLEAN : Sending(length, pdu, odd)
      BY <3>1
    <3> QED
      BY <1>2, <3>2, SendingKept
  <2>8. ASSUME NEW n, Deliver(n) PROVE Kept(s)
    BY <2>8, NothingSeen DEF Deliver
  <2>9. CASE ServerCloses \/ Close
    BY <2>9, NothingSeen DEF ServerCloses, Close, netVars
  <2>10. CASE ConnectionLost
    <3>1. CASE waiter = Nobody
      BY <2>10, <3>1, NothingSeen DEF ConnectionLost, netVars
    <3>2. CASE waiter # Nobody
      <4>1. waiter = s
        BY <1>2, <3>2, ActorIsAlone DEF Basics, Waits
      <4> QED
        BY <2>10, <3>2, <4>1, Failed DEF ConnectionLost, Basics
    <3> QED
      BY <3>1, <3>2
  <2>11. CASE Connect
    BY <2>11, ConnectKept
  <2>12. CASE UNCHANGED vars
    BY <2>12, NothingSeen DEF vars, netVars
  <2> QED
    BY <2>1, <2>2, <2>3, <2>4, <2>5, <2>6, <2>7, <2>8, <2>9, <2>10, <2>11, <2>12, Zenon
       DEF Next, Reading
<1> QED
  BY <1>1, <1>2

LEMMA InitIsInv == Init => IInv
<1> SUFFICES ASSUME Init PROVE IInv
  OBVIOUS
<1>1. Basics
  BY InitBasics
<1>2. Len(<<>>) = 0
  BY EmptySeq
<1>3. \A s \in Callers : Solo(s) /\ Gave(s)
  BY <1>2, NoCallIs DEF Init, Solo, InStep, Silent, Gave, Returned
<1> QED
  BY <1>1, <1>3 DEF IInv

LEMMA NextIsInv == IInv /\ [Next]_vars => IInv'
<1> SUFFICES ASSUME IInv, [Next]_vars PROVE IInv'
  OBVIOUS
<1>1. Basics'
  BY NextBasics DEF IInv
<1>2. \A s \in Callers : Solo(s)' /\ Gave(s)'
  BY NextKept DEF IInv, Kept
<1> QED
  BY <1>1, <1>2 DEF IInv

(* The inductive invariant of a single caller. *)
THEOREM IInvHolds == Spec => []IInv
BY InitIsInv, NextIsInv, PTL DEF Spec

LEMMA SingleCaller ==
  ASSUME Types, Unshared
  PROVE  \E s \in Callers : Alone(s)
<1>1. IsFiniteSet(use.callers)
  BY ClientAssumption DEF Types
<1>2. PICK s : use.callers = {s}
  BY <1>1, FS_Singleton DEF Unshared
<1> QED
  BY <1>2, UseIs DEF Alone

(* Client.NothingLeftBehind: as long as none of a single caller's          *)
(* calls on a connection fails, exception answers apart, a client that is  *)
(* not in a call has nothing asked, under way or unread.                   *)
THEOREM NothingLeft == Spec => []NothingLeftBehind
<1>1. IInv => NothingLeftBehind
  <2> SUFFICES ASSUME IInv, Unshared PROVE NothingLeftBehind
    BY DEF NothingLeftBehind
  <2>1. PICK s \in Callers : Alone(s)
    BY SingleCaller DEF IInv, Basics
  <2>2. Solo(s)
    BY DEF IInv
  <2> QED
    BY <2>1, <2>2 DEF Solo, InStep, Silent, NothingLeftBehind
<1> QED
  BY <1>1, IInvHolds, PTL

(* Client.CautiousAnswersAreOwn: a single caller that gives up at its first *)
(* error gets no answer but the one to its own call, whatever the server    *)
(* sends and however it arrives.                                            *)
THEOREM CautiousAnswers == Spec => []CautiousAnswersAreOwn
<1>1. IInv => CautiousAnswersAreOwn
  <2> SUFFICES ASSUME IInv, Cautious PROVE AnswersAreOwn
    BY DEF CautiousAnswersAreOwn
  <2>1. ~use.goes_on /\ Unshared
    BY DEF Cautious
  <2>2. PICK s \in Callers : Alone(s)
    BY <2>1, SingleCaller DEF IInv, Basics
  <2>3. Returned(s) => ReadsItsOwn(s)
    BY <2>1, <2>2 DEF IInv, Gave
  <2>4. ASSUME NEW t \in Callers, t # s PROVE ~Returned(t)
    <3>1. call[t] = NoCall
      BY <2>2, <2>4 DEF IInv, Basics, Uninvolved, Alone
    <3> QED
      BY <3>1, NoCallIs DEF Returned
  <2> QED
    BY <2>3, <2>4 DEF AnswersAreOwn
<1> QED
  BY <1>1, IInvHolds, PTL

-----------------------------------------------------------------------------
(* What a cautious caller of this server sees.                             *)

Foreseen == {"TimeoutError", "OSError", "IncompleteReadError", "ModbusExceptionError"} \cup
            (IF link = "none" THEN {"RuntimeError"} ELSE {})

Fails(t) ==
  Alone(t) /\ ~use.goes_on /\ use.oddities = {} /\ Raised(outcome[t]) =>
    outcome[t].raises \in Foreseen

FailInv == IInv /\ \A t \in Callers : Fails(t)

(* The outcome and the connection stay as they are, or he is left without. *)
LEMMA FailsStays ==
  ASSUME NEW s \in Callers, Fails(s), UNCHANGED use, outcome'[s] = outcome[s],
         link' = link \/ link # "none"
  PROVE  Fails(s)'
BY DEF Fails, Foreseen, Alone

(* He ends a call as was to be expected.                                   *)
LEMMA FailsEnds ==
  ASSUME Types, NEW s \in Callers, NEW result, Finish(s, result), UNCHANGED use,
         Expected(result) \/ \E what \in Foreseen' : result = Raises(what)
  PROVE  Fails(s)'
<1>1. outcome'[s] = result
  BY DEF Finish, Types
<1>2. CASE Expected(result)
  BY <1>1, <1>2, ResultsAre DEF Expected, Fails, Foreseen
<1>3. CASE \E what \in Foreseen' : result = Raises(what)
  BY <1>1, <1>3, ResultsAre DEF Fails
<1> QED
  BY <1>2, <1>3

(* The body that he waits for is that of a reply.                          *)
LEMMA BodyIsReply ==
  ASSUME IInv, NEW s \in Callers, Alone(s), ~use.goes_on, use.oddities = {},
         pc[s] = "body",
         NEW reply, reply = Reply(call[s].request)
  PROVE  /\ Carries(call[s].from, 1 + Len(reply), reply)
         /\ at = call[s].from + MBAP_HEADER_LEN
         /\ call[s].length = WordAt(stream, call[s].from + 5)
<1>1. clean
  BY DEF IInv, Gave
<1>2. InStep(s)
  BY <1>1 DEF IInv, Solo
<1> QED
  BY <1>2 DEF InStep, Replied

(* Only a connection that is lost refuses him a read: the length field of  *)
(* a reply counts at least the unit id and a function code.                *)
LEMMA ReadRefusedFails ==
  ASSUME IInv, NEW s \in Callers, Alone(s), ~use.goes_on, use.oddities = {},
         ReadRefused(s)
  PROVE  Finish(s, Raises("OSError"))
<1>1. CASE pc[s] = "head"
  <2>1. ~(Need(s) < 0)
    BY <1>1 DEF Need, MBAP_HEADER_LEN
  <2> QED
    BY <2>1 DEF ReadRefused
<1>2. CASE pc[s] = "body"
  <2>1. PICK reply : reply = Reply(call[s].request)
    OBVIOUS
  <2>2. PICK result : result = Typed(call[s].request,
                                     DecodeResponse(Chunk(s), BitsAsked(call[s].request)))
    OBVIOUS
  <2>3. Need(s) = Len(reply) /\ Len(reply) \in Nat
    BY <1>2, <2>1, <2>2, BodyIsReply, ReplyBody DEF IInv
  <2>4. ~(Need(s) < 0)
    BY <2>3
  <2> QED
    BY <2>4 DEF ReadRefused
<1> QED
  BY <1>1, <1>2 DEF ReadRefused, Running, IInv, Basics, Types

(* Every step keeps to the failures foreseen.                              *)
LEMMA NextFails ==
  ASSUME IInv, NEW s \in Callers, Fails(s), [Next]_vars
  PROVE  Fails(s)'
<1>0. Basics /\ Types /\ Waits
  BY DEF IInv, Basics
<1>1. UNCHANGED use
  BY UseStays
<1>2. CASE ~(Alone(s) /\ ~use.goes_on /\ use.oddities = {})
  BY <1>1, <1>2 DEF Fails, Alone
<1>3. CASE Alone(s) /\ ~use.goes_on /\ use.oddities = {}
  <2>1. ASSUME NEW t \in Callers, NEW r \in use.wanted, CallFails(t, r) PROVE Fails(s)'
    <3>1. t = s
      BY <1>0, <1>3, <2>1, ActorIsAlone DEF CallFails
    <3>2. PICK what : what = IF link = "none" THEN "RuntimeError" ELSE "OSError"
      OBVIOUS
    <3>3. Finish(s, Raises(what)) /\ UNCHANGED <<use, link>>
      BY <2>1, <3>1, <3>2 DEF CallFails
    <3>4. what \in Foreseen'
      BY <3>2, <3>3 DEF Foreseen
    <3> QED
      BY <1>0, <3>3, <3>4, FailsEnds
  <2>2. ASSUME NEW t \in Callers, NEW r \in use.wanted, Ask(t, r) PROVE Fails(s)'
    BY <2>2, FailsStays DEF Ask
  <2>3. ASSUME NEW t \in Callers, ReadHead(t) PROVE Fails(s)'
    <3>1. t = s
      BY <1>0, <1>3, <2>3, ActorIsAlone DEF ReadHead
    <3>2. UNCHANGED <<use, link>>
      BY <2>3 DEF ReadHead
    <3>3. UNCHANGED outcome \/ Finish(s, Raises("OSError"))
      BY <2>3, <3>1 DEF ReadHead
    <3>4. CASE UNCHANGED outcome
      BY <3>2, <3>4, FailsStays
    <3>5. CASE Finish(s, Raises("OSError"))
      <4>1. "OSError" \in Foreseen'
        BY DEF Foreseen
      <4> QED
        BY <1>0, <3>2, <3>5, <4>1, FailsEnds
    <3> QED
      BY <3>3, <3>4, <3>5
  <2>4. ASSUME NEW t \in Callers, ReadBody(t) PROVE Fails(s)'
    <3>1. t = s
      BY <1>0, <1>3, <2>4, ActorIsAlone DEF ReadBody
    <3>2. PICK reply, result :
            /\ reply = Reply(call[s].request)
            /\ result = Typed(call[s].request,
                              DecodeResponse(Chunk(s), BitsAsked(call[s].request)))
      OBVIOUS
    <3>3. pc[s] = "body" /\ Finish(s, result) /\ UNCHANGED use
      BY <2>4, <3>1, <3>2 DEF ReadBody
    <3>4. Expected(result)
      BY <1>0, <1>3, <3>2, <3>3, BodyIsReply, ReplyBody
    <3> QED
      BY <1>0, <3>3, <3>4, FailsEnds
  <2>5. ASSUME NEW t \in Callers, NEW what, what \in Foreseen',
               Finish(t, Raises(what)), pc[t] # "idle"
        PROVE  Fails(s)'
    <3>1. t = s
      BY <1>0, <1>3, <2>5, ActorIsAlone
    <3> QED
      BY <1>0, <1>1, <2>5, <3>1, FailsEnds
  <2>6. {"TimeoutError", "OSError", "IncompleteReadError"} \subseteq Foreseen'
    BY DEF Foreseen
  <2>7. ASSUME NEW t \in Callers, ReadRefused(t) PROVE Fails(s)'
    <3>1. pc[t] # "idle"
      BY <2>7 DEF ReadRefused, Running
    <3>2. t = s
      BY <1>0, <1>3, <3>1, ActorIsAlone
    <3> QED
      BY <1>3, <2>5, <2>6, <2>7, <3>1, <3>2, ReadRefusedFails
  <2>8. ASSUME NEW t \in Callers, ReadEof(t) PROVE Fails(s)'
    BY <2>5, <2>6, <2>8 DEF ReadEof, Running
  <2>9. ASSUME NEW t \in Callers, ReadClash(t) PROVE Fails(s)'
    <3>1. Running(t) /\ WaiterSeenBy(t) # Nobody
      BY <2>9 DEF ReadClash
    <3>2. t = s
      BY <1>0, <1>3, <3>1, ActorIsAlone DEF Running
    <3>3. waiter # Nobody /\ waiter # t
      BY <1>0, <3>1, RunnerIsNotWaiter
    <3>4. waiter = s
      BY <1>0, <1>3, <3>3, ActorIsAlone DEF Waits
    <3> QED
      BY <3>2, <3>3, <3>4
  <2>10. ASSUME NEW t \in Callers, Timeout(t) PROVE Fails(s)'
    BY <2>5, <2>6, <2>10 DEF Timeout, TimedOut, TimedReads
  <2>11. ASSUME NEW t \in Callers, ReadSleeps(t) PROVE Fails(s)'
    BY <2>11, FailsStays DEF ReadSleeps
  <2>12. CASE ServerAnswers \/ ServerBabbles \/ ServerCloses \/ Close \/ UNCHANGED vars
    <3>1. UNCHANGED outcome /\ (link' = link \/ link # "none")
      BY <2>12 DEF ServerAnswers, ServerBabbles, Sends, ServerCloses, Close, vars
    <3> QED
      BY SMTT(30), <1>1, <3>1, FailsStays
  <2>13. ASSUME NEW n, Deliver(n) PROVE Fails(s)'
    BY <2>13, FailsStays DEF Deliver
  <2>14. CASE ConnectionLost
    <3>1. CASE waiter = Nobody
      BY <1>1, <2>14, <3>1, FailsStays DEF ConnectionLost
    <3>2. CASE waiter # Nobody
      BY <1>0, <2>5, <2>6, <2>14, <3>2 DEF ConnectionLost, Waits
    <3> QED
      BY <3>1, <3>2
  <2>15. CASE Connect
    BY <2>15, ResultsAre DEF Connect, Fails
  <2> QED
    BY <2>1, <2>2, <2>3, <2>4, <2>7, <2>8, <2>9, <2>10, <2>11, <2>12, <2>13, <2>14, <2>15, Zenon
       DEF Next, Reading
<1> QED
  BY <1>2, <1>3

(* Client.FailuresAreOfTheConnection: a single caller of this server that  *)
(* gives up at its first error sees timeouts, errors of the connection and *)
(* exception answers, and no error of the decoding.                        *)
THEOREM FailuresOfConnection == Spec => []FailuresAreOfTheConnection
<1>1. Init => FailInv
  <2> SUFFICES ASSUME Init PROVE FailInv
    OBVIOUS
  <2>1. IInv
    BY InitIsInv
  <2>2. \A s \in Callers : Fails(s)
    BY ResultsAre DEF Init, Fails
  <2> QED
    BY <2>1, <2>2 DEF FailInv
<1>2. FailInv /\ [Next]_vars => FailInv'
  <2> SUFFICES ASSUME FailInv, [Next]_vars PROVE FailInv'
    OBVIOUS
  <2>1. IInv'
    BY NextIsInv DEF FailInv
  <2>2. \A s \in Callers : Fails(s)'
    BY NextFails DEF FailInv
  <2> QED
    BY <2>1, <2>2 DEF FailInv
<1>3. FailInv => FailuresAreOfTheConnection
  <2> SUFFICES ASSUME FailInv, Cautious, use.oddities = {},
                      NEW t \in Callers, Raised(outcome[t])
               PROVE  outcome[t].raises \in Foreseen
    BY DEF FailuresAreOfTheConnection, Foreseen
  <2>1. ~use.goes_on /\ Unshared
    BY DEF Cautious
  <2>2. PICK s \in Callers : Alone(s)
    BY <2>1, SingleCaller DEF FailInv, IInv, Basics
  <2>3. CASE t = s
    BY <2>1, <2>2, <2>3 DEF FailInv, Fails
  <2>4. CASE t # s
    <3>1. outcome[t] = Returns(<<>>)
      BY <2>2, <2>4 DEF FailInv, IInv, Basics, Uninvolved, Alone
    <3> QED
      BY <3>1, ResultsAre
  <2> QED
    BY <2>3, <2>4
<1> QED
  BY <1>1, <1>2, <1>3, PTL DEF Spec

-----------------------------------------------------------------------------
(* What the transaction ids see to.                                        *)

(* An id that is drawn is younger than all that are still in use.          *)
LEMMA FreshGrows ==
  ASSUME Types, tid' = NextTid, calls' = calls + 1, calls' <= LAST_TID,
         NEW n, NEW x, Fresh(n, x)
  PROVE  Fresh(n, x)' /\ x # tid'
<1>1. LAST_TID \in Nat
  <2>1. LAST_TID \in Word
    BY ClientAssumption
  <2> QED
    BY <2>1, FieldsAreNumbers
<1>2. calls \in Nat /\ tid \in 0..LAST_TID
  BY DEF Types
<1>3. n \in 1..calls /\ x \in 1..LAST_TID /\ Age(x) <= calls - n
  BY DEF Fresh
<1>4. n \in 1..calls' /\ calls < LAST_TID
  BY <1>1, <1>2, <1>3
<1>5. Age(x)' = Age(x) + 1 /\ x # tid'
  <2>1. CASE tid = LAST_TID
    <3>1. tid' = 1 /\ Age(x) = LAST_TID - x
      BY <1>3, <2>1 DEF NextTid, Age
    <3>2. x # 1
      BY <1>1, <1>2, <1>3, <3>1
    <3>3. Age(x)' = LAST_TID - x + 1
      BY <1>3, <3>1, <3>2 DEF Age
    <3> QED
      BY <3>1, <3>2, <3>3
  <2>2. CASE tid # LAST_TID /\ x <= tid
    BY <1>1, <1>2, <1>3, <2>2 DEF NextTid, Age
  <2>3. CASE tid # LAST_TID /\ ~(x <= tid)
    <3>1. tid' = tid + 1 /\ Age(x) = LAST_TID - x + tid
      BY <2>3 DEF NextTid, Age
    <3>2. x # tid + 1
      BY <1>1, <1>2, <1>3, <3>1
    <3>3. Age(x)' = LAST_TID - x + (tid + 1)
      BY <1>2, <1>3, <2>3, <3>1, <3>2 DEF Age
    <3> QED
      BY <1>1, <1>2, <1>3, <3>1, <3>2, <3>3
  <2> QED
    BY <2>1, <2>2, <2>3
<1>6. Age(x) \in Int
  BY <1>1, <1>2, <1>3 DEF Age
<1>7. Age(x)' <= calls' - n
  BY <1>2, <1>3, <1>5, <1>6
<1> QED
  BY <1>3, <1>4, <1>5, <1>7 DEF Fresh

(* A call that draws none only makes the others older.                     *)
LEMMA FreshWaits ==
  ASSUME Types, tid' = tid, calls' = calls + 1, NEW n, NEW x, Fresh(n, x)
  PROVE  Fresh(n, x)'
<1>1. LAST_TID \in Nat
  <2>1. LAST_TID \in Word
    BY ClientAssumption
  <2> QED
    BY <2>1, FieldsAreNumbers
<1>2. calls \in Nat /\ tid \in 0..LAST_TID
  BY DEF Types
<1>3. n \in 1..calls /\ x \in 1..LAST_TID /\ Age(x) <= calls - n
  BY DEF Fresh
<1>4. Age(x)' = Age(x) /\ Age(x) \in Int
  BY <1>1, <1>2, <1>3 DEF Age
<1> QED
  BY <1>2, <1>3, <1>4 DEF Fresh

(* An id is as young as can be when it is drawn.                           *)
LEMMA NewIsFresh ==
  ASSUME Types, tid' = NextTid, calls' = calls + 1, NEW n, n = calls', NEW x, x = tid'
  PROVE  Fresh(n, x)'
<1>1. x \in 1..LAST_TID
  BY NextTidIsTid DEF Types
<1>2. n \in 1..calls' /\ calls' - n = 0
  BY DEF Types
<1>3. Age(x)' = 0
  BY <1>1 DEF Age
<1> QED
  BY <1>1, <1>2, <1>3 DEF Fresh

(* What a frame that is sent leaves as it was.                             *)
LEMMA BytesStay ==
  ASSUME NEW s \in Seq(Byte), NEW c, NEW x, NEW length, NEW pdu \in Seq(Byte),
         Grown(c, s, x, length, pdu),
         NEW k \in Nat, k + MBAP_HEADER_LEN <= Len(s)
  PROVE  /\ k + MBAP_HEADER_LEN <= Len(c) /\ k # Len(s)
         /\ WordAt(c, k + 1) = WordAt(s, k + 1) /\ WordAt(c, k + 5) = WordAt(s, k + 5)
<1>1. Len(s) \in Nat /\ Len(pdu) \in Nat
  BY LenProperties
<1>2. \A i \in 1..Len(s) : c[i] = s[i]
  BY DEF Grown
<1>3. /\ k + 1 \in 1..Len(s) /\ k + 1 + 1 \in 1..Len(s)
      /\ k + 5 \in 1..Len(s) /\ k + 5 + 1 \in 1..Len(s)
  BY <1>1 DEF MBAP_HEADER_LEN
<1>4. WordAt(c, k + 1) = WordAt(s, k + 1) /\ WordAt(c, k + 5) = WordAt(s, k + 5)
  BY <1>2, <1>3 DEF WordAt
<1> QED
  BY <1>1, <1>4 DEF Grown, MBAP_HEADER_LEN

(* A step that u does not notice.                                          *)
LEMMA IdsUnseen ==
  ASSUME NEW u \in Callers, OwnIds(u), pending' \in {pending, <<>>},
         UNCHANGED <<tid, calls, stream, sent>>,
         pc'[u] = pc[u], call'[u] = call[u], outcome'[u] = outcome[u]
  PROVE  OwnIds(u)'
<1>1. \A n, x : Fresh(n, x)' <=> Fresh(n, x)
  BY DEF Fresh, Age
<1>2. pending' = pending \/ Len(pending') = 0
  BY EmptySeq
<1>3. KnownById(u)'
  BY <1>1, <1>2 DEF OwnIds, KnownById, TidAt
<1>4. OwnHeader(u)'
  BY DEF OwnIds, OwnHeader, HadHeader
<1>5. OwnAnswer(u)'
  BY DEF OwnIds, OwnAnswer, Returned
<1> QED
  BY <1>3, <1>4, <1>5 DEF OwnIds

LEMMA FreshUnseen ==
  ASSUME FreshIds, pending' \in {pending, <<>>}, UNCHANGED <<use, tid, calls, stream, sent>>
  PROVE  FreshIds'
<1>1. \A n, x : Fresh(n, x)' <=> Fresh(n, x)
  BY DEF Fresh, Age
<1>2. pending' = pending \/ Len(pending') = 0
  BY EmptySeq
<1>3. \A i : (Whole(i)' <=> Whole(i)) /\ (OddIsOdd(i)' <=> OddIsOdd(i))
  BY DEF Whole, OddIsOdd, Carries
<1> QED
  BY <1>1, <1>2, <1>3 DEF FreshIds, TidAt

(* A failure of u.                                                         *)
LEMMA IdsFailed ==
  ASSUME Types, NEW u \in Callers, NEW what, Finish(u, Raises(what))
  PROVE  OwnIds(u)'
<1>1. pc'[u] = "idle" /\ Raised(outcome'[u])
  BY ResultsAre DEF Finish, Types
<1> QED
  BY <1>1 DEF OwnIds, KnownById, OwnHeader, OwnAnswer, Returned

(* A call that fails at once, with or without an id.                       *)
LEMMA CallFailsIds ==
  ASSUME Basics, Distinct', Ids, NEW t \in Callers, NEW r, CallFails(t, r)
  PROVE  Ids'
<1>1. Types
  BY DEF Basics
<1>2. PICK what : Finish(t, Raises(what))
  BY DEF CallFails
<1>3. /\ calls' = calls + 1 /\ calls' <= LAST_TID
      /\ tid' = tid \/ tid' = NextTid
      /\ UNCHANGED <<use, pending, stream, sent>>
      /\ \A u \in Callers : u # t => pc'[u] = pc[u] /\ call'[u] = call[u]
                                     /\ outcome'[u] = outcome[u]
  BY <1>1 DEF CallFails, MayCall, Finish, Distinct, Types, netVars
<1>4. ASSUME NEW n, NEW x, Fresh(n, x) PROVE Fresh(n, x)'
  BY <1>1, <1>3, <1>4, FreshGrows, FreshWaits
<1>5. \A i : (Whole(i)' <=> Whole(i)) /\ (OddIsOdd(i)' <=> OddIsOdd(i))
  BY <1>3 DEF Whole, OddIsOdd, Carries
<1>6. FreshIds'
  BY <1>3, <1>4, <1>5 DEF Ids, FreshIds, TidAt
<1>7. ASSUME NEW u \in Callers PROVE OwnIds(u)'
  <2>1. CASE u = t
    BY <1>1, <1>2, <2>1, IdsFailed
  <2>2. CASE u # t
    <3>1. KnownById(u) /\ OwnHeader(u) /\ OwnAnswer(u)
      BY DEF Ids, OwnIds
    <3>2. pc'[u] = pc[u] /\ call'[u] = call[u] /\ outcome'[u] = outcome[u]
      BY <1>3, <2>2
    <3>3. KnownById(u)'
      BY <1>3, <1>4, <3>1, <3>2 DEF KnownById, TidAt
    <3>4. OwnHeader(u)' /\ OwnAnswer(u)'
      BY <1>3, <3>1, <3>2 DEF OwnHeader, HadHeader, OwnAnswer, Returned
    <3> QED
      BY <3>3, <3>4 DEF OwnIds
  <2> QED
    BY <2>1, <2>2
<1> QED
  BY <1>6, <1>7 DEF Ids

(* A call draws an id that no request, answer or other call has.           *)
LEMMA AskIds ==
  ASSUME Basics, Distinct', Ids, NEW t \in Callers, NEW r \in use.wanted, Ask(t, r)
  PROVE  Ids'
<1>0. Types
  BY DEF Basics
<1>1. PICK n, x : n = calls' /\ x = tid'
  OBVIOUS
<1>2. PICK c, q : c = Begun(n, x, r) /\ q = [n |-> n, tid |-> x, request |-> r]
  OBVIOUS
<1>3. /\ pc'[t] = "head" /\ call'[t] = c
      /\ calls' = calls + 1 /\ calls' <= LAST_TID
      /\ tid' = NextTid
      /\ pending' = pending \/ pending' = Append(pending, q)
      /\ UNCHANGED <<use, stream, sent, outcome>>
      /\ \A u \in Callers : u # t => pc'[u] = pc[u] /\ call'[u] = call[u]
  BY <1>0, <1>1, <1>2 DEF Ask, MayCall, Distinct, Types, Begun
<1>4. c.n = n /\ c.tid = x
  <2>1. n \in Nat /\ x \in Nat
    BY <1>0, <1>1, <1>3, NextTidIsTid, UseIs DEF Types
  <2> QED
    BY <1>2, <2>1, BegunIs
<1>5. q.n = n /\ q.tid = x
  BY <1>2
<1>6. ASSUME NEW m, NEW y, Fresh(m, y) PROVE Fresh(m, y)' /\ y # x
  BY <1>0, <1>1, <1>3, <1>6, FreshGrows
<1>7. Fresh(n, x)'
  BY <1>0, <1>1, <1>3, NewIsFresh
<1>8. \A i \in 1..Len(pending') : (i \in 1..Len(pending) /\ pending'[i] = pending[i])
                                  \/ pending'[i] = q
  <2>1. pending \in Seq(Asked)
    BY <1>0 DEF Types
  <2>2. CASE pending' = pending
    BY <2>2
  <2>3. CASE pending' = Append(pending, q)
    BY <2>1, <2>3, LenProperties
  <2> QED
    BY <1>3, <2>2, <2>3
<1>9. FreshIds
  BY DEF Ids
<1>10. FreshIds'
  <2>1. \A i : (Whole(i)' <=> Whole(i)) /\ (OddIsOdd(i)' <=> OddIsOdd(i))
    BY <1>3 DEF Whole, OddIsOdd, Carries
  <2>2. ASSUME NEW i \in 1..Len(pending'),
               NEW m, NEW y, m = pending'[i].n, y = pending'[i].tid
        PROVE  Fresh(m, y)'
    BY <1>5, <1>6, <1>7, <1>8, <1>9, <2>2 DEF FreshIds
  <2>3. ASSUME NEW i \in 1..Len(sent),
               NEW m, NEW y, m = sent[i].n, y = WordAt(stream, sent[i].start + 1)
        PROVE  Fresh(m, y)'
    BY <1>6, <1>9, <2>3 DEF FreshIds, TidAt
  <2>4. \A i \in 1..Len(sent) : Whole(i)' /\ OddIsOdd(i)'
    BY <1>9, <2>1 DEF FreshIds
  <2> QED
    BY <1>3, <2>2, <2>3, <2>4 DEF FreshIds, TidAt
<1>11. \A i \in 1..Len(sent) : TidAt(sent[i].start) # x
  BY <1>6, <1>9 DEF FreshIds
<1>12. \A i \in 1..Len(pending) : pending[i].tid # x
  BY <1>6, <1>9 DEF FreshIds
<1>13. ASSUME NEW u \in Callers PROVE OwnIds(u)'
  <2>1. CASE u = t
    <3>1. KnownById(t)'
      BY <1>3, <1>4, <1>5, <1>7, <1>8, <1>11, <1>12 DEF KnownById, TidAt
    <3>2. OwnHeader(t)' /\ OwnAnswer(t)'
      BY <1>3 DEF OwnHeader, OwnAnswer, Returned
    <3> QED
      BY <2>1, <3>1, <3>2 DEF OwnIds
  <2>2. CASE u # t
    <3>1. KnownById(u) /\ OwnHeader(u) /\ OwnAnswer(u)
      BY DEF Ids, OwnIds
    <3>2. pc'[u] = pc[u] /\ call'[u] = call[u] /\ outcome'[u] = outcome[u]
      BY <1>3, <2>2
    <3>3. KnownById(u)'
      <4> SUFFICES ASSUME pc[u] = "head" PROVE KnownById(u)'
        BY <3>2 DEF KnownById
      <4>1. PICK m, y : m = call[u].n /\ y = call[u].tid
        OBVIOUS
      <4>2. Fresh(m, y)' /\ y # x
        BY <1>6, <3>1, <4>1 DEF KnownById
      <4> QED
        BY <1>3, <1>5, <1>8, <3>1, <3>2, <4>1, <4>2 DEF KnownById, TidAt
    <3>4. OwnHeader(u)' /\ OwnAnswer(u)'
      BY <1>3, <3>1, <3>2 DEF OwnHeader, HadHeader, OwnAnswer, Returned
    <3> QED
      BY <3>3, <3>4 DEF OwnIds
  <2> QED
    BY <2>1, <2>2
<1> QED
  BY <1>10, <1>13 DEF Ids

(* A step of one caller that draws no id and sends nothing.                *)
LEMMA IdsOfOthers ==
  ASSUME Types, Ids, NEW t, pending' \in {pending, <<>>},
         UNCHANGED <<use, tid, calls, stream, sent>>,
         \A u \in Callers : u # t => pc'[u] = pc[u] /\ call'[u] = call[u]
                                     /\ outcome'[u] = outcome[u],
         t \in Callers => OwnIds(t)'
  PROVE  Ids'
<1>1. FreshIds'
  BY FreshUnseen DEF Ids
<1>2. ASSUME NEW u \in Callers, u # t PROVE OwnIds(u)'
  BY <1>2, IdsUnseen DEF Ids
<1> QED
  BY <1>1, <1>2 DEF Ids

LEMMA FailureIds ==
  ASSUME Types, Ids, NEW t \in Callers, NEW what, Finish(t, Raises(what)),
         UNCHANGED <<use, tid, calls, pending, stream, sent, call>>
  PROVE  Ids'
<1>1. OwnIds(t)'
  BY IdsFailed
<1>2. \A u \in Callers : u # t => pc'[u] = pc[u] /\ outcome'[u] = outcome[u]
  BY DEF Finish, Types
<1> QED
  BY <1>1, <1>2, IdsOfOthers

(* The header that has his id is that of the answer to his call.           *)
LEMMA ReadHeadIds ==
  ASSUME Basics, Ids, NEW t \in Callers, ReadHead(t)
  PROVE  Ids'
<1>0. Types
  BY DEF Basics
<1>1. PICK header : header = DecodeMbap(Chunk(t))
  OBVIOUS
<1>2. /\ pc[t] = "head" /\ Enough(t)
      /\ call' = [call EXCEPT ![t].from = at, ![t].length = header.length]
      /\ UNCHANGED <<use, tid, calls, pending, stream, sent>>
      /\ IF Echoes(t, header)
         THEN pc' = [pc EXCEPT ![t] = "body"] /\ UNCHANGED outcome
         ELSE Finish(t, Raises("OSError"))
  BY <1>1 DEF ReadHead, netVars
<1>3. \A u \in Callers : u # t => pc'[u] = pc[u] /\ call'[u] = call[u]
                                  /\ outcome'[u] = outcome[u]
  BY <1>0, <1>2 DEF Finish, Types
<1>4. OwnIds(t)'
  <2>1. CASE ~Echoes(t, header)
    BY <1>0, <1>2, <2>1, IdsFailed
  <2>2. CASE Echoes(t, header)
    <3>1. /\ at + MBAP_HEADER_LEN <= Len(stream) /\ header.transaction_id = TidAt(at)
          /\ header.length = WordAt(stream, at + 5)
      BY <1>0, <1>1, <1>2, HeaderRead
    <3>2. /\ pc'[t] = "body" /\ call'[t].from = at /\ call'[t].length = header.length
          /\ call'[t].n = call[t].n
      BY <1>0, <1>2, <2>2 DEF Types, CallRecord
    <3>3. \A i \in 1..Len(sent) : sent[i].start = at => sent[i].n = call[t].n
      BY <1>2, <2>2, <3>1 DEF Ids, OwnIds, KnownById, Echoes
    <3>4. HadHeader(t)'
      BY <1>2, <3>1, <3>2, <3>3 DEF HadHeader
    <3> QED
      BY <3>2, <3>4 DEF OwnIds, KnownById, OwnHeader, OwnAnswer, Returned
  <2> QED
    BY <2>1, <2>2
<1>5. pending' \in {pending, <<>>} /\ UNCHANGED <<use, tid, calls, stream, sent>>
  BY <1>2
<1> QED
  BY <1>0, <1>3, <1>4, <1>5, IdsOfOthers

(* A body that follows his header is the rest of that answer.              *)
LEMMA ReadBodyIds ==
  ASSUME Basics, Distinct, Ids, NEW t \in Callers, ReadBody(t)
  PROVE  Ids'
<1>0. Types
  BY DEF Basics
<1>1. PICK result : result = Typed(call[t].request,
                                   DecodeResponse(Chunk(t), BitsAsked(call[t].request)))
  OBVIOUS
<1>2. /\ pc[t] = "body" /\ Finish(t, result)
      /\ call' = [call EXCEPT ![t].body = at]
      /\ UNCHANGED <<use, tid, calls, pending, stream, sent>>
  BY <1>1 DEF ReadBody, netVars
<1>3. /\ Need(t) \in Nat
      /\ call'[t].body = at /\ call'[t].from = call[t].from /\ call'[t].n = call[t].n
  BY ReadBodyBasics
<1>4. \A u \in Callers : u # t => pc'[u] = pc[u] /\ call'[u] = call[u]
                                  /\ outcome'[u] = outcome[u]
  BY <1>0, <1>2 DEF Finish, Types
<1>5. pc'[t] = "idle" /\ outcome'[t] = result
  BY <1>0, <1>2 DEF Finish, Types
<1>6. HadHeader(t)
  BY <1>2 DEF Ids, OwnIds, OwnHeader
<1>7. OwnAnswer(t)'
  <2> SUFFICES ASSUME ~Raised(result), NEW i \in 1..Len(sent), sent[i].start = call[t].from,
                      at = call[t].from + MBAP_HEADER_LEN, sent[i].odd
               PROVE  FALSE
    BY <1>2, <1>3, <1>5, <1>6 DEF OwnAnswer, Returned, HadHeader
  <2>1. PICK odd \in use.oddities : Carries(call[t].from, odd.length, odd.pdu)
    BY DEF Ids, FreshIds, OddIsOdd
  <2>2. call[t].length = WordAt(stream, call[t].from + 5)
    BY <1>6 DEF HadHeader
  <2>3. IsOdd(odd, call[t].request)
    BY <1>2, OddIsNone DEF Basics, Types, Reads
  <2>4. odd.length \in Int /\ Len(odd.pdu) \in Nat /\ at \in Nat
    <3>1. odd.length \in Int
      BY <2>3, FieldsAreNumbers DEF IsOdd
    <3>2. Len(odd.pdu) \in Nat
      BY <2>3, LenProperties DEF IsOdd
    <3> QED
      BY <1>0, <3>1, <3>2 DEF Types
  <2>5. Need(t) = odd.length - 1
    BY <1>2, <2>1, <2>2 DEF Need, Carries
  <2>6. odd.length <= 1 + Len(odd.pdu)
    BY DEF Distinct
  <2>7. at + Need(t) <= at + Len(odd.pdu)
    BY <2>4, <2>5, <2>6
  <2> QED
    BY <1>1, <1>2, <1>3, <2>1, <2>2, <2>7, OddBody
<1>8. OwnIds(t)'
  BY <1>5, <1>7 DEF OwnIds, KnownById, OwnHeader
<1> QED
  BY <1>0, <1>2, <1>4, <1>8, IdsOfOthers

(* A frame in the stream stays there when another is sent.                 *)
LEMMA FrameStays ==
  ASSUME NEW x, NEW length, NEW pdu \in Seq(Byte), stream \in Seq(Byte),
         Grown(stream', stream, x, length, pdu),
         NEW k \in Nat, NEW size, NEW p \in Seq(Byte), Carries(k, size, p)
  PROVE  Carries(k, size, p)'
<1>1. Len(stream) \in Nat /\ Len(p) \in Nat /\ Len(pdu) \in Nat
  BY LenProperties
<1>2. k + MBAP_HEADER_LEN + Len(p) <= Len(stream)
  BY DEF Carries
<1>3. k + MBAP_HEADER_LEN <= Len(stream)
  BY <1>1, <1>2 DEF MBAP_HEADER_LEN
<1>4. WordAt(stream', k + 5) = WordAt(stream, k + 5)
  BY <1>3, BytesStay
<1>5. ASSUME NEW j \in 1..Len(p)
      PROVE  stream'[k + MBAP_HEADER_LEN + j] = stream[k + MBAP_HEADER_LEN + j]
  <2>1. k + MBAP_HEADER_LEN + j \in 1..Len(stream)
    BY <1>1, <1>2 DEF MBAP_HEADER_LEN
  <2> QED
    BY <2>1 DEF Grown
<1>6. k + MBAP_HEADER_LEN + Len(p) <= Len(stream')
  BY <1>1, <1>2 DEF Grown, MBAP_HEADER_LEN
<1> QED
  BY <1>4, <1>5, <1>6 DEF Carries

(* An answer has the id and the number of its request, and its own place.  *)
LEMMA SendingIds ==
  ASSUME Basics, Ids, NEW length, NEW pdu, NEW odd \in BOOLEAN, Sending(length, pdu, odd)
  PROVE  Ids'
<1>0. Types /\ stream \in Seq(Byte) /\ sent \in Seq(Answered) /\ pdu \in Seq(Byte)
  BY DEF Basics, Types, Sending
<1>1. PICK q : q = Head(pending)
  OBVIOUS
<1>2. /\ Grown(stream', stream, q.tid, length, pdu)
      /\ Len(sent') = Len(sent) + 1 /\ Len(sent) \in Nat
      /\ \A i \in 1..Len(sent) : sent'[i] = sent[i]
      /\ sent'[Len(sent) + 1] = [start |-> Len(stream), n |-> q.n, odd |-> odd]
      /\ pending' = Tail(pending)
      /\ UNCHANGED <<use, tid, calls, pc, call, outcome>>
  BY <1>0, <1>1, FrameSent
<1>3. /\ q = pending[1] /\ 1 \in 1..Len(pending)
      /\ \A i \in 1..Len(pending') : i + 1 \in 1..Len(pending) /\ pending'[i] = pending[i + 1]
  BY <1>0, <1>1, <1>2, FirstPending DEF Sending
<1>4. PICK m \in Nat : m = Len(stream)
  BY <1>0, LenProperties
<1>5. \A n, x : Fresh(n, x)' <=> Fresh(n, x)
  BY <1>2 DEF Fresh, Age
<1>6. \A i \in 1..Len(sent) : sent[i].start \in Nat
  <2>1. \A i \in 1..Len(sent) : sent[i] \in Answered
    BY <1>0, ElementOfSeq
  <2> QED
    BY <2>1 DEF Answered
<1>7. ASSUME NEW k \in Nat, k + MBAP_HEADER_LEN <= m
      PROVE  /\ k + MBAP_HEADER_LEN <= Len(stream') /\ k # m
             /\ TidAt(k)' = TidAt(k) /\ WordAt(stream', k + 5) = WordAt(stream, k + 5)
  BY <1>0, <1>2, <1>4, <1>7, BytesStay DEF TidAt
<1>8. FreshIds
  BY DEF Ids
<1>9. PICK last : last = sent'[Len(sent) + 1]
  OBVIOUS
<1>10. last.start = m /\ last.n = q.n /\ last.odd = odd /\ TidAt(m)' = q.tid
  BY <1>2, <1>4, <1>9 DEF Grown, TidAt
<1>11. \A i \in 1..Len(sent') : (i \in 1..Len(sent) /\ sent'[i] = sent[i]) \/ sent'[i] = last
  BY <1>2, <1>9
<1>12. Len(pdu) \in Nat
  BY <1>0, LenProperties
<1>13. FreshIds'
  <2>1. \A i \in 1..Len(pending') : Fresh(pending'[i].n, pending'[i].tid)
    BY <1>3, <1>8 DEF FreshIds
  <2>2. ASSUME NEW i \in 1..Len(sent), NEW e, e = sent[i]
        PROVE  /\ e.start + MBAP_HEADER_LEN <= Len(stream')
               /\ e.odd => \E o \in use.oddities : Carries(e.start, o.length, o.pdu)'
               /\ Fresh(e.n, WordAt(stream', e.start + 1))
    <3>1. e.start \in Nat
      BY <1>6, <2>2
    <3>2. Whole(i) /\ OddIsOdd(i) /\ Fresh(e.n, TidAt(e.start))
      BY <1>8, <2>2 DEF FreshIds
    <3>3. e.start + MBAP_HEADER_LEN <= m
      BY <1>4, <2>2, <3>2 DEF Whole
    <3>4. ASSUME e.odd PROVE \E o \in use.oddities : Carries(e.start, o.length, o.pdu)'
      <4>1. PICK o \in use.oddities : Carries(e.start, o.length, o.pdu)
        BY <2>2, <3>2, <3>4 DEF OddIsOdd
      <4>2. q.request \in use.wanted
        BY <1>0, <1>1, FirstPending DEF Sending, Asked
      <4>3. o.pdu \in Seq(Byte)
        BY <1>0, <4>2, OddIsNone DEF IsOdd, Types
      <4> QED
        BY <1>0, <1>2, <3>1, <4>1, <4>3, FrameStays
    <3> QED
      BY <1>7, <3>1, <3>2, <3>3, <3>4 DEF TidAt
  <2>3. /\ last.start + MBAP_HEADER_LEN <= Len(stream')
        /\ last.odd => \E o \in use.oddities : Carries(last.start, o.length, o.pdu)'
        /\ Fresh(last.n, WordAt(stream', last.start + 1))
    <3>1. Len(stream') = m + MBAP_HEADER_LEN + Len(pdu)
      BY <1>2, <1>4 DEF Grown
    <3>2. m + MBAP_HEADER_LEN <= Len(stream')
      BY <1>12, <3>1 DEF MBAP_HEADER_LEN
    <3>3. Carries(m, length, pdu)'
      BY <1>2, <1>4, <1>12, <3>1 DEF Carries, Grown
    <3>4. Fresh(q.n, q.tid)
      BY <1>3, <1>8 DEF FreshIds
    <3>5. odd => \E o \in use.oddities : Carries(m, o.length, o.pdu)'
      BY <3>3 DEF Sending
    <3> QED
      BY <1>10, <3>2, <3>4, <3>5 DEF TidAt
  <2>4. ASSUME NEW i \in 1..Len(sent'), NEW e, e = sent'[i]
        PROVE  /\ e.start + MBAP_HEADER_LEN <= Len(stream')
               /\ e.odd => \E o \in use.oddities : Carries(e.start, o.length, o.pdu)'
               /\ Fresh(e.n, WordAt(stream', e.start + 1))
    BY <1>11, <2>2, <2>3, <2>4
  <2> QED
    BY <1>2, <1>5, <2>1, <2>4 DEF FreshIds, Whole, OddIsOdd, TidAt
<1>14. ASSUME NEW u \in Callers PROVE OwnIds(u)'
  <2>1. KnownById(u) /\ OwnHeader(u) /\ OwnAnswer(u)
    BY DEF Ids, OwnIds
  <2>2. PICK f \in Nat : f = call[u].from
    BY <1>0 DEF Types, CallRecord
  <2>3. KnownById(u)'
    <3> SUFFICES ASSUME pc[u] = "head" PROVE KnownById(u)'
      BY <1>2 DEF KnownById
    <3>1. /\ Fresh(call[u].n, call[u].tid)
          /\ \A i \in 1..Len(pending) : pending[i].tid = call[u].tid => pending[i].n = call[u].n
          /\ \A i \in 1..Len(sent) :
               TidAt(sent[i].start) = call[u].tid => sent[i].n = call[u].n
      BY <2>1 DEF KnownById
    <3>2. \A i \in 1..Len(pending') :
             pending'[i].tid = call[u].tid => pending'[i].n = call[u].n
      BY <1>3, <3>1
    <3>3. ASSUME NEW i \in 1..Len(sent'), NEW e, e = sent'[i],
                 WordAt(stream', e.start + 1) = call[u].tid
          PROVE  e.n = call[u].n
      <4>1. CASE e = last
        BY <1>3, <1>10, <3>1, <3>3, <4>1 DEF TidAt
      <4>2. CASE i \in 1..Len(sent) /\ e = sent[i]
        <5>1. e.start \in Nat /\ e.start + MBAP_HEADER_LEN <= m
          BY <1>4, <1>6, <1>8, <4>2 DEF FreshIds, Whole
        <5> QED
          BY <1>7, <3>1, <3>3, <4>2, <5>1 DEF TidAt
      <4> QED
        BY <1>11, <3>3, <4>1, <4>2
    <3> QED
      BY <1>2, <1>5, <3>1, <3>2, <3>3 DEF KnownById, TidAt
  <2>4. ASSUME f + MBAP_HEADER_LEN <= m
        PROVE  /\ f + MBAP_HEADER_LEN <= Len(stream')
               /\ WordAt(stream', f + 5) = WordAt(stream, f + 5)
               /\ \A i \in 1..Len(sent') :
                    sent'[i].start = f => i \in 1..Len(sent) /\ sent'[i] = sent[i]
    BY <1>7, <1>10, <1>11, <2>2, <2>4
  <2>5. OwnHeader(u)'
    <3> SUFFICES ASSUME pc[u] = "body" PROVE HadHeader(u)'
      BY <1>2 DEF OwnHeader
    <3> QED
      BY <1>2, <1>4, <2>1, <2>2, <2>4 DEF OwnHeader, HadHeader
  <2>6. OwnAnswer(u)'
    <3> SUFFICES ASSUME Returned(u) PROVE OwnAnswer(u)'
      BY <1>2 DEF OwnAnswer, Returned
    <3> QED
      BY <1>2, <1>4, <2>1, <2>2, <2>4 DEF OwnAnswer
  <2> QED
    BY <2>3, <2>5, <2>6 DEF OwnIds
<1> QED
  BY <1>13, <1>14 DEF Ids

LEMMA ConnectIds ==
  ASSUME Basics, Connect
  PROVE  Ids'
<1>1. /\ pending' = <<>> /\ sent' = <<>>
      /\ \A u \in Callers : pc'[u] = "idle" /\ call'[u] = NoCall
  BY DEF Connect, Basics, Unlinked
<1>2. Len(pending') = 0 /\ Len(sent') = 0
  BY <1>1, EmptySeq
<1>3. FreshIds'
  BY <1>2 DEF FreshIds
<1>4. ASSUME NEW u \in Callers PROVE OwnIds(u)'
  <2>1. pc'[u] = "idle" /\ call'[u].n = 0
    BY SMTT(30), <1>1, NoCallIs
  <2> QED
    BY <2>1 DEF OwnIds, KnownById, OwnHeader, OwnAnswer, Returned
<1> QED
  BY <1>3, <1>4 DEF Ids

(* The calls are only counted up.                                          *)
LEMMA CallsGrow ==
  ASSUME [Next]_vars
  PROVE  calls' = calls \/ calls' = calls + 1
BY DEF Next, vars, CallFails, Ask, MayCall, Reading, ReadRefused, ReadHead, ReadBody, ReadEof,
       ReadClash, ReadSleeps, Timeout, ServerAnswers, ServerBabbles, Sends, ServerCloses,
       ConnectionLost, Deliver, Close, Connect

LEMMA NextIds ==
  ASSUME Basics, Distinct', Ids, [Next]_vars
  PROVE  Ids'
<1>0. Types /\ Waits
  BY DEF Basics
<1>1. ASSUME NEW t \in Callers, NEW r \in use.wanted, CallFails(t, r) PROVE Ids'
  BY <1>1, CallFailsIds
<1>2. ASSUME NEW t \in Callers, NEW r \in use.wanted, Ask(t, r) PROVE Ids'
  BY <1>2, AskIds
<1>3. ASSUME NEW t \in Callers, ReadHead(t) PROVE Ids'
  BY <1>3, ReadHeadIds
<1>4. ASSUME NEW t \in Callers, ReadBody(t) PROVE Ids'
  <2>1. UNCHANGED <<use, calls>>
    BY <1>4 DEF ReadBody
  <2>2. Distinct
    BY <2>1 DEF Distinct
  <2> QED
    BY <1>4, <2>2, ReadBodyIds
<1>5. ASSUME NEW t \in Callers, ReadRefused(t) \/ ReadEof(t) \/ ReadClash(t) \/ Timeout(t)
      PROVE  Ids'
  <2>1. PICK what : Finish(t, Raises(what))
    BY <1>5 DEF ReadRefused, ReadEof, ReadClash, Timeout, TimedOut
  <2>2. UNCHANGED <<use, tid, calls, pending, stream, sent, call>>
    BY <1>5 DEF ReadRefused, ReadEof, ReadClash, Timeout, netVars
  <2> QED
    BY <1>0, <2>1, <2>2, FailureIds
<1>6. ASSUME NEW t \in Callers, ReadSleeps(t) PROVE Ids'
  <2>1. UNCHANGED <<use, tid, calls, pending, stream, sent, pc, call, outcome>>
    BY <1>6 DEF ReadSleeps, netVars
  <2> QED
    BY <2>1, FreshUnseen, IdsUnseen DEF Ids
<1>7. CASE ServerAnswers \/ ServerBabbles
  <2>1. PICK length, pdu : \E odd \in BOOLEAN : Sending(length, pdu, odd)
    BY <1>0, <1>7, SendingIs
  <2>2. PICK odd \in BOOLEAN : Sending(length, pdu, odd)
    BY <2>1
  <2> QED
    BY <2>2, SendingIds
<1>8. ASSUME NEW n, Deliver(n) PROVE Ids'
  <2>1. UNCHANGED <<use, tid, calls, pending, stream, sent, pc, call, outcome>>
    BY <1>8 DEF Deliver
  <2> QED
    BY <2>1, FreshUnseen, IdsUnseen DEF Ids
<1>9. CASE ServerCloses \/ Close \/ UNCHANGED vars
  <2>1. pending' \in {pending, <<>>}
        /\ UNCHANGED <<use, tid, calls, stream, sent, pc, call, outcome>>
    BY <1>9 DEF ServerCloses, Close, vars, netVars
  <2> QED
    BY <2>1, FreshUnseen, IdsUnseen DEF Ids
<1>10. CASE ConnectionLost
  <2>1. UNCHANGED <<use, tid, calls, pending, stream, sent, call>>
    BY <1>10 DEF ConnectionLost, netVars
  <2>2. CASE waiter = Nobody
    <3>1. UNCHANGED <<pc, outcome>>
      BY <1>10, <2>2 DEF ConnectionLost
    <3> QED
      BY <2>1, <3>1, FreshUnseen, IdsUnseen DEF Ids
  <2>3. CASE waiter # Nobody
    <3>1. waiter \in Callers /\ Finish(waiter, Raises("OSError"))
      BY <1>0, <1>10, <2>3 DEF ConnectionLost, Waits
    <3> QED
      BY <1>0, <2>1, <3>1, FailureIds
  <2> QED
    BY <2>2, <2>3
<1>11. CASE Connect
  BY <1>11, ConnectIds
<1> QED
  BY <1>1, <1>2, <1>3, <1>4, <1>5, <1>6, <1>7, <1>8, <1>9, <1>10, <1>11, Zenon
     DEF Next, Reading

(* The inductive invariant of callers who share the client.                *)
THEOREM IdInvHolds == Spec => []IdInv
<1>1. Init => IdInv
  <2> SUFFICES ASSUME Init PROVE IdInv
    OBVIOUS
  <2>1. Basics
    BY InitBasics
  <2>2. Len(<<>>) = 0
    BY EmptySeq
  <2>3. FreshIds
    BY <2>2 DEF Init, FreshIds
  <2>4. ASSUME NEW u \in Callers PROVE OwnIds(u)
    BY NoCallIs DEF Init, OwnIds, KnownById, OwnHeader, OwnAnswer, Returned
  <2> QED
    BY <2>1, <2>3, <2>4 DEF IdInv, Ids
<1>2. IdInv /\ [Next]_vars => IdInv'
  <2> SUFFICES ASSUME IdInv, [Next]_vars PROVE IdInv'
    OBVIOUS
  <2>1. Basics'
    BY NextBasics DEF IdInv
  <2>2. UNCHANGED use
    BY UseStays
  <2>3. Distinct' => Distinct
    <3>1. calls' = calls \/ calls' = calls + 1
      BY CallsGrow
    <3>2. calls \in Nat /\ LAST_TID \in Nat
      <4>1. LAST_TID \in Word
        BY ClientAssumption
      <4> QED
        BY <4>1, FieldsAreNumbers DEF IdInv, Basics, Types
    <3> QED
      BY <2>2, <3>1, <3>2 DEF Distinct
  <2>4. Distinct' => Ids'
    BY <2>3, NextIds DEF IdInv
  <2> QED
    BY <2>1, <2>4 DEF IdInv
<1> QED
  BY <1>1, <1>2, PTL DEF Spec

(* Client.AnswersAreOwnInStep: as long as no transaction id has come again, *)
(* whoever shares the client and goes on after failures, a call that reads  *)
(* a frame from its beginning, head and body, and returns has read the      *)
(* server's answer to that very call, and it was well formed.  It takes a   *)
(* server whose length fields do not reach beyond what it sends.            *)
THEOREM AnswersAreOwnByTid == Spec => []AnswersAreOwnInStep
<1>1. IdInv => AnswersAreOwnInStep
  BY DEF IdInv, Ids, OwnIds, OwnAnswer, AnswersAreOwnInStep, ReadsItsOwn
<1> QED
  BY <1>1, IdInvHolds, PTL
=============================================================================
