# A TLA+ model of modbus-sim

modbus-sim is an asyncio Modbus TCP device simulator: a server that plays any
number of devices, a client built on the same codec, and background generators
that make registers move. This directory holds TLA+ modules of the parts whose
correctness is hard to test, TLC configurations that check them on small
instances, and TLAPS proofs.

Run from this directory: `tlc -config X.cfg M.tla` for a run,
`tlapm M.tla` for the proofs of M, one of `DataLemmas`, `StreamFramerProofs`,
`DeviceProofs`, `ServerProofs`, `LifecycleProofs`, `ExchangeProofs`,
`ConfigProofs` and `ClientProofs` (the longest takes some minutes).
PROJECT.json says which module each configuration belongs to, which source
lines each definition models, and for every property a mutant of the model that
breaks it.

## Inventory

| Part (source) | State | Operations | Interacts with | What makes it correct |
|---|---|---|---|---|
| Wire format (`frame.py`) | none | pack and unpack bits and registers, MBAP header, encode and decode requests and responses | everyone | decoding inverts encoding; nothing malformed is accepted; every response fits a PDU |
| `StreamFramer` (`server.py`) | the reassembly buffer | `feed`, `_next_frame` | one per connection, fed by the handler | the frames are those of the byte stream, however TCP cuts it; bounded memory; bad length fields are refused |
| Data store (`datastore.py`) | four blocks per device, a lock per device | range check, `read`, `write`, `set` | dispatcher, generators | no access outside a block; a refused access has no effect |
| Dispatcher (`dispatcher.py`) | none | `handle_request`, `process_pdu` | called under the device's lock | exception priority 01, 03, 02; all or nothing; an answer for every PDU |
| `ModbusServer` (`server.py`) | handler tasks, listening socket, generator task | `_handle_client`, `_process_frame`, `_run_generators`, `serve_forever` | framer, dispatcher, locks, asyncio transports, `asyncio.run` | answers in request order; requests are atomic; a slow, malformed or dying connection does not disturb others; Ctrl+C ends everything and loses no answer of a handler at work |
| Generators (`generators.py`) | a random walk's position | `make_generator`, `sample`, `GeneratorBinding.update` | write to devices under the lock | samples are 16-bit; updates never tear a request |
| `ModbusClient` (`client.py`) | connection, transaction id, unread bytes of answers | `connect`, `close`, `_transact` and the typed calls | the server, asyncio streams | a call returns the answer to its own request; a failed call is over, and its client can recover |
| Configuration (`config.py`) | none at run time | validators, `build_datastore` | generators, data store | what is accepted can be run; the store is as the file says |
| CLI (`cli.py`), bench (`scripts/bench.py`) | none | `asyncio.run(serve_forever())`; a few calls, or a poll loop | server, client | the one gives up at the first error, the other goes on |
| Logging (`server.py`) | none | `_log_request`, `configure_logging` | server | not part of the protocol |

The hard behaviour is: reassembly under arbitrary chunking; the interleaving of
handlers, generators and transport callbacks on one event loop at every await;
back-pressure (`drain`) next to a per-device lock; end of file, connection loss
and protocol errors in the middle of a pipelined batch; the numeric boundaries
of the protocol; in the client, timeouts with late answers, and two tasks that
share one connection; at shutdown, a cancellation that finds every task at any
of its awaits; in the configuration, what is checked at load time and what only
happens at a tick. PROJECT.json lists these as hazards, each at its line.

## Modules

| Module | Models | Kind |
|---|---|---|
| `Frame` | constants, MBAP header, what `_next_frame` asks of the buffer | operators |
| `StreamFramer` | reassembly of a byte stream | state machine |
| `StreamFramerProofs` | its invariants, proved | proofs |
| `Datastore` | `MemoryBlock`, `Device` | operators |
| `Dispatcher` | `handle_request`, `process_pdu` on decoded requests | operators |
| `Device` | one device over time, requests and generator updates | state machine |
| `DeviceProofs` | its properties, proved | proofs |
| `Codec` | the PDU codec on bytes | operators |
| `Calls` | what a caller may ask for, and the device that answers | operators |
| `DataLemmas` | words, bits, registers, frames, requests and responses round-trip; induction on naturals | lemmas |
| `Exchange` | client encode, server decode, handle, encode, client decode | state machine |
| `ExchangeProofs` | its invariants, proved | proofs |
| `Server` | handler tasks, generator task, event loop, transports | state machine |
| `ServerProofs` | its invariants and its refinement of `ModbusService`, proved | proofs |
| `ModbusService` | what the server promises: one request at a time, in order | abstract specification |
| `Client` | `ModbusClient` on a stream of bytes, its callers, the network | state machine |
| `ClientProofs` | its invariants, proved | proofs |
| `Lifecycle` | `serve_forever` under `asyncio.run`, from Ctrl+C to the end | state machine |
| `LifecycleProofs` | its invariants, proved | proofs |
| `Config` | validation, `build_datastore`, generators and their ticks | state machine |
| `ConfigProofs` | its invariants, proved | proofs |
| `MC...` | model values of the runs | TLC |

`Server`, `Exchange` and `Client` all use `Dispatcher`: `Exchange` adds the
bytes of one call, `Client` the stream that several calls share, `Server` the
concurrency. `Lifecycle` continues `Server` where it stops, at cancellation,
and keeps of a handler only the awaits. `Config` yields the devices that the
other modules are given. `Server` uses the framer through what is proved of
it: whole frames, in order, and an error exactly at a bad length field. A
definition whose comment begins with "Mutant" is a plausible bug kept for
PROJECT.json; no specification uses it.

### StreamFramer

`stream` is all the bytes the peer sends, fixed at the start; `arrived` counts
those that `feed` was given. `Feed(n)` is `self._buffer.extend(data)` with a
chunk of any size up to `READ_CHUNK`; `AwaitMore`, `RejectLength` and
`YieldFrame` are the three outcomes of `_next_frame`, repeated while `status`
is "framing" as the `while` loop of `feed` does. `frames` is a history of what
was yielded. The consumer's work between two frames does not touch the framer,
so it is left out.

### Datastore, Dispatcher, Device

A block is the sequence of its values. `Verdict` is the first check that fails,
in the order of the code: the decoder's verdict, `_require_quantity`,
`MemoryBlock._check`. The protocol's limits are constants, so that in the small
device of `MCDevice` a quantity can exceed its limit while the address range
still fits. `Device` adds `believed`, the contents an observer reconstructs
from acknowledged writes.

### Codec, Exchange

Byte strings are sequences of 0..255. Decoders that raise return the Modbus
code they raise (server) or the name of the Python exception (client). The
definitions agree with the Python functions on random PDUs, valid and not, in
both directions. `Exchange` runs one call, or one raw PDU of a foreign client,
after the other at the real limits: 2000, 125, 1968 and 123.

### Server

A task keeps the event loop until an await really suspends it, so `running`
names the task that has the loop and one action is a piece of code between two
awaits. Only when `running` is `Nobody` do callbacks and timers run (`Arrive`,
`PeerCloses`, `ConnectionLost`, `SocketTakes`, `Closed`, `Tick`). What the
model takes from asyncio: `read` returns buffered data at once, raises if the
connection was lost before the call, and returns the data that woke it even if
the connection is lost in between; `eof_received` keeps the write side open;
`drain` suspends only while the transport is paused and raises on a lost
connection; an uncontended `Lock.acquire` does not suspend, a contended one is
served first come, first served; `close` flushes what is queued. `pc[c]` is
where a handler is:

| `pc` | code |
|---|---|
| read, await, woken | about to call `reader.read`, suspended in it, resumed from it |
| frames | at the `for` over `framer.feed(data)` |
| lock | in `async with device.lock` |
| drain, paused | about to call `writer.drain`, suspended in it |
| close, closing, closed | the `finally` block, suspended in `wait_closed`, ended |

`waiters[u]` is the lock of device u, its head being the holder. `Process` is
`process_pdu`, the release of the lock, `build_adu` and `writer.write`, which
have no await between them.

Left out of `Server`: the bytes of a frame (in `StreamFramer` and `Exchange`),
the pausing of the transport's read side beyond 128 KiB of unread input (peers
send a few frames), the acceptance of connections (all are there from the
start), cancellation at shutdown (in `Lifecycle`), and errors of the socket
that are neither ConnectionResetError nor BrokenPipeError (the `finally` block
runs for them too).

### ModbusService

The abstract specification: next to the fixed `script`, `dealt`, `replies` and
`store` are the only variables, and one step deals with the next request of one connection on the
whole store, skips a frame, or is a generator's update. `Server` instantiates
it with `dealt <- done, replies <- answers, store <- devices`;
`ServesLikeOneAtATime` is the refinement.

### Client

`pc[t]` is the place of caller t in `_transact`, at the `readexactly` of the
header or of the body, and `coro[t]` whether that coroutine is about to be
called, suspended or woken. `stream` is every byte the server has sent on the
connection, `arrived` how much of it the `StreamReader` has got, `at` how much
it has handed out; `sent` records which bytes are whose answer, so that the
properties can tell. From asyncio the model takes: `readexactly` looks at n < 0
and then at the reader's exception when it is called, not when it is resumed;
at end of file it empties the buffer and raises `IncompleteReadError`; a second
coroutine that would have to wait gets a `RuntimeError`; `_wait_for_data`,
resumed, clears `_waiter` even if another coroutine has set it since, whose
wake-up is then lost; `wait_for` cancels a read without consuming anything,
also one that has just been woken. `use` says who the callers are and whether
they go on after an error, as `bench.py` does and the CLI does not. `call` and
`outcome` are what the caller sees; `clean` says that no call on this
connection has failed other than by an exception answer.

### Lifecycle

`task.cancel()` puts a task in `doomed`; the action that takes it out is the
task's next turn, in which `CancelledError` reaches its await. The main task
goes from "serving" through the `wait_closed` of asyncio's `serve_forever`
("closing") and that of `async with` ("exiting") to `await gen_task`
("joining") and "over"; `asyncio.run` then cancels what is left and waits for
it. A second Ctrl+C raises `KeyboardInterrupt` in the loop, a third one while
`_cancel_all_tasks` waits. A handler leaves its loop at end of file (`SeesEof`) and at a malformed
frame (`Malformed`), for its `finally` block; frames received before the end of
file are dealt with first. A connection that closes has flushed what was
written, one that breaks keeps it in `unsent`, as lost. `finishing` remembers the
handlers that came to the `finally` block by themselves: a cancellation finds
them in `wait_closed`, which they then leave with answers unsent.
`waits` is the one difference between the Python
versions the project allows: up to 3.11 `Server.wait_closed` returns at once
after `close`, from 3.12 on it waits for all connections.

### Config

`phase` follows a file from "load" to "rejected", or over the seeding of
`build_datastore` to "serve". Arguments of generators are integers or `Text`,
any YAML value that is not a number; `Makes` is what constructing the generator
at load time finds out, `SampleRaises` what only computing with it does.
`BlocksFit` and `Stored` repeat the checks of `MemoryBlock` and
`DataStore.add`, before and after the seeding as in the code, that the validators should have made superfluous; `WhatIsAcceptedRuns` says that they
have.

## What the runs check

| Run | Question | Bounds |
|---|---|---|
| framer | Is the sequence of frames a function of the byte stream alone? | 7 streams of up to 287 bytes with half, sticky, minimal, foreign and malformed frames and the length fields 0, 1, 260 and 261; chunks of every size up to the whole stream |
| framer_adu | Does the range of the length field keep frames within MAX_ADU_LEN, as its comment says? No. | the same |
| device | Do acknowledgements, exceptions and reads tell the truth about the device, and is the priority of exceptions the documented one? | 3 coils, 1 discrete input, 3 holding registers, 1 input register, limits of 2; every request with an address up to 3 and up to 3 values; two generated slots; unbounded time |
| server | Does every interleaving of two clients and a generator look like one request at a time, in order, without lost wake-ups, held locks or growing buffers? | scripts of 2 to 4 frames per client (reads, writes, exceptions, foreign, unknown unit, malformed), chunks of up to 3 frames, high-water mark 1, low-water mark 0, a generator whose sample may raise; end of file or loss at any time |
| server_live | Do readers get served, handlers end and generators run next to a peer that never reads? | one or two frames per client, high-water mark 0 |
| exchange | Is a call the same as calling the dispatcher? Is every PDU answered? | real limits; quantities on both sides of a byte, of every limit and of what an ADU can hold; addresses at both ends of regions and of 16 bits; about 1100 raw PDUs |
| exchange_high_bit | Does ExceptionResponse hold the function code without the high bit, as its docstring says? No. | the same |
| client | Does a cautious caller only ever get its own answers? Do transaction ids protect the others where they can? Is a client whose calls succeed as good as new? Does every call end? | five uses: a caller that stops at its first error (3 calls of 3 kinds), one that goes on (3 polls), one that goes on with a server that sends five kinds of malformed answers (2 calls), one that stops with these and a length field that declares bytes which never come (2 polls), two tasks on one client (2 calls); answers cut at every byte, timeouts at any time, end of file, loss, reconnection |
| client_late | Does echo checking protect a poller that goes on after a timeout? No. | the poller, from transaction id 773 on |
| shutdown | Does Ctrl+C end the server, send what was answered and report a dead generator? | two connections, high-water mark 1, at most one frame of each that waits to be dealt with, end of file, malformed frames and broken connections at any time, three interrupts, both kinds of `wait_closed`; peers read, and leave where the server waits for that |
| shutdown_stuck | Does Ctrl+C stop the server whatever the peers do, as the CLI announces? No. | the same with peers that owe nothing, and a `wait_closed` that returns at once |
| config | Can everything that validation accepts be built and run? Is the store what the file says, also after every tick? | 465 files: sizes, initial values, addresses, unit ids and arguments on both sides of every check, two generators on one slot, two devices |

Why the bounds are enough: the framer treats all bytes outside the length field
alike, so a stream needs one frame of each kind and its neighbours on both
sides of the bounds. In the device, the checks compare an address range with a
size and a quantity with a limit; sizes and limits of two or three have every
order of the four numbers. In the server, two handlers and the generator are
enough for every pair of tasks to meet at every await, a script of four frames
fills more than one chunk and overruns the high-water mark, and one more client
would meet the same locks and no other shared state. In the client, three calls
are what the shortest confusion takes (one that times out, one that eats half
of its answer, one that is misled), and the register contents and the first
transaction id are those for which an answer read from its middle looks like a
header; with more calls the same two would only be further apart. At shutdown a
handler is in one of five places, and two handlers have all pairs of them; the
high-water mark of 1 lets a handler stand in `drain`, and with nothing unsent
in `read`; of several frames that wait, the second is as one that comes later.
In the configuration every comparison of the code has values on both
sides of it, and sizes above 2 only add slots that no generator names.

Deadlock checking is off where the system may really stop: when a peer stops
sending, when all connections are gone and the generator task has died, when a
plan of calls has been carried out, when the program has ended, and when a file
is rejected or has no generators.

### Fairness

`Fairness` in `Server` is what asyncio's scheduling gives: a task that is ready
gets the loop (its ready queue is first in, first out; strong fairness, since
readiness is only seen between tasks), the task that has the loop goes on, a
closed transport that is flushed or lost reports it, and the timer fires. Peers
owe nothing, except that the sockets of `Readers` keep accepting responses. The
second client of the run is not in `Readers`.

`Client`: a coroutine that can run does, and the timer of `wait_for` fires. The
server and the network owe nothing, so `EveryCallEnds` rests on the timeouts.

`Lifecycle`: tasks that can run do, and a closed transport with nothing left to
send reports it. `TheyRead` and `TheyLeave` are what peers owe in the run
`shutdown`: their systems keep accepting bytes, and they disconnect in the end
if the server waits for that. Without the first, `shutdown_stuck` is what
happens; without the second, Python 3.12 does not come to an end either.

### Findings

1. `frame.py:42-45`: the comment bounds the length field by a full ADU minus
   the 6 bytes in front of it, 254, and the constant is 260. The server accepts
   frames of up to 266 bytes. (Multiple writes of 124 to 126 registers are
   answered with exception 03 because of that, and larger ones close the
   connection; with 254 the connection would be closed for 124 already.)
2. `frame.py:320`: `ExceptionResponse.function_code` is said to have no high
   bit, but `process_pdu` copies the code of a request such as 0x81 unmasked.
   On the wire nothing changes, since the encoder sets the bit anyway.
3. `client.py:3`: the client "handles transaction-id generation/echo checking
   and response framing", but a call that times out, or fails on the id, leaves
   the connection open and its bytes unread. A caller that goes on, as
   `bench.py` does, then reads from the middle of a late answer, and for one
   poll in 65535, with the right register contents, takes those bytes for the
   answer to another call. A caller that reconnects after an error is safe
   (`NothingLeftBehind`, `CautiousAnswersAreOwn`).
4. `cli.py:108` announces "Ctrl+C to stop", but a handler that is cancelled
   waits in `wait_closed`, without a timeout, until its peer has read what was
   written. A peer that does not read keeps the program alive until the second
   Ctrl+C. Python 3.11.6 does so with a client that sends requests and does not
   read the answers.

## What is proved

Every invariant of the passing runs, the action property and the refinement,
for every value of the constants that the named assumptions allow. In each of
the modules `IInv` is the inductive invariant, with one lemma per action or per
conjunct.

### StreamFramerProofs

For every set of streams (`StreamsAssumption`: they are byte strings) and every
chunk size (`ChunkAssumption`: positive): `TypeOK`, `BufferIsWindow`,
`FramesTileStream`, `FramesMatchHeader`, `BufferBounded`, `BadLengthRefused`
and `ChunkingIsIrrelevant`.

`IInv` is the conjunction of the first six; none but the bounds is
inductive alone. `FramesMatchHeader` and `BadLengthRefused` read the length
field from the bytes themselves and compare with the numbers of the tests, so
that a slip in the framer's own bounds would show; `IInv` has them in the
framer's terms (`FramesAreLegal`, `RefusedByRange`), and `DeclaredIsLength` says
that it is the same. `FramesTileStream` says that frames hold the stream's bytes,
but a frame is cut from the buffer, so a step preserves it only because
`BufferIsWindow` says the buffer still is the stream from `Consumed` on; the
bounds on the buffer need that a legal declared length is at most 260
(`TotalBounds`); a yielded frame matches its header because the header of a
prefix is the header of the whole (`HeaderOfPrefix`). `WindowOfWindow` is the
fact about sequences that carries `YieldFrame`. `ChunkingIsIrrelevant` follows
from `IInv`: the reference definition walks over the arrived bytes from frame to
frame; at the end of the last yielded frame it stops, because the handler found
no whole frame there, and from there an induction goes back frame by frame.

### DeviceProofs

For every size of the blocks (`SizesAssumption`), every set of
register values that holds 0 (`RegistersAssumption`), every set of requests
the decoder can hand to the dispatcher (`RequestsAssumption`: an accepted one
has a supported function code, natural address and count, values that fit its
region, one value in a single write) and every set of generator slots among the
registers (`GeneratedAssumption`): `TypeOK`, `AcknowledgedIsApplied`,
`ExceptionPriority` and `ReadsSeeAcknowledgedWrites`, and the action property
`OnlyNamedSlotsChange`.

The inductive invariant is `TypeOK /\ AcknowledgedIsApplied`. It is preserved
because an observer's replay does to his copy what the write did to the block
(`LearnReplaysEffect`): the handler cuts the block around the written range and
joins the pieces, the observer goes slot by slot, and `WriteBlockIsBlock` and
`ReplaceBlock` say that both give the same block if the range lies inside it.
That a range accepted by the code's two comparisons lies inside, and that one
it refuses names a slot that does not exist, is `RangeCheckIsExact`; it also
carries `ExceptionPriority`, which relates the order of the code's tests to a
definition that knows only slots. A read returns slots of the device
(`ReadReturnsSlots`), and the invariant turns them into the acknowledged ones.

### DataLemmas and ExchangeProofs

`DataLemmas` has what the codec does to data: a word is two bytes and back
(`WordIsTwoBytes`, `TwoBytesAreWord`), a byte is eight bits and back
(`BitsOfByteOf`, `ByteOfBitsOf`), packed bits and registers unpack to what they
were and, but for unused bits, the other way round (`UnpackBitsOfPackBits`,
`PackBitsOfUnpackBits`, and the same for registers), and an ADU decodes to the
header and the PDU it was built from (`AduIsHeaderAndPdu`). And it has what
both `Exchange` and `Client` rest on, the way of a request through encoder,
decoder, dispatcher and back. Induction is
`SetInduction`, over a set of natural numbers: it is proved from the library's
least-element principle and needs no operator parameter, so a statement about
all lengths is the set of the lengths for which it holds.

`ExchangeProofs`, for every plan of calls and raw PDUs (`PlansAssumption`: calls
are what the methods of `ModbusClient` can build from integers and Booleans,
PDUs are byte strings that a length field can count), every device
(`DeviceAssumption`) and all limits that leave room in a PDU
(`QuantitiesFitAssumption`, which TLC evaluates for the limits of `frame.py`),
with any unit and last transaction id: `ResponseFits`, `EveryPduIsAnswered`,
`DecoderIsExact`, `CallMeansDispatch` and `LegalCallsAreAnswered`.

The argument follows a request around. What the encoder takes is `Sendable`
(`CallIsSendable`); a sendable request comes out of the decoder as it went in
(`SendableSurvives`); what the decoder accepts is sendable
(`WellFormedIsSendable`), and two PDUs that decode to the same request are the
same bytes but for unused bits (`SameRequestSameBytes`), which is
`DecoderIsExact`; a response to a decoded request fits its PDU
(`EveryReplyFits`) and comes back as it was (`ResponseComesBack`). A call that
was not answered has an argument that explains it (`UnsentIsExcused`,
`LongWritesAreOverLimit`). `IInv` keeps, for each stage of the exchange, which
of these steps the bytes on the wire are at.

### ServerProofs

For any number of connections (`ConnsAssumption`: none of them is a generator
or `Nobody`), any scripts (`ScriptsAssumption`), devices and generator slots
(`BindingsAssumption`) and any two water marks, the low one not above the high
one (`WaterAssumption`): `TypeOK`, `NoLockAcrossAwait`, `SuspendedForAReason`,
`BacklogBounded`, `CloseDealtWithAll`, `AnsweredInOrder`, and
`Spec => Service!Spec`, the refinement of `ModbusService`.

No two of these are provable apart, so `IInv` has six parts: `Types`; `Positions`
(only the task that has the loop is between two awaits, and a handler at "lock"
has a frame to serve);
`LockOfRunning` (a lock has at most one waiter, and it is the running task at
"lock", since between `acquire` and `release` there is no await); `Writers`
(a paused transport is above the low mark and its handler in `drain`, an unpaused
one is not above the high mark); `SuspendedForAReason`; and `Dealt`
(`CloseDealtWithAll` from the moment the handler leaves its loop).
`AnsweredInOrder` compares the n-th answer with the n-th answerable frame,
found by its number (`Asked`), not by folding over the script, so its proof is
about cardinalities of sets of positions (`Replies`). The refinement maps
`Drop` to skipping a frame, `Process` to serving one, `GenUpdate` to a refresh,
and every other action leaves what the service shows alone (`VisibleSteps`).

### LifecycleProofs

For any set of connections (`ConnsAssumption`: their names are not the two
tasks'), any high-water mark, any number of waiting frames and both kinds of `wait_closed`
(`LifecycleAssumption`): `TypeOK`, `AnswersAreFlushed` and `FailureSurfaces`.
Both are settled long before the end, so `IInv` says, next to where a handler
and its transport can be (`Places`), that nothing of the end begins before
Ctrl+C (`BeforeTheEnd`); that with one Ctrl+C the runner cancels handlers only
when the main task is over, with an outcome that can no longer change
(`OneInterrupt`); and that a handler which is in its `finally` block because it
was cancelled leaves it with everything flushed, or with its connection broken
(`Flushed`). The two exceptions in `AnswersAreFlushed` are the code's: after end
of file or a malformed frame a handler is in `wait_closed` already when Ctrl+C
cancels it, `CancelledError` is not suppressed there, and what its peer has not
taken by then is lost. Without that exception TLC finds such an end.

### ConfigProofs

For every set of files of the shape that pydantic admits before the validators
(`ConfigsAssumption`): `TypeOK`, `WhatIsAcceptedRuns` and `StoreIsAsConfigured`.
`BindingsAre` says that flattening the generators of the regions and devices
yields what the file lists; `BlockIsInitial` that a block is built from its
initial values and zeros; `SampleInRange` that a sample is a word in the range
of its generator, wherever a walk is; `OnlySamplesRaise` that with an accepted
address an update fails only in the generator. `IInv` follows the bindings of
each slot through a round of ticks: those that had their turn have left the
value of the last of them, and while none had, the last one of the round before
(`LastWritten`). That is stronger than `StoreIsAsConfigured`, which names the
last binding only between two rounds; `SlotMoves` is its step. After the
seeding every generator has computed once, so all of them can (`Computes`).

### ClientProofs

For every set of uses (`ClientAssumption`: finitely many callers with requests
that the typed methods build and the encoder takes, any number of calls, and
malformed frames that no request has for an answer), every device
(`DeviceAssumption`) and every last transaction id of 16 bits, a stream of any
length that arrives in any pieces, and any number of lost and new connections:

- `TypeOK`, from `Basics`: its part `Waits`, that whoever data will wake is
  asleep in a read, is what lets a coroutine clear the waiter;
- `NothingLeftBehind`, `CautiousAnswersAreOwn` and
  `FailuresAreOfTheConnection`, from `IInv`;
- `AnswersAreOwnInStep`, from `IdInv`.

Two of them say when they hold, and not by accident. `NothingLeftBehind` is
about a single caller (`Unshared`): two tasks that poll the five registers 0, 3,
3, 3, 2560 with the ids 777 and 778 can both return, the second one having read
a header from the body of the first one's answer, and leave ten bytes unread.
`AnswersAreOwnInStep` needs `Distinct`: after as many calls as there are ids an
old answer may have the id of a new call, and a malformed frame that declares
more than it has takes in the frame behind it. Without the conditions TLC finds
each of the three. `FailuresAreOfTheConnection` is about this server, which
sends no malformed frame.

A single caller is in step with the stream (`InStep`): before his header comes
everything sent is read and his request is all that is asked, or else the last
frame of the stream, beginning where he reads, is its answer; then he has read
its header. `Solo` says that this holds as long as no call on the connection has
failed, and `Gave` that a cautious caller has made his last call when one has.
A step keeps it because the answer to a request is a PDU that fits, is decoded
to what was answered and ends where its length field says (`ReplyIsExpected`,
from the lemmas on the codec), and because a malformed frame ends the call with
an error (`OddBody`). `FailInv` adds what he can see; there `ReadClash`, two
coroutines in one read, is impossible for a single caller (`RunnerIsNotWaiter`),
and so is the `ValueError` of a negative length (`ReadRefusedFails`).

Several callers may eat each other's bytes, so nothing is said of where they
are in the stream. `IdInv` says that an id in a request, in an answer or in a
call under way is not older than that call (`Fresh`, `Age` counting backwards
around the end of the ids), so an id that is drawn is new (`FreshGrows`); that
whoever waits for a header knows his call by its id (`KnownById`); and that who
has read a header at the beginning of a frame has read his own (`HadHeader`).
TLC has checked both invariants with the bounds of the run `client`, and with
uses beyond them: few ids, frames that declare too much, three calls of two
tasks.

### Only model-checked

Liveness (`ReadersAreServed`, `HandlersAlwaysEnd`, `GeneratorsKeepRunning`,
`EveryCallEnds`, `InterruptStops`) is out of the prover's reach.

## Plan

The model covers what is planned of the system, and every invariant of the
passing runs, the action property and the refinement have their theorems. What
is left is to weaken `Distinct`: ids that have come again do no harm as long as
no answer is as many calls late as there are ids.

## Not modelled

- Argument parsing, printing and exit messages of the CLI, percentiles and
  printing of the benchmark, logging: input and output only, on which no state
  of the protocol depends.
- Floating point in the generators: fractions, rounding, NaN and infinities;
  the sine takes the values -1, 0 and 1 and a walk moves by whole steps, at the
  ends of its range.
- Reading YAML and the coercions of pydantic: a file is the data they yield.
- The client's write side: `drain` never waits in the model, since a caller
  that awaits each answer has never 64 KiB unsent; the time limit of
  `connect`, which is one `wait_for` around one call.
- A listening socket that cannot be bound: it ends the program before any of
  the state above exists.
- `encode_mbap`, which only a test calls: the program uses `build_adu`.
