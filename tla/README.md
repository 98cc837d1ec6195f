# anymodbus in TLA+

A verification development for [anymodbus](../src/README.md), a Modbus RTU/ASCII
master library on AnyIO. It holds TLA+ models of the code, TLC configurations that
check them on small instances, and proofs about them checked by TLAPS.

- [Inventory](#inventory): the parts of the system and what makes each correct
- [The modules](#the-modules): what models what, and how
- [What the runs check](#what-the-runs-check), their bounds and the fairness assumed
- [What is proved](#what-is-proved)
- [Disagreements between code and documents](#disagreements-between-code-and-documents)
- [Not modelled](#not-modelled), and [the plan](#plan)

Paths below are relative to `src/src/anymodbus/` unless they begin with `src/`.

## Inventory

| Component | State | Operations | Interacts with |
| --- | --- | --- | --- |
| **Bus** (`bus.py`) | `_lock`, `_closed`, `_startup_settled`, `_last_io_monotonic`, `_quiet_until`, `_request_count`, observer list, cached timing and stream capabilities | `_txn` (retry loop), `_one_txn`, `_broadcast`, `_send_broadcast`, `_await_line_idle`, `_finish_attempt`, `aclose`, `add_transaction_observer` | called by Slave and the blocking facade; calls the framer and the byte stream; calls observers |
| **Configuration** (`config.py`) | immutable | `TimingConfig`, `RetryPolicy`, `BusConfig`, `estimate_late_reply_window` | read by Bus |
| **RTU framer** (`framer.py`) | a buffer per read | `read_adu`, `encode_adu`, `read_request_adu`, idle-gap read, stray drain | receives from the stream within the bus's read deadline |
| **ASCII framer** (`framer_ascii.py`) | none: it reads one byte at a time | `read_adu`, `encode_adu`, `read_request_adu` | as the RTU framer |
| **Checksums** (`crc.py`, `lrc.py`) | none | `crc16_modbus`, `lrc8`, their checks | framers |
| **Response interpretation** (`framing.py`) | none | `interpret_response_pdu`: function code, exception responses | between framer and decoder |
| **PDU codecs** (`pdu.py`) | none | `encode_*_request`, `decode_*_response` | Slave (encode), Bus (decode, in the attempt) |
| **Slave** (`slave.py`) | `_capabilities`, what the last probe found | reads, writes, loopback, typed reads and writes, `probe` | Bus |
| **Probe** (`slave.py`, `capabilities.py`) | the verdicts so far | for each read function code one request, repeated at further addresses while the slave says that the address is not there | Slave |
| **Observers** (`transaction.py`, `bus.py`) | the list of observers | add, remove, one `TransactionInfo` per attempt | called under the bus lock |
| **Decoders** (`decoders.py`) | none | words to and from int, float, string | Slave |
| **Blocking facade** (`sync.py`) | the portal and its reference count, the open buses | calls from threads, per-call timeout, `close` | runs Bus on an event loop in another thread |
| **Mock slave and server** (`_mock/`) | register banks, response counters, fault plan | serve requests, broadcasts, one-shot faults | the other end of the line in tests |
| **Openers** (`stream.py`) | none | `open_modbus_rtu`, `open_modbus_ascii` | anyserial |
| **Tables** (`_types.py`, `exceptions.py`) | none | function codes, `is_idempotent_function`, exception classes | all |

### What is hard here

One lock serialises everything, so no two tasks are on the line together. What
makes the bus hard is that an attempt can end *before the line is finished with
it*. Every `await` between taking the lock and returning can be cancelled, time
out or raise; the request may by then be in the kernel, on the wire or at the
slave, and its reply may arrive during a later attempt, of the same caller or of
another. A Modbus RTU reply carries no transaction number: a read's reply does
not even repeat the register address. So what the next attempt does depends on
four pieces of state that the previous one left behind, on how it ended, and on
what is still moving on the line.

- *Stale replies.* The late-reply window (`_quiet_until`) is opened by one task,
  outlives it, and is waited out by another, which may be cancelled or fail while
  waiting.
- *Retries* re-enter the same path after a backoff that may be shorter than the
  window, and must not repeat a write.
- *Spacing.* The inter-frame gap is measured from `_last_io_monotonic`, which is
  stamped when the attempt ends, not when the wire goes quiet.
- *Broadcast turnaround* and *startup settle* are promises about the line kept only
  by a sleep of one task.
- *Termination.* A noisy line must not starve the discard; a dead or closed stream
  must not strand the callers behind the lock; the lock must be passed on however
  its holder ends.

What the other components are exposed to is listed, line by line, under `hazards` in
`PROJECT.json`.

### What makes each component correct

- **Bus**: a reply is only taken for the attempt it answers; frames keep their gap;
  a write is not repeated by the retry loop; turnaround and settle are held; every call
  ends.
- **Framers**: a well-formed frame is returned whole and its successor untouched;
  a damaged one raises and does not become part of a good one; a stray frame
  costs no more than itself; every read ends by the byte limit or the deadline.
- **PDU codecs, interpretation**: a decoder accepts exactly the replies the request
  can have; encoders refuse quantities past the specification's limits.
- **Observers**: one report per attempt, in order, numbered as `transaction.py` says;
  what an observer does cannot change the outcome of the call.
- **Slave**: its calls read and write the registers of a slave as a memory: a call that
  returns took effect, once and as asked; a refused one did not; any other may have.
- **Probe**: a function code is called supported or unsupported only as the slave has it; a
  probe that fails leaves the last report alone.
- **Decoders**: decode and encode agree with a reference definition of word and byte
  order, not only with each other.
- **Blocking facade**: a call made after `close` sends nothing, one in progress ends, the
  portal lives as long as a bus needs it and no longer.
- **Mock**: each one-shot fault strikes the response its plan names.

## The modules

| Module | Role |
| --- | --- |
| `ModbusBus` | the bus, its callers, the byte stream below it and the slaves: state, actions, properties, inductive invariant |
| `MCBus` | gives `ModbusBus` its constants for TLC: two callers and six requests of every kind |
| `RequestReply` | the abstract specification that the bus implements: calls served in turn, each with its own answer |
| `ModbusBus_proofs` | proofs about `ModbusBus`: types, writes sent once, no stale reply, the promises about time and to callers |
| `RtuFramer` | the RTU readers of client and server, byte by byte |
| `RtuFramer_proofs` | proofs that it accepts whole frames, begins at boundaries and spares what follows a stray frame |
| `MCRtuFramer` | its readers and lines for TLC, by name |
| `AsciiFramer` | the ASCII readers of client and server, character by character |
| `AsciiFramer_proofs` | proofs that it accepts whole frames and loses one frame to damage at most |
| `MCAsciiFramer` | its frames and damage for TLC |
| `FrameTables` | the length tables of `framer.py`, for `RtuFramer` and `MockServer` |
| `Pdu` | `pdu.py` and `interpret_response_pdu`, on bytes |
| `Pdu_proofs` | lemmas about the codecs: lengths, layout, and that a server reads from a request what was asked |
| `MockServer` | the mock slaves of one line with their banks and fault plans; extends `Pdu` |
| `SlaveClient` | slave handles, broadcasts and probes against `MockServer` |
| `Registers` | the abstract specification that `SlaveClient` implements: a memory |
| `SlaveClient_proofs` | proofs about it: types, faults, verdicts, layout, lengths, and that it implements `Registers` |
| `MCSlaveClient` | its devices, calls and faults for TLC |
| `Decoders` | `decoders.py`: numbers and strings in registers |
| `Fields` | one field of a device, which a host reads and writes with the typed calls |
| `Fields_proofs` | proofs about both: arithmetic of the codecs, what host and device read of each other |
| `MCFields` | formats and values for TLC |
| `Portal` | AnyIO's portal provider as `sync.py` uses it (external) |
| `SyncBus` | threads that share blocking buses, the tasks on the loop, observers; extends `Portal` |
| `SyncBus_proofs` | proofs about the leases of the portal |
| `SyncTasks_proofs` | proofs about the calls on the loop, close, the lock and the reports; extends the one before it |
| `MCSyncBus` | its scopes for TLC |

### `ModbusBus`

The holder of the lock is in a **phase**: the `await` it is suspended in. Between
two awaits the code runs without interruption (asyncio and trio switch tasks only
there), so an action is one resumption: everything from an await to the next
one, or to the end of the call with its `finally` clauses.

| Phase | Await in `bus.py` | Left by |
| --- | --- | --- |
| `free`, `granted` | `async with self._lock` (422, 493) | `Call`, `FirstAttempt`, `CancelQueued` |
| `discard` | `stream.receive` in `_discard_late_bytes` | `DiscardLate`, `DiscardOver` |
| `settle`, `gap` | the sleeps in `_await_inter_frame_gap` | `WaitOver` |
| `reset` | `reset_input_buffer` | `ResetInput` |
| `sending` | `stream.send` | `HandOver` |
| `draining` | `stream.drain` | `Drained` |
| `txsettle` | the sleep of `post_tx_settle` | `TxSettled` |
| `reading` | `framer.read_adu` under `fail_after` | `ReadFrame`, `ReadDamaged`, `SkipStray`, `ReadTimeout` |
| `turnaround` | the sleep in `_send_broadcast` | `TurnaroundOver` |
| `backoff` | the sleep between attempts in `_txn` | `NextAttempt`, `CancelBackoff` |

`CancelAttempt` and `StreamFails` end an attempt from any phase where the code can
be cancelled or the stream can raise. All attempt-ending actions go through
`FinishAttempt`, which is `_stamp_end`, `_finish_attempt` and the `except` clauses
of `_txn`: stamp the time, open the window by `OpensWindow`, retry by `ShouldRetry`, else
release the lock.

| Variable | Code |
| --- | --- |
| `closed`, `settled` | `_closed`, `_startup_settled` |
| `ioAge` | the time since `_last_io_monotonic`, counted up to the gap; `Never` while it is 0.0 |
| `quiet` | the time left to `_quiet_until`; `NoWindow` for `None` |
| `queue`, `req` | the waiters of `_lock` (AnyIO's lock is first come, first served) and what each asked for |
| `attempt`, `sends` | the loop variable of `_txn`; how often this call has handed its request over (history) |
| `timer`, `idleLeft`, `limitLeft` | the sleep or deadline in progress; the two deadlines of `_discard_late_bytes` |
| `stream` | whether the stream works, or which exception it raises |
| `line` | exchanges in progress outside the program: request in the kernel (`tx`), at the slave (`slave`), broadcast being carried out (`work`) |
| `rx` | the input buffer |
| `hush`, `warm` | history: silence since the last requested frame ended; time since the first attempt began |
| `ended` | history: the call that ended in the last step, if one did, and what `_txn` or `_broadcast` returned or raised for it |

**Time** is in ticks. The code's absolute times become the time left to them, or
since them, so that the state space is finite without bounding the length of a run.
`Tick` advances them together. An expired timer does not have to be served at once:
the event loop may be late by any amount.

**Data.** Bytes are grouped in frames. A frame carries whose request it
answers, whether it is good, an exception response, or damaged, and `cur`, a history
flag saying that it answers the attempt in progress. `Answers`, `Refuses` and `Stray`
state what the framer's address check, `interpret_response_pdu` and the response
decoders tell apart, and no more: two reads of the same shape from one slave accept each
other's replies. A damaged frame may leave any remainder and may swallow
what follows it (`ReadDamaged`, `SkipStray`): that is coarser than the framers,
so it includes what they do.

**Outside the program** (external): the kernel holds a request for at most
`TxMax`; the slave's reply, if any, has ended at most `ReplyMax` later; requests and
replies are lost or damaged; noise arrives; the stream raises each of the exceptions
`_stream_error` distinguishes, and an `OSError` may pass.
A cancelled `send` may or may not have handed its request over.

### `RequestReply`

`RequestReply` is what the users of a bus rely on, without time, frames or a window. Calls are served
one at a time, in order. The request being served is put to its slave (`Ask`) at most once, or, if it may be
repeated, `Retries` times more; for each time the slave answers once or not at all (`Answer`, `NoAnswer`). A call
that returns a reply, or raises the slave's exception response, does so with what the slave answered to *its own last*
`Ask`; a broadcast that returns was put to the line once; any call may fail at any moment (`End`), and one that
waits may leave (`Leave`).

`ModbusBus` implements it (`KeepsPromise`). What a call returns is the outcome of its last attempt (`FinishAttempt`), or
`cancelled` where it waited; `ended` keeps it for one step. `answer` maps the state of the line to what has
come of the attempt's request: `due` while it is on the line, then what is in the input buffer; `sends` is how often
it was put. A reply that belongs to an earlier attempt is nothing in `RequestReply`, so a call cannot return it.

### `RtuFramer`

The reader is in a `mode`: it awaits a number of bytes (`exact`, `_read_exact`), the rest of a
frame whose length it does not know (`gap`) or of another slave's frame (`stray`, both
`_read_until_idle`), or silence (`drain`: `_drain_until_idle` in the server,
`Bus._discard_late_bytes` before a client's attempt after a failed one, abstracted to
"until the line pauses"). `NextMode` is the decision the code makes on the bytes it has:
address, function code, byte count, checksum; `Target` is how far it reads before the next
decision. A receive takes what has arrived and never more than it asks for, so frames
come cut in every way.

The line carries bytes and pauses (silences of at least the idle gap). The reader sees
every pause: it is scheduled within one. A delay of the scheduler that splits a frame is a
pause inside the frame. Each byte carries two history flags: whether it is the first of a
transmission, and whether that transmission is a whole frame. A checksum verifies exactly
the frames of `Adus`.

`setup` names the reader and line examined, chosen by `Init`: `damage` (a client with
deadlines and a late-reply window; function code, byte count or address
changed, or a frame cut short), `jitter` (replies of known length that come late in
part), `server` (requests, some damaged), `drip` (a line that never pauses) and
`splitstray`.

### `AsciiFramer`

`mode` is where `read_ascii_frame` is: before the colon (`seek`), between colon and CR
(`body`), before LF (`lf`). Every action but the ends of stream and deadline receives
one character. No timing is involved. `server` distinguishes `read_request_adu`
from `read_adu`, which skips frames of other slaves before it judges their LRC.

### `Pdu`, `MockServer`, `SlaveClient` and `Registers`

Here a frame is its bytes. `Pdu` has every encoder and decoder as an operator; a decoder's result
is a value or the kind of error it raises. `MockServer` takes a request from the line
(`DropRequest`, `ServeBroadcast`, `ServeRequest`), stores in the slaves' banks, where coils are
packed in bytes as in the code, and puts a reply on the line through `SendResponse`, which is
`MockSlave.send_response` with its fault plan. Users override a slave's `handle`; what such a
subclass does differently is in `Device[s].handle`: it answers amiss, as the scripted slaves of the tests do
(`distorts`), stores and echoes another value than it was told (`clamps`), or refuses addresses by a
rule of its own, as in `src/docs/testing.md:82` (`from_one`).

| Code | `SlaveClient` |
| --- | --- |
| a call of `Slave`, a broadcast of `Bus` | `Call`; `Reject` if its encoder raises |
| `_txn` with the lock, an attempt, `_should_retry` | `Acquire`, `Send`, `Retried` in `End` |
| what ends an attempt | `Receive` (checksum, `Interpret`), `TimeOut`, `Interrupt` (cancelled, or an error of the stream), `BroadcastSent` |
| a reply in another slave's name | `SkipStray` |
| `MockServer.serve` | `Serve` |
| `Slave.probe` | `StartProbe`, `ProbeNext`, `ProbeFails`; `probe` is its local state, `caps` is `_capabilities` |
| a master that writes malformed requests to the line | `ForeignRequest` |

`ModbusBus` keeps time and the lock's queue; here the holder of the lock is `owner` and a time out
may strike at any moment of an attempt, so that a request may still be served after its call has
failed. That nothing of the last request is left when the next is sent is what `ModbusBus` is
proved to guarantee (`NoStale`, `PromiseKept`), given a window that is long enough.

`Registers` has no frames, no lock, no retries. A call is invoked, takes effect on the
memory, and returns; it may be refused, rejected or fail; a failed one may still take effect
(`LateEffect`), and only one may be in that state. `SlaveClient` maps to it by unpacking the banks
into `mem`; `late` is the call of the request on the line, if that call is over. `op` is the
same variable in both: it records what came of the call *by the call's own arguments* (`effect`,
`seen`), never by its bytes. So an encoder that puts a value in the wrong place, a decoder that
cuts bits off, a retry of a write, or an echo taken without being compared are steps that the memory
cannot make.

### `Decoders` and `Fields`

`Decoders` has `encode`, `decode` and what they are made of. `Fields` puts one field in a device's
registers, with a register on either side. `DeviceWords` says *place by place* where a
device of a given format keeps each byte, and `Holds` what it can hold: the reference definition,
which uses neither the packing nor the range check of the code. The host reads and writes through
`Decode`, `ReadString` and `Encode` (`HostReads`, `HostDecodes`, `HostWrites`, `HostWritesBack`)
and has the device's format except that it may assume other word and byte orders.
A byte has `Base` values, so that eight bytes stay within TLC's integers. A float is the sequence of
the bytes that `struct` gives it: which number that is, is left to `struct`. Characters have one
byte or two, so that a text may be cut inside a character.

### `Portal` and `SyncBus`

| Code | `SyncBus` |
| --- | --- |
| a thread inside a call of `sync.py` | `thread[t]`: its `pc`, the bus, the task it waits for and the portal it leased |
| the coroutine `_call_with_timeout` runs | `task[k]`: its kind and `stage`, from `started` to `done` |
| `open_modbus_rtu`, `open_modbus_ascii` | `Open`, `OpenPort`, `Opened`, `OpenFailed` |
| any blocking call of a bus or a slave handle | `Request`, `Returned` |
| `Bus.close`, `_release_portal`, `provider.__exit__` | `Close`, `Closed`, `Release`, `StopPortal`, `Joined` |
| `close` of a bus that is closed or being closed | `CloseAgain` |
| `close` on the loop's own thread | `CloseOnLoop` |
| `_txn`, `_broadcast` up to the lock; with it | `Start`; `Acquire`, `Send`, `Attempt`, `BackoffEnds` |
| `_finish_attempt`, `_call_observer` | `AttemptEnds`, `Deliver`, `Reported` |
| `add_transaction_observer` and the function it returns | `AddTransactionObserver`, `RemoveObserver` |
| `aclose` | `StartAclose`, `StreamCloses` |
| the call's own timeout | `Cancel` |
| `KeyboardInterrupt` in a waiting thread | `Interrupt`, `Forgotten` |

The loop of a portal runs one task at a time from await to await. The delivery of a report is
the one place where other *threads* act between two steps of the loop (they add and remove
observers), so it has a step for each observer, and `LoopFree` keeps the other tasks of that
loop out meanwhile. `queue` is `Bus._lock`: its first task holds it. An attempt is `Send` and an
outcome; `ModbusBus` says what happens in it. `ghost` is history: `log` holds the reports
of the request in progress as an observer that was always there is told them, `kept` and `told` count
registrations and deliveries of the report in progress.

`close` checks and sets `_closed` without a lock. With the interpreter's global lock no other thread
runs between the two, so `Close` is one step; a free-threaded build is outside the model. A new task
is any free one; they are alike, so the model takes one by `CHOOSE`.

`Portal` is external: a provider that counts leases and starts a portal for the first, under a lock of
its own; the last to leave stops that portal and joins its thread *outside* the lock, while another
thread may already start the next one.

## What the runs check

| Run | Expect | Question |
| --- | --- | --- |
| `window` | pass | Two callers, two reads of different slaves and a write; cancellation at *every* await; lost, late and damaged replies, noise, a stream that ends, breaks or fails for a while. With `Window > TxMax + ReplyMax`: `NoStaleReply`, `NoWindowNoReply`, `WriteSentOnce`, `FrameSpacing`, `TypeOK`. |
| `fair` | pass | Broadcasts, startup settle, backoff, input reset, a stream that closes or ends, cancellation everywhere except while sending, settling or holding the turnaround. `TurnaroundHeld`, `SettledBeforeFirst`, `FrameSpacing`, every call ends; `NoStaleReply` with a window that covers only request-to-reply time; and `KeepsPromise`. |
| `cancelled_send` | violation | the documented window size, with a cancelled send |
| `cancelled_turnaround` | violation | the turnaround when the broadcast is cancelled |
| `cancelled_settle` | violation | the startup settle when the first call is cancelled |
| `stuck_send` | violation | every call ends, when the kernel never accepts a request |
| `rtu_frames` | pass | the first four setups of `RtuFramer`: `WholeFrameAccepted`, `StartsAtBoundary`, `StraySparesReply`, `GapReadEnds`, `TypeOK` |
| `rtu_split_stray` | violation | a stray frame that comes in two pieces |
| `ascii_frames` | pass | a client or a server, whole, damaged and cut off frames of two slaves, an end within a frame: `WholeFrameAccepted`, `DamageCostsOneFrame`, `TypeOK` |
| `registers` | pass | every call of a slave handle, two callers on one coil, a probe, broadcasts, malformed requests; slaves that refuse, clamp and answer amiss; replies lost, damaged or in another name; retries, time outs, cancellation: `ReadsAndWritesMemory`, `WireLayout`, `FramerKnowsLength`, `OneShotFaults`, `VerdictTrue`, `CacheBacked`, `TypeOK` |
| `decoders` | pass | a device and a host on one field of every type, order, length, padding: `HostAndDeviceAgree`, `RefusedOnlyIfUnfit`, `WriteBackKeepsMemory`, `NeighboursSpared`, `TypeOK` |
| `facade` | pass | two threads that open, call, interrupt and close; timeouts, retries, observers that come and go, closes on the loop's thread: `PortalServesOpenBuses`, `OrphanOnlyFromLoop`, `StreamClosedOnRelease`, `NothingSentAfterClose`, `ReportsInOrder`, `ReportsNotMixed`, `ObserversTold`, `EveryCallReturns`, `TypeOK` |

The two passing runs of the bus split the features because time counters multiply; between them
every action fires. The restriction of `fair` is the complement of the three
violation runs: each shows what happens without it.

What the properties say:

- `NoStaleReply`: whenever the bus is reading, any buffered frame it would accept
  as the reply or as an exception response answers *this attempt's* request.
- `NoWindowNoReply`: when the bus remembers no window and has sent nothing, no
  slave is about to answer it. This is why forgetting `_quiet_until` at the end
  of a discard is safe.
- `FrameSpacing`: no frame goes out unless the line has been silent for the gap since the
  last frame, of either direction, ended. It holds with cancelled
  sends only because the window also keeps the next request away from the one in
  the kernel.
- `WriteSentOnce`: with `retry_idempotent_only`, no write or broadcast is handed over twice.
- `TurnaroundHeld`, `SettledBeforeFirst`: the two sleeps as promises about the line.
- `EveryCallEnds`: every call returns or raises, hence the lock is always passed on.
- `KeepsPromise`: the bus implements `RequestReply`. It is the end-to-end statement: the window, the lock, the retry
  rule and the way attempts end are all needed for it. With the window and the cancelled sends of run `cancelled_send`
  TLC finds a call that raises another call's exception response.
- `WholeFrameAccepted` (both framers): a read that begins at the start of an undamaged frame
  never rejects it, however it is cut into chunks and whatever came before it.
- `StartsAtBoundary`: after a failed read, a server, or a client with a late-reply window,
  begins at the start of a transmission. This is what the server's drain is for;
  without a window a client has no such guarantee.
- `StraySparesReply`: draining another slave's frame takes no byte of the awaited one.
- `GapReadEnds`: reading to a pause ends on a line that never pauses.
- `DamageCostsOneFrame`: the colon of a whole frame is never read as part of what came
  before, if the damage is inside that frame. A frame cut off before its CR LF does
  cost the next one, and no more.
- `ReadsAndWritesMemory`: `SlaveClient` implements `Registers` (`Memory!Spec`, through
  `INSTANCE Registers WITH`).
- `WireLayout`: a request's data are where the protocol has them. The values and the bytes are compared as
  one large number (coils as binary digits, bytes as digits of base 256, lowest first), not by
  undoing the encoder, which would agree with an encoder that is wrong in the same way.
- `FramerKnowsLength`: the codecs of `pdu.py` and the tables of `framer.py` give every message
  the same length.
- `OneShotFaults`: a `FaultPlan` fault strikes one response, however it ended.
- `VerdictTrue`, `CacheBacked`: what a probe caches is true of the slave, although a device
  may answer anything; the cache changes only as a whole, from one probe that saw no other error.
- `HostAndDeviceAgree`: host and device with the same format read what the other stored; a signalling
  NaN of a float32 as the quiet one that `struct` makes of it.
- `RefusedOnlyIfUnfit`: an encoder raises exactly for what the device cannot hold.
- `WriteBackKeepsMemory`: a number read with any orders, right or wrong, can be written back, reads as
  the same number afterwards and leaves the registers as they were. The registers may change when, in
  these orders, they say a float32 signalling NaN (`Changing`): `struct` goes through a C double, which sets
  its quiet bit, and an ordinary number read in a wrong order can look like one. The run has such
  registers; without the exception TLC finds them.
- `NeighboursSpared`: no call writes past its field.
- `PortalServesOpenBuses`: a bus that has not been released can always be called, whatever other
  buses are opened, fail to open or are closed meanwhile.
- `OrphanOnlyFromLoop`: a portal that runs without a bus was left by a close on its own thread.
- `StreamClosedOnRelease`: a bus that a thread closed has its stream closed, or an `aclose` still at it,
  even when the thread's timeout has expired or it was interrupted.
- `NothingSentAfterClose`: a call begun after a close has returned never gets to the line, whether that
  close ran `aclose` or found the bus closed and returned at once (`CloseAgain`). `Late` leaves out
  two cases in which the code sends such a call: a second `close` returns while the first one's `aclose`
  is still on its way to the loop, and a call begun before it starts there may be sent; and a `close` on
  the loop's own thread marks the bus as closed without an `aclose` (`AcloseMissing`).
- `ReportsInOrder`: attempts are numbered from 1; all reports but the last announce the next attempt; the
  last does only if the request is still in progress *or was cancelled in its backoff*.
- `ReportsNotMixed`: a report is of the request last begun: requests do not interleave their retries.
- `ObserversTold`: an observer registered throughout a report is told of it, once for each
  registration; one that came later is not.
- `EveryCallReturns`: every blocking call returns, a close that stops and joins the loop's thread
  while others call included.

### Bounds

| Constant | Value | Why it is enough |
| --- | --- | --- |
| `Callers` | 2 | what a task finds was left by one other task or by itself; a second waiter finds the same bus state |
| `MaxExchanges` | 2 | one left over and one current. It bounds the model's line, not the bus: `HandOver` waits for a free one |
| `RxMax` | 2 | a leftover frame with the awaited one behind it |
| `Retries` | 1 | first, further and last attempt all occur; the proofs cover any number |
| `Gap`, `Backoff`, `PostTxSettle`, `StartupSettle` | 0 to 2 | zero and nonzero of each; a gap of 2 lets a timer expire strictly between two moments of the line |
| `RequestTimeout` | 1 | shorter than the slowest reply, so that replies are late |
| `TxMax`, `ReplyMax` | 1, 1 or 2 | a request may still be in the kernel when its attempt has ended |
| `Noise` | into an empty input buffer | a second piece of noise behind a frame is read as one damaged frame with it |
| `Window` | 4 = just above `TxMax + ReplyMax` in `window`; 2 = just above `ReplyMax` in `fair` | the smallest values for which the properties hold; `cancelled_send` uses 3, enough for the reply alone |
| `MaxByteCount`, `MaxTail` (RTU) | 4, 8 | as 250 and 254 in the code: every frame used fits and a longer one does not; a byte count of 255 is past the limit, of one more or less is damage below it |
| `BufferMax` (RTU) | 4 | a receive returns one to four bytes: a header, part of a frame, or bytes across its end |
| transmissions (RTU, ASCII) | one at a time on the line | the next begins only once the last has been received or is in the buffer; in RTU with a pause between them |
| `MaxHexChars` (ASCII) | 8 | one frame is longer |
| quantities (`Pdu`) | `MaxReadBits`, `MaxWriteCoils` 10, registers 2 | bits in one and in two bytes and over a byte's edge; at a limit and past it |
| `Device` | coils 10, 0 to 3 registers | the last coil is not the last bit of a byte; a device without input registers; each has a disabled function code |
| `Setups` | five teams of callers, each with a fault plan | each question in one behaviour without the product of all of them: writes and faults, answers amiss, a probe, two writers of one coil, broadcasts and malformed requests |
| `Malformed` | six requests | one for each check of a server's decoder |
| `IndexMax` | 2 | the response counter saturates past the last fault's index |
| `Outside` | 0, 1 | the values the device gives its inputs |
| `Walk` | two addresses | a probe goes on, and comes to the end; the code has more |
| `Base` | 4 | `Base^8` is 65536; an even base has two's complement |
| `Values`, `Spares` | both ends of each range and one past them, a number whose bytes differ; characters of one and two bytes | every comparison of the range checks has values on both sides |
| `Portals`, `Tasks`, `Threads`, `Buses` | 2, 3, 2, 2 | one portal ends while the next serves; two calls and a forgotten one |
| `Scopes` | two buses with a request on one; one bus with a request and two registrations; with two requests; with a request and an interrupt | what the model's state is the product of, taken apart |
| `Retries` | 1 | in `registers` and `facade` too |

`ioAge`, `hush` and `warm` saturate where no guard can tell further values apart.

### Fairness

`EveryCallEnds` is checked under `FairSpec`: weak fairness of

- `Tick`: time goes on;
- `BusStep`: the task that holds the lock runs when what it awaits has happened, as
  both event loops schedule ready tasks;
- `ReadTimeout` on its own: a deadline that has passed is delivered even if stray
  frames keep the read busy;
- `LineStep`: what is on the line arrives or is lost;
- `CloseStream`: `aclose` shields its close from cancellation;
- `HandOver`: the kernel accepts the request. This is the one assumption that the
  code does nothing to support, so it is separate: `stuck_send` drops it.

Nothing is assumed of callers, faults, noise or cancellation.

`GapReadEnds` is checked under `BusyLineSpec`: the reader is scheduled when it can go on
(`WF_vars(ReaderStep)`), and stations keep sending or the line goes on to its next pause
(`WF_vars(LineStep)`). Without the latter the first receive of `_read_until_idle` may wait
for ever, as its docstring says; the caller's deadline then ends it, and that needs no model.

`EveryCallReturns` is checked under the `Fairness` of `SyncBus`: each thread inside a call takes
its next step (`ThreadStep`), each task takes its next step (`TaskStep`), a portal that is stopped and
whose tasks have ended ends (`PortalEnds`). For a task in an attempt that is what `EveryCallEnds`
of `ModbusBus` says: the read ends by `request_timeout`, the stream's `send` and `aclose` return.
Observers return: one that does not blocks the loop's thread, and with it everything.
Nothing is assumed of `Open`, `Request`, `Close`, `Cancel`, `Interrupt` or the observers' comings and
goings. The refinement `ReadsAndWritesMemory` is a safety property and needs no fairness.

## What is proved

TLAPS checks every theorem for every value of the constants that satisfies the assumptions of
the module it is about. Where a theorem needs more, that is a *named hypothesis in its statement*.

### The bus

`RequestsAssumption`, `ConfigAssumption`, `LineAssumption`: any set of callers and
requests, any timing and retry policy, any line.

| Theorem | Property | Under |
| --- | --- | --- |
| `TypeCorrect` | `TypeOK` | |
| `WritesOnce` | `WriteSentOnce` | |
| `NoStale` | `NoStaleReply` | `WindowSuffices` |
| `ClosedWindowIsSafe` | `NoWindowNoReply` | `WindowCoversReply` |
| `SettledFirst` | `SettledBeforeFirst` | `SettleKept` |
| `TurnaroundIsHeld` | `TurnaroundHeld` | `TurnaroundKept` |
| `PromiseKept` | `KeepsPromise` | `WindowSuffices` |
| `FramesSpaced` | `FrameSpacing` | `WindowSuffices`, `GapCovered`, `BroadcastsDrained` |

- `WriteSentOnce` is not inductive. `BaseInv` adds to the types that a caller is
  queued once exactly while it calls (`CallsOK`), and relates the sends to the attempt
  and the phase (`AttemptsOK`): an attempt hands over once, and an attempt after the
  first is only made for a request that may be repeated.
- `WindowCoversReply` is `Window > TxMax + ReplyMax`. `WindowSuffices` also admits a bus where every
  request stays with its attempt until it has left the kernel (`SendsDrained`: the stream has `drain`,
  neither it nor `send` is cancelled, and a stream that fails stays so) and the window is only longer
  than the slowest reply, which is how `estimate_late_reply_window` sizes it. Where a send can be
  cancelled that size does not suffice: run `cancelled_send`.
- The inductive invariant `IInv` adds what may be on the line in each stage
  (`LineOK`), that what belongs to the current attempt exists only between its sending and its
  end (`RxOK`), that there is at most one such exchange or frame (`OneReply`), and the heart
  (`WindowOK`): any exchange left over from an earlier attempt is due strictly
  before the window ends, and while no window is remembered the buffer holds no
  frame of an earlier attempt. Each of the actions keeps this, including the
  ones that end an attempt in every way; the discard may only forget the
  window when it has lasted and the buffer is empty. Where sends are drained a
  request is left in the kernel only by a stream that failed for good (`KernelEmpties`); such a stream
  delivers nothing more, so the shorter window need not cover that request (`Mute`).
- `PromiseKept` is a refinement: each step of `ModbusBus` maps to a step of `RequestReply` (`CallsRefine`, one lemma for
  each kind of step). Handing over is `Ask`, the slave's reply is `Answer`, dropping the buffer or the end of
  an attempt that is retried is `NoAnswer`, the release of the lock is `End`; time, the discard and the sleeps are nothing.
  It rests on `IInv` (what is read belongs to this attempt, and there is at most one such frame) and on `SentOK`: what
  is read for, or held in a turnaround, has been sent.
- The settle and the turnaround are sleeps of one task. `SettleOK` says that before the
  settle the line has not been touched, and that it is over or its sleeper still holds the lock; `TurnOK`
  that a broadcast at work is done before its sender's sleep is. Both break if the
  sleeper is cancelled, so `SettleKept` and `TurnaroundKept` exclude that; runs
  `cancelled_settle` and `cancelled_turnaround` show that they have to. `TurnaroundKept` also
  asks for `SendsDrained`.
- `FrameSpacing` is about the wire, and the bus counts its gap from the end of the *attempt*. `SpacingOK`
  relates the two: the silence of the line (`hush`) is at least what the
  current wait has counted, unless a window keeps the next request away. With a cancelled `send`
  that takes a window which also covers the gap after the latest moment the request may leave
  the kernel (`WindowCoversGap`, `TxMax + Gap <= Window`); with drained sends it takes nothing more
  (`GapCovered` is either). TLC finds the counterexample otherwise
  (`Gap` = `Window` = 4, `TxMax` = 1: the request leaves late and its reply is lost). A slave that keeps the gap before it
  replies has `ReplyMax >= Gap`, and then the first hypothesis implies the second. A
  broadcast opens no window, so a bus that broadcasts has to drain its sends (`BroadcastsDrained`). Run `window`
  satisfies the three hypotheses with the longer window and no broadcasts, `fair` with drained sends.

### The framers

| Theorem | Property | Under |
| --- | --- | --- |
| `RtuFramer_proofs!TypeCorrect` | `TypeOK` | |
| `RtuFramer_proofs!WholeAccepted` | `WholeFrameAccepted` | `FramesFit` |
| `AtBoundary` | `StartsAtBoundary` | `CleanLine` |
| `StraySpared` | `StraySparesReply` | `CleanLine`, `Resync` |
| `AsciiFramer_proofs!TypeCorrect` | `TypeOK` | |
| `AsciiFramer_proofs!WholeAccepted` | `WholeFrameAccepted` | `AdusFit` |
| `OneFrameLost` | `DamageCostsOneFrame` | |

Any reader, any line, any way of cutting the line into receives. `FramesFit` and `CleanLine` are
predicates of the setup, which does not change:

- `FramesFit`: transmissions end in a pause, and an undamaged frame sent to this reader
  is as long as the tables or its byte count say, or of unlisted function code, short enough and without a
  pause after its header. Setups `damage`, `jitter` and `server` satisfy it. The invariant
  `WholeOK` says that a frame begun with the first byte of a whole frame is as much of
  that as has been received, the rest being still ahead on the line; that what is awaited is decided by
  these bytes alone; and `PrefixAccepted` that no beginning of such a frame is an error.
- `CleanLine`: a pause only at the end of a transmission, damage that the CRC shows
  (`DamageShows`: no transmission begins with a frame that is not all of it, none that was cut off
  is made a frame by the next one), and to a client transmissions between a header and an ADU. Setups `damage` and `server` satisfy it;
  `jitter` does not, where a read may begin inside a reply, and neither does the line of run
  `rtu_split_stray`. `BoundaryOK` follows the bytes received and still to come: they are of
  one transmission, or of one cut off and the next; a read that spans two ends in an error, after
  which the drain, or the window of the bus, goes on to the next pause.
- `AdusFit`: pairs of digits, at least address, function code and LRC, at most `MaxHexChars`. The
  invariant says that the characters kept are those of the frame begun, in order.

### The blocking facade

`SyncAssumption`: any threads, tasks, observers, portals, retries and scopes, and finitely many buses.

| Theorem | Property |
| --- | --- |
| `SyncTasks_proofs!TypeCorrect` | `TypeOK` |
| `PortalServes` | `PortalServesOpenBuses` |
| `NoOrphan` | `OrphanOnlyFromLoop` |
| `NothingSent` | `NothingSentAfterClose` |
| `StreamClosed` | `StreamClosedOnRelease` |
| `ReportsOrdered` | `ReportsInOrder` |
| `ReportsUnmixed` | `ReportsNotMixed` |
| `ObserversAllTold` | `ObserversTold` |

- `LeaseInv`, on types: a bus is opened once and closed by one thread before its lease is given up
  (`OpenedOnce`), and the provider's count is the number of buses that hold a lease or are being opened
  (`LeasesCounted`), a cardinality; with it `OrphanOnlyFromLoop` is inductive.
- `CloseInv` relates each waiting thread to its task (`TasksOfThreads`), each task's stage to
  its kind (`StagesOfKinds`), and a bus's stream to its closing (`StreamOK`): it is closed, or an `aclose` is at it,
  if the bus object is; so after the return of any `close` the bus is closed unless an `aclose` is
  missing (`NoneMissing`), which is what `NothingSent` rests on.
- `ReportInv` adds that a task is queued exactly once while it wants the lock and that only the first
  is at work (`LockOK`), and what the log holds in each stage of it (`ReportsOK`).

### Codecs and slave handles

`Pdu` and `SlaveClient`: any callers, devices, requests, fault plans and retry policy.

| Theorem | Property | Under |
| --- | --- | --- |
| `RequestRoundTrip` (`Pdu_proofs`) | a server's decoder reads from a request what its encoder was told | |
| `SlaveClient_proofs!TypeCorrect` | `TypeOK` | |
| `FaultsStrikeOnce` | `OneShotFaults` | |
| `CachedVerdictsTrue` | `VerdictTrue` | |
| `CacheBackedByAnswers` | `CacheBacked` | |
| `WireLayoutKept` | `WireLayout` | |
| `LengthsKnown` | `FramerKnowsLength` | `TrueNames` |
| `MemoryImplemented` | `ReadsAndWritesMemory` | `NoWriteRepeated`, `OneOverride` |

- `Inv` has the types, that the response counter is at or past the index of a fault that has
  struck (`FaultsOnce`), what the owner of the lock, its call and its probe have to do with one another
  (`LockOK`, `ProbesOK`), and what is on the line: a request is the encoding of a call, and a reply on the line
  while its owner waits answers that request, by a slave that has the function code if the reply says
  so (`LineOK`). With it `VerdictTrue` is inductive.
- `MemoryImplemented` adds `EffectOK`: what has been done to the banks in the name of a call is what its
  arguments say (`OwnEffects`), at most once (`WritesOnce`), and a reply that will be accepted tells that it
  has been done, or what was read (`RepliesTell`). The refinement mapping unpacks the banks (`MemOf`); each
  step maps to one of `Registers` or to a stutter: serving a request that is waited for to taking
  effect, serving one whose call is over to `LateEffect`, everything about the lock, the line and retries to a stutter.
  That packing and unpacking coils are inverse, and that a store of packed bits changes no other bit,
  are lemmas of `Pdu_proofs`.
- `NoWriteRepeated` (a retry policy that repeats no write) is needed since a repeated write is two effects of
  one call; `OneOverride` since a device that both clamps and answers amiss may echo what it was
  told though it stored something else, which no master can find out. `TrueNames` (no device answers in another's
  name) since a reply in another slave's name is skipped by its own length, with tables of its own.
  The instance of run `registers` satisfies all three.
- `WireLayoutKept` is about data of any length. The number that a sequence of digits stands for is a recursive
  *function*, and an equation about it is proved by induction on the number of digits: eight coils
  contribute to the number what their byte does.

### Fields

`FieldAssumption`: any format, base, values, spare bytes and text encoding in which no character's bytes
begin another's.

| Theorem | Property | Under |
| --- | --- | --- |
| `TypesKept` | `TypeOK` | |
| `NeighboursKept` | `NeighboursSpared` | |
| `RefusalsAreRight` | `RefusedOnlyIfUnfit` | |
| `WriteBackKeepsNumber` | `WriteBackKeepsMemory` | |
| `HostReadsTheDevice` | `HostAndDeviceAgree` | `SingleByteText` |

- The lemmas about `Decoders` are arithmetic: `Unsigned`, the number in a sequence of bytes, is a recursive function,
  and that it and `IntToBytes` are inverse on numbers below `Base^n` is proved by induction on `n`. `Laid` says
  that words and bytes are the same data in a word order and a byte order; `PackBytes` and `UnpackToWords` are related
  by it for any orders, so decoding and encoding with *wrong* orders are inverse too, but for `Quieted`, which
  changes nothing a second time (`QuietedFacts`); that is `WriteBackKeepsNumber`.
- `Spelled` relates bytes to the text they spell. Since no character's bytes begin another's, bytes
  spell one text at most, and the decoder finds it.
- The inductive invariant says that the registers are words and the field is in the device (`Formed`), what
  is known of the call in progress (`Called`), that what the device was last given is in its registers place by place
  (`Stored`), and that what the host was let write is (`Written`).
- `SingleByteText` says that a padding byte and a spare byte are characters by themselves. A device that
  leaves another byte behind its text (128 and up, in UTF-8) makes the read raise the codec's error, and the
  two do not agree. The instance of run `decoders` satisfies it.

`BaseInv`, `IInv`, `SettleOK`, `TurnOK`, `SpacingOK`, `BoundaryOK`, `WholeOK`, the invariants of the
facade, `Inv`, `EffectOK` and `FitsOK` of the slave handles and the parts of `Inv` of the fields
were checked by TLC on the instances of the runs before they were proved, and so were the hypotheses.

### Only model-checked

- Liveness (`EveryCallEnds`, `EveryCallReturns`, `GapReadEnds`): beyond the prover.
- `WholeFrameAccepted` for the setup `drip` (no transmission ends), and `StraySparesReply` for a client that
  does not resynchronise.

Induction over data is done with sets: the library's induction theorems take an operator, which the
provers cannot instantiate, but that a set of numbers that has 0 and is closed under successor is all of `Nat` is
first-order. So what the *recursive functions* of `Pdu` and `Decoders` compute is proved for every length. There are
no `RECURSIVE` operators in the modules with theorems.

## Disagreements between code and documents

Each of these is a run that violates the quoted statement.

1. **Window size** (`cancelled_send`, `bus.py:778`). `src/docs/cancellation.md:65` says
   that the window need only cover one request-to-end-of-reply time. It runs from the end
   of the attempt; a call cancelled in `send` or `drain` ends before its request has left the
   kernel. The time the request still spends there has to be added.
2. **Cancelled turnaround** (`cancelled_turnaround`, `bus.py:744`). `src/docs/cancellation.md:92`
   says slaves still get their full processing window when a broadcast is cancelled in
   its turnaround. The next caller waits only for the inter-frame gap.
3. **Cancelled settle** (`cancelled_settle`, `bus.py:611`). `config.py:55-57` promises the
   settle before the very first frame. It is marked as done before it is slept.
4. **Unbounded send** (`stuck_send`, `bus.py:682`). `src/docs/cancellation.md:7` says every
   transaction is wrapped in `request_timeout`. Only the read is.
5. **Split stray frame** (`rtu_split_stray`, `framer.py:301`). `src/docs/framing.md:53` says that
   the fallback for unlisted function codes is the only path that depends on timing
   or can mis-frame under jitter. The drain of a stray frame does too: what
   remains of it after a pause is read as a header, and draining *that* takes the
   awaited reply.

Seen while modelling, without a run of their own.

In the bus and its observers:

- An observer is told `will_retry` and the call is then cancelled in its backoff
  (`transaction.py:74` says the request *will* be sent again). `ReportsInOrder` has this as its one
  exception (`gaveUp`).
- The function returned by `add_transaction_observer`, called twice, removes another
  registration of the same observer (`bus.py:326` calls that harmless).
- `src/docs/timing.md:52` ("never violates t3.5") holds for late replies only with a late-reply
  window, since without one the master cannot know when they end.

In the framers and the interpretation of replies:

- `framer_ascii.py:192` says that after an error in a request the frame has been consumed up to its
  CR LF: a character that is no digit leaves the rest to the next read, which drops it while
  looking for a colon.
- `src/docs/framing.md:82` says a corrupt frame for another slave is skipped: that holds for a wrong
  LRC, not for a character that is no digit, which raises `FrameError` to whoever is reading.
- An ASCII reply that consists of a function code with the exception bit and nothing more is an
  `IndexError` in `interpret_response_pdu`, which no retry policy names (`index_error` in `Interpret`).

In slave handles and probes:

- A device that stores another value than it was told is found out by its echo for single
  writes; the echo of a multiple write has only address and quantity.
- A reply to a read of bits with a wrong number of bits in the right number of bytes cannot be told.
- A comment in `capabilities.py:55` takes an illegal address for a sign of support; `probe` and
  `src/docs/capabilities.md:29` call a function code unknown if all addresses tried are illegal.

In fields:

- `Slave.read_string` with `byte_count` decodes the whole registers and keeps that many *characters*;
  its docstring (`slave.py:372`) says that the text is truncated to `byte_count` bytes. A text with
  characters of several bytes keeps more than the field (`CutIsExact` in `HostAndDeviceAgree`), and a
  spare byte that is no text makes the read fail even though `byte_count` leaves it out.
- A `float32` that is too large is an `OverflowError` of `struct`; other numbers out of range are
  `ConfigurationError`.

In the blocking facade:

- A second `close` returns while the first is still closing.
- `close(timeout=...)` is not bounded by its timeout: `aclose` shields the stream's close from it.
- A thread interrupted in a call leaves its transaction running; one interrupted in an open may
  leave a port open that no bus will close.
- A `sync.Slave` keeps no reference to its `sync.Bus`, which may thus be collected, and closed, while its
  slaves are in use.
- `close` on the loop's own thread, by an observer or by a collection that runs there, cannot wait
  for the loop: the lease is given up, the stream is not closed and the portal, if it was the last
  lease, runs on (`sync.py:201` says that the thread shuts down with the last bus). `closedOnLoop` exempts these in `OrphanOnlyFromLoop` and
  `StreamClosedOnRelease`.

## Not modelled

- CRC and LRC as algebra: which damage they catch is a property of a polynomial, with no
  state and no control. The framers have bytes of which `Adus` says which verify, `SlaveClient` has
  frames that are intact or not.
- A bus whose frames are bytes: `ModbusBus` knows which replies a request would accept, the
  framers which bytes are a frame, `Pdu` which frame is a reply. Composed byte by byte with time
  they are out of TLC's reach; each states what the next assumes of it.
- `delay_response_seconds` as a time: a reply stays on the line until it is received or
  its attempt ends. `MockServer.add` while serving, and `pair.py`, which joins two ends of a memory stream.
- A reader that is scheduled so late that it misses a pause altogether: two frames then look like
  one to `_read_until_idle`. The code cannot tell, and `src/docs/framing.md:53` says so.
- Of a report only the request's number, the attempt and `will_retry`; its times, frames and outcome
  are copied from the attempt. An observer's exception is caught and logged.
- A `KeyboardInterrupt` of a thread that is stopping or joining the portal, inside AnyIO; builds of
  Python without the global lock.
- `SlaveCapabilities.get` (a look-up), `with_changes`, `__post_init__` checks, the openers' argument checks, `__repr__`,
  re-exports: validation and wiring without behaviour over time.
- Logging, messages, and the `*_ns` clocks.
- Resolution of `"auto"` timing happens once, under the lock, from the baud rate; the
  resolved values are constants.
- IEEE rounding of floats: left to `struct`. What it does to a float32's signalling NaN is the constant
  `StructQuiets`: CPython 3.13 makes it quiet, a later one may not; the theorems are for both, the run for the first.
- The checks of `decoders.py` that do not depend on a value's range: `len(pad) != 1`, the `TypeError` for a value
  that is no string, and `UnicodeEncodeError` for a character the encoding has not.

## Plan

Every component with behaviour over time is modelled, and every safety property of a passing run is
stated by a theorem. What could follow, in this order:

1. Observers with an identity for each registration, to tell whose registration a second removal takes.
2. Streams in `SyncBus` that have no bus yet, to say which opens that were interrupted leave a port open.
