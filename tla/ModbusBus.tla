------------------------------ MODULE ModbusBus ------------------------------
(***************************************************************************)
(* The master side of one Modbus line: anymodbus.bus.Bus, its callers, the *)
(* byte stream under it and the slaves that answer.                        *)
(*                                                                         *)
(* Callers queue for the bus lock.  The holder makes one attempt, or some  *)
(* retries: it waits for the line to be idle, sends its request, reads the *)
(* reply.  Any await of the code is a phase, and may be cancelled there.   *)
(* Bytes are grouped in frames (the framers are modelled apart), and every *)
(* point in time is kept as the time left until it, or the time since it,  *)
(* in ticks; a timer may be served any number of ticks late.               *)
(***************************************************************************)
EXTENDS Integers, Sequences, FiniteSets

CONSTANTS
  Callers,        \* tasks that call Slave and Bus methods
  CancelAt,       \* where a call may be cancelled: "queued", or a phase
  Requests,       \* the requests they make
  Kind,           \* request -> "read", "diagnostic", "write" or "broadcast"
  Unit,           \* request -> the slave it is addressed to
  NoRequest,      \* the request of a caller that is not calling
  Retries,        \* RetryPolicy.retries
  RetryOn,        \* RetryPolicy.retry_on, as outcomes
  IdempotentOnly, \* RetryPolicy.retry_idempotent_only
  Backoff,        \* RetryPolicy.backoff_base
  Gap,            \* TimingConfig.inter_frame_idle, resolved
  IdleFloor,      \* _T35_FLOOR_SECONDS
  Window,         \* TimingConfig.late_reply_window
  RequestTimeout, \* BusConfig.request_timeout
  StartupSettle,  \* TimingConfig.startup_settle
  PostTxSettle,   \* TimingConfig.post_tx_settle
  Turnaround,     \* TimingConfig.broadcast_turnaround
  CanDrain,       \* the stream drains its output and the config asks for it
  CanReset,       \* likewise for resetting its input
  Faults,         \* how the stream may fail
  TxMax,          \* longest time a request stays in the kernel's output buffer
  ReplyMax,       \* longest time from there to the end of the slave's reply
  MaxExchanges,   \* bound: requests of which something is still on the line
  RxMax,          \* bound: frames in the input buffer
  Noisy           \* the line may carry bytes nobody asked for

Kinds == {"read", "diagnostic", "write", "broadcast"}
FaultKinds == {"broken", "eof", "oserror", "etimedout", "closed"}
Outcomes == {"reply", "exception", "bad", "timeout", "connection", "cancelled",
             "broadcast_sent"}
Reading    == {"discard", "reading"}
Writing    == {"reset", "sending", "draining"}
Sleeping   == {"settle", "gap", "txsettle", "turnaround"}
Attempting == Reading \cup Writing \cup Sleeping

ASSUME RequestsAssumption ==
  /\ NoRequest \notin Requests
  /\ Kind \in [Requests -> Kinds]
  /\ DOMAIN Unit = Requests

ASSUME ConfigAssumption ==
  /\ Retries \in Nat /\ Backoff \in Nat /\ Gap \in Nat /\ Window \in Nat
  /\ StartupSettle \in Nat /\ PostTxSettle \in Nat /\ Turnaround \in Nat
  /\ IdleFloor \in Nat \ {0} /\ RequestTimeout \in Nat \ {0}
  /\ RetryOn \subseteq {"exception", "bad", "timeout", "connection"}
  /\ IdempotentOnly \in BOOLEAN /\ CanDrain \in BOOLEAN /\ CanReset \in BOOLEAN

ASSUME LineAssumption ==
  /\ TxMax \in Nat /\ ReplyMax \in Nat
  /\ MaxExchanges \in Nat \ {0} /\ RxMax \in Nat \ {0}
  /\ CancelAt \subseteq {"queued", "granted", "backoff"} \cup Attempting
  /\ Faults \subseteq FaultKinds /\ Noisy \in BOOLEAN

VARIABLES
  closed,    \* Bus._closed
  settled,   \* Bus._startup_settled
  ioAge,     \* time since Bus._last_io_monotonic, up to Gap; Never before it is set
  quiet,     \* time left to Bus._quiet_until, or NoWindow
  queue,     \* callers in the order they asked for the lock; the first holds it
  req,       \* caller -> the request of its call, or NoRequest
  phase,     \* what the holder awaits
  attempt,   \* the attempt of the holder's call, from 0
  sends,     \* how often the holder's call has handed its request to the kernel
  timer,     \* time left of the holder's sleep, or of its reply deadline
  idleLeft,  \* discarding: time left until the line counts as idle
  limitLeft, \* discarding: time left until the discard gives up
  stream,    \* "up", or how the stream has failed
  line,      \* exchanges not over: requests in the kernel, replies to come
  rx,        \* frames received and not read
  hush,      \* time since a requested frame last ended on the wire, up to Gap
  warm,      \* time since the first attempt began, up to StartupSettle, or Never
  ended      \* the call that ended in the last step, if one did, and how

busVars  == <<closed, settled, ioAge, quiet>>
callVars == <<queue, req>>
ownVars  == <<phase, attempt, sends, timer, idleLeft, limitLeft>>
envVars  == <<stream, line, rx, hush, warm>>
vars     == <<busVars, callVars, ownVars, envVars, ended>>

-----------------------------------------------------------------------------
(* Values                                                                  *)

Never    == -1
NoWindow == -1

Lower(a, b)  == IF a < b THEN a ELSE b
Higher(a, b) == IF a < b THEN b ELSE a

(* A frame: "ok" and "exception" replies to req; "bad" bytes that no check  *)
(* accepts.  cur: the request was sent by the attempt now in progress.      *)
Frame == [req : Requests \cup {NoRequest}, kind : {"ok", "exception", "bad"}, cur : BOOLEAN]
Junk  == [req |-> NoRequest, kind |-> "bad", cur |-> FALSE]

(* A request in the kernel ("tx"), being answered by its slave ("slave"),   *)
(* or being carried out by all slaves after a broadcast ("work").           *)
Exchange == [id : 1..MaxExchanges, req : Requests, stage : {"tx", "slave", "work"},
             cur : BOOLEAN, left : Nat]

Idle == Higher(Gap, IdleFloor)

Owner == Head(queue)
Request == req[Owner]
Broadcasting == Kind[Request] = "broadcast"

OnWire == phase \in {"sending", "draining", "txsettle", "reading", "turnaround"}

Idempotent(r) == Kind[r] \in {"read", "diagnostic"}
Certain(outcome) == outcome \in {"reply", "exception", "broadcast_sent"}

(* A read's reply carries no address, so any read of the same shape is      *)
(* answered by it; the other replies echo their request.                    *)
Answers(f, r) ==
  /\ f.kind = "ok"
  /\ \/ f.req = r
     \/ Kind[f.req] = "read" /\ Kind[r] = "read" /\ Unit[f.req] = Unit[r]

Refuses(f, r) == f.kind = "exception" /\ Kind[f.req] = Kind[r] /\ Unit[f.req] = Unit[r]

Stray(f, r) == f.kind # "bad" /\ Unit[f.req] # Unit[r]

Expired(x)   == [x EXCEPT !.cur = FALSE]
ExpiredRx(s) == [i \in DOMAIN s |-> Expired(s[i])]

FreeIds == {i \in 1..MaxExchanges : \A x \in line : x.id # i}
NewExchange(r, mine) ==
  [id |-> CHOOSE i \in FreeIds : TRUE, req |-> r, stage |-> "tx", cur |-> mine,
   left |-> TxMax]

-----------------------------------------------------------------------------
(* The lock, and the end of a call or an attempt                           *)

SetPhase(p, t) == phase' = p /\ timer' = t

(* What a call returns or raises is its outcome, the last attempt's.       *)
Ended(c, outcome) == ended' = {[caller |-> c, how |-> outcome]}
NoneEnded         == ended' = {}

(* The lock is handed to the first caller in the queue.                    *)
Release ==
  /\ queue' = Tail(queue)
  /\ req' = [req EXCEPT ![Owner] = NoRequest]
  /\ SetPhase(IF Len(queue) > 1 THEN "granted" ELSE "free", 0)
  /\ attempt' = 0 /\ sends' = 0

(* Variants that a faulty edit could produce: see "mutants" in PROJECT.json.*)
ShouldRetryOneMore(outcome) ==
  ~Broadcasting /\ attempt <= Retries /\ outcome \in RetryOn
    /\ (IdempotentOnly => Idempotent(Request))
ShouldRetryAny(outcome) == ~Broadcasting /\ attempt < Retries /\ outcome \in RetryOn

ShouldRetry(outcome) ==
  /\ ~Broadcasting
  /\ attempt < Retries
  /\ outcome \in RetryOn
  /\ IdempotentOnly => Idempotent(Request)

OpensWindowOnceSent(outcome) ==
  Window > 0 /\ ~Broadcasting /\ ~Certain(outcome) /\ phase \in {"txsettle", "reading"}
OpensWindowOnTimeout(outcome) == Window > 0 /\ ~Broadcasting /\ outcome = "timeout" /\ OnWire

OpensWindow(outcome) == Window > 0 /\ ~Broadcasting /\ ~Certain(outcome) /\ OnWire

(* An attempt ends with onLine and unread left on the line: stamp its end, *)
(* open the window if its reply may still come, retry or return.           *)
FinishAttempt(outcome, onLine, unread) ==
  /\ ioAge' = 0
  /\ quiet' = IF OpensWindow(outcome) THEN Higher(quiet, Window) ELSE quiet
  /\ line' = {Expired(x) : x \in onLine}
  /\ rx' = ExpiredRx(unread)
  /\ idleLeft' = 0 /\ limitLeft' = 0
  /\ IF ShouldRetry(outcome)
     THEN SetPhase("backoff", Gap + Backoff) /\ NoneEnded
            /\ UNCHANGED <<attempt, sends, queue, req>>
     ELSE Release /\ Ended(Owner, outcome)
  /\ UNCHANGED <<settled, stream, hush, warm>>

-----------------------------------------------------------------------------
(* Callers                                                                 *)

(* A Slave or Bus method.  On a closed bus it raises and nothing changes.  *)
Call(c, r) ==
  /\ ~closed /\ req[c] = NoRequest
  /\ req' = [req EXCEPT ![c] = r]
  /\ queue' = Append(queue, c)
  /\ phase' = IF queue = <<>> THEN "granted" ELSE phase
  /\ UNCHANGED <<busVars, attempt, sends, timer, idleLeft, limitLeft, envVars>> /\ NoneEnded

(* Cancelled before its first attempt: it leaves the queue unreported.     *)
CancelQueued(c) ==
  /\ \E i \in DOMAIN queue :
       /\ queue[i] = c
       /\ IF i = 1
          THEN phase = "granted" /\ "granted" \in CancelAt /\ Release
          ELSE /\ "queued" \in CancelAt
               /\ queue' = SubSeq(queue, 1, i - 1) \o SubSeq(queue, i + 1, Len(queue))
               /\ req' = [req EXCEPT ![c] = NoRequest]
               /\ UNCHANGED <<phase, timer, attempt, sends>>
  /\ Ended(c, "cancelled")
  /\ UNCHANGED <<busVars, idleLeft, limitLeft, envVars>>

-----------------------------------------------------------------------------
(* Waiting for the line                                                    *)

StartSending == SetPhase("sending", 0)

Proceed == IF CanReset /\ ~Broadcasting THEN SetPhase("reset", 0) ELSE StartSending

AwaitGapUnstamped(age) ==
  /\ settled' = TRUE
  /\ IF ~settled /\ StartupSettle > 0 THEN SetPhase("settle", StartupSettle) ELSE Proceed
AwaitGapShort(age) ==
  /\ settled' = (settled \/ age = Never)
  /\ IF age = Never
     THEN IF ~settled /\ StartupSettle > 0 THEN SetPhase("settle", StartupSettle) ELSE Proceed
     ELSE IF age + 1 < Gap THEN SetPhase("gap", Gap - age - 1) ELSE Proceed
AwaitGapNoSettle(age) ==
  /\ settled' = (settled \/ age = Never)
  /\ IF age # Never /\ age < Gap THEN SetPhase("gap", Gap - age) ELSE Proceed

(* The startup settle is spent once, the gap runs from the last I/O.       *)
AwaitGap(age) ==
  /\ settled' = (settled \/ age = Never)
  /\ IF age = Never
     THEN IF ~settled /\ StartupSettle > 0 THEN SetPhase("settle", StartupSettle) ELSE Proceed
     ELSE IF age < Gap THEN SetPhase("gap", Gap - age) ELSE Proceed

BeginAttempt(n) ==
  /\ attempt' = n
  /\ IF quiet # NoWindow
     THEN /\ SetPhase("discard", 0)
          /\ idleLeft' = Idle /\ limitLeft' = quiet + RequestTimeout
          /\ UNCHANGED settled
     ELSE AwaitGap(ioAge) /\ UNCHANGED <<idleLeft, limitLeft>>
  /\ warm' = IF warm = Never THEN 0 ELSE warm
  /\ UNCHANGED <<closed, ioAge, quiet, callVars, sends, stream, line, rx, hush>> /\ NoneEnded

(* The new holder runs, and does not look at closed again.                 *)
FirstAttempt == phase = "granted" /\ BeginAttempt(0)
NextAttempt  == phase = "backoff" /\ timer = 0 /\ BeginAttempt(attempt + 1)

(* The line is idle, or the discard has lasted as long as it may.          *)
EndDiscard(age) ==
  /\ quiet' = NoWindow
  /\ AwaitGap(age)
  /\ idleLeft' = 0 /\ limitLeft' = 0

DiscardUntilIdle(idle) == Lower(idle, limitLeft)
DiscardUncapped(idle) == Higher(quiet, idle)

DiscardUntil(idle) == Lower(Higher(quiet, idle), limitLeft)

(* One receive takes all there is; unread input fits in one ADU.           *)
DiscardLate ==
  /\ phase = "discard" /\ rx # <<>>
  /\ rx' = <<>> /\ ioAge' = 0
  /\ IF DiscardUntil(Idle) = 0
     THEN EndDiscard(0)
     ELSE idleLeft' = Idle /\ UNCHANGED <<quiet, settled, phase, timer, limitLeft>>
  /\ UNCHANGED <<closed, callVars, attempt, sends, stream, line, hush, warm>> /\ NoneEnded

(* The event loop hands over received bytes before it serves a timer.      *)
DiscardOver ==
  /\ phase = "discard" /\ rx = <<>> /\ DiscardUntil(idleLeft) = 0
  /\ EndDiscard(ioAge)
  /\ UNCHANGED <<closed, ioAge, callVars, attempt, sends, envVars>> /\ NoneEnded

WaitOver ==
  /\ phase \in {"settle", "gap"} /\ timer = 0
  /\ Proceed
  /\ UNCHANGED <<busVars, callVars, attempt, sends, idleLeft, limitLeft, envVars>> /\ NoneEnded

ResetInput ==
  /\ phase = "reset" /\ stream # "closed"
  /\ rx' = <<>>
  /\ StartSending
  /\ UNCHANGED <<busVars, callVars, attempt, sends, idleLeft, limitLeft, stream, line, hush, warm>>
  /\ NoneEnded

-----------------------------------------------------------------------------
(* Sending                                                                 *)

SentNoTurnaround ==
  IF Broadcasting THEN SetPhase("turnaround", 0)
  ELSE IF PostTxSettle > 0 THEN SetPhase("txsettle", PostTxSettle)
  ELSE SetPhase("reading", RequestTimeout)

(* The request is on its way: settle and read, or hold the turnaround.     *)
Sent ==
  IF Broadcasting THEN SetPhase("turnaround", Turnaround)
  ELSE IF PostTxSettle > 0 THEN SetPhase("txsettle", PostTxSettle)
  ELSE SetPhase("reading", RequestTimeout)

HandOver ==
  /\ phase = "sending" /\ stream \in {"up", "eof"} /\ FreeIds # {}
  /\ line' = line \cup {NewExchange(Request, TRUE)}
  /\ sends' = sends + 1
  /\ IF CanDrain THEN SetPhase("draining", 0) ELSE Sent
  /\ UNCHANGED <<busVars, callVars, attempt, idleLeft, limitLeft, stream, rx, hush, warm>>
  /\ NoneEnded

Drained ==
  /\ phase = "draining" /\ \A x \in line : x.stage # "tx"
  /\ Sent
  /\ UNCHANGED <<busVars, callVars, attempt, sends, idleLeft, limitLeft, envVars>> /\ NoneEnded

TxSettled ==
  /\ phase = "txsettle" /\ timer = 0
  /\ SetPhase("reading", RequestTimeout)
  /\ UNCHANGED <<busVars, callVars, attempt, sends, idleLeft, limitLeft, envVars>> /\ NoneEnded

TurnaroundOver ==
  /\ phase = "turnaround" /\ timer = 0
  /\ FinishAttempt("broadcast_sent", line, rx)
  /\ UNCHANGED closed

-----------------------------------------------------------------------------
(* Reading the reply                                                       *)

(* A frame for this request's slave that passes its checks ends the read.  *)
ReadFrame ==
  /\ phase = "reading" /\ rx # <<>>
  /\ LET f == Head(rx) IN
       /\ f.kind # "bad" /\ ~Stray(f, Request)
       /\ FinishAttempt(IF Answers(f, Request) THEN "reply"
                        ELSE IF Refuses(f, Request) THEN "exception"
                        ELSE "bad",
                        line, Tail(rx))
  /\ UNCHANGED closed

(* A damaged frame fails a check; its wrong length may leave some of it    *)
(* unread or take in frames behind it.                                     *)
ReadDamaged ==
  /\ phase = "reading" /\ rx # <<>> /\ Head(rx).kind = "bad"
  /\ \/ FinishAttempt("bad", line, rx)
     \/ \E n \in DOMAIN rx : FinishAttempt("bad", line, SubSeq(rx, n + 1, Len(rx)))
  /\ UNCHANGED closed

(* Another slave's frame is dropped with what follows it without a pause,  *)
(* and so is a damaged one whose address byte is wrong; the deadline stays.*)
SkipStray ==
  /\ phase = "reading" /\ rx # <<>>
  /\ Head(rx).kind = "bad" \/ Stray(Head(rx), Request)
  /\ \E n \in DOMAIN rx : rx' = SubSeq(rx, n + 1, Len(rx))
  /\ UNCHANGED <<busVars, callVars, ownVars, stream, line, hush, warm>> /\ NoneEnded

(* fail_after fires, whatever part of a reply has arrived.                 *)
ReadTimeout ==
  /\ phase = "reading" /\ timer = 0
  /\ FinishAttempt("timeout", line, rx)
  /\ UNCHANGED closed

-----------------------------------------------------------------------------
(* Attempts that fail or are cancelled                                     *)

(* A cancelled send may have handed its request to the kernel all the same.*)
MaybeHandedOver ==
  {line} \cup (IF phase = "sending" /\ FreeIds # {}
               THEN {line \cup {NewExchange(Request, FALSE)}} ELSE {})

(* Cancellation at any await of an attempt.                                *)
CancelAttempt ==
  /\ phase \in Attempting \cap CancelAt
  /\ \E l \in MaybeHandedOver : FinishAttempt("cancelled", l, rx)
  /\ UNCHANGED closed

(* Between attempts the call just ends: there is no attempt to close.      *)
CancelBackoff ==
  /\ phase = "backoff" /\ "backoff" \in CancelAt
  /\ Release /\ Ended(Owner, "cancelled")
  /\ UNCHANGED <<busVars, idleLeft, limitLeft, envVars>>

(* What a stream error becomes: the RTU framer turns the end of the stream *)
(* inside a reply into FrameError (the ASCII framer only within a frame),  *)
(* and an OSError that is a TimeoutError is taken for the read's deadline. *)
(* A send that raises has not handed over a whole frame.                   *)
StreamErrors(fault) ==
  IF phase = "reading" /\ fault = "eof" THEN {"bad", "connection"}
  ELSE IF phase = "reading" /\ fault = "etimedout" THEN {"timeout"}
  ELSE {"connection"}

StreamFails ==
  /\ stream # "up"
  /\ phase \in Reading \/ (phase \in Writing /\ stream # "eof")
  /\ \E outcome \in StreamErrors(stream) : FinishAttempt(outcome, line, rx)
  /\ closed' = (closed \/ stream = "closed")

(* Bus.aclose, in two steps: mark the bus, then close the stream.          *)
Close ==
  /\ ~closed
  /\ closed' = TRUE
  /\ UNCHANGED <<settled, ioAge, quiet, callVars, ownVars, envVars>> /\ NoneEnded

CloseStream ==
  /\ closed /\ stream # "closed"
  /\ stream' = "closed"
  /\ UNCHANGED <<busVars, callVars, ownVars, line, rx, hush, warm>> /\ NoneEnded

-----------------------------------------------------------------------------
(* The line                                                                *)

(* The oldest request in the kernel finishes going out.  A broadcast is    *)
(* then carried out for Turnaround; another request may be answered.       *)
Transmit(x) ==
  /\ x \in line /\ x.stage = "tx"
  /\ \A y \in line : y.stage = "tx" => x.left <= y.left
  /\ hush' = 0
  /\ line' = (line \ {x}) \cup
       {IF Kind[x.req] = "broadcast"
        THEN [x EXCEPT !.stage = "work", !.left = Turnaround]
        ELSE [x EXCEPT !.stage = "slave", !.left = ReplyMax]}
  /\ UNCHANGED <<busVars, callVars, ownVars, stream, rx, warm>> /\ NoneEnded

(* The slave's reply, or its exception response, or what damage left of it.*)
Reply(x, f) ==
  /\ x \in line /\ x.stage = "slave" /\ stream = "up" /\ Len(rx) < RxMax
  /\ f \in {[req |-> x.req, kind |-> "ok", cur |-> x.cur],
            [req |-> x.req, kind |-> "exception", cur |-> x.cur], Junk}
  /\ line' = line \ {x}
  /\ rx' = Append(rx, f)
  /\ hush' = 0
  /\ UNCHANGED <<busVars, callVars, ownVars, stream, warm>> /\ NoneEnded

(* The request or its reply is lost.                                       *)
Lose(x) ==
  /\ x \in line /\ x.stage # "work"
  /\ line' = line \ {x}
  /\ UNCHANGED <<busVars, callVars, ownVars, stream, rx, hush, warm>> /\ NoneEnded

Noise ==
  /\ Noisy /\ stream = "up" /\ rx = <<>>
  /\ rx' = <<Junk>>
  /\ UNCHANGED <<busVars, callVars, ownVars, stream, line, hush, warm>> /\ NoneEnded

StreamFault(fault) ==
  /\ stream = "up"
  /\ stream' = fault
  /\ UNCHANGED <<busVars, callVars, ownVars, line, rx, hush, warm>> /\ NoneEnded

(* An operating system error may have been a passing one.                  *)
StreamRecovers ==
  /\ stream \in {"oserror", "etimedout"}
  /\ stream' = "up"
  /\ UNCHANGED <<busVars, callVars, ownVars, line, rx, hush, warm>> /\ NoneEnded

(* Time passes, but not past the moment an exchange must move on.          *)
Tick ==
  /\ \A x \in line : x.left > 0
  /\ ioAge' = IF ioAge = Never THEN Never ELSE Lower(ioAge + 1, Gap)
  /\ quiet' = IF quiet > 0 THEN quiet - 1 ELSE quiet
  /\ timer' = Higher(timer - 1, 0)
  /\ idleLeft' = Higher(idleLeft - 1, 0)
  /\ limitLeft' = Higher(limitLeft - 1, 0)
  /\ hush' = Lower(hush + 1, Gap)
  /\ warm' = IF warm = Never THEN Never ELSE Lower(warm + 1, StartupSettle)
  /\ line' = {[x EXCEPT !.left = @ - 1] : x \in line}
  /\ UNCHANGED <<closed, settled, callVars, phase, attempt, sends, stream, rx>> /\ NoneEnded

(* The slaves have carried out a broadcast.                                *)
WorkDone(x) ==
  /\ x \in line /\ x.stage = "work" /\ x.left = 0
  /\ line' = line \ {x}
  /\ UNCHANGED <<busVars, callVars, ownVars, stream, rx, hush, warm>> /\ NoneEnded

-----------------------------------------------------------------------------
Init ==
  /\ closed = FALSE /\ settled = FALSE /\ ioAge = Never /\ quiet = NoWindow
  /\ queue = <<>> /\ req = [c \in Callers |-> NoRequest]
  /\ phase = "free" /\ attempt = 0 /\ sends = 0
  /\ timer = 0 /\ idleLeft = 0 /\ limitLeft = 0
  /\ stream = "up" /\ line = {} /\ hush = Gap /\ warm = Never /\ ended = {}
  /\ rx \in {<<>>} \cup (IF Noisy THEN {<<Junk>>} ELSE {})

WaitForLine == FirstAttempt \/ NextAttempt \/ DiscardLate \/ DiscardOver \/ WaitOver \/ ResetInput
WaitToRead  == Drained \/ TxSettled
ReadReply   == ReadFrame \/ ReadDamaged \/ SkipStray \/ ReadTimeout
BusStep     == WaitForLine \/ WaitToRead \/ TurnaroundOver \/ ReadReply \/ StreamFails
LineStep    == \E x \in line :
                 \/ Transmit(x) \/ Lose(x) \/ WorkDone(x)
                 \/ \E f \in Frame : Reply(x, f)

Next ==
  \/ \E c \in Callers, r \in Requests : Call(c, r)
  \/ \E c \in Callers : CancelQueued(c)
  \/ HandOver \/ BusStep
  \/ CancelAttempt \/ CancelBackoff \/ Close \/ CloseStream
  \/ LineStep \/ Noise \/ StreamRecovers
  \/ \E fault \in Faults : StreamFault(fault)
  \/ Tick

Spec == Init /\ [][Next]_vars

(* Time goes on, the task that holds the lock is scheduled, and what is on *)
(* the line moves on.  The kernel accepting a request is apart: nothing in *)
(* the code bounds it.                                                     *)
Fairness == WF_vars(Tick) /\ WF_vars(BusStep) /\ WF_vars(ReadTimeout)
              /\ WF_vars(LineStep) /\ WF_vars(CloseStream)
SpecAnySend  == Spec /\ Fairness
FairSpec     == SpecAnySend /\ WF_vars(HandOver)
-----------------------------------------------------------------------------
(* Properties                                                              *)

(* Every variable holds values of its kind, and the phase agrees with the  *)
(* queue: some task holds the lock exactly when the bus is busy.           *)
TypeOK ==
  /\ closed \in BOOLEAN /\ settled \in BOOLEAN
  /\ ioAge \in -1..Gap /\ quiet \in -1..Window
  /\ queue \in Seq(Callers) /\ req \in [Callers -> Requests \cup {NoRequest}]
  /\ phase \in {"free", "granted", "backoff"} \cup Attempting
  /\ phase = "free" <=> queue = <<>>
  /\ attempt \in 0..Retries /\ sends \in 0..(Retries + 1)
  /\ timer \in Nat /\ idleLeft \in 0..Idle /\ limitLeft \in 0..(Window + RequestTimeout)
  /\ stream \in {"up"} \cup FaultKinds
  /\ line \subseteq Exchange /\ rx \in Seq(Frame)
  /\ hush \in 0..Gap /\ warm \in -1..StartupSettle
  /\ ended \subseteq [caller : Callers, how : Outcomes]

(* The window is long enough whatever becomes of a send: it covers what a  *)
(* request may still spend in the kernel when its attempt ends, and then   *)
(* the slowest reply.                                                      *)
WindowCoversReply == Window > TxMax + ReplyMax

(* Once handed over, a request stays with its attempt until it has left    *)
(* the kernel: the stream drains, nobody cancels the send, and a stream    *)
(* that fails does not come back.                                          *)
SendsDrained ==
  /\ CanDrain /\ CancelAt \cap {"sending", "draining"} = {}
  /\ Faults \cap {"oserror", "etimedout"} = {}

(* Then a window longer than the slowest reply, the least that             *)
(* estimate_late_reply_window asks for, is long enough too.                *)
WindowSuffices == WindowCoversReply \/ (SendsDrained /\ Window > ReplyMax)

(* A reply taken for the request being read for is the reply to this very  *)
(* attempt: what an earlier attempt, call or caller asked for is discarded *)
(* first (Bus._await_line_idle, _finish_attempt).                          *)
NoStaleReply ==
  phase = "reading" =>
    \A i \in DOMAIN rx :
      Answers(rx[i], Request) \/ Refuses(rx[i], Request) => rx[i].cur

(* When the bus remembers no open window and has sent nothing, no slave can*)
(* still be about to answer it.                                            *)
NoWindowNoReply ==
  quiet = NoWindow /\ ~OnWire =>
    \A x \in line : Kind[x.req] = "broadcast"

(* A frame goes out on the wire only after the line was silent for the     *)
(* inter-frame gap, whatever ended before it and however.                  *)
FrameSpacing == [][\A x \in line : Transmit(x) => hush >= Gap]_vars

(* A write is handed to the kernel at most once per call: no error is      *)
(* answered by sending it again (RetryPolicy.retry_idempotent_only).       *)
WriteSentOnce ==
  phase # "free" /\ IdempotentOnly /\ Kind[Request] \in {"write", "broadcast"} => sends <= 1

(* No frame goes out while the slaves are carrying out a broadcast.        *)
TurnaroundHeld ==
  [][\A x \in line : Transmit(x) =>
       \A y \in line : y.stage = "work" => y.left = 0]_vars

(* The first frame goes out only after the startup settle.                 *)
SettledBeforeFirst == [][HandOver => warm >= StartupSettle]_vars

(* What has come of the request that the attempt in progress has sent.     *)
Arrived(kind) == \E i \in DOMAIN rx : rx[i].cur /\ rx[i].kind = kind

answer ==
  IF Arrived("ok") THEN "reply"
  ELSE IF Arrived("exception") THEN "exception"
  ELSE IF \E x \in line : x.cur THEN "due"
  ELSE "none"

Promise == INSTANCE RequestReply WITH asked <- sends

(* The calls of a bus end as RequestReply says: in turn, with the answer   *)
(* to their own last request or with an error; a write is not asked twice  *)
(* (Bus._txn, Bus._broadcast).                                             *)
KeepsPromise == Promise!Spec

(* Every call ends, and so every waiting caller gets the lock.             *)
EveryCallEnds == \A c \in Callers : req[c] # NoRequest ~> req[c] = NoRequest
-----------------------------------------------------------------------------
(* The inductive invariant behind the safety properties                    *)

(* A caller is in the queue, once, exactly while it is calling.            *)
CallsOK ==
  /\ \A i, j \in DOMAIN queue : queue[i] = queue[j] => i = j
  /\ \A c \in Callers : req[c] # NoRequest <=> \E i \in DOMAIN queue : queue[i] = c

(* Each attempt hands its request over at most once, and a further attempt *)
(* is only made for a request that may be sent again.                      *)
AttemptsOK ==
  /\ phase \in {"free", "granted"} => sends = 0 /\ attempt = 0
  /\ phase \in {"discard", "settle", "gap", "reset", "sending"} => sends <= attempt
  /\ sends <= attempt + 1
  /\ phase = "backoff" => attempt < Retries
  /\ phase = "backoff" \/ attempt > 0 =>
       ~Broadcasting /\ (IdempotentOnly => Idempotent(Request))

(* What is on the line: how long each exchange may still take, and what    *)
(* belongs to the attempt in progress, at most one exchange or its reply.  *)
Due(x) == IF x.stage = "tx" THEN x.left + ReplyMax ELSE x.left
AwaitsReply(x) == x.stage # "work" /\ Kind[x.req] # "broadcast"

(* A drained request is only left in the kernel by a stream that has failed*)
(* for good: nothing is received from it any more, so a window that covers *)
(* just the reply need not cover that request.                             *)
Broken == stream \in {"broken", "closed"}
Mute   == Broken /\ ~WindowCoversReply

KernelEmpties ==
  /\ stream \notin {"oserror", "etimedout"}
  /\ \A x \in line : x.stage = "tx" => Broken \/ phase = "draining"

LineOK ==
  \A x \in line :
    /\ x.stage = "tx" => x.left <= TxMax
    /\ x.stage = "slave" => x.left <= ReplyMax /\ Kind[x.req] # "broadcast"
    /\ x.stage = "work" => Kind[x.req] = "broadcast"
    /\ x.cur => OnWire /\ phase # "sending" /\ x.req = Request

RxOK ==
  \A i \in DOMAIN rx :
    rx[i].cur => OnWire /\ phase # "sending" /\ rx[i].req = Request /\ ~Broadcasting

OneReply ==
  /\ \A x, y \in line : x.cur /\ y.cur => x = y
  /\ \A i, j \in DOMAIN rx : rx[i].cur /\ rx[j].cur => i = j
  /\ \A x \in line, i \in DOMAIN rx : ~(x.cur /\ rx[i].cur)

(* Everything left over from earlier attempts is covered by the window.    *)
WindowOK ==
  /\ quiet # NoWindow => phase \in {"free", "granted", "backoff", "discard"}
  /\ phase = "discard" => quiet # NoWindow /\ quiet <= limitLeft
  /\ phase = "turnaround" => Broadcasting
  /\ \A x \in line : AwaitsReply(x) /\ ~x.cur => Mute \/ Due(x) < quiet
  /\ \A i \in DOMAIN rx : rx[i].kind # "bad" /\ ~rx[i].cur => quiet # NoWindow

BaseInv == TypeOK /\ CallsOK /\ AttemptsOK
IInv    ==
  BaseInv /\ LineOK /\ RxOK /\ OneReply /\ WindowOK /\ (SendsDrained => KernelEmpties)
=============================================================================
