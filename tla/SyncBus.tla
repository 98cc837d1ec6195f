------------------------------- MODULE SyncBus -------------------------------
(***************************************************************************)
(* anymodbus.sync: threads that share buses whose transactions run on a    *)
(* portal's event loop, and the transaction observers of those buses.      *)
(*                                                                         *)
(* A thread hands each call to the loop as a task and waits for it.  The   *)
(* loop runs one task at a time, from one await to the next.  ModbusBus    *)
(* says what happens on the line in an attempt; here it has an outcome.    *)
(***************************************************************************)
EXTENDS Portal, Sequences, FiniteSets

CONSTANTS
  Threads, Tasks, Buses,
  Observers,
  Kinds,     \* "read": retried, "write": not, "broadcast": no reply
  Retries,   \* RetryPolicy.retries
  Scopes,    \* bound: [buses, requests per bus, registrations per bus, interrupts]
  Nobody, NoBus

ASSUME SyncAssumption ==
  /\ IsFiniteSet(Buses)
  /\ Kinds \subseteq {"read", "write", "broadcast"}
  /\ Retries \in Nat
  /\ Scopes \subseteq [buses : SUBSET Buses, requests : [Buses -> Nat],
                      registrations : Nat, interrupts : Nat]

VARIABLES
  scope,     \* the bounds of this behaviour
  sync,      \* bus -> sync.Bus: made or not, _closed, _portal_entered, _portal
  closed,    \* bus -> Bus._closed
  stream,    \* bus -> "none", "open", "closing" or "closed"
  queue,     \* bus -> the tasks at Bus._lock; the first holds it
  requests,  \* bus -> Bus._request_count
  observers, \* bus -> Bus._observers
  task,      \* task -> what it does and how far it is
  thread,    \* thread -> what it does and which task it waits for
  ghost      \* bus -> what the properties need of its history

busVars  == <<sync, closed, stream, queue, requests, observers>>
vars == <<portalVars, scope, busVars, task, thread, ghost>>

NoTask == [kind |-> "none", bus |-> NoBus, portal |-> NoPortal, stage |-> "free", out |-> "none",
           id |-> 0, attempt |-> 0, audience |-> <<>>, called |-> 0, late |-> FALSE]

AtRest == [pc |-> "idle", bus |-> NoBus, task |-> Nobody, portal |-> NoPortal]

(* The loop of portal p is in no callback.                                  *)
LoopFree(p) == \A k \in Tasks : task[k].portal = p => task[k].stage # "reporting"

At(k, stage) == task[k].stage = stage /\ LoopFree(task[k].portal)

(* list.remove, without its ValueError.                                     *)
FirstRemoved(s, x) ==
  LET at == CHOOSE i \in DOMAIN s : s[i] = x /\ \A j \in 1..(i - 1) : s[j] # x IN
  IF \A i \in DOMAIN s : s[i] # x THEN s
  ELSE [i \in 1..(Len(s) - 1) |-> IF i < at THEN s[i] ELSE s[i + 1]]

Without(k) == queue' = [queue EXCEPT ![task[k].bus] = FirstRemoved(@, k)]
Count(s, o) == Cardinality({i \in DOMAIN s : s[i] = o})

-----------------------------------------------------------------------------
(* Calls                                                                   *)

(* A close of the bus that aclose has not followed: its task is on its way  *)
(* to the loop, or it was called on the loop's own thread.                  *)
AcloseMissing(b) ==
  \/ ghost[b].closedOnLoop
  \/ \E k \in Tasks : task[k].kind = "aclose" /\ task[k].bus = b /\ task[k].stage = "started"

(* A call of the bus that begins now comes after the return of a close, any  *)
(* thread's, with no aclose missing.                                        *)
Late(b) == ghost[b].closeReturned /\ ~AcloseMissing(b)

(* _call_with_timeout.                                                      *)
Spawn(t, pc, kind, b, p) ==
  LET k == CHOOSE x \in Tasks : task[x] = NoTask IN
    /\ \E x \in Tasks : task[x] = NoTask
    /\ task' = [task EXCEPT ![k] = [NoTask EXCEPT !.kind = kind, !.bus = b, !.portal = p,
                                                  !.stage = "started",
                                                  !.late = Late(b)]]
    /\ thread' = [thread EXCEPT ![t] = [pc |-> pc, bus |-> b, task |-> k, portal |-> p]]

(* open_modbus_rtu and open_modbus_ascii, and their end.                    *)
Open(t, b) ==
  /\ thread[t].pc = "idle" /\ b \in scope.buses
  /\ ~ghost[b].opened
  /\ Lease
  /\ Spawn(t, "opening", "open", b, current')
  /\ ghost' = [ghost EXCEPT ![b].opened = TRUE]
  /\ UNCHANGED <<scope, busVars>>

Done(t, pc) == thread[t].pc = pc /\ task[thread[t].task].stage = "done"
Free(t) == task' = [task EXCEPT ![thread[t].task] = NoTask]

Opened(t) ==
  LET b == thread[t].bus IN
  /\ Done(t, "opening") /\ task[thread[t].task].out = "value"
  /\ Free(t)
  /\ sync' = [sync EXCEPT ![b] = [made |-> TRUE, closed |-> FALSE, entered |-> TRUE,
                                  portal |-> thread[t].portal]]
  /\ thread' = [thread EXCEPT ![t] = AtRest]
  /\ UNCHANGED <<portalVars, scope, closed, stream, queue, requests, observers, ghost>>

ExitAlwaysLast(t) ==
  /\ Unlease
  /\ thread' = [thread EXCEPT ![t].pc = "stopping", ![t].task = Nobody]

(* provider.__exit__; the thread with the last lease has two steps to go.    *)
Exit(t) ==
  /\ Unlease
  /\ thread' = [thread EXCEPT ![t] =
                  IF leases = 1 THEN [@ EXCEPT !.pc = "stopping", !.task = Nobody] ELSE AtRest]

OpenFailedKeepingLease(t) ==
  /\ Done(t, "opening") /\ task[thread[t].task].out # "value"
  /\ Free(t)
  /\ thread' = [thread EXCEPT ![t] = AtRest]
  /\ UNCHANGED <<portalVars, scope, busVars, ghost>>

OpenFailed(t) ==
  /\ Done(t, "opening") /\ task[thread[t].task].out # "value"
  /\ Free(t)
  /\ Exit(t)
  /\ UNCHANGED <<scope, busVars, ghost>>

(* Slave's and Bus's blocking calls.  A slave handle does not ask whether   *)
(* its bus is closed, and outlives the bus object.                          *)
Request(t, b) ==
  /\ thread[t].pc = "idle" /\ sync[b].made
  /\ ghost[b].asked < scope.requests[b]
  /\ Accepts(sync[b].portal)  \* or RuntimeError at once
  /\ \E kind \in Kinds : Spawn(t, "calling", kind, b, sync[b].portal)
  /\ ghost' = [ghost EXCEPT ![b].asked = @ + 1]
  /\ UNCHANGED <<portalVars, scope, busVars>>

Returned(t) ==
  /\ Done(t, "calling")
  /\ Free(t)
  /\ thread' = [thread EXCEPT ![t] = AtRest]
  /\ UNCHANGED <<portalVars, scope, busVars, ghost>>

(* KeyboardInterrupt in a thread that waits: its task goes on without it.   *)
Interrupt(t) ==
  /\ thread[t].pc \in {"opening", "calling", "closing"}
  /\ task[thread[t].task].stage # "done"
  /\ scope.interrupts > 0
  /\ scope' = [scope EXCEPT !.interrupts = @ - 1]
  /\ CASE thread[t].pc = "opening" -> Exit(t)
       [] thread[t].pc = "calling" -> thread' = [thread EXCEPT ![t] = AtRest]
                                      /\ UNCHANGED portalVars
       [] thread[t].pc = "closing" -> thread' = [thread EXCEPT ![t].pc = "releasing",
                                                                ![t].task = Nobody]
                                      /\ UNCHANGED portalVars
  /\ UNCHANGED <<busVars, task, ghost>>

(* The task of an interrupted call ends.                                    *)
Forgotten(k) ==
  /\ task[k].stage = "done"
  /\ \A t \in Threads : thread[t].task # k
  /\ task' = [task EXCEPT ![k] = NoTask]
  /\ UNCHANGED <<portalVars, scope, busVars, thread, ghost>>

-----------------------------------------------------------------------------
(* Closing                                                                 *)

(* Bus.close, also from __exit__ and __del__.  With the interpreter's lock   *)
(* no thread runs between the check and the assignment.                     *)
Close(t, b) ==
  /\ thread[t].pc = "idle" /\ sync[b].made
  /\ ~sync[b].closed  \* or CloseAgain
  /\ sync' = [sync EXCEPT ![b].closed = TRUE]
  /\ IF Accepts(sync[b].portal)
     THEN Spawn(t, "closing", "aclose", b, sync[b].portal)
     ELSE /\ thread' = [thread EXCEPT ![t] = [pc |-> "releasing", bus |-> b, task |-> Nobody,
                                              portal |-> sync[b].portal]]
          /\ UNCHANGED task
  /\ UNCHANGED <<portalVars, scope, closed, stream, queue, requests, observers, ghost>>

(* close of a bus that is closed, or being closed by another thread: it     *)
(* returns at once.  Any thread's, also the loop's.                         *)
CloseAgain(b) ==
  /\ sync[b].made /\ sync[b].closed
  /\ ghost' = [ghost EXCEPT ![b].closeReturned = TRUE]
  /\ UNCHANGED <<portalVars, scope, busVars, task, thread>>

Closed(t) ==
  /\ Done(t, "closing")
  /\ Free(t)
  /\ thread' = [thread EXCEPT ![t].pc = "releasing", ![t].task = Nobody]
  /\ ghost' = [ghost EXCEPT ![thread[t].bus].closeReturned = TRUE]
  /\ UNCHANGED <<portalVars, scope, busVars>>

(* _release_portal.                                                         *)
Release(t) ==
  LET b == thread[t].bus IN
  /\ thread[t].pc = "releasing"
  /\ IF sync[b].entered
     THEN Exit(t) /\ sync' = [sync EXCEPT ![b].entered = FALSE]
     ELSE /\ thread' = [thread EXCEPT ![t] = AtRest]
          /\ UNCHANGED <<portalVars, sync>>
  /\ UNCHANGED <<scope, closed, stream, queue, requests, observers, task, ghost>>

StopPortal(t) ==
  /\ thread[t].pc = "stopping"
  /\ Stop(thread[t].portal)
  /\ thread' = [thread EXCEPT ![t].pc = "joining"]
  /\ UNCHANGED <<scope, busVars, task, ghost>>

Joined(t) ==
  /\ thread[t].pc = "joining" /\ portal[thread[t].portal] = "stopped"
  /\ thread' = [thread EXCEPT ![t] = AtRest]
  /\ UNCHANGED <<portalVars, scope, busVars, task, ghost>>

(* close on the loop's own thread, by __del__ or by an observer: portal.call *)
(* raises, the lease is given up, and the last one cannot stop the portal.  *)
CloseOnLoop(b) ==
  /\ sync[b].made /\ ~sync[b].closed
  /\ sync' = [sync EXCEPT ![b].closed = TRUE, ![b].entered = FALSE]
  /\ Unlease
  /\ ghost' = [ghost EXCEPT ![b].closedOnLoop = TRUE, ![b].closeReturned = TRUE]
  /\ UNCHANGED <<scope, closed, stream, queue, requests, observers, task, thread>>

-----------------------------------------------------------------------------
(* Observers, from any thread                                              *)

AddTransactionObserver(b, o) ==
  /\ sync[b].made /\ Len(observers[b]) < scope.registrations
  /\ observers' = [observers EXCEPT ![b] = Append(@, o)]
  /\ UNCHANGED <<portalVars, scope, sync, closed, stream, queue, requests, task, thread, ghost>>

(* The function add_transaction_observer returned, called any number of     *)
(* times.                                                                   *)
RemoveObserver(b, o) ==
  LET left == Count(observers[b], o) - 1 IN
  /\ left >= 0  \* or ValueError, which is suppressed
  /\ observers' = [observers EXCEPT ![b] = FirstRemoved(@, o)]
  /\ ghost' = [ghost EXCEPT ![b].kept[o] = IF @ > left THEN left ELSE @]
  /\ UNCHANGED <<portalVars, scope, sync, closed, stream, queue, requests, task, thread>>

-----------------------------------------------------------------------------
(* Tasks on the loop                                                       *)

Step(k, r) == task' = [task EXCEPT ![k] = r]
Finish(k, out) == Step(k, [task[k] EXCEPT !.stage = "done", !.out = out])

OpenPort(k) ==
  LET b == task[k].bus IN
  /\ At(k, "started") /\ task[k].kind = "open"
  /\ \/ Finish(k, "value") /\ stream' = [stream EXCEPT ![b] = "open"]
     \/ \E out \in {"error", "timeout"} : Finish(k, out) /\ UNCHANGED stream
  /\ UNCHANGED <<portalVars, scope, sync, closed, queue, requests, observers, thread, ghost>>

StartUnchecked(k) ==
  LET b == task[k].bus IN
  /\ At(k, "started") /\ task[k].kind \in Kinds
  /\ Step(k, [task[k] EXCEPT !.stage = "waiting"])
  /\ queue' = [queue EXCEPT ![b] = Append(@, k)]
  /\ UNCHANGED <<portalVars, scope, sync, closed, stream, requests, observers, thread, ghost>>

(* Bus._txn and Bus._broadcast up to the lock.                              *)
Start(k) ==
  LET b == task[k].bus IN
  /\ At(k, "started") /\ task[k].kind \in Kinds
  /\ IF closed[b] THEN Finish(k, "closed") /\ UNCHANGED queue
     ELSE /\ Step(k, [task[k] EXCEPT !.stage = "waiting"])
          /\ queue' = [queue EXCEPT ![b] = Append(@, k)]
  /\ UNCHANGED <<portalVars, scope, sync, closed, stream, requests, observers, thread, ghost>>

Acquire(k) ==
  LET b == task[k].bus IN
  /\ At(k, "waiting") /\ Head(queue[b]) = k
  /\ requests' = [requests EXCEPT ![b] = @ + 1]
  /\ Step(k, [task[k] EXCEPT !.stage = "attempt", !.id = requests[b] + 1, !.attempt = 1])
  /\ UNCHANGED <<portalVars, scope, sync, closed, stream, queue, observers, thread, ghost>>

(* What an attempt can end with, before its frame is out and after; "lost"  *)
(* stands for every error that is not in retry_on, exception replies too.   *)
Outcomes(k) ==
  (IF stream[task[k].bus] # "open" THEN {"closed"} ELSE {}) \cup
  (CASE task[k].stage = "attempt"     -> {}
     [] task[k].kind = "broadcast"    -> {"broadcast_sent", "lost"}
     [] OTHER                         -> {"reply", "timeout", "lost"})

WillRetryOnceMore(k, outcome) ==
  outcome = "timeout" /\ task[k].kind = "read" /\ task[k].attempt <= Retries + 1

(* _should_retry; "timeout" stands for every outcome in retry_on.           *)
WillRetry(k, outcome) ==
  outcome = "timeout" /\ task[k].kind = "read" /\ task[k].attempt < Retries + 1

OutOf(outcome) ==
  CASE outcome \in {"reply", "broadcast_sent"} -> "value"
    [] outcome = "cancelled" -> "timeout"
    [] OTHER -> "error"

(* What an observer that was there all along has been told of the request;  *)
(* with no observer no report is made.                                      *)
Reports(k, outcome) ==
  LET r   == [id |-> task[k].id, attempt |-> task[k].attempt,
              willRetry |-> WillRetry(k, outcome)]
      log == ghost[task[k].bus].log
  IN IF log # <<>> /\ log[1].id = r.id THEN Append(log, r) ELSE <<r>>

(* The end of an attempt, and _finish_attempt up to its loop.               *)
AttemptEnds(k, outcome) ==
  LET b == task[k].bus IN
  /\ Step(k, [task[k] EXCEPT !.stage = "reporting", !.audience = observers[b], !.called = 0,
                             !.out = IF WillRetry(k, outcome) THEN "none" ELSE OutOf(outcome)])
  /\ closed' = [closed EXCEPT ![b] = @ \/ outcome = "closed"]  \* _stream_error
  /\ ghost' = [ghost EXCEPT ![b].log = Reports(k, outcome),
                            ![b].kept = [o \in Observers |-> Count(observers[b], o)],
                            ![b].told = [o \in Observers |-> 0]]
  /\ UNCHANGED <<portalVars, scope, sync, stream, queue, requests, observers, thread>>

InAttempt(k) == At(k, "attempt") \/ At(k, "sent")

Attempt(k) == InAttempt(k) /\ \E outcome \in Outcomes(k) : AttemptEnds(k, outcome)

Send(k) ==
  /\ At(k, "attempt") /\ stream[task[k].bus] = "open"
  /\ Step(k, [task[k] EXCEPT !.stage = "sent"])
  /\ UNCHANGED <<portalVars, scope, busVars, thread, ghost>>

AudienceLive(k) == observers[task[k].bus]
Audience(k) == task[k].audience

(* _call_observer: what an observer raises is ignored.                      *)
Deliver(k) ==
  LET b == task[k].bus IN
  /\ task[k].stage = "reporting" /\ task[k].called < Len(Audience(k))
  /\ Step(k, [task[k] EXCEPT !.called = @ + 1])
  /\ ghost' = [ghost EXCEPT ![b].told[Audience(k)[task[k].called + 1]] = @ + 1]
  /\ UNCHANGED <<portalVars, scope, busVars, thread>>

ReportOver(k) ==
  ghost' = [ghost EXCEPT ![task[k].bus].kept = [o \in Observers |-> 0],
                         ![task[k].bus].told = [o \in Observers |-> 0]]

ReportedUnlocked(k) ==
  /\ task[k].stage = "reporting" /\ task[k].called >= Len(Audience(k))
  /\ Without(k)
  /\ IF task[k].out = "none" THEN Step(k, [task[k] EXCEPT !.stage = "backoff"])
     ELSE Finish(k, task[k].out)
  /\ ReportOver(k)
  /\ UNCHANGED <<portalVars, scope, sync, closed, stream, requests, observers, thread>>

(* The call ends, or waits to try again with the lock held.                 *)
Reported(k) ==
  /\ task[k].stage = "reporting" /\ task[k].called >= Len(Audience(k))
  /\ IF task[k].out = "none"
     THEN Step(k, [task[k] EXCEPT !.stage = "backoff"]) /\ UNCHANGED queue
     ELSE Finish(k, task[k].out) /\ Without(k)
  /\ ReportOver(k)
  /\ UNCHANGED <<portalVars, scope, sync, closed, stream, requests, observers, thread>>

BackoffEndsUncounted(k) ==
  /\ At(k, "backoff")
  /\ Step(k, [task[k] EXCEPT !.stage = "attempt"])
  /\ UNCHANGED <<portalVars, scope, busVars, thread, ghost>>

BackoffEnds(k) ==
  /\ At(k, "backoff")
  /\ Step(k, [task[k] EXCEPT !.stage = "attempt", !.attempt = @ + 1])
  /\ UNCHANGED <<portalVars, scope, busVars, thread, ghost>>

GivenUp(k, before) == IF task[k].stage = "backoff" THEN task[k].id ELSE before

CancelKeepingLock(k) ==
  \/ InAttempt(k) /\ AttemptEnds(k, "cancelled")
  \/ /\ At(k, "waiting") \/ At(k, "backoff")
     /\ Finish(k, "timeout")
     /\ ghost' = [ghost EXCEPT ![task[k].bus].gaveUp = GivenUp(k, @)]
     /\ UNCHANGED <<portalVars, scope, busVars, thread>>

CancelCloseToo(k) ==
  \/ InAttempt(k) /\ AttemptEnds(k, "cancelled")
  \/ /\ At(k, "waiting") \/ At(k, "backoff") \/ At(k, "closing")
     /\ Finish(k, "timeout") /\ Without(k)
     /\ ghost' = [ghost EXCEPT ![task[k].bus].gaveUp = GivenUp(k, @)]
     /\ UNCHANGED <<portalVars, scope, sync, closed, stream, requests, observers, thread>>

(* The call's own timeout expires.  aclose is shielded from it.             *)
Cancel(k) ==
  \/ InAttempt(k) /\ AttemptEnds(k, "cancelled")
  \/ /\ At(k, "waiting") \/ At(k, "backoff")
     /\ Finish(k, "timeout") /\ Without(k)
     /\ ghost' = [ghost EXCEPT ![task[k].bus].gaveUp = GivenUp(k, @)]
     /\ UNCHANGED <<portalVars, scope, sync, closed, stream, requests, observers, thread>>

(* Bus.aclose.                                                              *)
StartAclose(k) ==
  LET b == task[k].bus IN
  /\ At(k, "started") /\ task[k].kind = "aclose"
  /\ IF closed[b] THEN Finish(k, "value") /\ UNCHANGED <<closed, stream>>
     ELSE /\ closed' = [closed EXCEPT ![b] = TRUE]
          /\ stream' = [stream EXCEPT ![b] = "closing"]
          /\ Step(k, [task[k] EXCEPT !.stage = "closing"])
  /\ UNCHANGED <<portalVars, scope, sync, queue, requests, observers, thread, ghost>>

StreamCloses(k) ==
  /\ At(k, "closing")
  /\ stream' = [stream EXCEPT ![task[k].bus] = "closed"]
  /\ \E out \in {"value", "error"} : Finish(k, out)
  /\ UNCHANGED <<portalVars, scope, sync, closed, queue, requests, observers, thread, ghost>>

(* The portal ends when it was stopped and its tasks have ended.            *)
PortalEnds(p) ==
  /\ \A k \in Tasks : task[k].portal = p => task[k].stage = "done"
  /\ Ends(p)
  /\ UNCHANGED <<scope, busVars, task, thread, ghost>>

-----------------------------------------------------------------------------
Init ==
  /\ PortalInit
  /\ scope \in Scopes
  /\ sync = [b \in Buses |-> [made |-> FALSE, closed |-> FALSE, entered |-> FALSE,
                              portal |-> NoPortal]]
  /\ closed = [b \in Buses |-> FALSE]
  /\ stream = [b \in Buses |-> "none"]
  /\ queue = [b \in Buses |-> <<>>]
  /\ requests = [b \in Buses |-> 0]
  /\ observers = [b \in Buses |-> <<>>]
  /\ task = [k \in Tasks |-> NoTask]
  /\ thread = [t \in Threads |-> AtRest]
  /\ ghost = [b \in Buses |->
       [opened |-> FALSE, asked |-> 0, closeReturned |-> FALSE, closedOnLoop |-> FALSE,
        log |-> <<>>, gaveUp |-> 0,
        kept |-> [o \in Observers |-> 0], told |-> [o \in Observers |-> 0]]]

ThreadStep(t) ==
  \/ Opened(t) \/ OpenFailed(t) \/ Returned(t)
  \/ Closed(t) \/ Release(t) \/ StopPortal(t) \/ Joined(t)

TaskStep(k) ==
  \/ OpenPort(k) \/ Start(k) \/ Acquire(k) \/ Send(k) \/ Attempt(k) \/ Deliver(k) \/ Reported(k)
  \/ BackoffEnds(k) \/ StartAclose(k) \/ StreamCloses(k) \/ Forgotten(k)

Next ==
  \/ \E t \in Threads :
       \/ ThreadStep(t) \/ Interrupt(t)
       \/ \E b \in Buses : Open(t, b) \/ Request(t, b) \/ Close(t, b)
  \/ \E k \in Tasks : TaskStep(k) \/ Cancel(k)
  \/ \E p \in Portals : PortalEnds(p)
  \/ \E b \in Buses :
       \/ CloseOnLoop(b) \/ CloseAgain(b)
       \/ \E o \in Observers : AddTransactionObserver(b, o) \/ RemoveObserver(b, o)

(* A started thread and the loop go on: attempts end (request_timeout, and  *)
(* a stream whose send and aclose return), observers return.                *)
Fairness ==
  /\ \A t \in Threads : WF_vars(ThreadStep(t))
  /\ \A k \in Tasks : WF_vars(TaskStep(k))
  /\ \A p \in Portals : WF_vars(PortalEnds(p))

Spec == Init /\ [][Next]_vars /\ Fairness

-----------------------------------------------------------------------------
(* Properties                                                              *)

(* Every variable holds a value of its kind, and attempts their number.    *)
TypeOK ==
  /\ portal \in [Portals -> {"unused", "running", "stopping", "stopped"}]
  /\ current \in Portals \cup {NoPortal} /\ leases \in 0..Cardinality(Buses)
  /\ \A b \in Buses :
       /\ stream[b] \in {"none", "open", "closing", "closed"}
       /\ \A i \in DOMAIN queue[b] : queue[b][i] \in Tasks
       /\ \A i \in DOMAIN observers[b] : observers[b][i] \in Observers
  /\ \A k \in Tasks :
       /\ task[k].stage \in {"free", "started", "waiting", "attempt", "sent", "reporting",
                             "backoff", "closing", "done"}
       /\ task[k].attempt \in 0..(Retries + 1)
  /\ \A t \in Threads :
       thread[t].pc \in {"idle", "opening", "calling", "closing", "releasing", "stopping",
                         "joining"}

(* Whatever other buses are opened, fail to open or are closed by other     *)
(* threads, the portal of a bus that has not been released takes its calls, *)
(* and it is the one a bus opened now would get (close, open_modbus_rtu).   *)
PortalServesOpenBuses ==
  \A b \in Buses : sync[b].entered => Accepts(sync[b].portal) /\ current = sync[b].portal

(* The loop's thread ends with the last bus: a portal that runs with no bus  *)
(* and no thread to stop it was released on its own thread (close).         *)
OrphanOnlyFromLoop ==
  \A p \in Portals : portal[p] = "running" =>
    \/ \E b \in Buses : sync[b].portal = p /\ (sync[b].entered \/ ghost[b].closedOnLoop)
    \/ \E t \in Threads : thread[t].portal = p /\ thread[t].pc \in {"opening", "stopping"}

(* A bus that a thread closed and released has its stream closed, or is     *)
(* closing it although its caller was interrupted: a timeout of close does  *)
(* not give the stream up (close, aclose).                                  *)
StreamClosedOnRelease ==
  \A b \in Buses : (sync[b].made /\ ~sync[b].entered /\ ~ghost[b].closedOnLoop) =>
    \/ stream[b] = "closed"
    \/ \E k \in Tasks : task[k].kind = "aclose" /\ task[k].bus = b /\ task[k].stage # "done"

(* A call begun after a close has returned sends nothing, on the slave       *)
(* handles that outlive the bus too: after the close that ran aclose, and    *)
(* after one of another thread or of the loop that returned at once.  Not   *)
(* promised, and not so in the code: a second close returns before the      *)
(* aclose of the first has begun, and a close on the loop's own thread runs *)
(* none; calls begun meanwhile may be sent (sync.Bus.close, Bus._txn).      *)
NothingSentAfterClose ==
  \A k \in Tasks : task[k].late => task[k].stage \in {"started", "done"}

(* The reports of one request are numbered from 1, all but the last say     *)
(* that it will be sent again, and the last says so only of a request still *)
(* in progress or cancelled in its backoff (_txn, _finish_attempt).         *)
ReportsInOrder ==
  \A b \in Buses : LET log == ghost[b].log IN
    /\ \A i \in DOMAIN log : log[i].attempt = i /\ log[i].id = log[1].id
    /\ \A i \in 1..(Len(log) - 1) : log[i].willRetry
    /\ (log # <<>> /\ log[Len(log)].willRetry) =>
         \/ ghost[b].gaveUp = log[1].id
         \/ \E k \in Tasks : /\ task[k].bus = b /\ task[k].id = log[1].id
                             /\ task[k].stage \in {"reporting", "backoff", "attempt", "sent"}

(* Reports of two requests of a bus are never mixed: what is reported is of *)
(* the request last begun (_txn holds the lock through its backoffs).       *)
ReportsNotMixed ==
  [][\A b \in Buses : ghost'[b].log # ghost[b].log =>
       ghost'[b].log[Len(ghost'[b].log)].id = requests[b]]_vars

(* An observer registered all through a report is told of it once for each   *)
(* registration, whatever others register and remove meanwhile, and none    *)
(* that came later is (_finish_attempt).                                    *)
ObserversTold ==
  \A k \in Tasks : task[k].stage = "reporting" =>
    LET b == task[k].bus IN \A o \in Observers :
      /\ ghost[b].told[o] <= Count(task[k].audience, o)
      /\ task[k].called >= Len(Audience(k)) => ghost[b].told[o] >= ghost[b].kept[o]

(* Every blocking call returns: requests with their lock and retries, opens, *)
(* and closes that join the loop's thread while calls of others are on it.  *)
EveryCallReturns ==
  \A t \in Threads : thread[t].pc # "idle" ~> thread[t].pc = "idle"
=============================================================================
