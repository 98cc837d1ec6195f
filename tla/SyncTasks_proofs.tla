--------------------------- MODULE SyncTasks_proofs ---------------------------
(***************************************************************************)
(* Proofs about the tasks of SyncBus: their threads, the lock of a bus, its *)
(* closing, and the reports to its observers.                              *)
(***************************************************************************)
EXTENDS SyncBus_proofs

USE PortalAssumption, SyncAssumption DEF NoPortal

Calls   == {"waiting", "attempt", "sent", "reporting", "backoff"}
Holding == {"attempt", "sent", "reporting", "backoff"}
Waits   == {"opening", "calling", "closing"}

(* A thread waits for a task of its own, which does what the thread asked. *)
TasksOfThreads ==
  /\ \A t \in Threads : thread[t].pc \in Waits =>
       LET k == thread[t].task IN
       /\ k \in Tasks /\ task[k].bus = thread[t].bus
       /\ task[k].kind \in CASE thread[t].pc = "opening" -> {"open"}
                             [] thread[t].pc = "calling" -> Kinds
                             [] thread[t].pc = "closing" -> {"aclose"}
  /\ \A t, u \in Threads :
       /\ thread[t].pc \in Waits /\ thread[u].pc \in Waits
       /\ thread[t].task = thread[u].task
       => t = u

(* What a task does at each stage of its kind.                             *)
StagesOfKinds ==
  \A k \in Tasks :
    /\ task[k].stage = "free" <=> task[k].kind = "none"
    /\ task[k].kind # "none" => task[k].bus \in Buses
    /\ task[k].kind = "open" => task[k].stage \in {"started", "done"}
    /\ task[k].kind = "aclose" => task[k].stage \in {"started", "closing", "done"}
    /\ task[k].kind \in Kinds => task[k].stage \in Calls \cup {"started", "done"}

(* The stream of a bus is opened by its one open, and closed by its close. *)
StreamOK ==
  /\ \A k \in Tasks : task[k].kind = "open" =>
       /\ ghost[task[k].bus].opened
       /\ task[k].stage = "started" =>
            ~sync[task[k].bus].made /\ stream[task[k].bus] = "none"
       /\ task[k].stage = "done" /\ task[k].out = "value" => stream[task[k].bus] # "none"
  /\ \A k, l \in Tasks : task[k].kind = "open" /\ task[l].kind = "open"
                         /\ task[k].bus = task[l].bus => k = l
  /\ \A k \in Tasks : task[k].kind \in Kinds \cup {"aclose"} => sync[task[k].bus].made
  /\ \A k \in Tasks : task[k].kind = "aclose" /\ task[k].stage # "started" =>
       closed[task[k].bus]
  /\ \A b \in Buses :
       /\ sync[b].made => stream[b] # "none"
       /\ stream[b] # "none" => ghost[b].opened
       /\ closed[b] => stream[b] \in {"closing", "closed"}
       /\ stream[b] = "closing" =>
            \E k \in Tasks : task[k].kind = "aclose" /\ task[k].bus = b
                             /\ task[k].stage = "closing"
       /\ sync[b].closed /\ ~ghost[b].closedOnLoop =>
            \/ stream[b] = "closed"
            \/ \E k \in Tasks : task[k].kind = "aclose" /\ task[k].bus = b
                                /\ task[k].stage # "done"
       /\ stream[b] = "closed" => closed[b]
       /\ ghost[b].closeReturned => sync[b].made /\ sync[b].closed
  /\ \A k \in Tasks : task[k].late => task[k].bus \in Buses /\ closed[task[k].bus]

(* What the closing of a bus rests on.                                     *)
CloseInv == /\ TypeInv /\ LeaseInv /\ TasksOfThreads /\ StagesOfKinds
            /\ StreamOK /\ NothingSentAfterClose

-----------------------------------------------------------------------------
(* What each step of a task does to it                                     *)

(* Task k keeps what it was started with, and other tasks are left alone.   *)
Kept(k) ==
  /\ \A l \in Tasks : l # k => task'[l] = task[l]
  /\ task'[k].kind = task[k].kind /\ task'[k].bus = task[k].bus
  /\ task'[k].late = task[k].late

Moves(k, from, to) == Kept(k) /\ task[k].stage = from /\ task'[k].stage = to

(* The request of a task, and its report.                                  *)
SameRequest(k) == task'[k].id = task[k].id /\ task'[k].attempt = task[k].attempt
SameReport(k) ==
  task'[k].audience = task[k].audience /\ task'[k].called = task[k].called

(* A task that ends.                                                       *)
LEMMA FinishFields ==
  ASSUME TypeInv, NEW k \in Tasks, NEW out, Finish(k, out)
  PROVE  Moves(k, task[k].stage, "done") /\ task'[k].out = out /\ SameRequest(k)
<1>1. task[k] \in TaskRec /\ task \in [Tasks -> TaskRec]
  BY DEF TypeInv, LoopTypes
<1>2. task' = [task EXCEPT ![k] = [task[k] EXCEPT !.stage = "done", !.out = out]]
  BY DEF Finish, Step
<1> QED  BY <1>1, <1>2 DEF TaskRec, Moves, Kept, SameRequest

(* A task that goes to another stage.                                      *)
LEMMA StageFields ==
  ASSUME TypeInv, NEW k \in Tasks, NEW stage, Step(k, [task[k] EXCEPT !.stage = stage])
  PROVE  /\ Moves(k, task[k].stage, stage) /\ task'[k].out = task[k].out
         /\ SameRequest(k) /\ SameReport(k)
<1>1. task[k] \in TaskRec /\ task \in [Tasks -> TaskRec]
  BY DEF TypeInv, LoopTypes
<1> QED  BY <1>1 DEF TaskRec, Moves, Kept, Step, SameRequest, SameReport

(* A task that gets the lock.                                              *)
LEMMA AcquireFields ==
  ASSUME TypeInv, NEW k \in Tasks, Acquire(k)
  PROVE  /\ Moves(k, "waiting", "attempt")
         /\ task'[k].id = requests[task[k].bus] + 1 /\ task'[k].attempt = 1
<1>1. task[k] \in TaskRec /\ task \in [Tasks -> TaskRec]
  BY DEF TypeInv, LoopTypes
<1> QED  BY <1>1 DEF TaskRec, Moves, Kept, Step, Acquire, At

(* A task that tries again.                                                *)
LEMMA BackoffEndsFields ==
  ASSUME TypeInv, NEW k \in Tasks, BackoffEnds(k)
  PROVE  /\ Moves(k, "backoff", "attempt")
         /\ task'[k].id = task[k].id /\ task'[k].attempt = task[k].attempt + 1
<1>1. task[k] \in TaskRec /\ task \in [Tasks -> TaskRec]
  BY DEF TypeInv, LoopTypes
<1> QED  BY <1>1 DEF TaskRec, Moves, Kept, Step, BackoffEnds, At

(* A task that tells an observer.                                          *)
LEMMA DeliverFields ==
  ASSUME TypeInv, NEW k \in Tasks, Deliver(k)
  PROVE  /\ Moves(k, "reporting", "reporting") /\ task'[k].out = task[k].out
         /\ SameRequest(k)
         /\ task'[k].audience = task[k].audience /\ task'[k].called = task[k].called + 1
         /\ task[k].called < Len(task[k].audience)
<1>1. task[k] \in TaskRec /\ task \in [Tasks -> TaskRec]
  BY DEF TypeInv, LoopTypes
<1> QED  BY <1>1 DEF TaskRec, Moves, Kept, Step, Deliver, SameRequest, Audience

(* The end of an attempt, and the log and counts that go with its report.  *)
LEMMA AttemptEndsFields ==
  ASSUME TypeInv, NEW k \in Tasks, NEW outcome, InAttempt(k), AttemptEnds(k, outcome)
  PROVE  LET b == task[k].bus IN
         /\ Moves(k, task[k].stage, "reporting") /\ task[k].stage \in {"attempt", "sent"}
         /\ SameRequest(k)
         /\ task'[k].audience = observers[b] /\ task'[k].called = 0
         /\ task'[k].out = IF WillRetry(k, outcome) THEN "none" ELSE OutOf(outcome)
         /\ b \in Buses
         /\ ghost'[b].log = Reports(k, outcome) /\ ghost'[b].gaveUp = ghost[b].gaveUp
         /\ ghost'[b].kept = [o \in Observers |-> Count(observers[b], o)]
         /\ ghost'[b].told = [o \in Observers |-> 0]
         /\ \A c \in Buses : c # b => ghost'[c] = ghost[c]
<1> DEFINE b == task[k].bus
<1>1. task[k] \in TaskRec /\ task \in [Tasks -> TaskRec]
  BY DEF TypeInv, LoopTypes
<1>2. task[k].stage \in {"attempt", "sent"} /\ b \in Buses
  BY DEF InAttempt, At, TypeInv, LoopTypes
<1>3. /\ ghost[b] \in GhostRec /\ ghost \in [Buses -> GhostRec]
  BY <1>2 DEF TypeInv, LeaseTypes
<1>4. /\ ghost'[b].log = Reports(k, outcome) /\ ghost'[b].gaveUp = ghost[b].gaveUp
      /\ ghost'[b].kept = [o \in Observers |-> Count(observers[b], o)]
      /\ ghost'[b].told = [o \in Observers |-> 0]
      /\ \A c \in Buses : c # b => ghost'[c] = ghost[c]
  <2> DEFINE log == Reports(k, outcome)
             kept == [o \in Observers |-> Count(observers[b], o)]
             told == [o \in Observers |-> 0]
  <2>1. ghost' = [ghost EXCEPT ![b] = [ghost[b] EXCEPT !.log = log, !.kept = kept,
                                                       !.told = told]]
    BY DEF AttemptEnds
  <2> HIDE DEF b, log, kept, told
  <2>2. ghost'[b].log = log /\ ghost'[b].gaveUp = ghost[b].gaveUp /\ ghost'[b].kept = kept
        /\ ghost'[b].told = told
        /\ \A c \in Buses : c # b => ghost'[c] = ghost[c]
    BY <1>2, <1>3, <2>1 DEF GhostRec, b
  <2> QED  BY <2>2 DEF b, log, kept, told
<1>5. /\ Moves(k, task[k].stage, "reporting") /\ SameRequest(k)
      /\ task'[k].audience = observers[b] /\ task'[k].called = 0
      /\ task'[k].out = IF WillRetry(k, outcome) THEN "none" ELSE OutOf(outcome)
  BY <1>1 DEF AttemptEnds, Step, TaskRec, Moves, Kept, SameRequest
<1> QED  BY <1>2, <1>4, <1>5

(* A task that has told them all.                                          *)
LEMMA ReportedFields ==
  ASSUME TypeInv, NEW k \in Tasks, Reported(k)
  PROVE  LET b == task[k].bus IN
         /\ b \in Buses /\ Kept(k) /\ task[k].stage = "reporting"
         /\ task'[k].out = task[k].out
         /\ IF task[k].out = "none"
            THEN task'[k].stage = "backoff" /\ queue' = queue
            ELSE task'[k].stage = "done" /\ Without(k)
         /\ SameRequest(k)
         /\ ghost'[b].log = ghost[b].log /\ ghost'[b].gaveUp = ghost[b].gaveUp
         /\ \A c \in Buses : c # b => ghost'[c] = ghost[c]
<1> DEFINE b == task[k].bus
<1>1. task[k].stage = "reporting" /\ b \in Buses
  BY DEF Reported, TypeInv, LoopTypes
<1>4. /\ ghost'[b].log = ghost[b].log /\ ghost'[b].gaveUp = ghost[b].gaveUp
      /\ \A c \in Buses : c # b => ghost'[c] = ghost[c]
  <2> DEFINE zero == [o \in Observers |-> 0]
  <2>1. ghost' = [ghost EXCEPT ![b] = [ghost[b] EXCEPT !.kept = zero, !.told = zero]]
    BY DEF Reported, ReportOver
  <2> HIDE DEF zero, b
  <2> QED  BY <1>1, <2>1 DEF TypeInv, LeaseTypes, GhostRec
<1> HIDE DEF b
<1>5. /\ Kept(k) /\ task'[k].out = task[k].out /\ SameRequest(k)
      /\ IF task[k].out = "none"
         THEN task'[k].stage = "backoff" /\ queue' = queue
         ELSE task'[k].stage = "done" /\ Without(k)
  <2>1. CASE task[k].out = "none"
    BY <2>1, StageFields DEF Reported, Moves
  <2>2. CASE task[k].out # "none"
    BY <2>2, FinishFields DEF Reported, Moves
  <2> QED  BY <2>1, <2>2
<1> QED  BY <1>1, <1>4, <1>5 DEF b

(* A call whose timeout expires while it waits.                            *)
LEMMA GiveUpFields ==
  ASSUME TypeInv, NEW k \in Tasks, Cancel(k),
         ~\E outcome : InAttempt(k) /\ AttemptEnds(k, outcome)
  PROVE  LET b == task[k].bus IN
         /\ b \in Buses /\ Kept(k) /\ task[k].stage \in {"waiting", "backoff"}
         /\ task'[k].stage = "done" /\ task'[k].out = "timeout" /\ SameRequest(k)
         /\ Without(k)
         /\ ghost'[b].log = ghost[b].log
         /\ ghost'[b].gaveUp = IF task[k].stage = "backoff" THEN task[k].id ELSE ghost[b].gaveUp
         /\ ghost'[b].kept = ghost[b].kept /\ ghost'[b].told = ghost[b].told
         /\ \A c \in Buses : c # b => ghost'[c] = ghost[c]
         /\ UNCHANGED <<closed, stream, requests>>
<1> DEFINE b == task[k].bus
<1>1. /\ task[k].stage \in {"waiting", "backoff"} /\ b \in Buses
      /\ Finish(k, "timeout") /\ Without(k)
      /\ ghost' = [ghost EXCEPT ![b] = [ghost[b] EXCEPT !.gaveUp = GivenUp(k, ghost[b].gaveUp)]]
      /\ UNCHANGED <<closed, stream, requests>>
  BY DEF Cancel, At, TypeInv, LoopTypes
<1>2. /\ Kept(k) /\ task'[k].stage = "done" /\ task'[k].out = "timeout" /\ SameRequest(k)
  BY <1>1, FinishFields DEF Moves
<1> HIDE DEF b
<1>3. /\ ghost'[b].log = ghost[b].log
      /\ ghost'[b].gaveUp = GivenUp(k, ghost[b].gaveUp)
      /\ ghost'[b].kept = ghost[b].kept /\ ghost'[b].told = ghost[b].told
      /\ \A c \in Buses : c # b => ghost'[c] = ghost[c]
  BY <1>1 DEF TypeInv, LeaseTypes, GhostRec
<1> QED  BY <1>1, <1>2, <1>3 DEF b, GivenUp

(* A timeout ends an attempt, or a wait.                                   *)
LEMMA CancelEnds ==
  ASSUME NEW k \in Tasks, Cancel(k)
  PROVE  \/ InAttempt(k) /\ AttemptEnds(k, "cancelled")
         \/ ~\E outcome : InAttempt(k) /\ AttemptEnds(k, outcome)
BY DEF Cancel, InAttempt, At

(* A task nobody waits for is dropped.                                     *)
LEMMA ForgottenFields ==
  ASSUME TypeInv, NEW k \in Tasks, Forgotten(k)
  PROVE  /\ task'[k] = NoTask /\ task[k].stage = "done"
         /\ \A l \in Tasks : l # k => task'[l] = task[l]
         /\ \A t \in Threads : thread[t].task # k
         /\ UNCHANGED <<portalVars, scope, busVars, thread, ghost>>
BY DEF Forgotten, TypeInv, LoopTypes

(* A step of a task, by what it does to the task.                          *)
LEMMA TaskStepKept ==
  ASSUME TypeInv, NEW k \in Tasks, TaskStep(k) \/ Cancel(k)
  PROVE  Kept(k) \/ Forgotten(k)
<1>1. CASE OpenPort(k)
  BY <1>1, FinishFields DEF OpenPort, Moves
<1>2. CASE Start(k)
  BY <1>2, FinishFields, StageFields DEF Start, Moves
<1>3. CASE Acquire(k)
  BY <1>3, AcquireFields DEF Moves
<1>4. CASE Send(k)
  BY <1>4, StageFields DEF Send, Moves
<1>5. CASE Attempt(k)
  BY <1>5, AttemptEndsFields DEF Attempt, Moves
<1>6. CASE Deliver(k)
  BY <1>6, DeliverFields DEF Moves
<1>7. CASE Reported(k)
  BY <1>7, ReportedFields
<1>8. CASE BackoffEnds(k)
  BY <1>8, BackoffEndsFields DEF Moves
<1>9. CASE StartAclose(k)
  BY <1>9, FinishFields, StageFields DEF StartAclose, Moves
<1>10. CASE StreamCloses(k)
  BY <1>10, FinishFields DEF StreamCloses, Moves
<1>11. CASE Cancel(k)
  BY <1>11, AttemptEndsFields, GiveUpFields DEF Moves
<1> QED
  BY <1>1, <1>2, <1>3, <1>4, <1>5, <1>6, <1>7, <1>8, <1>9, <1>10, <1>11 DEF TaskStep

(* A call from a thread.                                                   *)
Spawned(t, k, pc, kind, b) ==
  /\ task[k] = NoTask
  /\ task'[k].kind = kind /\ task'[k].bus = b /\ task'[k].stage = "started"
  /\ task'[k].late = Late(b) /\ task'[k].attempt = 0
  /\ \A l \in Tasks : l # k => task'[l] = task[l]
  /\ thread'[t].pc = pc /\ thread'[t].bus = b /\ thread'[t].task = k
  /\ \A u \in Threads : u # t => thread'[u] = thread[u]

(* Spawn is a call from a thread.                                          *)
LEMMA SpawnFields ==
  ASSUME TypeInv, NEW t \in Threads, NEW pc, NEW kind, NEW b \in Buses, NEW p,
         Spawn(t, pc, kind, b, p)
  PROVE  \E k \in Tasks : Spawned(t, k, pc, kind, b)
<1>1. \E k \in Tasks :
        /\ task[k] = NoTask
        /\ task' = [task EXCEPT ![k] = [NoTask EXCEPT !.kind = kind, !.bus = b, !.portal = p,
                                                      !.stage = "started",
                                                      !.late = Late(b)]]
        /\ thread' = [thread EXCEPT ![t] = [pc |-> pc, bus |-> b, task |-> k, portal |-> p]]
  BY DEF Spawn
<1>2. PICK k \in Tasks :
        /\ task[k] = NoTask
        /\ task' = [task EXCEPT ![k] = [NoTask EXCEPT !.kind = kind, !.bus = b, !.portal = p,
                                                      !.stage = "started",
                                                      !.late = Late(b)]]
        /\ thread' = [thread EXCEPT ![t] = [pc |-> pc, bus |-> b, task |-> k, portal |-> p]]
  BY <1>1
<1>3. task \in [Tasks -> TaskRec] /\ thread \in [Threads -> ThreadRec]
  BY DEF TypeInv, LoopTypes, LeaseTypes
<1>4. /\ thread'[t].pc = pc /\ thread'[t].bus = b /\ thread'[t].task = k
      /\ \A u \in Threads : u # t => thread'[u] = thread[u]
  BY <1>2, <1>3
<1>5. /\ task'[k].kind = kind /\ task'[k].bus = b /\ task'[k].stage = "started"
      /\ task'[k].late = Late(b) /\ task'[k].attempt = 0
      /\ \A l \in Tasks : l # k => task'[l] = task[l]
  BY <1>2, <1>3 DEF NoTask
<1> QED  BY <1>2, <1>4, <1>5 DEF Spawned

(* What a step of a thread does to its task and itself: it starts one,     *)
(* takes the result of one, or leaves the tasks alone.                     *)
Starts(t) ==
  \E k \in Tasks, b \in Buses :
    \/ Open(t, b) /\ Spawned(t, k, "opening", "open", b)
    \/ Request(t, b) /\ \E kind \in Kinds : Spawned(t, k, "calling", kind, b)
    \/ Close(t, b) /\ Spawned(t, k, "closing", "aclose", b)

TakesResult(t) ==
  /\ Opened(t) \/ OpenFailed(t) \/ Returned(t) \/ Closed(t)
  /\ thread[t].pc \in Waits /\ thread'[t].pc \notin Waits
  /\ Free(t)
  /\ \A u \in Threads : u # t => thread'[u] = thread[u]

LeavesTasks(t) ==
  /\ \/ Release(t) \/ StopPortal(t) \/ Joined(t) \/ Interrupt(t)
     \/ \E b \in Buses : Close(t, b)
  /\ UNCHANGED task
  /\ thread'[t].pc \notin Waits
  /\ \A u \in Threads : u # t => thread'[u] = thread[u]

(* A thread's step is of one of the three kinds.                           *)
LEMMA ThreadStepTasks ==
  ASSUME TypeInv, NEW t \in Threads,
         \/ ThreadStep(t) \/ Interrupt(t)
         \/ \E b \in Buses : Open(t, b) \/ Request(t, b) \/ Close(t, b)
  PROVE  /\ Starts(t) \/ TakesResult(t) \/ LeavesTasks(t)
         /\ UNCHANGED <<closed, stream, queue, requests, observers>>
<1> DEFINE r == thread[t]
<1>a. thread \in [Threads -> ThreadRec] /\ r \in ThreadRec /\ AtRest.pc = "idle"
  BY DEF TypeInv, LeaseTypes, AtRest
<1>b. ASSUME NEW pc \in {"releasing", "joining", "stopping"},
             \/ thread' = [thread EXCEPT ![t].pc = pc]
             \/ thread' = [thread EXCEPT ![t].pc = pc, ![t].task = Nobody]
      PROVE  thread'[t].pc \notin Waits /\ \A u \in Threads : u # t => thread'[u] = thread[u]
  BY <1>a, <1>b DEF ThreadRec, Waits
<1>c. ASSUME thread' = [thread EXCEPT ![t] = AtRest]
      PROVE  thread'[t].pc \notin Waits /\ \A u \in Threads : u # t => thread'[u] = thread[u]
  BY <1>a, <1>c DEF Waits
<1>d. ASSUME Exit(t)
      PROVE  thread'[t].pc \notin Waits /\ \A u \in Threads : u # t => thread'[u] = thread[u]
  BY <1>d, ExitThread DEF TypeInv, Waits
<1> HIDE DEF r
<1>1. CASE Opened(t)
  BY <1>c, <1>1 DEF Opened, Done, TakesResult, Waits
<1>2. CASE OpenFailed(t)
  BY <1>d, <1>2 DEF OpenFailed, Done, TakesResult, Waits, busVars
<1>3. CASE Returned(t)
  BY <1>c, <1>3 DEF Returned, Done, TakesResult, Waits, busVars
<1>4. CASE Closed(t)
  BY <1>b, <1>4 DEF Closed, Done, TakesResult, Waits, busVars
<1>5. CASE Release(t)
  BY <1>c, <1>d, <1>5 DEF Release, LeavesTasks
<1>6. CASE StopPortal(t)
  BY <1>b, <1>6 DEF StopPortal, LeavesTasks, busVars
<1>7. CASE Joined(t)
  BY <1>c, <1>7 DEF Joined, LeavesTasks, busVars
<1>8. CASE Interrupt(t)
  BY <1>b, <1>c, <1>d, <1>8 DEF Interrupt, LeavesTasks, busVars
<1>9. ASSUME NEW b \in Buses, Open(t, b)
      PROVE  Starts(t) /\ UNCHANGED <<closed, stream, queue, requests, observers>>
  <2>1. Spawn(t, "opening", "open", b, current')
    BY <1>9 DEF Open
  <2>2. \E k \in Tasks : Spawned(t, k, "opening", "open", b)
    BY <2>1, SpawnFields
  <2> QED  BY <1>9, <2>2 DEF Starts, Open, busVars
<1>10. ASSUME NEW b \in Buses, Request(t, b)
       PROVE  Starts(t) /\ UNCHANGED <<closed, stream, queue, requests, observers>>
  <2>1. PICK kind \in Kinds : Spawn(t, "calling", kind, b, sync[b].portal)
    BY <1>10 DEF Request
  <2>2. \E k \in Tasks : Spawned(t, k, "calling", kind, b)
    BY <2>1, SpawnFields
  <2> QED  BY <1>10, <2>2 DEF Starts, Request, busVars
<1>11. ASSUME NEW b \in Buses, Close(t, b)
       PROVE  /\ Starts(t) \/ LeavesTasks(t)
              /\ UNCHANGED <<closed, stream, queue, requests, observers>>
  <2>1. CASE Accepts(sync[b].portal)
    <3>1. Spawn(t, "closing", "aclose", b, sync[b].portal)
      BY <1>11, <2>1 DEF Close
    <3>2. \E k \in Tasks : Spawned(t, k, "closing", "aclose", b)
      BY <3>1, SpawnFields
    <3> QED  BY <1>11, <3>2 DEF Starts, Close
  <2>2. CASE ~Accepts(sync[b].portal)
    <3>1. /\ thread' = [thread EXCEPT ![t] = [pc |-> "releasing", bus |-> b, task |-> Nobody,
                                               portal |-> sync[b].portal]]
          /\ UNCHANGED <<task, closed, stream, queue, requests, observers>>
      BY <1>11, <2>2 DEF Close
    <3>2. thread'[t].pc \notin Waits /\ \A u \in Threads : u # t => thread'[u] = thread[u]
      BY <1>a, <3>1 DEF Waits
    <3> QED  BY <1>11, <3>1, <3>2 DEF LeavesTasks
  <2> QED  BY <2>1, <2>2
<1> QED  BY <1>1, <1>2, <1>3, <1>4, <1>5, <1>6, <1>7, <1>8, <1>9, <1>10, <1>11 DEF ThreadStep

-----------------------------------------------------------------------------
(* Threads and their tasks                                                 *)

(* The kind of a task from its stage.                                      *)
LEMMA StagesAre ==
  ASSUME TypeInv, StagesOfKinds, NEW k \in Tasks
  PROVE  /\ task[k].stage \in Calls => task[k].kind \in Kinds
         /\ task[k].kind \in Kinds => task[k].kind \notin {"none", "open", "aclose"}
         /\ task[k].stage = "closing" => task[k].kind = "aclose"
<1>1. task[k].kind \in Kinds \cup {"none", "open", "aclose"}
  BY DEF TypeInv, LoopTypes, TaskRec
<1> QED  BY <1>1 DEF StagesOfKinds, Calls

(* A call gives its thread a task no other thread waits for.               *)
LEMMA SpawnedOnce ==
  ASSUME TypeInv, TasksOfThreads, StagesOfKinds, NEW t \in Threads, NEW k \in Tasks, NEW b \in Buses,
         NEW pc \in Waits, NEW kind \in Kinds \cup {"open", "aclose"},
         Spawned(t, k, pc, kind, b),
         kind \in CASE pc = "opening" -> {"open"}
                    [] pc = "calling" -> Kinds
                    [] pc = "closing" -> {"aclose"}
  PROVE  TasksOfThreads' /\ StagesOfKinds'
<1>1. /\ task'[k].kind = kind /\ task'[k].bus = b /\ task'[k].stage = "started"
      /\ \A l \in Tasks : l # k => task'[l] = task[l]
      /\ thread'[t].pc = pc /\ thread'[t].bus = b /\ thread'[t].task = k
      /\ \A u \in Threads : u # t => thread'[u] = thread[u]
  BY DEF Spawned
<1>2. task[k].kind = "none" /\ "none" \notin Kinds
  BY DEF Spawned, NoTask
<1>3. \A u \in Threads : thread[u].pc \in Waits => thread[u].task # k
  BY <1>2 DEF TasksOfThreads, Waits
<1>4. StagesOfKinds'
  <2> SUFFICES ASSUME NEW l \in Tasks
               PROVE  /\ task'[l].stage = "free" <=> task'[l].kind = "none"
                      /\ task'[l].kind # "none" => task'[l].bus \in Buses
                      /\ task'[l].kind = "open" => task'[l].stage \in {"started", "done"}
                      /\ task'[l].kind = "aclose" =>
                           task'[l].stage \in {"started", "closing", "done"}
                      /\ task'[l].kind \in Kinds =>
                           task'[l].stage \in Calls \cup {"started", "done"}
    BY DEF StagesOfKinds
  <2>1. CASE l = k
    BY <1>1, <1>2, <2>1
  <2>2. CASE l # k
    BY <1>1, <2>2 DEF StagesOfKinds
  <2> QED  BY <2>1, <2>2
<1>5. \A u \in Threads : thread'[u].pc \in Waits =>
        LET l == thread'[u].task IN
        /\ l \in Tasks /\ task'[l].bus = thread'[u].bus
        /\ task'[l].kind \in CASE thread'[u].pc = "opening" -> {"open"}
                               [] thread'[u].pc = "calling" -> Kinds
                               [] thread'[u].pc = "closing" -> {"aclose"}
  <2> SUFFICES ASSUME NEW u \in Threads, thread'[u].pc \in Waits
               PROVE  LET l == thread'[u].task IN
                      /\ l \in Tasks /\ task'[l].bus = thread'[u].bus
                      /\ task'[l].kind \in CASE thread'[u].pc = "opening" -> {"open"}
                                             [] thread'[u].pc = "calling" -> Kinds
                                             [] thread'[u].pc = "closing" -> {"aclose"}
    OBVIOUS
  <2>1. CASE u = t
    BY <1>1, <2>1
  <2>2. CASE u # t
    <3>1. /\ thread'[u] = thread[u] /\ thread[u].task # k
          /\ thread[u].task \in Tasks => task'[thread[u].task] = task[thread[u].task]
      BY <1>1, <1>3, <2>2
    <3> QED  BY <3>1 DEF TasksOfThreads
  <2> QED  BY <2>1, <2>2
<1>6. \A u, v \in Threads :
        thread'[u].pc \in Waits /\ thread'[v].pc \in Waits /\ thread'[u].task = thread'[v].task
          => u = v
  BY <1>1, <1>3 DEF TasksOfThreads
<1> QED  BY <1>4, <1>5, <1>6 DEF TasksOfThreads

(* A thread's step keeps threads and tasks together.                       *)
LEMMA ThreadStepLinks ==
  ASSUME TypeInv, TasksOfThreads, StagesOfKinds, NEW t \in Threads,
         Starts(t) \/ TakesResult(t) \/ LeavesTasks(t)
  PROVE  TasksOfThreads' /\ StagesOfKinds'
<1>1. CASE Starts(t)
  BY <1>1, SpawnedOnce DEF Starts, Waits
<1>2. CASE TakesResult(t)
  <2> DEFINE k == thread[t].task
  <2>1. k \in Tasks /\ \A u \in Threads : u # t /\ thread[u].pc \in Waits => thread[u].task # k
    BY <1>2 DEF TakesResult, TasksOfThreads
  <2>2. /\ task'[k] = NoTask
        /\ \A l \in Tasks : l # k => task'[l] = task[l]
    BY <1>2, <2>1, FreeTask DEF TakesResult, TypeInv
  <2>3. /\ thread'[t].pc \notin Waits
        /\ \A u \in Threads : u # t => thread'[u] = thread[u]
    BY <1>2 DEF TakesResult
  <2>4. TasksOfThreads'
    <3>1. ASSUME NEW u \in Threads, thread'[u].pc \in Waits
          PROVE  /\ thread'[u] = thread[u] /\ thread[u].task # k
                 /\ thread[u].task \in Tasks => task'[thread[u].task] = task[thread[u].task]
      BY <2>1, <2>2, <2>3, <3>1
    <3> HIDE DEF k
    <3>2. \A u, v \in Threads :
            thread'[u].pc \in Waits /\ thread'[v].pc \in Waits /\ thread'[u].task = thread'[v].task
              => u = v
      BY <3>1 DEF TasksOfThreads
    <3>3. \A u \in Threads : thread'[u].pc \in Waits =>
            LET l == thread'[u].task IN
            /\ l \in Tasks /\ task'[l].bus = thread'[u].bus
            /\ task'[l].kind \in CASE thread'[u].pc = "opening" -> {"open"}
                                   [] thread'[u].pc = "calling" -> Kinds
                                   [] thread'[u].pc = "closing" -> {"aclose"}
      <4> SUFFICES ASSUME NEW u \in Threads, thread'[u].pc \in Waits
                   PROVE  LET l == thread'[u].task IN
                          /\ l \in Tasks /\ task'[l].bus = thread'[u].bus
                          /\ task'[l].kind \in CASE thread'[u].pc = "opening" -> {"open"}
                                                 [] thread'[u].pc = "calling" -> Kinds
                                                 [] thread'[u].pc = "closing" -> {"aclose"}
        OBVIOUS
      <4>1. thread[u].task \in Tasks /\ thread[u].pc \in Waits
        BY <3>1 DEF TasksOfThreads
      <4>2. thread'[u] = thread[u] /\ task'[thread[u].task] = task[thread[u].task]
        BY <3>1, <4>1
      <4> QED  BY <4>1, <4>2 DEF TasksOfThreads
    <3> QED  BY <3>2, <3>3 DEF TasksOfThreads
  <2>5. StagesOfKinds'
    <3>1. NoTask.stage = "free" /\ NoTask.kind = "none" /\ "none" \notin Kinds
      BY DEF NoTask
    <3> QED  BY <2>1, <2>2, <3>1 DEF StagesOfKinds
  <2> QED  BY <2>4, <2>5
<1>3. CASE LeavesTasks(t)
  BY <1>3 DEF LeavesTasks, TasksOfThreads, StagesOfKinds
<1> QED  BY <1>1, <1>2, <1>3

(* So does a step of a task.                                               *)
LEMMA TaskStepLinks ==
  ASSUME TypeInv, TasksOfThreads, StagesOfKinds, NEW k \in Tasks, TaskStep(k) \/ Cancel(k)
  PROVE  TasksOfThreads' /\ StagesOfKinds'
<1>1. thread' = thread
  BY TaskStepFrame
<1>2. TasksOfThreads'
  <2>1. CASE Kept(k)
    BY <1>1, <2>1 DEF Kept, TasksOfThreads
  <2>2. CASE Forgotten(k)
    BY <1>1, <2>2, ForgottenFields DEF TasksOfThreads
  <2> QED  BY <2>1, <2>2, TaskStepKept
<1>3. /\ task[k].stage \in Calls => task[k].kind \in Kinds
      /\ task[k].kind \in Kinds => task[k].kind \notin {"none", "open", "aclose"}
      /\ task[k].stage = "closing" => task[k].kind = "aclose"
  BY StagesAre
<1>4. ASSUME Kept(k),
             \/ task[k].kind = "open" /\ task'[k].stage = "done"
             \/ task[k].kind = "aclose" /\ task'[k].stage \in {"closing", "done"}
             \/ task[k].kind \in Kinds /\ task'[k].stage \in Calls \cup {"done"}
      PROVE  StagesOfKinds'
  BY <1>3, <1>4 DEF Kept, StagesOfKinds, Calls
<1>5. CASE OpenPort(k)
  <2>1. Kept(k) /\ task'[k].stage = "done" /\ task[k].kind = "open"
    BY <1>5, FinishFields DEF OpenPort, Moves
  <2> QED  BY <1>2, <1>4, <2>1
<1>6. CASE Start(k)
  <2>1. Kept(k) /\ task'[k].stage \in {"waiting", "done"} /\ task[k].kind \in Kinds
    BY <1>6, FinishFields, StageFields DEF Start, Moves
  <2> QED  BY <1>2, <1>4, <2>1 DEF Calls
<1>7. CASE StartAclose(k)
  <2>1. Kept(k) /\ task'[k].stage \in {"closing", "done"} /\ task[k].kind = "aclose"
    BY <1>7, FinishFields, StageFields DEF StartAclose, Moves
  <2> QED  BY <1>2, <1>4, <2>1
<1>8. CASE StreamCloses(k)
  <2>1. Kept(k) /\ task'[k].stage = "done" /\ task[k].stage = "closing"
    BY <1>8, FinishFields DEF StreamCloses, Moves, At
  <2> QED  BY <1>2, <1>3, <1>4, <2>1
<1>9. ASSUME Kept(k), task[k].stage \in Calls, task'[k].stage \in Calls \cup {"done"}
      PROVE  StagesOfKinds'
  BY <1>3, <1>4, <1>9
<1>10. ASSUME NEW outcome, InAttempt(k), AttemptEnds(k, outcome)  PROVE StagesOfKinds'
  <2>1. Moves(k, task[k].stage, "reporting") /\ task[k].stage \in {"attempt", "sent"}
    BY <1>10, AttemptEndsFields
  <2> QED  BY <1>9, <2>1 DEF Moves, Calls
<1>11. CASE Acquire(k) \/ Send(k) \/ Deliver(k) \/ BackoffEnds(k)
  <2>1. \E from, to \in Calls : Moves(k, from, to)
    BY <1>11, AcquireFields, StageFields, DeliverFields, BackoffEndsFields DEF Send, At, Calls
  <2> QED  BY <1>2, <1>9, <2>1 DEF Moves
<1>12. CASE Reported(k)
  <2>1. Kept(k) /\ task[k].stage = "reporting" /\ task'[k].stage \in {"backoff", "done"}
    BY <1>12, ReportedFields
  <2> QED  BY <1>2, <1>9, <2>1 DEF Calls
<1>13. CASE Cancel(k) /\ ~\E outcome : InAttempt(k) /\ AttemptEnds(k, outcome)
  <2>1. Kept(k) /\ task[k].stage \in {"waiting", "backoff"} /\ task'[k].stage = "done"
    BY <1>13, GiveUpFields
  <2> QED  BY <1>2, <1>9, <2>1 DEF Calls
<1>14. CASE Forgotten(k)
  <2>1. NoTask.stage = "free" /\ NoTask.kind = "none" /\ "none" \notin Kinds
    BY DEF NoTask
  <2>2. task'[k] = NoTask /\ \A l \in Tasks : l # k => task'[l] = task[l]
    BY <1>14, ForgottenFields
  <2> QED  BY <1>2, <2>1, <2>2 DEF StagesOfKinds
<1>15. Attempt(k) \/ Cancel(k) =>
         \/ \E outcome : InAttempt(k) /\ AttemptEnds(k, outcome)
         \/ Cancel(k) /\ ~\E outcome : InAttempt(k) /\ AttemptEnds(k, outcome)
  BY DEF Attempt
<1> QED
  BY <1>2, <1>5, <1>6, <1>7, <1>8, <1>10, <1>11, <1>12, <1>13, <1>14, <1>15 DEF TaskStep

-----------------------------------------------------------------------------
(* The stream of a bus                                                     *)

(* What StreamOK reads of the bus objects and the history.                 *)
SameBuses ==
  \A b \in Buses :
    /\ sync'[b].made = sync[b].made /\ sync'[b].closed = sync[b].closed
    /\ ghost'[b].opened = ghost[b].opened
    /\ ghost'[b].closedOnLoop = ghost[b].closedOnLoop
    /\ ghost'[b].closeReturned = ghost[b].closeReturned

(* A request leaves the stream alone; it may find that it was closed.      *)
LEMMA CallKeepsStream ==
  ASSUME StreamOK, StagesOfKinds, NEW k \in Tasks, Kept(k), task[k].kind \in Kinds, SameBuses,
         UNCHANGED stream,
         \A b \in Buses : /\ closed[b] => closed'[b]
                          /\ closed'[b] => closed[b] \/ stream[b] \in {"closing", "closed"}
  PROVE  StreamOK'
<1>1. /\ task[k].kind \notin {"open", "aclose"} /\ task'[k].kind = task[k].kind
      /\ task'[k].bus = task[k].bus /\ task'[k].late = task[k].late
      /\ \A l \in Tasks : l # k => task'[l] = task[l]
  BY DEF Kept
<1>2. \A l \in Tasks : task[l].kind # "none" => task[l].bus \in Buses
  BY DEF StagesOfKinds
<1>3. \A l \in Tasks : task[l].kind \in {"open", "aclose"} \/ task'[l].kind \in {"open", "aclose"}
        => l # k /\ task'[l] = task[l]
  BY <1>1
<1>4. \A l \in Tasks : task[l].late => closed'[task[l].bus]
  <2> SUFFICES ASSUME NEW l \in Tasks, task[l].late  PROVE closed'[task[l].bus]
    OBVIOUS
  <2> QED  BY DEF StreamOK
<1> QED  BY <1>1, <1>2, <1>3, <1>4 DEF StreamOK, SameBuses

(* The end of the open, and the two steps of a close.                      *)
LEMMA OpenPortStream ==
  ASSUME TypeInv, StreamOK, StagesOfKinds, NEW k \in Tasks, OpenPort(k), SameBuses
  PROVE  StreamOK'
<1> DEFINE b == task[k].bus
<1>1. /\ task[k].kind = "open" /\ task[k].stage = "started" /\ b \in Buses
      /\ closed' = closed
  BY DEF OpenPort, At, TypeInv, LoopTypes
<1>2. /\ Kept(k) /\ task'[k].stage = "done"
      /\ \/ stream' = [stream EXCEPT ![b] = "open"]
         \/ stream' = stream /\ task'[k].out # "value"
  BY FinishFields DEF OpenPort, Moves
<1>3. /\ stream[b] = "none" /\ ~sync[b].made /\ ~closed[b] /\ ghost[b].opened
      /\ \A l \in Tasks : l # k /\ task[l].kind = "open" => task[l].bus # b
  BY <1>1 DEF StreamOK
<1>4. /\ \A l \in Tasks : task'[l].kind = task[l].kind /\ task'[l].bus = task[l].bus
                          /\ task'[l].late = task[l].late
      /\ \A l \in Tasks : task[l].kind # "open" => task'[l] = task[l]
      /\ \A l \in Tasks : l # k => task'[l] = task[l]
  BY <1>1, <1>2 DEF Kept
<1>5. /\ stream'[b] \in {"none", "open"} /\ (task'[k].out = "value" => stream'[b] # "none")
      /\ \A c \in Buses : c # b => stream'[c] = stream[c]
  BY <1>1, <1>2, <1>3 DEF TypeInv, LoopTypes
<1>6. \A l \in Tasks : task[l].kind # "none" => task[l].bus \in Buses
  BY DEF StagesOfKinds
<1> HIDE DEF b
<1>7. /\ \A l \in Tasks : task'[l].kind = "open" =>
           /\ ghost'[task'[l].bus].opened
           /\ task'[l].stage = "started" =>
                ~sync'[task'[l].bus].made /\ stream'[task'[l].bus] = "none"
           /\ task'[l].stage = "done" /\ task'[l].out = "value" => stream'[task'[l].bus] # "none"
  <2> SUFFICES ASSUME NEW l \in Tasks, task'[l].kind = "open"
               PROVE  /\ ghost'[task'[l].bus].opened
                      /\ task'[l].stage = "started" =>
                           ~sync'[task'[l].bus].made /\ stream'[task'[l].bus] = "none"
                      /\ task'[l].stage = "done" /\ task'[l].out = "value" =>
                           stream'[task'[l].bus] # "none"
    OBVIOUS
  <2>1. CASE l = k
    BY <1>1, <1>2, <1>3, <1>4, <1>5, <2>1 DEF b, SameBuses
  <2>2. CASE l # k
    <3>1. task'[l] = task[l] /\ task[l].bus # b /\ task[l].bus \in Buses
      BY <1>3, <1>4, <1>6, <2>2
    <3> QED  BY <1>5, <3>1 DEF StreamOK, SameBuses
  <2> QED  BY <2>1, <2>2
<1>8. \A c \in Buses :
        /\ sync'[c].made => stream'[c] # "none"
        /\ stream'[c] # "none" => ghost'[c].opened
        /\ closed'[c] => stream'[c] \in {"closing", "closed"}
        /\ stream'[c] = "closing" =>
             \E l \in Tasks : task'[l].kind = "aclose" /\ task'[l].bus = c
                              /\ task'[l].stage = "closing"
        /\ sync'[c].closed /\ ~ghost'[c].closedOnLoop =>
             \/ stream'[c] = "closed"
             \/ \E l \in Tasks : task'[l].kind = "aclose" /\ task'[l].bus = c
                                 /\ task'[l].stage # "done"
        /\ stream'[c] = "closed" => closed'[c]
        /\ ghost'[c].closeReturned => sync'[c].made /\ sync'[c].closed
  BY <1>1, <1>3, <1>4, <1>5 DEF StreamOK, SameBuses
<1> QED  BY <1>1, <1>4, <1>6, <1>7, <1>8 DEF StreamOK, SameBuses

(* A close begins: the bus is closed at once, its stream is closing.       *)
LEMMA StartAcloseStream ==
  ASSUME TypeInv, StreamOK, StagesOfKinds, NEW k \in Tasks, StartAclose(k), SameBuses
  PROVE  StreamOK'
<1> DEFINE b == task[k].bus
<1>1. task[k].kind = "aclose" /\ task[k].stage = "started" /\ b \in Buses
  BY DEF StartAclose, At, TypeInv, LoopTypes
<1>2. sync[b].made /\ stream[b] # "none" /\ ghost[b].opened
  BY <1>1 DEF StreamOK
<1>3. /\ Kept(k)
      /\ \/ /\ closed[b] /\ task'[k].stage = "done" /\ UNCHANGED <<closed, stream>>
         \/ /\ task'[k].stage = "closing" /\ stream' = [stream EXCEPT ![b] = "closing"]
            /\ closed' = [closed EXCEPT ![b] = TRUE] /\ ~closed[b]
  BY FinishFields, StageFields DEF StartAclose, Moves
<1>4. /\ \A l \in Tasks : task'[l].kind = task[l].kind /\ task'[l].bus = task[l].bus
                          /\ task'[l].late = task[l].late
      /\ \A l \in Tasks : task[l].kind # "aclose" => task'[l] = task[l]
      /\ \A l \in Tasks : l # k => task'[l] = task[l]
  BY <1>1, <1>3 DEF Kept
<1>5. /\ closed'[b] /\ stream'[b] # "none"
      /\ \A c \in Buses : closed[c] => closed'[c]
      /\ \A c \in Buses : c # b => stream'[c] = stream[c] /\ closed'[c] = closed[c]
  BY <1>1, <1>2, <1>3 DEF TypeInv, LoopTypes
<1>6. \A l \in Tasks : task[l].kind # "none" => task[l].bus \in Buses
  BY DEF StagesOfKinds
<1>7. /\ \/ stream'[b] = "closed"
         \/ /\ stream'[b] = "closing"
            /\ \E l \in Tasks : /\ task'[l].kind = "aclose" /\ task'[l].bus = b
                                /\ task'[l].stage = "closing"
  <2>1. CASE closed[b]
    <3>1. UNCHANGED <<closed, stream>> /\ stream[b] \in {"closing", "closed"}
      BY <1>1, <1>3, <2>1 DEF StreamOK
    <3>2. CASE stream[b] = "closing"
      <4>1. PICK l \in Tasks : task[l].kind = "aclose" /\ task[l].bus = b
                               /\ task[l].stage = "closing"
        BY <1>1, <3>2 DEF StreamOK
      <4>2. l # k /\ task'[l] = task[l]
        BY <1>1, <1>4, <4>1
      <4> QED  BY <3>1, <3>2, <4>1, <4>2
    <3> QED  BY <3>1, <3>2
  <2>2. CASE ~closed[b]
    BY <1>1, <1>3, <1>4, <2>2 DEF TypeInv, LoopTypes
  <2> QED  BY <2>1, <2>2
<1> HIDE DEF b
<1>8. \A l \in Tasks : task'[l].kind = "open" =>
        /\ task'[l] = task[l] /\ task[l].kind = "open"
        /\ stream'[task[l].bus] = stream[task[l].bus] \/ task[l].bus = b
  BY <1>4, <1>5, <1>6 DEF StagesOfKinds
<1>9. \A c \in Buses :
        /\ sync'[c].made => stream'[c] # "none"
        /\ stream'[c] # "none" => ghost'[c].opened
        /\ closed'[c] => stream'[c] \in {"closing", "closed"}
        /\ stream'[c] = "closing" =>
             \E l \in Tasks : task'[l].kind = "aclose" /\ task'[l].bus = c
                              /\ task'[l].stage = "closing"
        /\ sync'[c].closed /\ ~ghost'[c].closedOnLoop =>
             \/ stream'[c] = "closed"
             \/ \E l \in Tasks : task'[l].kind = "aclose" /\ task'[l].bus = c
                                 /\ task'[l].stage # "done"
        /\ stream'[c] = "closed" => closed'[c]
        /\ ghost'[c].closeReturned => sync'[c].made /\ sync'[c].closed
  <2> SUFFICES ASSUME NEW c \in Buses
               PROVE  /\ sync'[c].made => stream'[c] # "none"
                      /\ stream'[c] # "none" => ghost'[c].opened
                      /\ closed'[c] => stream'[c] \in {"closing", "closed"}
                      /\ stream'[c] = "closing" =>
                           \E l \in Tasks : task'[l].kind = "aclose" /\ task'[l].bus = c
                                            /\ task'[l].stage = "closing"
                      /\ sync'[c].closed /\ ~ghost'[c].closedOnLoop =>
                           \/ stream'[c] = "closed"
                           \/ \E l \in Tasks : task'[l].kind = "aclose" /\ task'[l].bus = c
                                               /\ task'[l].stage # "done"
                      /\ stream'[c] = "closed" => closed'[c]
                      /\ ghost'[c].closeReturned => sync'[c].made /\ sync'[c].closed
    OBVIOUS
  <2>a. ghost'[c].closeReturned => sync'[c].made /\ sync'[c].closed
    BY DEF StreamOK, SameBuses
  <2>1. CASE c = b
    BY <1>2, <1>5, <1>7, <2>1, <2>a DEF b, SameBuses
  <2>2. CASE c # b
    <3>1. stream'[c] = stream[c] /\ closed'[c] = closed[c]
      BY <1>5, <2>2
    <3>2. \A l \in Tasks : task[l].bus = c => task'[l] = task[l]
      BY <1>4, <2>2 DEF b
    <3> QED  BY <3>1, <3>2 DEF StreamOK, SameBuses
  <2> QED  BY <2>1, <2>2
<1>10. \A l \in Tasks : task'[l].kind = "open" =>
           /\ ghost'[task'[l].bus].opened
           /\ task'[l].stage = "started" =>
                ~sync'[task'[l].bus].made /\ stream'[task'[l].bus] = "none"
           /\ task'[l].stage = "done" /\ task'[l].out = "value" => stream'[task'[l].bus] # "none"
  BY <1>2, <1>5, <1>6, <1>8 DEF StreamOK, SameBuses, b
<1>11. \A l \in Tasks : task'[l].kind = "aclose" /\ task'[l].stage # "started" =>
         closed'[task'[l].bus]
  <2> SUFFICES ASSUME NEW l \in Tasks, task'[l].kind = "aclose", task'[l].stage # "started"
               PROVE  closed'[task'[l].bus]
    OBVIOUS
  <2>1. CASE l = k
    BY <1>4, <1>5, <2>1 DEF b
  <2>2. CASE l # k
    BY <1>4, <1>5, <1>6, <2>2 DEF StreamOK
  <2> QED  BY <2>1, <2>2
<1> QED  BY <1>4, <1>5, <1>6, <1>9, <1>10, <1>11 DEF StreamOK, SameBuses

(* The stream of a closing bus closes.                                     *)
LEMMA StreamClosesStream ==
  ASSUME TypeInv, StreamOK, StagesOfKinds, NEW k \in Tasks, StreamCloses(k), SameBuses
  PROVE  StreamOK'
<1> DEFINE b == task[k].bus
<1>1. /\ task[k].stage = "closing" /\ b \in Buses
      /\ stream' = [stream EXCEPT ![b] = "closed"] /\ closed' = closed
  BY DEF StreamCloses, At, TypeInv, LoopTypes
<1>2. Kept(k) /\ task'[k].stage = "done"
  BY FinishFields DEF StreamCloses, Moves
<1>3. task[k].kind = "aclose"
  BY <1>1, StagesAre
<1>4. /\ closed[b] /\ sync[b].made /\ ghost[b].opened
  BY <1>1, <1>3 DEF StreamOK
<1>5. /\ \A l \in Tasks : task'[l].kind = task[l].kind /\ task'[l].bus = task[l].bus
                          /\ task'[l].late = task[l].late
      /\ \A l \in Tasks : task[l].kind # "aclose" => task'[l] = task[l]
      /\ \A l \in Tasks : l # k => task'[l] = task[l]
  BY <1>2, <1>3 DEF Kept
<1>6. stream'[b] = "closed" /\ \A c \in Buses : c # b => stream'[c] = stream[c]
  BY <1>1 DEF TypeInv, LoopTypes
<1>7. \A l \in Tasks : task[l].kind # "none" => task[l].bus \in Buses
  BY DEF StagesOfKinds
<1> HIDE DEF b
<1>8. \A l \in Tasks : task'[l].kind = "open" =>
        /\ ghost'[task'[l].bus].opened
        /\ task'[l].stage = "started" =>
             ~sync'[task'[l].bus].made /\ stream'[task'[l].bus] = "none"
        /\ task'[l].stage = "done" /\ task'[l].out = "value" => stream'[task'[l].bus] # "none"
  <2> SUFFICES ASSUME NEW l \in Tasks, task'[l].kind = "open"
               PROVE  /\ ghost'[task'[l].bus].opened
                      /\ task'[l].stage = "started" =>
                           ~sync'[task'[l].bus].made /\ stream'[task'[l].bus] = "none"
                      /\ task'[l].stage = "done" /\ task'[l].out = "value" =>
                           stream'[task'[l].bus] # "none"
    OBVIOUS
  <2>1. task'[l] = task[l] /\ task[l].kind = "open" /\ task[l].bus \in Buses
    BY <1>5, <1>7
  <2> QED  BY <1>4, <1>6, <2>1 DEF StreamOK, SameBuses
<1>9. \A c \in Buses :
        /\ sync'[c].made => stream'[c] # "none"
        /\ stream'[c] # "none" => ghost'[c].opened
        /\ closed'[c] => stream'[c] \in {"closing", "closed"}
        /\ stream'[c] = "closing" =>
             \E l \in Tasks : task'[l].kind = "aclose" /\ task'[l].bus = c
                              /\ task'[l].stage = "closing"
        /\ sync'[c].closed /\ ~ghost'[c].closedOnLoop =>
             \/ stream'[c] = "closed"
             \/ \E l \in Tasks : task'[l].kind = "aclose" /\ task'[l].bus = c
                                 /\ task'[l].stage # "done"
        /\ stream'[c] = "closed" => closed'[c]
        /\ ghost'[c].closeReturned => sync'[c].made /\ sync'[c].closed
  <2> SUFFICES ASSUME NEW c \in Buses
               PROVE  /\ sync'[c].made => stream'[c] # "none"
                      /\ stream'[c] # "none" => ghost'[c].opened
                      /\ closed'[c] => stream'[c] \in {"closing", "closed"}
                      /\ stream'[c] = "closing" =>
                           \E l \in Tasks : task'[l].kind = "aclose" /\ task'[l].bus = c
                                            /\ task'[l].stage = "closing"
                      /\ sync'[c].closed /\ ~ghost'[c].closedOnLoop =>
                           \/ stream'[c] = "closed"
                           \/ \E l \in Tasks : task'[l].kind = "aclose" /\ task'[l].bus = c
                                               /\ task'[l].stage # "done"
                      /\ stream'[c] = "closed" => closed'[c]
                      /\ ghost'[c].closeReturned => sync'[c].made /\ sync'[c].closed
    OBVIOUS
  <2>a. ghost'[c].closeReturned => sync'[c].made /\ sync'[c].closed
    BY DEF StreamOK, SameBuses
  <2>1. CASE c = b
    BY <1>1, <1>4, <1>6, <2>1, <2>a DEF b, SameBuses
  <2>2. CASE c # b
    <3>1. stream'[c] = stream[c] /\ closed'[c] = closed[c]
      BY <1>1, <1>6, <2>2
    <3>2. \A l \in Tasks : task[l].bus = c => task'[l] = task[l]
      BY <1>5, <2>2 DEF b
    <3> QED  BY <3>1, <3>2 DEF StreamOK, SameBuses
  <2> QED  BY <2>1, <2>2
<1>10. \A l \in Tasks : task'[l].kind = "aclose" /\ task'[l].stage # "started" =>
         closed'[task'[l].bus]
  <2> SUFFICES ASSUME NEW l \in Tasks, task'[l].kind = "aclose", task'[l].stage # "started"
               PROVE  closed'[task'[l].bus]
    OBVIOUS
  <2>1. CASE l = k
    BY <1>1, <1>4, <1>5, <2>1 DEF b
  <2>2. CASE l # k
    BY <1>1, <1>5, <1>7, <2>2 DEF StreamOK
  <2> QED  BY <2>1, <2>2
<1> QED  BY <1>1, <1>5, <1>7, <1>8, <1>9, <1>10 DEF StreamOK, SameBuses

(* A close has returned and no aclose is missing: the bus is closed.        *)
LEMMA NoneMissing ==
  ASSUME StreamOK, NEW b \in Buses, Late(b)
  PROVE  closed[b]
<1>1. /\ ~ghost[b].closedOnLoop /\ ghost[b].closeReturned
      /\ \A k \in Tasks : ~(task[k].kind = "aclose" /\ task[k].bus = b /\ task[k].stage = "started")
  BY DEF Late, AcloseMissing
<1>2. sync[b].closed
  BY <1>1 DEF StreamOK
<1>3. CASE stream[b] = "closed"
  BY <1>3 DEF StreamOK
<1>4. CASE \E k \in Tasks : task[k].kind = "aclose" /\ task[k].bus = b /\ task[k].stage # "done"
  BY <1>1, <1>4 DEF StreamOK
<1> QED  BY <1>1, <1>2, <1>3, <1>4 DEF StreamOK

(* A new task of a bus, if it is one that may be started.                  *)
LEMMA SpawnedStream ==
  ASSUME StreamOK, StagesOfKinds, NEW t \in Threads, NEW k \in Tasks, NEW b \in Buses, NEW pc,
         NEW kind \in Kinds \cup {"open", "aclose"}, Spawned(t, k, pc, kind, b),
         UNCHANGED <<closed, stream>>,
         \A c \in Buses :
           /\ sync'[c].made = sync[c].made
           /\ ghost'[c].closedOnLoop = ghost[c].closedOnLoop
           /\ ghost'[c].closeReturned = ghost[c].closeReturned
           /\ ghost[c].opened => ghost'[c].opened
           /\ sync[c].closed => sync'[c].closed
           /\ sync'[c].closed => sync[c].closed \/ (c = b /\ kind = "aclose"),
         kind = "open" => /\ ghost'[b].opened /\ ~sync[b].made /\ stream[b] = "none"
                          /\ \A l \in Tasks : task[l].kind = "open" => task[l].bus # b,
         kind # "open" => sync[b].made
  PROVE  StreamOK'
<1>1. /\ task'[k].kind = kind /\ task'[k].bus = b /\ task'[k].stage = "started"
      /\ task'[k].late = Late(b)
      /\ \A l \in Tasks : l # k => task'[l] = task[l]
  BY DEF Spawned
<1>2. task[k].kind = "none" /\ "none" \notin Kinds
  BY DEF Spawned, NoTask
<1>3. /\ "open" \notin Kinds /\ "aclose" \notin Kinds
      /\ \A l \in Tasks : task[l].kind # "none" => task[l].bus \in Buses
  BY DEF StagesOfKinds
<1>4. \A l \in Tasks : task'[l].kind = "open" =>
        /\ ghost'[task'[l].bus].opened
        /\ task'[l].stage = "started" =>
             ~sync'[task'[l].bus].made /\ stream'[task'[l].bus] = "none"
        /\ task'[l].stage = "done" /\ task'[l].out = "value" => stream'[task'[l].bus] # "none"
  <2> SUFFICES ASSUME NEW l \in Tasks, task'[l].kind = "open"
               PROVE  /\ ghost'[task'[l].bus].opened
                      /\ task'[l].stage = "started" =>
                           ~sync'[task'[l].bus].made /\ stream'[task'[l].bus] = "none"
                      /\ task'[l].stage = "done" /\ task'[l].out = "value" =>
                           stream'[task'[l].bus] # "none"
    OBVIOUS
  <2>1. CASE l = k
    BY <1>1, <2>1
  <2>2. CASE l # k
    BY <1>1, <1>3, <2>2 DEF StreamOK
  <2> QED  BY <2>1, <2>2
<1>5. \A l, m \in Tasks : task'[l].kind = "open" /\ task'[m].kind = "open"
                         /\ task'[l].bus = task'[m].bus => l = m
  BY <1>1 DEF StreamOK
<1>6. /\ \A l \in Tasks : task'[l].kind \in Kinds \cup {"aclose"} => sync'[task'[l].bus].made
      /\ \A l \in Tasks : task'[l].kind = "aclose" /\ task'[l].stage # "started" =>
           closed'[task'[l].bus]
  <2> SUFFICES ASSUME NEW l \in Tasks
               PROVE  /\ task'[l].kind \in Kinds \cup {"aclose"} => sync'[task'[l].bus].made
                      /\ task'[l].kind = "aclose" /\ task'[l].stage # "started" =>
                           closed'[task'[l].bus]
    OBVIOUS
  <2>1. CASE l = k
    BY <1>1, <1>3, <2>1
  <2>2. CASE l # k
    BY <1>1, <1>2, <1>3, <2>2 DEF StreamOK
  <2> QED  BY <2>1, <2>2
<1>7. \A c \in Buses :
        /\ sync'[c].made => stream'[c] # "none"
        /\ stream'[c] # "none" => ghost'[c].opened
        /\ closed'[c] => stream'[c] \in {"closing", "closed"}
        /\ stream'[c] = "closing" =>
             \E l \in Tasks : task'[l].kind = "aclose" /\ task'[l].bus = c
                              /\ task'[l].stage = "closing"
        /\ sync'[c].closed /\ ~ghost'[c].closedOnLoop =>
             \/ stream'[c] = "closed"
             \/ \E l \in Tasks : task'[l].kind = "aclose" /\ task'[l].bus = c
                                 /\ task'[l].stage # "done"
        /\ stream'[c] = "closed" => closed'[c]
        /\ ghost'[c].closeReturned => sync'[c].made /\ sync'[c].closed
  <2>1. \A l \in Tasks : task[l].kind = "aclose" => task'[l] = task[l]
    BY <1>1, <1>2
  <2> QED  BY <1>1, <2>1 DEF StreamOK
<1>8. \A l \in Tasks : task'[l].late => task'[l].bus \in Buses /\ closed'[task'[l].bus]
  BY <1>1, NoneMissing DEF StreamOK
<1> QED  BY <1>4, <1>5, <1>6, <1>7, <1>8 DEF StreamOK

(* A task that has ended is dropped, and its thread takes note.            *)
LEMMA DroppedStream ==
  ASSUME StreamOK, StagesOfKinds, NEW k \in Tasks, task[k].stage = "done",
         task'[k] = NoTask, \A l \in Tasks : l # k => task'[l] = task[l],
         UNCHANGED <<closed, stream>>,
         \A c \in Buses :
           /\ sync[c].made => sync'[c].made
           /\ \/ sync'[c].made = sync[c].made
              \/ /\ stream[c] # "none"
                 /\ \A l \in Tasks : task[l].kind = "open" /\ task[l].bus = c => l = k
           /\ sync'[c].closed => sync[c].closed
           /\ ghost'[c].opened = ghost[c].opened
           /\ ghost'[c].closedOnLoop = ghost[c].closedOnLoop
           /\ sync[c].made /\ sync[c].closed => sync'[c].closed
           /\ ghost'[c].closeReturned =>
                ghost[c].closeReturned \/ (sync[c].made /\ sync[c].closed)
  PROVE  StreamOK'
<1>1. NoTask.kind = "none" /\ ~NoTask.late /\ "none" \notin Kinds
  BY DEF NoTask
<1>2. \A l \in Tasks : task'[l].kind # "none" \/ task'[l].late => l # k /\ task'[l] = task[l]
  BY <1>1
<1>3. \A l \in Tasks : task[l].stage # "done" => task'[l] = task[l]
  OBVIOUS
<1>4. \A l \in Tasks : task[l].kind # "none" => task[l].bus \in Buses
  BY DEF StagesOfKinds
<1>5. \A l \in Tasks : task'[l].kind = "open" =>
        /\ ghost'[task'[l].bus].opened
        /\ task'[l].stage = "started" =>
             ~sync'[task'[l].bus].made /\ stream'[task'[l].bus] = "none"
        /\ task'[l].stage = "done" /\ task'[l].out = "value" => stream'[task'[l].bus] # "none"
  BY <1>2, <1>4 DEF StreamOK
<1>6. /\ \A l \in Tasks : task'[l].kind \in Kinds \cup {"aclose"} => sync'[task'[l].bus].made
      /\ \A l \in Tasks : task'[l].kind = "aclose" /\ task'[l].stage # "started" =>
           closed'[task'[l].bus]
  <2> SUFFICES ASSUME NEW l \in Tasks, task'[l].kind \in Kinds \cup {"aclose"}
               PROVE  /\ sync'[task'[l].bus].made
                      /\ task'[l].kind = "aclose" /\ task'[l].stage # "started" =>
                           closed'[task'[l].bus]
    OBVIOUS
  <2>1. task'[l] = task[l] /\ task[l].bus \in Buses
    BY <1>1, <1>2, <1>4
  <2> QED  BY <2>1 DEF StreamOK
<1>7. \A l, m \in Tasks : task'[l].kind = "open" /\ task'[m].kind = "open"
                         /\ task'[l].bus = task'[m].bus => l = m
  BY <1>2 DEF StreamOK
<1>8. \A c \in Buses :
        /\ sync'[c].made => stream'[c] # "none"
        /\ stream'[c] # "none" => ghost'[c].opened
        /\ closed'[c] => stream'[c] \in {"closing", "closed"}
        /\ stream'[c] = "closing" =>
             \E l \in Tasks : task'[l].kind = "aclose" /\ task'[l].bus = c
                              /\ task'[l].stage = "closing"
        /\ sync'[c].closed /\ ~ghost'[c].closedOnLoop =>
             \/ stream'[c] = "closed"
             \/ \E l \in Tasks : task'[l].kind = "aclose" /\ task'[l].bus = c
                                 /\ task'[l].stage # "done"
        /\ stream'[c] = "closed" => closed'[c]
        /\ ghost'[c].closeReturned => sync'[c].made /\ sync'[c].closed
  BY <1>3 DEF StreamOK
<1>9. \A l \in Tasks : task'[l].late => task'[l].bus \in Buses /\ closed'[task'[l].bus]
  BY <1>2 DEF StreamOK
<1> QED  BY <1>5, <1>6, <1>7, <1>8, <1>9 DEF StreamOK

(* Every step of a task keeps the stream as its bus has it.                *)
LEMMA TaskStepStream ==
  ASSUME TypeInv, StreamOK, StagesOfKinds, NEW k \in Tasks, TaskStep(k) \/ Cancel(k)
  PROVE  StreamOK'
<1>a. SameBuses
  BY TaskStepFrame DEF SameBuses
<1>1. ASSUME Kept(k), task[k].kind \in Kinds, UNCHANGED <<closed, stream>>  PROVE StreamOK'
  BY <1>a, <1>1, CallKeepsStream
<1>2. ASSUME Kept(k), task[k].stage \in Calls, UNCHANGED <<closed, stream>>  PROVE StreamOK'
  BY <1>1, <1>2, StagesAre
<1>3. ASSUME NEW outcome, InAttempt(k), AttemptEnds(k, outcome),
             outcome = "closed" => stream[task[k].bus] # "open"
      PROVE  StreamOK'
  <2> DEFINE b == task[k].bus
  <2>1. /\ Kept(k) /\ task[k].kind \in Kinds /\ b \in Buses
    BY <1>3, AttemptEndsFields, StagesAre DEF Moves, Calls
  <2>2. /\ stream' = stream
        /\ closed' = [closed EXCEPT ![b] = closed[b] \/ outcome = "closed"]
    BY <1>3 DEF AttemptEnds
  <2>3. sync[b].made /\ stream[b] \in {"open", "closing", "closed"}
    BY <2>1 DEF StreamOK, TypeInv, LoopTypes
  <2> HIDE DEF b
  <2>4. \A c \in Buses :
          /\ closed[c] => closed'[c]
          /\ closed'[c] => closed[c] \/ stream[c] \in {"closing", "closed"}
    <3> SUFFICES ASSUME NEW c \in Buses
                 PROVE  /\ closed[c] => closed'[c]
                        /\ closed'[c] => closed[c] \/ stream[c] \in {"closing", "closed"}
      OBVIOUS
    <3>1. CASE c = b
      BY <1>3, <2>1, <2>2, <2>3, <3>1 DEF b, TypeInv, LoopTypes
    <3>2. CASE c # b
      BY <2>2, <3>2 DEF TypeInv, LoopTypes
    <3> QED  BY <3>1, <3>2
  <2> QED  BY <1>a, <2>1, <2>2, <2>4, CallKeepsStream DEF b
<1>4. CASE OpenPort(k)
  BY <1>a, <1>4, OpenPortStream
<1>5. CASE Start(k)
  BY <1>1, <1>5, FinishFields, StageFields DEF Start, Moves
<1>6. CASE Acquire(k)
  BY <1>2, <1>6, AcquireFields DEF Acquire, Moves, Calls
<1>7. CASE Send(k)
  BY <1>2, <1>7, StageFields DEF Send, Moves, At, Calls, busVars
<1>8. CASE Attempt(k)
  <2>1. PICK outcome \in Outcomes(k) : InAttempt(k) /\ AttemptEnds(k, outcome)
    BY <1>8 DEF Attempt
  <2>2. outcome = "closed" => stream[task[k].bus] # "open"
    BY <2>1 DEF Outcomes
  <2> QED  BY <1>3, <2>1, <2>2
<1>9. CASE Deliver(k)
  BY <1>2, <1>9, DeliverFields DEF Deliver, Moves, Calls, busVars
<1>10. CASE Reported(k)
  BY <1>2, <1>10, ReportedFields DEF Reported, Calls
<1>11. CASE BackoffEnds(k)
  BY <1>2, <1>11, BackoffEndsFields DEF BackoffEnds, Moves, Calls, busVars
<1>12. CASE StartAclose(k)
  BY <1>a, <1>12, StartAcloseStream
<1>13. CASE StreamCloses(k)
  BY <1>a, <1>13, StreamClosesStream
<1>14. CASE Forgotten(k)
  <2>1. UNCHANGED <<closed, stream, sync, ghost>>
    BY <1>14 DEF Forgotten, busVars
  <2> QED  BY <1>14, <2>1, ForgottenFields, DroppedStream
<1>15. CASE Cancel(k)
  <2>1. CASE InAttempt(k) /\ AttemptEnds(k, "cancelled")
    BY <1>3, <2>1
  <2>2. CASE ~\E outcome : InAttempt(k) /\ AttemptEnds(k, outcome)
    BY <1>2, <1>15, <2>2, GiveUpFields DEF Calls
  <2> QED  BY <1>15, <2>1, <2>2, CancelEnds
<1> QED
  BY <1>4, <1>5, <1>6, <1>7, <1>8, <1>9, <1>10, <1>11, <1>12, <1>13, <1>14, <1>15 DEF TaskStep

(* Nothing StreamOK reads has changed.                                     *)
LEMMA StreamLeft ==
  ASSUME StreamOK, StagesOfKinds, UNCHANGED <<task, closed, stream>>,
         \A c \in Buses :
           /\ sync'[c].made = sync[c].made
           /\ sync'[c].closed => sync[c].closed \/ ghost'[c].closedOnLoop
           /\ ghost'[c].opened = ghost[c].opened
           /\ ghost[c].closedOnLoop => ghost'[c].closedOnLoop
           /\ sync[c].closed => sync'[c].closed
           /\ ghost'[c].closeReturned =>
                ghost[c].closeReturned \/ (sync'[c].made /\ sync'[c].closed)
  PROVE  StreamOK'
<1>1. \A l \in Tasks : task[l].kind # "none" => task[l].bus \in Buses
  BY DEF StagesOfKinds
<1>2. "none" \notin Kinds
  OBVIOUS
<1>3. \A l \in Tasks : task'[l].kind = "open" =>
        /\ ghost'[task'[l].bus].opened
        /\ task'[l].stage = "started" =>
             ~sync'[task'[l].bus].made /\ stream'[task'[l].bus] = "none"
        /\ task'[l].stage = "done" /\ task'[l].out = "value" => stream'[task'[l].bus] # "none"
  BY <1>1 DEF StreamOK
<1>4. /\ \A l \in Tasks : task'[l].kind \in Kinds \cup {"aclose"} => sync'[task'[l].bus].made
      /\ \A l \in Tasks : task'[l].kind = "aclose" /\ task'[l].stage # "started" =>
           closed'[task'[l].bus]
  <2> SUFFICES ASSUME NEW l \in Tasks, task'[l].kind \in Kinds \cup {"aclose"}
               PROVE  /\ sync'[task'[l].bus].made
                      /\ task'[l].kind = "aclose" /\ task'[l].stage # "started" =>
                           closed'[task'[l].bus]
    OBVIOUS
  <2>1. task'[l] = task[l] /\ task[l].bus \in Buses
    BY <1>1, <1>2
  <2> QED  BY <2>1 DEF StreamOK
<1> QED  BY <1>3, <1>4 DEF StreamOK

(* So does the beginning of a call,                                        *)
LEMMA StartsStream ==
  ASSUME TypeInv, LeaseInv, StreamOK, StagesOfKinds, NEW t \in Threads, Starts(t),
         UNCHANGED <<closed, stream>>
  PROVE  StreamOK'
<1>a. sync \in [Buses -> SyncRec] /\ ghost \in [Buses -> GhostRec]
  BY DEF TypeInv, LeaseTypes
<1>1. ASSUME NEW k \in Tasks, NEW b \in Buses, Open(t, b), Spawned(t, k, "opening", "open", b)
      PROVE  StreamOK'
  <2>1. /\ sync' = sync /\ ~ghost[b].opened
        /\ ghost' = [ghost EXCEPT ![b] = [ghost[b] EXCEPT !.opened = TRUE]]
    BY <1>1 DEF Open, busVars
  <2>2. /\ ghost'[b].opened
        /\ \A c \in Buses : /\ ghost'[c].closedOnLoop = ghost[c].closedOnLoop
                            /\ ghost'[c].closeReturned = ghost[c].closeReturned
                            /\ ghost[c].opened => ghost'[c].opened
    BY <1>a, <2>1 DEF GhostRec
  <2>3. /\ ~sync[b].made /\ stream[b] = "none"
        /\ \A l \in Tasks : task[l].kind = "open" => task[l].bus # b
    BY <2>1 DEF LeaseInv, OpenedOnce, StreamOK
  <2> QED  BY <1>1, <2>1, <2>2, <2>3, SpawnedStream
<1>2. ASSUME NEW k \in Tasks, NEW b \in Buses, NEW kind \in Kinds, Request(t, b),
             Spawned(t, k, "calling", kind, b)
      PROVE  StreamOK'
  <2>1. /\ sync' = sync /\ sync[b].made
        /\ ghost' = [ghost EXCEPT ![b] = [ghost[b] EXCEPT !.asked = ghost[b].asked + 1]]
    BY <1>2 DEF Request, busVars
  <2>2. \A c \in Buses : /\ ghost'[c].closedOnLoop = ghost[c].closedOnLoop
                         /\ ghost'[c].closeReturned = ghost[c].closeReturned
                         /\ ghost'[c].opened = ghost[c].opened
    BY <1>a, <2>1 DEF GhostRec
  <2>3. kind \in Kinds \cup {"open", "aclose"} /\ kind # "open" /\ kind # "aclose"
    OBVIOUS
  <2> QED  BY <1>2, <2>1, <2>2, <2>3, SpawnedStream
<1>3. ASSUME NEW k \in Tasks, NEW b \in Buses, Close(t, b), Spawned(t, k, "closing", "aclose", b)
      PROVE  StreamOK'
  <2>1. /\ ghost' = ghost /\ sync[b].made
        /\ sync' = [sync EXCEPT ![b] = [sync[b] EXCEPT !.closed = TRUE]]
    BY <1>3 DEF Close
  <2>2. \A c \in Buses : /\ sync'[c].made = sync[c].made
                         /\ sync[c].closed => sync'[c].closed
                         /\ sync'[c].closed => sync[c].closed \/ c = b
    BY <1>a, <2>1 DEF SyncRec
  <2> QED  BY <1>3, <2>1, <2>2, SpawnedStream
<1> QED  BY <1>1, <1>2, <1>3 DEF Starts

(* the end of one, after which a bus object is made or a close has         *)
(* returned,                                                               *)
LEMMA TakesResultStream ==
  ASSUME TypeInv, LeaseInv, StreamOK, StagesOfKinds, TasksOfThreads, NEW t \in Threads,
         TakesResult(t),
         UNCHANGED <<closed, stream>>
  PROVE  StreamOK'
<1> DEFINE k == thread[t].task
           b == thread[t].bus
<1>1. /\ thread[t].pc \in Waits /\ k \in Tasks /\ task[k].bus = b /\ b \in Buses
      /\ task[k].stage = "done"
  <2>1. thread[t].pc # "idle" /\ task[k].stage = "done"
    BY DEF TakesResult, Opened, OpenFailed, Returned, Closed, Done
  <2> QED  BY <2>1 DEF TasksOfThreads, TakesResult, TypeInv, LeaseTypes
<1>2. task'[k] = NoTask /\ \A l \in Tasks : l # k => task'[l] = task[l]
  BY <1>1, FreeTask DEF TakesResult, TypeInv
<1>a. sync \in [Buses -> SyncRec] /\ ghost \in [Buses -> GhostRec]
  BY DEF TypeInv, LeaseTypes
<1> HIDE DEF k
<1>3. CASE OpenFailed(t) \/ Returned(t)
  <2>1. UNCHANGED <<sync, ghost>>
    BY <1>3 DEF OpenFailed, Returned, busVars
  <2> QED  BY <1>1, <1>2, <2>1, DroppedStream
<1>4. CASE Opened(t)
  <2>1. /\ task[k].kind = "open" /\ task[k].out = "value" /\ ghost' = ghost
        /\ sync' = [sync EXCEPT ![b] = [made |-> TRUE, closed |-> FALSE, entered |-> TRUE,
                                         portal |-> thread[t].portal]]
    BY <1>1, <1>4 DEF Opened, Done, TasksOfThreads, k
  <2>2. /\ stream[b] # "none"
        /\ \A l \in Tasks : task[l].kind = "open" /\ task[l].bus = b => l = k
    BY <1>1, <2>1 DEF StreamOK
  <2>3. /\ sync'[b].made /\ ~sync'[b].closed /\ ~sync[b].made
        /\ \A c \in Buses : c # b => sync'[c] = sync[c]
    BY <1>a, <1>1, <1>4, <2>1 DEF Opened, Done, LeaseInv, OpenedOnce
  <2> HIDE DEF b
  <2>4. \A c \in Buses :
          /\ sync[c].made => sync'[c].made
          /\ \/ sync'[c].made = sync[c].made
             \/ /\ stream[c] # "none"
                /\ \A l \in Tasks : task[l].kind = "open" /\ task[l].bus = c => l = k
          /\ sync'[c].closed => sync[c].closed
          /\ sync[c].made /\ sync[c].closed => sync'[c].closed
    BY <2>2, <2>3
  <2> QED  BY <1>1, <1>2, <2>1, <2>4, DroppedStream
<1>5. CASE Closed(t)
  <2>1. /\ task[k].kind = "aclose" /\ sync' = sync
        /\ ghost' = [ghost EXCEPT ![b] = [ghost[b] EXCEPT !.closeReturned = TRUE]]
    BY <1>1, <1>5 DEF Closed, Done, TasksOfThreads, busVars, k
  <2>2. sync[b].made /\ sync[b].closed
    BY <1>5 DEF Closed, Done, LeaseInv, OpenedOnce
  <2>3. \A c \in Buses :
          /\ ghost'[c].opened = ghost[c].opened
          /\ ghost'[c].closedOnLoop = ghost[c].closedOnLoop
          /\ ghost'[c].closeReturned => ghost[c].closeReturned \/ c = b
    BY <1>a, <1>1, <2>1 DEF GhostRec
  <2> HIDE DEF b
  <2>4. \A c \in Buses :
          /\ sync'[c] = sync[c]
          /\ ghost'[c].opened = ghost[c].opened
          /\ ghost'[c].closedOnLoop = ghost[c].closedOnLoop
          /\ ghost'[c].closeReturned =>
               ghost[c].closeReturned \/ (sync[c].made /\ sync[c].closed)
    BY <2>1, <2>2, <2>3
  <2> QED  BY <1>1, <1>2, <2>4, DroppedStream
<1> QED  BY <1>3, <1>4, <1>5 DEF TakesResult

(* and the rest: a bus that is not closed can always hand its aclose over. *)
LEMMA LeavesTasksStream ==
  ASSUME TypeInv, LeaseInv, StreamOK, StagesOfKinds, NEW t \in Threads, LeavesTasks(t),
         UNCHANGED <<closed, stream>>
  PROVE  StreamOK'
<1>a. sync \in [Buses -> SyncRec]
  BY DEF TypeInv, LeaseTypes
<1>1. UNCHANGED task
  BY DEF LeavesTasks
<1>2. CASE StopPortal(t) \/ Joined(t) \/ Interrupt(t)
  <2>1. UNCHANGED <<sync, ghost>>
    BY <1>2 DEF StopPortal, Joined, Interrupt, busVars
  <2> QED  BY <1>1, <2>1, StreamLeft
<1>3. CASE Release(t)
  <2>1. /\ ghost' = ghost
        /\ \/ sync' = sync
           \/ sync' = [sync EXCEPT ![thread[t].bus] =
                                      [sync[thread[t].bus] EXCEPT !.entered = FALSE]]
    BY <1>3 DEF Release
  <2>2. \A c \in Buses : sync'[c].made = sync[c].made /\ sync'[c].closed = sync[c].closed
    BY <1>a, <2>1 DEF SyncRec
  <2> QED  BY <1>1, <2>1, <2>2, StreamLeft
<1>4. ASSUME NEW b \in Buses, Close(t, b)  PROVE FALSE
  <2>1. sync[b].made /\ ~sync[b].closed
    BY <1>4 DEF Close
  <2>2. Accepts(sync[b].portal)
    BY <2>1, LeasesServed DEF LeaseInv, OpenedOnce, PortalServesOpenBuses
  <2>3. Spawn(t, "closing", "aclose", b, sync[b].portal)
    BY <1>4, <2>2 DEF Close
  <2>4. \E k \in Tasks : Spawned(t, k, "closing", "aclose", b)
    BY <2>3, SpawnFields
  <2>5. thread'[t].pc = "closing"
    BY <2>4 DEF Spawned
  <2> QED  BY <2>5 DEF LeavesTasks, Waits
<1> QED  BY <1>2, <1>3, <1>4 DEF LeavesTasks

(* Every step of a thread.                                                 *)
LEMMA ThreadStepStream ==
  ASSUME TypeInv, LeaseInv, StreamOK, StagesOfKinds, TasksOfThreads, NEW t \in Threads,
         \/ ThreadStep(t) \/ Interrupt(t)
         \/ \E b \in Buses : Open(t, b) \/ Request(t, b) \/ Close(t, b)
  PROVE  StreamOK'
<1>1. /\ Starts(t) \/ TakesResult(t) \/ LeavesTasks(t)
      /\ UNCHANGED <<closed, stream>>
  BY ThreadStepTasks
<1> QED  BY <1>1, StartsStream, TakesResultStream, LeavesTasksStream

(* The loop's own close, the end of a portal, and observers.               *)
LEMMA OtherStepStream ==
  ASSUME TypeInv, StreamOK, StagesOfKinds, Others
  PROVE  StreamOK'
<1>a. sync \in [Buses -> SyncRec] /\ ghost \in [Buses -> GhostRec]
  BY DEF TypeInv, LeaseTypes
<1>1. ASSUME NEW p \in Portals, PortalEnds(p)  PROVE StreamOK'
  <2>1. UNCHANGED <<task, closed, stream, sync, ghost>>
    BY <1>1 DEF PortalEnds, busVars
  <2> QED  BY <2>1, StreamLeft
<1>2. ASSUME NEW b \in Buses, CloseOnLoop(b)  PROVE StreamOK'
  <2>1. /\ UNCHANGED <<task, closed, stream>>
        /\ sync' = [sync EXCEPT ![b] = [sync[b] EXCEPT !.closed = TRUE, !.entered = FALSE]]
        /\ ghost' = [ghost EXCEPT ![b] = [ghost[b] EXCEPT !.closedOnLoop = TRUE,
                                                          !.closeReturned = TRUE]]
        /\ sync[b].made
    BY <1>2, <1>a DEF CloseOnLoop, SyncRec
  <2>2. /\ \A c \in Buses : sync'[c].made = sync[c].made
        /\ \A c \in Buses : sync'[c].closed <=> sync[c].closed \/ c = b
    BY <1>a, <2>1 DEF SyncRec
  <2>3. \A c \in Buses : /\ ghost'[c].opened = ghost[c].opened
                         /\ ghost[c].closedOnLoop => ghost'[c].closedOnLoop
                         /\ c # b => ghost'[c].closeReturned = ghost[c].closeReturned
                         /\ c = b => ghost'[c].closedOnLoop
    BY <1>a, <2>1 DEF GhostRec
  <2> QED  BY <2>1, <2>2, <2>3, StreamLeft
<1>3. ASSUME NEW b \in Buses, CloseAgain(b)  PROVE StreamOK'
  <2>1. /\ UNCHANGED <<task, closed, stream, sync>> /\ sync[b].made /\ sync[b].closed
        /\ ghost' = [ghost EXCEPT ![b] = [ghost[b] EXCEPT !.closeReturned = TRUE]]
    BY <1>3 DEF CloseAgain, busVars
  <2>2. \A c \in Buses : /\ ghost'[c].opened = ghost[c].opened
                         /\ ghost'[c].closedOnLoop = ghost[c].closedOnLoop
                         /\ c # b => ghost'[c].closeReturned = ghost[c].closeReturned
    BY <1>a, <2>1 DEF GhostRec
  <2> QED  BY <2>1, <2>2, StreamLeft
<1>4. ASSUME NEW b \in Buses, NEW o \in Observers,
             AddTransactionObserver(b, o) \/ RemoveObserver(b, o)
      PROVE  StreamOK'
  <2> DEFINE left == Count(observers[b], o) - 1
             kept == [ghost[b].kept EXCEPT ![o] = IF @ > left THEN left ELSE @]
  <2>1. /\ UNCHANGED <<task, closed, stream, sync>>
        /\ \/ ghost' = ghost
           \/ ghost' = [ghost EXCEPT ![b] = [ghost[b] EXCEPT !.kept = kept]]
    BY <1>4 DEF AddTransactionObserver, RemoveObserver
  <2> HIDE DEF kept
  <2>2. \A c \in Buses : /\ ghost'[c].opened = ghost[c].opened
                         /\ ghost'[c].closedOnLoop = ghost[c].closedOnLoop
                         /\ ghost'[c].closeReturned = ghost[c].closeReturned
    <3>1. CASE ghost' = ghost
      BY <3>1
    <3>2. CASE ghost' = [ghost EXCEPT ![b] = [ghost[b] EXCEPT !.kept = kept]]
      BY <1>a, <3>2 DEF GhostRec
    <3> QED  BY <2>1, <3>1, <3>2
  <2> QED  BY <2>1, <2>2, StreamLeft
<1> QED  BY <1>1, <1>2, <1>3, <1>4 DEF Others

(* A task that is late ends when it starts: its bus is closed.             *)
LEMMA TaskStepLate ==
  ASSUME TypeInv, StreamOK, StagesOfKinds, NothingSentAfterClose, NEW k \in Tasks,
         TaskStep(k) \/ Cancel(k)
  PROVE  NothingSentAfterClose'
<1>a. task[k].late => task[k].stage \in {"started", "done"} /\ closed[task[k].bus]
  BY DEF StreamOK, NothingSentAfterClose
<1>1. ASSUME Kept(k), task[k].late => task'[k].stage = "done"  PROVE NothingSentAfterClose'
  BY <1>1 DEF Kept, NothingSentAfterClose
<1>2. CASE OpenPort(k)
  <2>1. PICK out \in {"value", "error", "timeout"} : Finish(k, out)
    BY <1>2 DEF OpenPort
  <2>2. Kept(k) /\ task'[k].stage = "done"
    BY <2>1, FinishFields DEF Moves
  <2> QED  BY <1>1, <2>2
<1>3. CASE Start(k)
  <2>1. CASE closed[task[k].bus]
    BY <1>1, <1>3, <2>1, FinishFields DEF Start, Moves
  <2>2. CASE ~closed[task[k].bus]
    BY <1>a, <1>1, <1>3, <2>2, StageFields DEF Start, Moves
  <2> QED  BY <2>1, <2>2
<1>4. CASE StartAclose(k)
  <2>1. CASE closed[task[k].bus]
    BY <1>1, <1>4, <2>1, FinishFields DEF StartAclose, Moves
  <2>2. CASE ~closed[task[k].bus]
    BY <1>a, <1>1, <1>4, <2>2, StageFields DEF StartAclose, Moves
  <2> QED  BY <2>1, <2>2
<1>5. CASE Kept(k) /\ task[k].stage \in Calls \cup {"closing"}
  BY <1>a, <1>1, <1>5 DEF Calls
<1>6. CASE Acquire(k) \/ Send(k) \/ Deliver(k) \/ BackoffEnds(k) \/ StreamCloses(k)
  BY <1>5, <1>6, TaskStepKept, ForgottenFields
     DEF Acquire, Send, Deliver, BackoffEnds, StreamCloses, At, Calls, TaskStep, Forgotten
<1>7. CASE Attempt(k)
  BY <1>5, <1>7, AttemptEndsFields DEF Attempt, Moves, Calls
<1>8. CASE Reported(k)
  BY <1>5, <1>8, ReportedFields DEF Calls
<1>9. CASE Cancel(k)
  BY <1>5, <1>9, AttemptEndsFields, GiveUpFields, CancelEnds DEF Moves, Calls
<1>10. CASE Forgotten(k)
  <2>1. ~NoTask.late
    BY DEF NoTask
  <2> QED  BY <1>10, <2>1, ForgottenFields DEF NothingSentAfterClose
<1> QED
  BY <1>2, <1>3, <1>4, <1>6, <1>7, <1>8, <1>9, <1>10 DEF TaskStep

(* A thread's step starts no task past its start.                          *)
LEMMA ThreadStepLate ==
  ASSUME TypeInv, TasksOfThreads, NothingSentAfterClose, NEW t \in Threads,
         Starts(t) \/ TakesResult(t) \/ LeavesTasks(t)
  PROVE  NothingSentAfterClose'
<1>1. CASE Starts(t)
  BY <1>1 DEF Starts, Spawned, NothingSentAfterClose
<1>2. CASE TakesResult(t)
  <2>1. ~NoTask.late
    BY DEF NoTask
  <2>2. thread[t].task \in Tasks
    BY <1>2 DEF TakesResult, TasksOfThreads
  <2>3. /\ task'[thread[t].task] = NoTask
        /\ \A k \in Tasks : k # thread[t].task => task'[k] = task[k]
    BY <1>2, <2>2, FreeTask DEF TakesResult, TypeInv
  <2> QED  BY <2>1, <2>3 DEF NothingSentAfterClose
<1>3. CASE LeavesTasks(t)
  BY <1>3 DEF LeavesTasks, NothingSentAfterClose
<1> QED  BY <1>1, <1>2, <1>3

-----------------------------------------------------------------------------
(* What is proved of closing                                               *)

(* No step breaks what the closing of a bus rests on.                      *)
THEOREM CloseStep == CloseInv /\ [Next]_vars => CloseInv'
<1> SUFFICES ASSUME CloseInv, [Next]_vars  PROVE CloseInv'
  OBVIOUS
<1>a. TypeInv /\ LeaseInv /\ TasksOfThreads /\ StagesOfKinds /\ StreamOK
      /\ NothingSentAfterClose
  BY DEF CloseInv
<1>1. TypeInv' /\ LeaseInv'
  BY <1>a, TypeStep, LeaseStepInv
<1>2. TasksOfThreads' /\ StagesOfKinds' /\ StreamOK' /\ NothingSentAfterClose'
  <2>1. ASSUME NEW t \in Threads,
               \/ ThreadStep(t) \/ Interrupt(t)
               \/ \E b \in Buses : Open(t, b) \/ Request(t, b) \/ Close(t, b)
        PROVE  TasksOfThreads' /\ StagesOfKinds' /\ StreamOK' /\ NothingSentAfterClose'
    BY <1>a, <2>1, ThreadStepTasks, ThreadStepLinks, ThreadStepStream, ThreadStepLate
  <2>2. ASSUME NEW k \in Tasks, TaskStep(k) \/ Cancel(k)
        PROVE  TasksOfThreads' /\ StagesOfKinds' /\ StreamOK' /\ NothingSentAfterClose'
    BY <1>a, <2>2, TaskStepLinks, TaskStepStream, TaskStepLate
  <2>3. ASSUME UNCHANGED <<task, thread>>
        PROVE  TasksOfThreads' /\ StagesOfKinds' /\ NothingSentAfterClose'
    BY <1>a, <2>3 DEF TasksOfThreads, StagesOfKinds, NothingSentAfterClose
  <2>4. CASE Others
    <3>1. UNCHANGED <<task, thread>>
      BY <2>4 DEF Others, PortalEnds, CloseOnLoop, CloseAgain, AddTransactionObserver, RemoveObserver
    <3> QED  BY <1>a, <2>3, <2>4, <3>1, OtherStepStream
  <2>5. CASE UNCHANGED vars
    <3>1. UNCHANGED <<task, thread, closed, stream, sync, ghost>>
      BY <2>5 DEF vars, busVars
    <3> QED  BY <1>a, <2>3, <3>1, StreamLeft
  <2> QED  BY <2>1, <2>2, <2>4, <2>5, NextSplit
<1> QED  BY <1>1, <1>2 DEF CloseInv

(* It holds when nothing has been opened.                                  *)
THEOREM InitClose == Init => CloseInv
<1> SUFFICES ASSUME Init  PROVE CloseInv
  OBVIOUS
<1>1. TypeInv /\ LeaseInv
  BY InitTypes, InitLeases
<1>2. /\ \A t \in Threads : thread[t].pc = "idle"
      /\ \A k \in Tasks : task[k].kind = "none" /\ task[k].stage = "free" /\ ~task[k].late
  BY DEF Init, AtRest, NoTask
<1>3. \A b \in Buses : /\ ~sync[b].made /\ ~sync[b].closed /\ ~closed[b] /\ stream[b] = "none"
                       /\ ~ghost[b].closeReturned
  BY DEF Init
<1>4. "none" \notin Kinds
  OBVIOUS
<1>5. TasksOfThreads
  BY <1>2 DEF TasksOfThreads, Waits
<1>6. StagesOfKinds /\ NothingSentAfterClose
  BY <1>2, <1>4 DEF StagesOfKinds, NothingSentAfterClose
<1>7. StreamOK
  BY <1>2, <1>3, <1>4 DEF StreamOK
<1> QED  BY <1>1, <1>5, <1>6, <1>7 DEF CloseInv

(* In every reachable state the closing of each bus is as CloseInv says.   *)
THEOREM CloseInvariant == Spec => []CloseInv
BY CloseStep, InitClose, PTL DEF Spec

(* A call begun after a close has returned, the one that ran aclose or one *)
(* that returned at once, sends nothing, from any thread and through any   *)
(* handle: but for calls begun before the aclose of another thread's close *)
(* starts on the loop, or on a bus closed on the loop's own thread         *)
(* (Bus._txn, sync.Bus.close, sync.Slave).                                 *)
THEOREM NothingSent == Spec => []NothingSentAfterClose
<1>1. CloseInv => NothingSentAfterClose
  BY DEF CloseInv
<1> QED  BY <1>1, CloseInvariant, PTL

(* A bus that a thread closed and released has its stream closed, or is    *)
(* closing it, also when the caller was interrupted (close, aclose).       *)
THEOREM StreamClosed == Spec => []StreamClosedOnRelease
<1>1. CloseInv => StreamClosedOnRelease
  BY DEF CloseInv, StreamClosedOnRelease, LeaseInv, OpenedOnce, StreamOK
<1> QED  BY <1>1, CloseInvariant, PTL

-----------------------------------------------------------------------------
(***************************************************************************)
(* Proofs about the lock of a bus and the reports to its observers: the    *)
(* request that holds the lock is the one whose attempts are reported.     *)
(***************************************************************************)

(* The tasks at the lock of a bus are queued once each, and the first has  *)
(* it.                                                                     *)
LockOf(b) ==
  /\ \A i, j \in DOMAIN queue[b] : queue[b][i] = queue[b][j] => i = j
  /\ \A i \in DOMAIN queue[b] :
       task[queue[b][i]].bus = b /\ task[queue[b][i]].stage \in Calls
  /\ \A k \in Tasks : task[k].bus = b /\ task[k].stage \in Calls =>
       \E i \in DOMAIN queue[b] : queue[b][i] = k
  /\ \A k \in Tasks : task[k].bus = b /\ task[k].stage \in Holding => queue[b][1] = k
LockOK == \A b \in Buses : LockOf(b)

-----------------------------------------------------------------------------
(* The lock                                                                *)

(* An element that occurs once is taken out, and the others keep their     *)
(* order: the first stays the first.                                       *)
LEMMA RemovedOnce ==
  ASSUME NEW S, NEW s \in Seq(S), NEW n \in DOMAIN s,
         \A i, j \in DOMAIN s : s[i] = s[j] => i = j
  PROVE  LET r == FirstRemoved(s, s[n]) IN
         /\ \A i, j \in DOMAIN r : r[i] = r[j] => i = j
         /\ \A i \in DOMAIN r : r[i] # s[n] /\ \E j \in DOMAIN s : s[j] = r[i]
         /\ \A j \in DOMAIN s : s[j] # s[n] => \E i \in DOMAIN r : r[i] = s[j]
         /\ n # 1 => r[1] = s[1]
<1> DEFINE x == s[n]
           at == CHOOSE i \in DOMAIN s : s[i] = x /\ \A j \in 1..(i - 1) : s[j] # x
           rest == [i \in 1..(Len(s) - 1) |-> IF i < n THEN s[i] ELSE s[i + 1]]
<1>1. Len(s) \in Nat /\ DOMAIN s = 1..Len(s) /\ n \in 1..Len(s)
  BY LenProperties
<1>2. at = n
  <2>1. s[n] = x /\ \A j \in 1..(n - 1) : s[j] # x
    BY <1>1
  <2>2. \A i \in DOMAIN s : s[i] = x => i = n
    OBVIOUS
  <2> HIDE DEF x
  <2> QED  BY <2>1, <2>2
<1>3. FirstRemoved(s, x) = rest
  <2>1. ~\A i \in DOMAIN s : s[i] # x
    OBVIOUS
  <2>2. FirstRemoved(s, x) = [i \in 1..(Len(s) - 1) |-> IF i < at THEN s[i] ELSE s[i + 1]]
    BY <2>1 DEF FirstRemoved
  <2> HIDE DEF at
  <2> QED  BY <1>2, <2>2
<1>4. \A i, j \in DOMAIN rest : rest[i] = rest[j] => i = j
  <2> SUFFICES ASSUME NEW i \in 1..(Len(s) - 1), NEW j \in 1..(Len(s) - 1), rest[i] = rest[j]
               PROVE  i = j
    OBVIOUS
  <2> DEFINE up(a) == IF a < n THEN a ELSE a + 1
  <2>1. /\ up(i) \in DOMAIN s /\ up(j) \in DOMAIN s
        /\ rest[i] = s[up(i)] /\ rest[j] = s[up(j)]
    BY <1>1
  <2>2. up(i) = up(j)
    BY <2>1
  <2> QED  BY <1>1, <2>2
<1>5. \A i \in DOMAIN rest : rest[i] # x /\ \E j \in DOMAIN s : s[j] = rest[i]
  <2> SUFFICES ASSUME NEW i \in 1..(Len(s) - 1)
               PROVE  rest[i] # x /\ \E j \in DOMAIN s : s[j] = rest[i]
    OBVIOUS
  <2> DEFINE up == IF i < n THEN i ELSE i + 1
  <2>1. up \in DOMAIN s /\ rest[i] = s[up] /\ up # n
    BY <1>1
  <2> QED  BY <2>1
<1>6. \A j \in DOMAIN s : s[j] # x => \E i \in DOMAIN rest : rest[i] = s[j]
  <2> SUFFICES ASSUME NEW j \in DOMAIN s, s[j] # x
               PROVE  \E i \in DOMAIN rest : rest[i] = s[j]
    OBVIOUS
  <2> DEFINE down == IF j < n THEN j ELSE j - 1
  <2>1. j # n
    OBVIOUS
  <2>2. down \in DOMAIN rest /\ rest[down] = s[j]
    BY <1>1, <2>1
  <2> QED  BY <2>2
<1>7. n # 1 => rest[1] = s[1]
  BY <1>1
<1> HIDE DEF rest
<1> QED  BY <1>3, <1>4, <1>5, <1>6, <1>7

(* A task that stays at the lock, or stays away from it.                   *)
LEMMA LockLeft ==
  ASSUME LockOK, NEW k \in Tasks, \A l \in Tasks : l # k => task'[l] = task[l],
         queue' = queue, \A b \in Buses : queue[b] \in Seq(Tasks),
         \/ task[k].stage \notin Calls /\ task'[k].stage \notin Calls
         \/ /\ task[k].stage \in Calls /\ task'[k].stage \in Calls
            /\ task'[k].bus = task[k].bus /\ task[k].bus \in Buses
            /\ task'[k].stage \in Holding =>
                 task[k].stage \in Holding \/ queue[task[k].bus][1] = k
  PROVE  LockOK'
<1> SUFFICES ASSUME NEW b \in Buses  PROVE LockOf(b)'
  BY DEF LockOK
<1>1. LockOf(b) /\ \A i \in DOMAIN queue[b] : queue[b][i] \in Tasks
  BY LenProperties, ElementOfSeq DEF LockOK
<1>2. \A l \in Tasks : task'[l].stage \in Calls =>
        task[l].stage \in Calls /\ task'[l].bus = task[l].bus
  OBVIOUS
<1>3. \A l \in Tasks : task[l].stage \in Calls =>
        task'[l].stage \in Calls /\ task'[l].bus = task[l].bus
  OBVIOUS
<1>4. \A l \in Tasks : task'[l].bus = b /\ task'[l].stage \in Holding => queue[b][1] = l
  <2> SUFFICES ASSUME NEW l \in Tasks, task'[l].bus = b, task'[l].stage \in Holding
               PROVE  queue[b][1] = l
    OBVIOUS
  <2>1. task'[l].stage \in Calls
    BY DEF Holding, Calls
  <2> QED  BY <1>1, <1>2, <2>1 DEF LockOf
<1> QED  BY <1>1, <1>2, <1>3, <1>4 DEF LockOf

(* The lock of a bus after a step, of the queue it leaves.                 *)
LEMMA LockFrom ==
  ASSUME NEW b, NEW q, queue'[b] = q,
         \A i, j \in DOMAIN q : q[i] = q[j] => i = j,
         \A i \in DOMAIN q : task'[q[i]].bus = b /\ task'[q[i]].stage \in Calls,
         \A l \in Tasks : task'[l].bus = b /\ task'[l].stage \in Calls =>
           \E i \in DOMAIN q : q[i] = l,
         \A l \in Tasks : task'[l].bus = b /\ task'[l].stage \in Holding => q[1] = l
  PROVE  LockOf(b)'
BY DEF LockOf

(* A task that queues up.                                                  *)
LEMMA LockJoined ==
  ASSUME TypeInv, LockOK, NEW k \in Tasks, Kept(k), task[k].bus \in Buses,
         task[k].stage \notin Calls, task'[k].stage = "waiting",
         queue' = [queue EXCEPT ![task[k].bus] = Append(queue[task[k].bus], k)]
  PROVE  LockOK'
<1> SUFFICES ASSUME NEW b \in Buses  PROVE LockOf(b)'
  BY DEF LockOK
<1> DEFINE s == queue[b]
<1>1. /\ LockOf(b) /\ s \in Seq(Tasks) /\ Len(s) \in Nat /\ DOMAIN s = 1..Len(s)
      /\ \A i \in DOMAIN s : s[i] \in Tasks
  BY LenProperties, ElementOfSeq DEF LockOK, TypeInv, LoopTypes
<1>2. \A i \in DOMAIN s : s[i] # k /\ task'[s[i]] = task[s[i]]
  BY <1>1 DEF LockOf, Kept
<1>3. \A l \in Tasks : l # k => task'[l] = task[l]
  BY DEF Kept
<1>4. CASE b # task[k].bus
  <2>1. queue'[b] = s /\ task'[k].bus # b
    BY <1>4 DEF TypeInv, LoopTypes, Kept
  <2> HIDE DEF s
  <2>2. \A l \in Tasks : task'[l].bus = b => task'[l] = task[l]
    BY <1>3, <2>1
  <2>3. LockOf(b) /\ queue[b] = s
    BY <1>1 DEF s
  <2> QED  BY <1>2, <2>1, <2>2, <2>3 DEF LockOf
<1>5. CASE b = task[k].bus
  <2> DEFINE q == Append(s, k)
  <2>1. queue'[b] = q
    BY <1>5 DEF TypeInv, LoopTypes
  <2>2. /\ q \in Seq(Tasks) /\ Len(q) = Len(s) + 1 /\ DOMAIN q = 1..(Len(s) + 1)
        /\ \A i \in DOMAIN s : q[i] = s[i]
        /\ q[Len(s) + 1] = k
    BY <1>1, AppendProperties, LenProperties
  <2> HIDE DEF q
  <2>3. \A i \in DOMAIN q : i \in DOMAIN s \/ i = Len(s) + 1
    BY <1>1, <2>2
  <2>4. task'[k].bus = b /\ task'[k].stage \in Calls /\ task'[k].stage \notin Holding
    BY <1>5 DEF Kept, Calls, Holding
  <2>5. \A i, j \in DOMAIN q : q[i] = q[j] => i = j
    BY <1>1, <1>2, <2>2, <2>3 DEF LockOf
  <2>6. \A i \in DOMAIN q : task'[q[i]].bus = b /\ task'[q[i]].stage \in Calls
    BY <1>1, <1>2, <2>2, <2>3, <2>4 DEF LockOf
  <2>7. \A l \in Tasks : task'[l].bus = b /\ task'[l].stage \in Calls =>
          \E i \in DOMAIN q : q[i] = l
    <3> SUFFICES ASSUME NEW l \in Tasks, task'[l].bus = b, task'[l].stage \in Calls
                 PROVE  \E i \in DOMAIN q : q[i] = l
      OBVIOUS
    <3>1. CASE l = k
      BY <1>1, <2>2, <3>1
    <3>2. CASE l # k
      <4>1. PICK i \in DOMAIN s : s[i] = l
        BY <1>1, <1>3, <3>2 DEF LockOf
      <4> QED  BY <1>1, <2>2, <4>1
    <3> QED  BY <3>1, <3>2
  <2>8. \A l \in Tasks : task'[l].bus = b /\ task'[l].stage \in Holding => q[1] = l
    <3> SUFFICES ASSUME NEW l \in Tasks, task'[l].bus = b, task'[l].stage \in Holding
                 PROVE  q[1] = l
      OBVIOUS
    <3>1. task[l].bus = b /\ task[l].stage \in Holding /\ task[l].stage \in Calls
      BY <1>3, <2>4 DEF Holding, Calls
    <3>2. s[1] = l /\ \E i \in DOMAIN s : s[i] = l
      BY <1>1, <3>1 DEF LockOf
    <3>3. 1 \in DOMAIN s
      BY <1>1, <3>2
    <3> QED  BY <2>2, <3>2, <3>3
  <2> HIDE DEF s
  <2> QED  BY <2>1, <2>5, <2>6, <2>7, <2>8, LockFrom
<1> QED  BY <1>4, <1>5

(* A task that leaves the lock.                                            *)
LEMMA LockGivenUp ==
  ASSUME TypeInv, LockOK, NEW k \in Tasks, Kept(k), task[k].bus \in Buses,
         task[k].stage \in Calls, task'[k].stage = "done", Without(k)
  PROVE  LockOK'
<1> SUFFICES ASSUME NEW b \in Buses  PROVE LockOf(b)'
  BY DEF LockOK
<1> DEFINE s == queue[b]
<1>1. /\ LockOf(b) /\ s \in Seq(Tasks) /\ Len(s) \in Nat /\ DOMAIN s = 1..Len(s)
      /\ \A i \in DOMAIN s : s[i] \in Tasks
  BY LenProperties, ElementOfSeq DEF LockOK, TypeInv, LoopTypes
<1>2. /\ \A l \in Tasks : l # k => task'[l] = task[l]
      /\ task'[k].stage \notin Calls /\ task'[k].stage \notin Holding
  BY DEF Kept, Calls, Holding
<1>3. CASE b # task[k].bus
  <2>1. queue'[b] = s /\ \A i \in DOMAIN s : s[i] # k
    BY <1>1, <1>3 DEF Without, TypeInv, LoopTypes, LockOf
  <2> QED  BY <1>1, <1>2, <2>1 DEF LockOf
<1>4. CASE b = task[k].bus
  <2> DEFINE r == FirstRemoved(s, k)
  <2>1. queue'[b] = r
    BY <1>4 DEF Without, TypeInv, LoopTypes
  <2>2. PICK n \in DOMAIN s : s[n] = k
    BY <1>1, <1>4 DEF LockOf
  <2>3. /\ \A i, j \in DOMAIN r : r[i] = r[j] => i = j
        /\ \A i \in DOMAIN r : r[i] # k /\ \E j \in DOMAIN s : s[j] = r[i]
        /\ \A j \in DOMAIN s : s[j] # k => \E i \in DOMAIN r : r[i] = s[j]
        /\ n # 1 => r[1] = s[1]
    <3>1. \A i, j \in DOMAIN s : s[i] = s[j] => i = j
      BY <1>1 DEF LockOf
    <3>2. r = FirstRemoved(s, s[n])
      BY <2>2
    <3> HIDE DEF r, s
    <3> DEFINE q == FirstRemoved(s, s[n])
    <3>3. /\ \A i, j \in DOMAIN q : q[i] = q[j] => i = j
          /\ \A i \in DOMAIN q : q[i] # s[n] /\ \E j \in DOMAIN s : s[j] = q[i]
          /\ \A j \in DOMAIN s : s[j] # s[n] => \E i \in DOMAIN q : q[i] = s[j]
          /\ n # 1 => q[1] = s[1]
      BY <1>1, <3>1, RemovedOnce
    <3> HIDE DEF q
    <3>4. q = r
      BY <3>2 DEF q
    <3> QED  BY <2>2, <3>3, <3>4
  <2> HIDE DEF r
  <2>4. \A i \in DOMAIN r : task'[r[i]].bus = b /\ task'[r[i]].stage \in Calls
    BY <1>1, <1>2, <2>3 DEF LockOf
  <2>5. \A l \in Tasks : task'[l].bus = b /\ task'[l].stage \in Calls =>
          \E i \in DOMAIN r : r[i] = l
    BY <1>1, <1>2, <2>3 DEF LockOf
  <2>6. \A l \in Tasks : task'[l].bus = b /\ task'[l].stage \in Holding => r[1] = l
    <3> SUFFICES ASSUME NEW l \in Tasks, task'[l].bus = b, task'[l].stage \in Holding
                 PROVE  r[1] = l
      OBVIOUS
    <3>1. l # k /\ s[1] = l
      BY <1>1, <1>2 DEF LockOf
    <3> QED  BY <2>2, <2>3, <3>1
  <2> QED  BY <2>1, <2>3, <2>4, <2>5, <2>6 DEF LockOf
<1> QED  BY <1>3, <1>4

(* The task at the head of the lock is the only one that may hold it.      *)
LEMMA OneHolder ==
  ASSUME LockOK, NEW k \in Tasks, NEW l \in Tasks, task[k].bus \in Buses, l # k,
         task[k].stage \in Holding \/ queue[task[k].bus][1] = k,
         task[l].stage \in Holding
  PROVE  task[l].bus # task[k].bus
BY DEF LockOK, LockOf

(* Every step of a task keeps the lock.                                    *)
LEMMA TaskStepLock ==
  ASSUME TypeInv, StagesOfKinds, LockOK, NEW k \in Tasks, TaskStep(k) \/ Cancel(k)
  PROVE  LockOK'
<1>a. \A b \in Buses : queue[b] \in Seq(Tasks)
  BY DEF TypeInv, LoopTypes
<1>b. task[k].stage # "free" => task[k].bus \in Buses
  BY DEF TypeInv, LoopTypes
<1>1. ASSUME Kept(k), queue' = queue, task[k].stage \notin Calls, task'[k].stage \notin Calls
      PROVE  LockOK'
  BY <1>a, <1>1, LockLeft DEF Kept
<1>2. ASSUME Kept(k), queue' = queue, task[k].stage \in Calls, task'[k].stage \in Calls,
             task[k].stage \in Holding \/ queue[task[k].bus][1] = k
      PROVE  LockOK'
  BY <1>a, <1>b, <1>2, LockLeft DEF Kept, Calls
<1>3. CASE OpenPort(k)
  BY <1>1, <1>3, FinishFields DEF OpenPort, Moves, At, Calls
<1>4. CASE Start(k)
  <2>1. task[k].stage = "started" /\ task[k].bus \in Buses
    BY <1>4, <1>b DEF Start, At
  <2>2. CASE closed[task[k].bus]
    BY <1>1, <1>4, <2>1, <2>2, FinishFields DEF Start, Moves, Calls
  <2>3. CASE ~closed[task[k].bus]
    <3>1. /\ Kept(k) /\ task'[k].stage = "waiting"
          /\ queue' = [queue EXCEPT ![task[k].bus] = Append(queue[task[k].bus], k)]
      BY <1>4, <2>3, StageFields DEF Start, Moves
    <3> QED  BY <2>1, <3>1, LockJoined DEF Calls
  <2> QED  BY <2>2, <2>3
<1>5. CASE Acquire(k)
  <2>1. Kept(k) /\ task[k].stage = "waiting" /\ task'[k].stage = "attempt" /\ queue' = queue
    BY <1>5, AcquireFields DEF Acquire, Moves
  <2>2. queue[task[k].bus][1] = k
    BY <1>5 DEF Acquire
  <2> QED  BY <1>2, <2>1, <2>2 DEF Calls
<1>6. CASE Send(k)
  BY <1>2, <1>6, StageFields DEF Send, At, Moves, Calls, Holding, busVars
<1>7. ASSUME NEW outcome, InAttempt(k), AttemptEnds(k, outcome)  PROVE LockOK'
  <2>1. queue' = queue
    BY <1>7 DEF AttemptEnds
  <2> QED  BY <1>2, <1>7, <2>1, AttemptEndsFields DEF Moves, Calls, Holding
<1>8. CASE Attempt(k)
  BY <1>7, <1>8 DEF Attempt
<1>9. CASE Deliver(k)
  BY <1>2, <1>9, DeliverFields DEF Deliver, Moves, Calls, Holding, busVars
<1>10. CASE Reported(k)
  <2>1. CASE task[k].out = "none"
    BY <1>2, <1>10, <2>1, ReportedFields DEF Calls, Holding
  <2>2. CASE task[k].out # "none"
    BY <1>10, <2>2, ReportedFields, LockGivenUp DEF Calls
  <2> QED  BY <2>1, <2>2
<1>11. CASE BackoffEnds(k)
  BY <1>2, <1>11, BackoffEndsFields DEF BackoffEnds, Moves, Calls, Holding, busVars
<1>12. CASE StartAclose(k)
  BY <1>1, <1>12, FinishFields, StageFields DEF StartAclose, Moves, At, Calls
<1>13. CASE StreamCloses(k)
  BY <1>1, <1>13, FinishFields DEF StreamCloses, Moves, At, Calls
<1>14. CASE Forgotten(k)
  <2>1. NoTask.stage = "free" /\ queue' = queue
    BY <1>14 DEF Forgotten, NoTask, busVars
  <2> QED  BY <1>a, <1>14, <2>1, ForgottenFields, LockLeft DEF Calls
<1>15. CASE Cancel(k)
  BY <1>7, <1>15, CancelEnds, GiveUpFields, LockGivenUp DEF Calls
<1> QED
  BY <1>3, <1>4, <1>5, <1>6, <1>8, <1>9, <1>10, <1>11, <1>12, <1>13, <1>14, <1>15 DEF TaskStep

(* A thread's own step concerns a task that is not at a lock.              *)
LEMMA ThreadStepOutside ==
  ASSUME TypeInv, TasksOfThreads, NEW t \in Threads,
         Starts(t) \/ TakesResult(t) \/ LeavesTasks(t)
  PROVE  \/ UNCHANGED task
         \/ \E k \in Tasks : /\ \A l \in Tasks : l # k => task'[l] = task[l]
                             /\ task[k].stage \notin Calls /\ task'[k].stage \notin Calls
                             /\ task'[k].attempt = 0
<1>1. NoTask.stage = "free" /\ NoTask.attempt = 0
  BY DEF NoTask
<1>2. CASE Starts(t)
  BY <1>1, <1>2 DEF Starts, Spawned, Calls
<1>3. CASE TakesResult(t)
  <2>1. thread[t].task \in Tasks /\ task[thread[t].task].stage = "done"
    BY <1>3 DEF TakesResult, TasksOfThreads, Opened, OpenFailed, Returned, Closed, Done
  <2>2. /\ task'[thread[t].task] = NoTask
        /\ \A k \in Tasks : k # thread[t].task => task'[k] = task[k]
    BY <1>3, <2>1, FreeTask DEF TakesResult, TypeInv
  <2> QED  BY <1>1, <2>1, <2>2 DEF Calls
<1>4. CASE LeavesTasks(t)
  BY <1>4 DEF LeavesTasks
<1> QED  BY <1>2, <1>3, <1>4

(* Every step does.                                                        *)
LEMMA LockStep ==
  ASSUME CloseInv, LockOK, [Next]_vars
  PROVE  LockOK'
<1>a. TypeInv /\ TasksOfThreads /\ StagesOfKinds
  BY DEF CloseInv
<1>b. \A b \in Buses : queue[b] \in Seq(Tasks)
  BY <1>a DEF TypeInv, LoopTypes
<1>1. ASSUME UNCHANGED <<task, queue>>  PROVE LockOK'
  BY <1>1 DEF LockOK, LockOf
<1>2. ASSUME NEW t \in Threads,
             \/ ThreadStep(t) \/ Interrupt(t)
             \/ \E b \in Buses : Open(t, b) \/ Request(t, b) \/ Close(t, b)
      PROVE  LockOK'
  <2>1. queue' = queue /\ (Starts(t) \/ TakesResult(t) \/ LeavesTasks(t))
    BY <1>a, <1>2, ThreadStepTasks
  <2>2. CASE UNCHANGED task
    BY <1>1, <2>1, <2>2
  <2>3. ASSUME NEW k \in Tasks, \A l \in Tasks : l # k => task'[l] = task[l],
               task[k].stage \notin Calls, task'[k].stage \notin Calls
        PROVE  LockOK'
    BY <1>b, <2>1, <2>3, LockLeft
  <2> QED  BY <1>a, <2>1, <2>2, <2>3, ThreadStepOutside
<1>3. ASSUME NEW k \in Tasks, TaskStep(k) \/ Cancel(k)  PROVE LockOK'
  BY <1>a, <1>3, TaskStepLock
<1>4. CASE Others
  <2>1. UNCHANGED <<task, queue>>
    BY <1>4 DEF Others, PortalEnds, CloseOnLoop, CloseAgain, AddTransactionObserver, RemoveObserver, busVars
  <2> QED  BY <1>1, <2>1
<1>5. CASE UNCHANGED vars
  BY <1>1, <1>5 DEF vars, busVars
<1> QED  BY <1>2, <1>3, <1>4, <1>5, NextSplit

-----------------------------------------------------------------------------
(* The reports                                                             *)

LastOf(log) == log[Len(log)]
Logged(k) == ghost[task[k].bus].log # <<>> /\ ghost[task[k].bus].log[1].id = task[k].id

(* A bus has reports of its last request or of one before.                 *)
Numbered(b) == \A i \in DOMAIN ghost[b].log : ghost[b].log[i].id <= requests[b]

(* The log has what was reported of the request that holds the lock.       *)
Progress(k) ==
  LET log == ghost[task[k].bus].log IN
  /\ task[k].attempt <= Retries + 1
  /\ task[k].stage \in Holding => task[k].id = requests[task[k].bus] /\ task[k].attempt >= 1
  /\ task[k].stage \in {"attempt", "sent"} =>
       IF Logged(k) THEN Len(log) = task[k].attempt - 1 /\ LastOf(log).willRetry
       ELSE task[k].attempt = 1
  /\ task[k].stage \in {"reporting", "backoff"} =>
       /\ Logged(k) /\ Len(log) = task[k].attempt
       /\ task[k].out = "none" => LastOf(log).willRetry /\ task[k].attempt <= Retries
       /\ task[k].out # "none" => ~LastOf(log).willRetry
       /\ task[k].stage = "backoff" => task[k].out = "none"

(* What observers have been told while a report is made.                   *)
Told(k) == task[k].stage = "reporting" =>
  LET b == task[k].bus IN
  /\ task[k].called <= Len(task[k].audience)
  /\ \A o \in Observers :
       /\ ghost[b].told[o] = Cardinality({i \in 1..task[k].called : task[k].audience[i] = o})
       /\ ghost[b].kept[o] <= Count(task[k].audience, o)

(* ReportsInOrder, of one bus.                                             *)
Ordered(b) ==
  LET log == ghost[b].log IN
  /\ \A i \in DOMAIN log : log[i].attempt = i /\ log[i].id = log[1].id
  /\ \A i \in 1..(Len(log) - 1) : log[i].willRetry
  /\ (log # <<>> /\ log[Len(log)].willRetry) =>
       \/ ghost[b].gaveUp = log[1].id
       \/ \E k \in Tasks : /\ task[k].bus = b /\ task[k].id = log[1].id
                           /\ task[k].stage \in {"reporting", "backoff", "attempt", "sent"}

ReportsOK == /\ \A b \in Buses : Numbered(b) /\ Ordered(b)
             /\ \A k \in Tasks : Progress(k) /\ Told(k)

(* A step that leaves the reports and the tasks that hold a lock alone.    *)
LEMMA ReportsLeft ==
  ASSUME TypeInv, TypeInv', ReportsOK, requests' = requests,
         \A k \in Tasks : \/ task'[k] = task[k]
                         \/ /\ task[k].stage \notin Holding /\ task'[k].stage \notin Holding
                            /\ task'[k].attempt <= Retries + 1,
         \A b \in Buses :
           /\ ghost'[b].log = ghost[b].log /\ ghost'[b].gaveUp = ghost[b].gaveUp
           /\ ghost'[b].told = ghost[b].told
           /\ \A o \in Observers : ghost'[b].kept[o] <= ghost[b].kept[o]
  PROVE  ReportsOK'
<1>1. \A b \in Buses : Numbered(b)'
  BY DEF ReportsOK, Numbered
<1>2. ASSUME NEW b \in Buses  PROVE Ordered(b)'
  <2> DEFINE log == ghost[b].log
  <2>1. Ordered(b)
    BY DEF ReportsOK
  <2>2. ghost'[b].log = log /\ ghost'[b].gaveUp = ghost[b].gaveUp
    OBVIOUS
  <2>3. ASSUME NEW k \in Tasks, task[k].stage \in {"reporting", "backoff", "attempt", "sent"}
        PROVE  task'[k] = task[k]
    BY <2>3 DEF Holding
  <2> QED  BY <2>1, <2>2, <2>3 DEF Ordered
<1>3. \A k \in Tasks : Progress(k)'
  <2> SUFFICES ASSUME NEW k \in Tasks  PROVE Progress(k)'
    OBVIOUS
  <2>1. CASE task'[k].stage \notin Holding
    BY <2>1 DEF ReportsOK, Progress, Holding
  <2>2. CASE task'[k].stage \in Holding
    <3>1. task'[k] = task[k] /\ task[k].bus \in Buses
      BY <2>2 DEF TypeInv, LoopTypes, Holding
    <3>2. ghost'[task[k].bus].log = ghost[task[k].bus].log
      BY <3>1
    <3> QED  BY <3>1, <3>2 DEF ReportsOK, Progress, Logged
  <2> QED  BY <2>1, <2>2
<1>4. \A k \in Tasks : Told(k)'
  <2> SUFFICES ASSUME NEW k \in Tasks, task'[k].stage = "reporting"  PROVE Told(k)'
    BY DEF Told
  <2>1. task'[k] = task[k] /\ task[k].bus \in Buses
    BY DEF TypeInv, LoopTypes, Holding
  <2>2. ghost'[task[k].bus].told = ghost[task[k].bus].told
    BY <2>1
  <2>3. ASSUME NEW o \in Observers  PROVE ghost'[task[k].bus].kept[o] <= Count(task[k].audience, o)
    <3>1. /\ ghost[task[k].bus].kept[o] \in Nat /\ ghost'[task[k].bus].kept[o] \in Nat
          /\ Count(task[k].audience, o) \in Nat
      <4>1. /\ ghost[task[k].bus].kept \in [Observers -> Nat]
            /\ ghost'[task[k].bus].kept \in [Observers -> Nat]
        BY <2>1 DEF TypeInv, LeaseTypes, GhostRec
      <4>2. task[k].audience \in Seq(Observers)
        BY DEF TypeInv, LoopTypes, TaskRec
      <4> QED  BY <4>1, <4>2, CountType
    <3>2. ghost[task[k].bus].kept[o] <= Count(task[k].audience, o)
      BY <2>1 DEF ReportsOK, Told
    <3>3. ghost'[task[k].bus].kept[o] <= ghost[task[k].bus].kept[o]
      BY <2>1
    <3> QED  BY <3>1, <3>2, <3>3
  <2> QED  BY <2>1, <2>2, <2>3 DEF ReportsOK, Told
<1> QED  BY <1>1, <1>2, <1>3, <1>4 DEF ReportsOK

(* A step of the task that holds, or takes, the lock of its bus.           *)
LEMMA HolderStep ==
  ASSUME TypeInv, LockOK, ReportsOK, NEW k \in Tasks, Kept(k), task[k].bus \in Buses,
         task[k].stage \in Holding \/ queue[task[k].bus][1] = k,
         \A c \in Buses : c # task[k].bus => requests'[c] = requests[c] /\ ghost'[c] = ghost[c],
         Numbered(task[k].bus)', Ordered(task[k].bus)', Progress(k)', Told(k)'
  PROVE  ReportsOK'
<1> DEFINE b == task[k].bus
<1>1. \A l \in Tasks : l # k => task'[l] = task[l]
  BY DEF Kept
<1>2. \A l \in Tasks : l # k /\ task[l].stage \in Holding => task[l].bus # b /\ task[l].bus \in Buses
  BY OneHolder DEF TypeInv, LoopTypes, Holding
<1>3. \A c \in Buses : c # b => Numbered(c)'
  BY DEF ReportsOK, Numbered
<1>4. \A c \in Buses : c # b => Ordered(c)'
  <2> SUFFICES ASSUME NEW c \in Buses, c # b  PROVE Ordered(c)'
    OBVIOUS
  <2>1. Ordered(c) /\ ghost'[c] = ghost[c]
    BY DEF ReportsOK
  <2>2. \A l \in Tasks : task[l].bus = c => task'[l] = task[l]
    BY <1>1
  <2> HIDE DEF b
  <2> QED  BY <2>1, <2>2 DEF Ordered
<1>5. \A l \in Tasks : l # k => Progress(l)' /\ Told(l)'
  <2> SUFFICES ASSUME NEW l \in Tasks, l # k  PROVE Progress(l)' /\ Told(l)'
    OBVIOUS
  <2>1. task'[l] = task[l] /\ Progress(l) /\ Told(l)
    BY <1>1 DEF ReportsOK
  <2>2. CASE task[l].stage \notin Holding
    BY <2>1, <2>2 DEF Progress, Told, Holding
  <2>3. CASE task[l].stage \in Holding
    <3>1. ghost'[task[l].bus] = ghost[task[l].bus] /\ requests'[task[l].bus] = requests[task[l].bus]
      BY <1>2, <2>3
    <3> QED  BY <2>1, <3>1 DEF Progress, Told, Logged
  <2> QED  BY <2>2, <2>3
<1>6. \A c \in Buses : c = b => Numbered(c)' /\ Ordered(c)'
  <2>1. task'[k].bus = b
    BY DEF Kept
  <2> QED  BY <2>1 DEF Numbered, Ordered
<1> HIDE DEF b
<1>7. \A c \in Buses : Numbered(c)' /\ Ordered(c)'
  BY <1>3, <1>4, <1>6
<1>8. \A l \in Tasks : Progress(l)' /\ Told(l)'
  <2>1. Progress(k)' /\ Told(k)'
    OBVIOUS
  <2> QED  BY <1>5, <2>1
<1> QED  BY <1>7, <1>8 DEF ReportsOK

(* The log of a bus, and the counts of its reports.                        *)
LEMMA LogTypes ==
  ASSUME TypeInv, NEW b \in Buses
  PROVE  /\ ghost[b].log \in Seq(Report) /\ Len(ghost[b].log) \in Nat
         /\ DOMAIN ghost[b].log = 1..Len(ghost[b].log)
         /\ \A i \in DOMAIN ghost[b].log : ghost[b].log[i] \in Report
         /\ ghost[b].log # <<>> <=> Len(ghost[b].log) >= 1
         /\ ghost[b].told \in [Observers -> Nat] /\ ghost[b].kept \in [Observers -> Nat]
         /\ requests[b] \in Nat
<1>1. ghost[b] \in GhostRec /\ requests[b] \in Nat
  BY DEF TypeInv, LeaseTypes, LoopTypes
<1>2. ghost[b].log \in Seq(Report) /\ ghost[b].told \in [Observers -> Nat]
      /\ ghost[b].kept \in [Observers -> Nat]
  BY <1>1 DEF GhostRec
<1> DEFINE log == ghost[b].log
<1>3. log \in Seq(Report)
  BY <1>2
<1> HIDE DEF log
<1>4. Len(log) \in Nat /\ DOMAIN log = 1..Len(log) /\ \A i \in DOMAIN log : log[i] \in Report
  BY <1>3, LenProperties, ElementOfSeq
<1>5. log # <<>> <=> Len(log) >= 1
  BY <1>3, <1>4, EmptySeq
<1> QED  BY <1>1, <1>2, <1>3, <1>4, <1>5 DEF log

(* The task that holds the lock goes on with its request.                  *)
LEMMA OrderedKept ==
  ASSUME NEW k \in Tasks, Kept(k), Ordered(task[k].bus),
         ghost'[task[k].bus].log = ghost[task[k].bus].log,
         ghost'[task[k].bus].gaveUp = ghost[task[k].bus].gaveUp,
         task[k].stage \in Holding => task'[k].stage \in Holding /\ task'[k].id = task[k].id
  PROVE  Ordered(task[k].bus)'
<1> DEFINE b == task[k].bus
<1>1. task'[k].bus = b /\ \A l \in Tasks : l # k => task'[l] = task[l]
  BY DEF Kept
<1>2. \A n : \A l \in Tasks : /\ task[l].bus = b /\ task[l].id = n /\ task[l].stage \in Holding
        => /\ task'[l].bus = b /\ task'[l].id = n /\ task'[l].stage \in Holding
  BY <1>1
<1>3. Ordered(b)
  OBVIOUS
<1> HIDE DEF b
<1>4. ghost'[b].log = ghost[b].log /\ ghost'[b].gaveUp = ghost[b].gaveUp
  BY DEF b
<1>5. \A l \in Tasks : task[l].stage \in {"reporting", "backoff", "attempt", "sent"}
        <=> task[l].stage \in Holding
  BY DEF Holding
<1>6. \A l \in Tasks : task'[l].stage \in {"reporting", "backoff", "attempt", "sent"}
        <=> task'[l].stage \in Holding
  BY DEF Holding
<1>7. ASSUME ghost[b].log # <<>>, ghost[b].log[Len(ghost[b].log)].willRetry
      PROVE  \/ ghost'[b].gaveUp = ghost[b].log[1].id
             \/ \E l \in Tasks : /\ task'[l].bus = b /\ task'[l].id = ghost[b].log[1].id
                                 /\ task'[l].stage \in {"reporting", "backoff", "attempt", "sent"}
  <2>1. CASE ghost[b].gaveUp = ghost[b].log[1].id
    BY <1>4, <2>1
  <2>2. CASE ghost[b].gaveUp # ghost[b].log[1].id
    <3>1. PICK l \in Tasks : /\ task[l].bus = b /\ task[l].id = ghost[b].log[1].id
                            /\ task[l].stage \in Holding
      BY <1>3, <1>5, <1>7, <2>2 DEF Ordered
    <3> QED  BY <1>2, <1>6, <3>1
  <2> QED  BY <2>1, <2>2
<1> QED  BY <1>1, <1>3, <1>4, <1>7 DEF Ordered

(* A new request has no report yet.                                        *)
LEMMA AcquireReports ==
  ASSUME TypeInv, LockOK, ReportsOK, NEW k \in Tasks, Acquire(k)
  PROVE  ReportsOK'
<1> DEFINE b == task[k].bus
<1>1. /\ Kept(k) /\ task[k].stage = "waiting" /\ task'[k].stage = "attempt"
      /\ task'[k].id = requests[b] + 1 /\ task'[k].attempt = 1 /\ task'[k].bus = b
  BY AcquireFields DEF Moves, Kept
<1>2. /\ b \in Buses /\ queue[b][1] = k /\ ghost' = ghost
      /\ requests' = [requests EXCEPT ![b] = requests[b] + 1]
  BY <1>1 DEF Acquire, TypeInv, LoopTypes
<1> HIDE DEF b
<1>3. /\ requests'[b] = requests[b] + 1 /\ requests[b] \in Nat
      /\ \A c \in Buses : c # b => requests'[c] = requests[c]
  BY <1>2 DEF TypeInv, LoopTypes
<1>4. Numbered(b) /\ Ordered(b)
  BY <1>2 DEF ReportsOK
<1>5. \A i \in DOMAIN ghost[b].log : ghost[b].log[i].id \in Nat /\ ghost[b].log[i].id <= requests[b]
  BY <1>2, <1>4, LogTypes DEF Report, Numbered
<1>6. Numbered(task[k].bus)'
  BY <1>1, <1>2, <1>3, <1>5 DEF Numbered
<1>7. Ordered(task[k].bus)'
  BY <1>1, <1>2, <1>4, OrderedKept DEF Holding, b
<1>8. Progress(k)'
  <2>1. ghost[b].log # <<>> => ghost[b].log[1].id # requests[b] + 1
    BY <1>2, <1>3, <1>5, LogTypes
  <2>2. ~Logged(k)'
    BY <1>1, <1>2, <2>1 DEF Logged
  <2> QED  BY <1>1, <1>2, <1>3, <2>2 DEF Progress, Holding
<1>9. Told(k)'
  BY <1>1 DEF Told
<1> QED  BY <1>1, <1>2, <1>3, <1>6, <1>7, <1>8, <1>9, HolderStep DEF b

(* To send reports nothing.                                                *)
LEMMA SendReports ==
  ASSUME TypeInv, LockOK, ReportsOK, NEW k \in Tasks, Send(k)
  PROVE  ReportsOK'
<1> DEFINE b == task[k].bus
<1>1. /\ Kept(k) /\ task[k].stage = "attempt" /\ task'[k].stage = "sent" /\ SameRequest(k)
      /\ task'[k].bus = b /\ ghost' = ghost /\ requests' = requests
  BY StageFields DEF Send, Moves, Kept, At, busVars
<1>2. b \in Buses
  BY <1>1 DEF TypeInv, LoopTypes
<1>3. Numbered(b) /\ Ordered(b) /\ Progress(k)
  BY <1>2 DEF ReportsOK
<1>4. Numbered(task[k].bus)'
  BY <1>1, <1>3 DEF Numbered
<1>5. Ordered(task[k].bus)'
  BY <1>1, <1>3, OrderedKept DEF Holding, SameRequest
<1>6. Progress(k)'
  BY <1>1, <1>3 DEF Progress, Logged, SameRequest, Holding
<1>7. Told(k)'
  BY <1>1 DEF Told
<1> QED  BY <1>1, <1>2, <1>4, <1>5, <1>6, <1>7, HolderStep DEF Holding

(* The next attempt follows the report that announced it.                  *)
LEMMA BackoffEndsReports ==
  ASSUME TypeInv, LockOK, ReportsOK, NEW k \in Tasks, BackoffEnds(k)
  PROVE  ReportsOK'
<1> DEFINE b == task[k].bus
<1>1. /\ Kept(k) /\ task[k].stage = "backoff" /\ task'[k].stage = "attempt"
      /\ task'[k].id = task[k].id /\ task'[k].attempt = task[k].attempt + 1
      /\ task'[k].bus = b /\ ghost' = ghost /\ requests' = requests
  BY BackoffEndsFields DEF BackoffEnds, Moves, Kept, busVars
<1>2. b \in Buses /\ task[k].attempt \in Nat
  BY <1>1 DEF TypeInv, LoopTypes, TaskRec
<1>3. Numbered(b) /\ Ordered(b) /\ Progress(k)
  BY <1>2 DEF ReportsOK
<1>4. Numbered(task[k].bus)'
  BY <1>1, <1>3 DEF Numbered
<1>5. Ordered(task[k].bus)'
  BY <1>1, <1>3, OrderedKept DEF Holding
<1>6. Progress(k)'
  BY <1>1, <1>2, <1>3 DEF Progress, Logged, Holding
<1>7. Told(k)'
  BY <1>1 DEF Told
<1> QED  BY <1>1, <1>2, <1>4, <1>5, <1>6, <1>7, HolderStep DEF Holding

(* A call ends after a report that says it will not be sent again.         *)
LEMMA ReportedReports ==
  ASSUME TypeInv, LockOK, ReportsOK, NEW k \in Tasks, Reported(k)
  PROVE  ReportsOK'
<1> DEFINE b == task[k].bus
<1>1. /\ Kept(k) /\ task[k].stage = "reporting" /\ SameRequest(k) /\ b \in Buses
      /\ task'[k].out = task[k].out
      /\ task'[k].stage = IF task[k].out = "none" THEN "backoff" ELSE "done"
      /\ ghost'[b].log = ghost[b].log /\ ghost'[b].gaveUp = ghost[b].gaveUp
      /\ \A c \in Buses : c # b => ghost'[c] = ghost[c]
      /\ requests' = requests
  BY ReportedFields DEF Reported
<1>2. task'[k].bus = b
  BY <1>1 DEF Kept
<1>3. Numbered(b) /\ Ordered(b) /\ Progress(k)
  BY <1>1 DEF ReportsOK
<1> HIDE DEF b
<1>4. Numbered(task[k].bus)'
  BY <1>1, <1>2, <1>3 DEF Numbered
<1>5. Ordered(task[k].bus)'
  <2>1. CASE task[k].out = "none"
    BY <1>1, <1>3, <2>1, OrderedKept DEF Holding, SameRequest, b
  <2>2. CASE task[k].out # "none"
    <3>1. ghost[b].log # <<>> /\ ~LastOf(ghost[b].log).willRetry
      BY <1>1, <1>3, <2>2 DEF Progress, Logged, b
    <3> QED  BY <1>1, <1>2, <1>3, <3>1 DEF Ordered, LastOf
  <2> QED  BY <2>1, <2>2
<1>6. Progress(k)'
  BY <1>1, <1>2, <1>3 DEF Progress, Logged, SameRequest, Holding, b
<1>7. Told(k)'
  BY <1>1 DEF Told
<1> QED  BY <1>1, <1>4, <1>5, <1>6, <1>7, HolderStep DEF Holding, b

(* A call that expires in its backoff has been told that it would be sent  *)
(* again.                                                                  *)
LEMMA GiveUpReports ==
  ASSUME TypeInv, LockOK, ReportsOK, NEW k \in Tasks, Cancel(k),
         ~\E outcome : InAttempt(k) /\ AttemptEnds(k, outcome), task[k].stage = "backoff"
  PROVE  ReportsOK'
<1> DEFINE b == task[k].bus
<1>1. /\ Kept(k) /\ task'[k].stage = "done" /\ SameRequest(k) /\ b \in Buses
      /\ ghost'[b].log = ghost[b].log /\ ghost'[b].gaveUp = task[k].id
      /\ \A c \in Buses : c # b => ghost'[c] = ghost[c]
      /\ requests' = requests
  BY GiveUpFields
<1>2. task'[k].bus = b
  BY <1>1 DEF Kept
<1>3. Numbered(b) /\ Ordered(b) /\ Progress(k)
  BY <1>1 DEF ReportsOK
<1> HIDE DEF b
<1>4. Numbered(task[k].bus)'
  BY <1>1, <1>2, <1>3 DEF Numbered
<1>5. Ordered(task[k].bus)'
  <2>1. ghost[b].log[1].id = task[k].id
    BY <1>3 DEF Progress, Logged, b
  <2> QED  BY <1>1, <1>2, <1>3, <2>1 DEF Ordered
<1>6. Progress(k)'
  BY <1>1, <1>3 DEF Progress, SameRequest, Holding
<1>7. Told(k)'
  BY <1>1 DEF Told
<1> QED  BY <1>1, <1>4, <1>5, <1>6, <1>7, HolderStep DEF Holding, b

(* The report of an attempt is the next of its request.                    *)
LEMMA AttemptEndsReports ==
  ASSUME TypeInv, LockOK, ReportsOK, NEW k \in Tasks, NEW outcome, InAttempt(k),
         AttemptEnds(k, outcome)
  PROVE  /\ ReportsOK'
         /\ LastOf(ghost'[task[k].bus].log).id = requests[task[k].bus]
<1> DEFINE b == task[k].bus
           log == ghost[b].log
           r == [id |-> task[k].id, attempt |-> task[k].attempt,
                 willRetry |-> WillRetry(k, outcome)]
           after == ghost'[b].log
<1>1. /\ Kept(k) /\ task[k].stage \in {"attempt", "sent"} /\ task'[k].stage = "reporting"
      /\ SameRequest(k) /\ b \in Buses
      /\ task'[k].audience = observers[b] /\ task'[k].called = 0
      /\ task'[k].out = IF WillRetry(k, outcome) THEN "none" ELSE OutOf(outcome)
      /\ ghost'[b].log = Reports(k, outcome) /\ ghost'[b].gaveUp = ghost[b].gaveUp
      /\ ghost'[b].kept = [o \in Observers |-> Count(observers[b], o)]
      /\ ghost'[b].told = [o \in Observers |-> 0]
      /\ \A c \in Buses : c # b => ghost'[c] = ghost[c]
      /\ requests' = requests
  <2>1. requests' = requests
    BY DEF AttemptEnds
  <2> HIDE DEF log, r, after
  <2>2. /\ Moves(k, task[k].stage, "reporting") /\ task[k].stage \in {"attempt", "sent"}
        /\ SameRequest(k) /\ b \in Buses
        /\ task'[k].audience = observers[b] /\ task'[k].called = 0
        /\ task'[k].out = IF WillRetry(k, outcome) THEN "none" ELSE OutOf(outcome)
        /\ ghost'[b].log = Reports(k, outcome) /\ ghost'[b].gaveUp = ghost[b].gaveUp
        /\ ghost'[b].kept = [o \in Observers |-> Count(observers[b], o)]
        /\ ghost'[b].told = [o \in Observers |-> 0]
        /\ \A c \in Buses : c # b => ghost'[c] = ghost[c]
    BY AttemptEndsFields, Zenon
  <2> HIDE DEF b
  <2> QED  BY <2>1, <2>2 DEF Moves
<1>2. task'[k].bus = b
  BY <1>1 DEF Kept
<1>3. Numbered(b) /\ Ordered(b) /\ Progress(k)
  BY <1>1 DEF ReportsOK
<1>4. /\ log \in Seq(Report) /\ Len(log) \in Nat /\ DOMAIN log = 1..Len(log)
      /\ \A i \in DOMAIN log : log[i] \in Report
      /\ log # <<>> <=> Len(log) >= 1
      /\ requests[b] \in Nat
  BY <1>1, LogTypes
<1>5. /\ task[k].id = requests[b] /\ task[k].attempt \in Nat /\ task[k].attempt >= 1
      /\ task[k].attempt <= Retries + 1
  BY <1>1, <1>3 DEF Progress, Holding, TypeInv, LoopTypes, TaskRec
<1>6. WillRetry(k, outcome) \in BOOLEAN /\ (WillRetry(k, outcome) => task[k].attempt <= Retries)
  BY <1>5 DEF WillRetry
<1>7. r \in Report
  BY <1>4, <1>5, <1>6 DEF Report
<1>8. after = IF log # <<>> /\ log[1].id = task[k].id THEN Append(log, r) ELSE <<r>>
  BY <1>1 DEF Reports
<1>9. OutOf(outcome) # "none"
  BY DEF OutOf
<1> DEFINE n == task[k].attempt
<1>10. /\ Len(after) = n /\ DOMAIN after = 1..n /\ after # <<>> /\ after[n] = r
       /\ \A i \in 1..n : i # n => /\ i \in DOMAIN log /\ after[i] = log[i]
                                 /\ log[i].id = task[k].id /\ log[i].attempt = i
                                 /\ log[i].willRetry
  <2>1. CASE Logged(k)
    <3>1. after = Append(log, r) /\ log # <<>> /\ log[1].id = task[k].id
      BY <1>8, <2>1 DEF Logged
    <3>2. Len(log) = n - 1 /\ log[Len(log)].willRetry
      BY <1>1, <1>3, <2>1 DEF Progress, LastOf
    <3>3. \A i \in DOMAIN log : log[i].attempt = i /\ log[i].id = log[1].id /\ log[i].willRetry
      <4>1. /\ \A i \in DOMAIN log : log[i].attempt = i /\ log[i].id = log[1].id
            /\ \A i \in 1..(Len(log) - 1) : log[i].willRetry
        BY <1>3 DEF Ordered
      <4> HIDE DEF log
      <4>2. \A i \in DOMAIN log : i \in 1..(Len(log) - 1) \/ i = Len(log)
        BY <1>4
      <4> QED  BY <3>2, <4>1, <4>2
    <3> HIDE DEF log, r
    <3>4. /\ Append(log, r) \in Seq(Report)
          /\ Append(log, r) # <<>> /\ Len(Append(log, r)) = Len(log) + 1
          /\ \A i \in 1..Len(log) : Append(log, r)[i] = log[i]
          /\ Append(log, r)[Len(log) + 1] = r
      BY <1>4, <1>7, AppendProperties
    <3>5. DOMAIN Append(log, r) = 1..Len(Append(log, r))
      BY <3>4, LenProperties
    <3> HIDE DEF after
    <3> QED  BY <1>4, <1>5, <3>1, <3>2, <3>3, <3>4, <3>5
  <2>2. CASE ~Logged(k)
    <3>1. after = <<r>> /\ n = 1
      BY <1>1, <1>3, <1>8, <2>2 DEF Logged, Progress
    <3> HIDE DEF r, log
    <3>2. Len(<<r>>) = 1 /\ DOMAIN <<r>> = 1..1 /\ <<r>>[1] = r /\ <<r>> # <<>>
      OBVIOUS
    <3> HIDE DEF after
    <3> QED  BY <3>1, <3>2
  <2> QED  BY <2>1, <2>2
<1>11. r.id = task[k].id /\ r.attempt = n /\ r.willRetry = WillRetry(k, outcome)
  OBVIOUS
<1> HIDE DEF b, log, after, r
<1>12. \A i \in 1..n : after[i].id = task[k].id /\ after[i].attempt = i
  BY <1>5, <1>10, <1>11
<1>13. Numbered(task[k].bus)'
  BY <1>1, <1>2, <1>4, <1>5, <1>10, <1>12 DEF Numbered, after
<1>14. Ordered(task[k].bus)'
  <2>1. \A i \in DOMAIN after : after[i].attempt = i /\ after[i].id = after[1].id
    BY <1>5, <1>10, <1>12
  <2>2. \A i \in 1..(Len(after) - 1) : after[i].willRetry
    BY <1>5, <1>10
  <2>3. task'[k].bus = b /\ task'[k].id = after[1].id /\ task'[k].stage = "reporting"
    BY <1>1, <1>2, <1>5, <1>12 DEF SameRequest
  <2> QED  BY <1>2, <2>1, <2>2, <2>3 DEF Ordered, after
<1>15. Progress(k)'
  <2>1. Logged(k)'
    BY <1>1, <1>2, <1>5, <1>10, <1>12 DEF Logged, SameRequest, after
  <2>2. Len(after) = task'[k].attempt /\ LastOf(after).willRetry = WillRetry(k, outcome)
    BY <1>1, <1>10, <1>11 DEF SameRequest, LastOf
  <2> QED
    BY <1>1, <1>2, <1>5, <1>6, <1>9, <2>1, <2>2 DEF Progress, SameRequest, Holding, after
<1>16. Told(k)'
  <2>1. /\ \A o \in Observers : ghost'[b].told[o] = 0 /\ ghost'[b].kept[o] = Count(observers[b], o)
        /\ task'[k].audience = observers[b] /\ task'[k].called = 0
    BY <1>1
  <2>2. observers[b] \in Seq(Observers) /\ Len(observers[b]) \in Nat
    BY <1>1 DEF TypeInv, LoopTypes
  <2>3. ASSUME NEW o \in Observers
        PROVE  /\ Cardinality({i \in 1..0 : observers[b][i] = o}) = 0
               /\ Count(observers[b], o) <= Count(observers[b], o)
    <3>1. {i \in 1..0 : observers[b][i] = o} = {}
      OBVIOUS
    <3> QED  BY <2>2, <3>1, FS_EmptySet, CountType
  <2> QED  BY <1>2, <2>1, <2>2, <2>3 DEF Told
<1>17. LastOf(after).id = requests[b]
  BY <1>5, <1>10, <1>11 DEF LastOf
<1>18. ReportsOK'
  BY <1>1, <1>13, <1>14, <1>15, <1>16, HolderStep DEF Holding, b
<1> QED  BY <1>17, <1>18 DEF after, b

(* One more observer has been told.                                        *)
LEMMA DeliverReports ==
  ASSUME TypeInv, LockOK, ReportsOK, NEW k \in Tasks, Deliver(k)
  PROVE  ReportsOK'
<1> DEFINE b == task[k].bus
           s == task[k].audience
           n == task[k].called
           a == s[n + 1]
<1>1. /\ Kept(k) /\ task[k].stage = "reporting" /\ task'[k].stage = "reporting"
      /\ task'[k].out = task[k].out /\ SameRequest(k)
      /\ task'[k].audience = s /\ task'[k].called = n + 1 /\ n < Len(s)
      /\ requests' = requests
  BY DeliverFields DEF Deliver, Moves, busVars
<1>2. task'[k].bus = b /\ b \in Buses
  BY <1>1 DEF Kept, TypeInv, LoopTypes
<1>3. s \in Seq(Observers) /\ n \in Nat
  BY DEF TypeInv, LoopTypes, TaskRec
<1>4. Len(s) \in Nat /\ n + 1 \in 1..Len(s) /\ a \in Observers
  <2> HIDE DEF s
  <2> QED  BY <1>1, <1>3, LenProperties, ElementOfSeq
<1>5. ghost' = [ghost EXCEPT ![b] = [ghost[b] EXCEPT !.told = [ghost[b].told EXCEPT ![a] = @ + 1]]]
  BY DEF Deliver, Audience
<1>6. ghost[b].told \in [Observers -> Nat]
  BY <1>2, LogTypes
<1> HIDE DEF b, s, n, a
<1>7. /\ ghost'[b].log = ghost[b].log /\ ghost'[b].gaveUp = ghost[b].gaveUp
      /\ ghost'[b].kept = ghost[b].kept
      /\ ghost'[b].told = [ghost[b].told EXCEPT ![a] = @ + 1]
      /\ \A c \in Buses : c # b => ghost'[c] = ghost[c]
  <2> DEFINE now == [ghost[b].told EXCEPT ![a] = @ + 1]
  <2>1. ghost' = [ghost EXCEPT ![b] = [ghost[b] EXCEPT !.told = now]]
    BY <1>5
  <2> HIDE DEF now
  <2>2. /\ ghost'[b].log = ghost[b].log /\ ghost'[b].gaveUp = ghost[b].gaveUp
        /\ ghost'[b].kept = ghost[b].kept /\ ghost'[b].told = now
        /\ \A c \in Buses : c # b => ghost'[c] = ghost[c]
    BY <1>2, <2>1 DEF TypeInv, LeaseTypes, GhostRec
  <2> QED  BY <2>2 DEF now
<1>8. Numbered(b) /\ Ordered(b) /\ Progress(k) /\ Told(k)
  BY <1>2 DEF ReportsOK
<1>9. Numbered(task[k].bus)'
  BY <1>1, <1>2, <1>7, <1>8 DEF Numbered
<1>10. Ordered(task[k].bus)'
  BY <1>1, <1>7, <1>8, OrderedKept DEF Holding, SameRequest, b
<1>11. Progress(k)'
  BY <1>1, <1>2, <1>7, <1>8 DEF Progress, Logged, SameRequest, Holding, b
<1>12. ASSUME NEW o \in Observers
       PROVE  ghost'[b].told[o] = Cardinality({i \in 1..(n + 1) : s[i] = o})
  <2> DEFINE old == {i \in 1..n : s[i] = o}
             new == {i \in 1..(n + 1) : s[i] = o}
  <2>1. ghost[b].told[o] = Cardinality(old)
    BY <1>1, <1>8 DEF Told, b, s, n
  <2>2. IsFiniteSet(old) /\ n + 1 \notin old
    <3>1. IsFiniteSet(1..n) /\ old \subseteq 1..n /\ n + 1 \notin 1..n
      BY <1>3, FS_Interval
    <3> HIDE DEF old
    <3> QED  BY <3>1, FS_Subset
  <2>3. CASE o = a
    <3>1. new = old \cup {n + 1}
      BY <1>3, <2>3 DEF a
    <3>2. Cardinality(new) = Cardinality(old) + 1
      <4> HIDE DEF new, old
      <4> QED  BY <2>2, <3>1, FS_AddElement
    <3> QED  BY <1>4, <1>6, <1>7, <2>1, <2>3, <3>2
  <2>4. CASE o # a
    <3>1. new = old
      BY <1>3, <2>4 DEF a
    <3> QED  BY <1>4, <1>6, <1>7, <2>1, <2>4, <3>1
  <2> QED  BY <2>3, <2>4
<1>13. Told(k)'
  <2>1. \A o \in Observers : ghost[b].kept[o] <= Count(s, o)
    BY <1>1, <1>8 DEF Told, b, s
  <2> QED  BY <1>1, <1>2, <1>3, <1>4, <1>7, <1>12, <2>1 DEF Told
<1> QED  BY <1>1, <1>2, <1>7, <1>9, <1>10, <1>11, <1>13, HolderStep DEF Holding, b

(* A step of a task, and what it adds to a log.                            *)
LEMMA TaskStepReports ==
  ASSUME TypeInv, TypeInv', StagesOfKinds, LockOK, ReportsOK, NEW k \in Tasks,
         TaskStep(k) \/ Cancel(k)
  PROVE  /\ ReportsOK'
         /\ \A b \in Buses : \/ ghost'[b].log = ghost[b].log
                            \/ LastOf(ghost'[b].log).id = requests[b]
<1> DEFINE Goal == /\ ReportsOK'
                   /\ \A b \in Buses : \/ ghost'[b].log = ghost[b].log
                                      \/ LastOf(ghost'[b].log).id = requests[b]
<1>a. task[k].attempt <= Retries + 1
  BY DEF ReportsOK, Progress
<1>b. /\ \A b \in Buses : ghost[b].kept \in [Observers -> Nat]
      /\ \A n \in Nat : n <= n
  BY LogTypes
<1>1. ASSUME \A l \in Tasks : l # k => task'[l] = task[l],
             task[k].stage \notin Holding, task'[k].stage \notin Holding,
             task'[k].attempt <= Retries + 1, UNCHANGED <<requests, ghost>>
      PROVE  Goal
  BY <1>b, <1>1, ReportsLeft
<1>2. ASSUME Kept(k), SameRequest(k), task[k].stage \notin Holding, task'[k].stage \notin Holding,
             UNCHANGED <<requests, ghost>>
      PROVE  Goal
  BY <1>a, <1>1, <1>2 DEF Kept, SameRequest
<1>3. CASE OpenPort(k)
  BY <1>2, <1>3, FinishFields DEF OpenPort, Moves, At, Holding
<1>4. CASE Start(k)
  BY <1>2, <1>4, FinishFields, StageFields DEF Start, Moves, At, Holding
<1>5. CASE Acquire(k)
  BY <1>5, AcquireReports DEF Acquire
<1>6. CASE Send(k)
  BY <1>6, SendReports DEF Send
<1>7. ASSUME NEW outcome, InAttempt(k), AttemptEnds(k, outcome)  PROVE Goal
  <2>1. /\ ReportsOK' /\ LastOf(ghost'[task[k].bus].log).id = requests[task[k].bus]
    BY <1>7, AttemptEndsReports
  <2>2. \A c \in Buses : c # task[k].bus => ghost'[c] = ghost[c]
    BY <1>7, AttemptEndsFields
  <2> QED  BY <2>1, <2>2
<1>8. CASE Attempt(k)
  BY <1>7, <1>8 DEF Attempt
<1>9. CASE Deliver(k)
  <2>1. ReportsOK'
    BY <1>9, DeliverReports
  <2>2. \A b \in Buses : ghost'[b].log = ghost[b].log
    <3>1. task[k].bus \in Buses
      BY <1>9 DEF Deliver, TypeInv, LoopTypes
    <3> DEFINE told == [ghost[task[k].bus].told EXCEPT ![Audience(k)[task[k].called + 1]] = @ + 1]
    <3>2. ghost' = [ghost EXCEPT ![task[k].bus] = [ghost[task[k].bus] EXCEPT !.told = told]]
      BY <1>9 DEF Deliver
    <3> HIDE DEF told
    <3> QED  BY <3>1, <3>2 DEF TypeInv, LeaseTypes, GhostRec
  <2> QED  BY <2>1, <2>2
<1>10. CASE Reported(k)
  <2>1. \A b \in Buses : ghost'[b].log = ghost[b].log
    BY <1>10, ReportedFields
  <2> QED  BY <1>10, <2>1, ReportedReports
<1>11. CASE BackoffEnds(k)
  BY <1>11, BackoffEndsReports DEF BackoffEnds
<1>12. CASE StartAclose(k)
  BY <1>2, <1>12, FinishFields, StageFields DEF StartAclose, Moves, At, Holding
<1>13. CASE StreamCloses(k)
  BY <1>2, <1>13, FinishFields DEF StreamCloses, Moves, At, Holding
<1>14. CASE Forgotten(k)
  <2>1. NoTask.stage = "free" /\ NoTask.attempt = 0 /\ requests' = requests /\ ghost' = ghost
    BY <1>14 DEF Forgotten, NoTask, busVars
  <2> QED  BY <1>1, <1>14, <2>1, ForgottenFields DEF Holding
<1>15. CASE Cancel(k) /\ ~\E outcome : InAttempt(k) /\ AttemptEnds(k, outcome)
  <2>1. \A b \in Buses : ghost'[b].log = ghost[b].log
    BY <1>15, GiveUpFields
  <2>2. CASE task[k].stage = "backoff"
    BY <1>15, <2>1, <2>2, GiveUpReports
  <2>3. CASE task[k].stage # "backoff"
    <3>1. /\ Kept(k) /\ task[k].stage = "waiting" /\ task'[k].stage = "done" /\ SameRequest(k)
          /\ requests' = requests
          /\ ghost'[task[k].bus].gaveUp = ghost[task[k].bus].gaveUp
          /\ ghost'[task[k].bus].kept = ghost[task[k].bus].kept
          /\ ghost'[task[k].bus].told = ghost[task[k].bus].told
          /\ \A c \in Buses : c # task[k].bus => ghost'[c] = ghost[c]
      BY <1>15, <2>3, GiveUpFields
    <3>2. \A b \in Buses :
            /\ ghost'[b].log = ghost[b].log /\ ghost'[b].gaveUp = ghost[b].gaveUp
            /\ ghost'[b].told = ghost[b].told /\ ghost'[b].kept = ghost[b].kept
      BY <2>1, <3>1
    <3>3. \A l \in Tasks :
            \/ task'[l] = task[l]
            \/ /\ task[l].stage \notin Holding /\ task'[l].stage \notin Holding
               /\ task'[l].attempt <= Retries + 1
      BY <1>a, <3>1 DEF Kept, SameRequest, Holding
    <3>4. ReportsOK'
      BY <1>b, <3>1, <3>2, <3>3, ReportsLeft
    <3> QED  BY <2>1, <3>4
  <2> QED  BY <2>2, <2>3
<1>16. CASE Cancel(k)
  BY <1>7, <1>15, <1>16
<1> QED
  BY <1>3, <1>4, <1>5, <1>6, <1>8, <1>9, <1>10, <1>11, <1>12, <1>13, <1>14, <1>16 DEF TaskStep

(* No other step writes a log; removing an observer lowers what is kept.   *)
LEMMA ThreadStepGhost ==
  ASSUME TypeInv, NEW t \in Threads,
         \/ ThreadStep(t) \/ Interrupt(t)
         \/ \E b \in Buses : Open(t, b) \/ Request(t, b) \/ Close(t, b)
  PROVE  \A c \in Buses : /\ ghost'[c].log = ghost[c].log /\ ghost'[c].gaveUp = ghost[c].gaveUp
                          /\ ghost'[c].told = ghost[c].told /\ ghost'[c].kept = ghost[c].kept
<1>a. ghost \in [Buses -> GhostRec]
  BY DEF TypeInv, LeaseTypes
<1>1. \/ ghost' = ghost
      \/ \E b \in Buses :
           \/ ghost' = [ghost EXCEPT ![b] = [ghost[b] EXCEPT !.opened = TRUE]]
           \/ ghost' = [ghost EXCEPT ![b] = [ghost[b] EXCEPT !.asked = ghost[b].asked + 1]]
           \/ ghost' = [ghost EXCEPT ![b] = [ghost[b] EXCEPT !.closeReturned = TRUE]]
  <2>1. CASE Closed(t)
    <3>1. thread[t].bus \in Buses
      BY <2>1 DEF Closed, Done, TypeInv, LeaseTypes
    <3> QED  BY <2>1, <3>1 DEF Closed
  <2>2. CASE Opened(t) \/ OpenFailed(t) \/ Returned(t) \/ Release(t) \/ StopPortal(t) \/ Joined(t)
             \/ Interrupt(t)
    BY <2>2 DEF Opened, OpenFailed, Returned, Release, StopPortal, Joined, Interrupt
  <2>3. ASSUME NEW b \in Buses, Open(t, b) \/ Request(t, b) \/ Close(t, b)
        PROVE  \/ ghost' = ghost
               \/ ghost' = [ghost EXCEPT ![b] = [ghost[b] EXCEPT !.opened = TRUE]]
               \/ ghost' = [ghost EXCEPT ![b] = [ghost[b] EXCEPT !.asked = ghost[b].asked + 1]]
    BY <2>3 DEF Open, Request, Close
  <2> QED  BY <2>1, <2>2, <2>3 DEF ThreadStep
<1>2. ASSUME NEW b \in Buses,
             \/ ghost' = [ghost EXCEPT ![b] = [ghost[b] EXCEPT !.opened = TRUE]]
             \/ ghost' = [ghost EXCEPT ![b] = [ghost[b] EXCEPT !.asked = ghost[b].asked + 1]]
             \/ ghost' = [ghost EXCEPT ![b] = [ghost[b] EXCEPT !.closeReturned = TRUE]]
      PROVE  \A c \in Buses : /\ ghost'[c].log = ghost[c].log /\ ghost'[c].gaveUp = ghost[c].gaveUp
                             /\ ghost'[c].told = ghost[c].told /\ ghost'[c].kept = ghost[c].kept
  <2>1. CASE ghost' = [ghost EXCEPT ![b] = [ghost[b] EXCEPT !.opened = TRUE]]
    BY <1>a, <2>1 DEF GhostRec
  <2>2. CASE ghost' = [ghost EXCEPT ![b] = [ghost[b] EXCEPT !.asked = ghost[b].asked + 1]]
    <3> DEFINE n == ghost[b].asked + 1
    <3>1. ghost' = [ghost EXCEPT ![b] = [ghost[b] EXCEPT !.asked = n]]
      BY <2>2
    <3> HIDE DEF n
    <3> QED  BY <1>a, <3>1 DEF GhostRec
  <2>3. CASE ghost' = [ghost EXCEPT ![b] = [ghost[b] EXCEPT !.closeReturned = TRUE]]
    BY <1>a, <2>3 DEF GhostRec
  <2> QED  BY <1>2, <2>1, <2>2, <2>3
<1> QED  BY <1>1, <1>2

(* Of the other steps only RemoveObserver changes what is kept.            *)
LEMMA OtherStepGhost ==
  ASSUME TypeInv, Others
  PROVE  /\ UNCHANGED <<task, requests>>
         /\ \A c \in Buses :
              /\ ghost'[c].log = ghost[c].log /\ ghost'[c].gaveUp = ghost[c].gaveUp
              /\ ghost'[c].told = ghost[c].told
              /\ \A o \in Observers : ghost'[c].kept[o] <= ghost[c].kept[o]
<1>a. ghost \in [Buses -> GhostRec]
  BY DEF TypeInv, LeaseTypes
<1>b. \A c \in Buses : /\ ghost[c].kept \in [Observers -> Nat]
                       /\ \A o \in Observers : ghost[c].kept[o] <= ghost[c].kept[o]
  BY LogTypes
<1>1. UNCHANGED <<task, requests>>
  BY DEF Others, PortalEnds, CloseOnLoop, CloseAgain, AddTransactionObserver, RemoveObserver, busVars
<1>2. ASSUME ghost' = ghost
      PROVE  \A c \in Buses :
               /\ ghost'[c].log = ghost[c].log /\ ghost'[c].gaveUp = ghost[c].gaveUp
               /\ ghost'[c].told = ghost[c].told
               /\ \A o \in Observers : ghost'[c].kept[o] <= ghost[c].kept[o]
  BY <1>b, <1>2
<1>3. ASSUME NEW b \in Buses, CloseOnLoop(b)
      PROVE  \A c \in Buses :
               /\ ghost'[c].log = ghost[c].log /\ ghost'[c].gaveUp = ghost[c].gaveUp
               /\ ghost'[c].told = ghost[c].told
               /\ \A o \in Observers : ghost'[c].kept[o] <= ghost[c].kept[o]
  <2>1. ghost' = [ghost EXCEPT ![b] =
                    [ghost[b] EXCEPT !.closedOnLoop = TRUE, !.closeReturned = TRUE]]
    BY <1>a, <1>3 DEF CloseOnLoop, GhostRec
  <2>2. \A c \in Buses :
               /\ ghost'[c].log = ghost[c].log /\ ghost'[c].gaveUp = ghost[c].gaveUp
               /\ ghost'[c].told = ghost[c].told /\ ghost'[c].kept = ghost[c].kept
    BY <1>a, <2>1 DEF GhostRec
  <2> QED  BY <1>b, <2>2
<1>4. ASSUME NEW b \in Buses, NEW x \in Observers, RemoveObserver(b, x)
      PROVE  \A c \in Buses :
               /\ ghost'[c].log = ghost[c].log /\ ghost'[c].gaveUp = ghost[c].gaveUp
               /\ ghost'[c].told = ghost[c].told
               /\ \A o \in Observers : ghost'[c].kept[o] <= ghost[c].kept[o]
  <2> DEFINE left == Count(observers[b], x) - 1
             kept == [ghost[b].kept EXCEPT ![x] = IF @ > left THEN left ELSE @]
  <2>1. ghost' = [ghost EXCEPT ![b] = [ghost[b] EXCEPT !.kept = kept]]
    BY <1>4 DEF RemoveObserver
  <2>2. left \in Int
    BY CountType DEF TypeInv, LoopTypes
  <2> HIDE DEF left
  <2>3. \A o \in Observers : kept[o] <= ghost[b].kept[o]
    BY <1>b, <2>2
  <2> HIDE DEF kept
  <2>4. /\ \A c \in Buses : /\ ghost'[c].log = ghost[c].log /\ ghost'[c].gaveUp = ghost[c].gaveUp
                           /\ ghost'[c].told = ghost[c].told
        /\ ghost'[b].kept = kept
        /\ \A c \in Buses : c # b => ghost'[c] = ghost[c]
    BY <1>a, <2>1 DEF GhostRec
  <2> QED  BY <1>b, <2>3, <2>4
<1>5. ASSUME NEW b \in Buses, CloseAgain(b)
      PROVE  \A c \in Buses :
               /\ ghost'[c].log = ghost[c].log /\ ghost'[c].gaveUp = ghost[c].gaveUp
               /\ ghost'[c].told = ghost[c].told
               /\ \A o \in Observers : ghost'[c].kept[o] <= ghost[c].kept[o]
  <2>1. \A c \in Buses :
               /\ ghost'[c].log = ghost[c].log /\ ghost'[c].gaveUp = ghost[c].gaveUp
               /\ ghost'[c].told = ghost[c].told /\ ghost'[c].kept = ghost[c].kept
    BY <1>a, <1>5 DEF CloseAgain, GhostRec
  <2> QED  BY <1>b, <2>1
<1>6. \/ ghost' = ghost
      \/ \E b \in Buses : \/ CloseOnLoop(b) \/ CloseAgain(b)
                         \/ \E o \in Observers : RemoveObserver(b, o)
  BY DEF Others, PortalEnds, AddTransactionObserver
<1> QED  BY <1>1, <1>2, <1>3, <1>4, <1>5, <1>6

-----------------------------------------------------------------------------
(* What is proved of the lock and the reports                              *)

ReportInv == CloseInv /\ LockOK /\ ReportsOK

(* Every step keeps the reports in order, and adds to a log only a report  *)
(* of the request last begun.                                              *)
LEMMA ReportsStep ==
  ASSUME ReportInv, [Next]_vars
  PROVE  /\ ReportsOK'
         /\ \A b \in Buses : \/ ghost'[b].log = ghost[b].log
                            \/ LastOf(ghost'[b].log).id = requests[b]
<1>a. TypeInv /\ LockOK /\ ReportsOK /\ TasksOfThreads /\ StagesOfKinds
  BY DEF ReportInv, CloseInv
<1>b. TypeInv'
  BY <1>a, TypeStep
<1>c. /\ \A b \in Buses : /\ ghost[b].kept \in [Observers -> Nat]
                         /\ \A o \in Observers : ghost[b].kept[o] <= ghost[b].kept[o]
      /\ \A k \in Tasks : task[k].attempt <= Retries + 1
  BY <1>a, LogTypes DEF ReportsOK, Progress
<1>1. ASSUME NEW t \in Threads,
             \/ ThreadStep(t) \/ Interrupt(t)
             \/ \E b \in Buses : Open(t, b) \/ Request(t, b) \/ Close(t, b)
      PROVE  ReportsOK' /\ \A b \in Buses : ghost'[b].log = ghost[b].log
  <2>1. \A c \in Buses : /\ ghost'[c].log = ghost[c].log /\ ghost'[c].gaveUp = ghost[c].gaveUp
                         /\ ghost'[c].told = ghost[c].told /\ ghost'[c].kept = ghost[c].kept
    BY <1>a, <1>1, ThreadStepGhost
  <2>2. requests' = requests /\ (Starts(t) \/ TakesResult(t) \/ LeavesTasks(t))
    BY <1>a, <1>1, ThreadStepTasks
  <2>3. \A l \in Tasks : \/ task'[l] = task[l]
                         \/ /\ task[l].stage \notin Holding /\ task'[l].stage \notin Holding
                            /\ task'[l].attempt <= Retries + 1
    <3>1. CASE UNCHANGED task
      BY <3>1
    <3>2. ASSUME NEW k \in Tasks, \A l \in Tasks : l # k => task'[l] = task[l],
                 task[k].stage \notin Calls, task'[k].stage \notin Calls, task'[k].attempt = 0
          PROVE  \A l \in Tasks : \/ task'[l] = task[l]
                                 \/ /\ task[l].stage \notin Holding /\ task'[l].stage \notin Holding
                                    /\ task'[l].attempt <= Retries + 1
      BY <3>2 DEF Calls, Holding
    <3> QED  BY <1>a, <2>2, <3>1, <3>2, ThreadStepOutside
  <2>4. ReportsOK'
    BY <1>a, <1>b, <1>c, <2>1, <2>2, <2>3, ReportsLeft
  <2> QED  BY <2>1, <2>4
<1>2. CASE Others
  BY <1>a, <1>b, <1>2, OtherStepGhost, ReportsLeft
<1>3. CASE UNCHANGED vars
  <2>1. UNCHANGED <<task, requests, ghost>>
    BY <1>3 DEF vars, busVars
  <2> QED  BY <1>a, <1>b, <1>c, <2>1, ReportsLeft
<1>4. ASSUME NEW k \in Tasks, TaskStep(k) \/ Cancel(k)
      PROVE  /\ ReportsOK'
             /\ \A b \in Buses : \/ ghost'[b].log = ghost[b].log
                                \/ LastOf(ghost'[b].log).id = requests[b]
  BY <1>a, <1>b, <1>4, TaskStepReports
<1>5. CASE Others \/ UNCHANGED vars
  <2>1. \A b \in Buses : ghost'[b].log = ghost[b].log
    BY <1>a, <1>5, OtherStepGhost DEF vars
  <2> QED  BY <1>2, <1>3, <1>5, <2>1
<1> QED  BY <1>1, <1>4, <1>5, NextSplit

(* A report is made only of the request that holds the lock.               *)
THEOREM ReportStep == ReportInv /\ [Next]_vars => ReportInv'
<1> SUFFICES ASSUME ReportInv, [Next]_vars  PROVE ReportInv'
  OBVIOUS
<1> QED  BY CloseStep, LockStep, ReportsStep DEF ReportInv

(* It holds when no call has been made.                                    *)
THEOREM InitReports == Init => ReportInv
<1> SUFFICES ASSUME Init  PROVE ReportInv
  OBVIOUS
<1>1. \A k \in Tasks : task[k].stage = "free" /\ task[k].attempt = 0
  BY DEF Init, NoTask
<1>2. \A b \in Buses : queue[b] = <<>> /\ ghost[b].log = <<>>
  BY DEF Init
<1>3. LockOK
  BY <1>1, <1>2 DEF LockOK, LockOf, Calls, Holding
<1>4. \A k \in Tasks : Progress(k) /\ Told(k)
  BY <1>1 DEF Progress, Told, Holding
<1>5. \A b \in Buses : Numbered(b) /\ Ordered(b)
  BY <1>2 DEF Numbered, Ordered
<1> QED  BY <1>3, <1>4, <1>5, InitClose DEF ReportInv, ReportsOK

(* In every reachable state the log has the reports of the lock's holder.  *)
THEOREM ReportInvariant == Spec => []ReportInv
BY ReportStep, InitReports, PTL DEF Spec

(* The reports of one request come in order, and say the truth of whether  *)
(* it will be sent again (_txn, _finish_attempt).                          *)
THEOREM ReportsOrdered == Spec => []ReportsInOrder
<1>1. ReportInv => ReportsInOrder
  BY DEF ReportInv, ReportsOK, Ordered, ReportsInOrder
<1> QED  BY <1>1, ReportInvariant, PTL

(* Reports of two requests of a bus are never mixed: _txn keeps the lock   *)
(* through its backoffs.                                                   *)
THEOREM ReportsUnmixed == Spec => ReportsNotMixed
<1>1. ReportInv /\ [Next]_vars =>
        [\A b \in Buses : ghost'[b].log # ghost[b].log =>
           ghost'[b].log[Len(ghost'[b].log)].id = requests[b]]_vars
  <2> SUFFICES ASSUME ReportInv, [Next]_vars, NEW b \in Buses, ghost'[b].log # ghost[b].log
               PROVE  ghost'[b].log[Len(ghost'[b].log)].id = requests[b]
    OBVIOUS
  <2> QED  BY ReportsStep DEF LastOf
<1> QED  BY <1>1, ReportInvariant, PTL DEF Spec, ReportsNotMixed

(* Whatever observers come and go while a report is made, each is told as  *)
(* often as it stayed registered, and none more often (_finish_attempt).   *)
THEOREM ObserversAllTold == Spec => []ObserversTold
<1>1. ReportInv => ObserversTold
  <2> SUFFICES ASSUME ReportInv, NEW k \in Tasks, task[k].stage = "reporting", NEW o \in Observers
               PROVE  LET b == task[k].bus IN
                      /\ ghost[b].told[o] <= Count(task[k].audience, o)
                      /\ task[k].called >= Len(Audience(k)) => ghost[b].told[o] >= ghost[b].kept[o]
    BY DEF ObserversTold
  <2> DEFINE b == task[k].bus
             s == task[k].audience
             n == task[k].called
             heard == {i \in 1..n : s[i] = o}
             all == {i \in DOMAIN s : s[i] = o}
  <2>1. /\ n <= Len(s) /\ ghost[b].told[o] = Cardinality(heard)
        /\ ghost[b].kept[o] <= Count(s, o)
    BY DEF ReportInv, ReportsOK, Told
  <2>2. s \in Seq(Observers) /\ n \in Nat /\ Len(s) \in Nat /\ DOMAIN s = 1..Len(s)
    BY DEF ReportInv, CloseInv, TypeInv, LoopTypes, TaskRec
  <2>3. /\ ghost[b].kept[o] \in Nat /\ ghost[b].told[o] \in Nat
    BY LogTypes DEF ReportInv, CloseInv, TypeInv, LoopTypes
  <2>4. heard \subseteq all /\ all \subseteq 1..Len(s) /\ (n >= Len(s) => heard = all)
    BY <2>1, <2>2
  <2>5. Count(s, o) = Cardinality(all)
    BY DEF Count
  <2>6. IsFiniteSet(all) /\ Cardinality(all) \in Nat
    <3>1. IsFiniteSet(1..Len(s)) /\ all \subseteq 1..Len(s)
      <4> HIDE DEF s, all, heard, n
      <4>1. 1 \in Int /\ Len(s) \in Int
        BY <2>2
      <4> QED  BY <2>4, <4>1, FS_Interval
    <3> HIDE DEF all
    <3>2. IsFiniteSet(all)
      BY <3>1, FS_Subset
    <3> QED  BY <3>2, FS_CardinalityType
  <2> HIDE DEF heard, all, s, n
  <2>7. Cardinality(heard) <= Cardinality(all)
    BY <2>4, <2>6, FS_Subset
  <2> QED  BY <2>1, <2>2, <2>3, <2>4, <2>5, <2>6, <2>7 DEF Audience, s, n
<1> QED  BY <1>1, ReportInvariant, PTL

(* Every variable holds a value of its kind, at most one lease is out per  *)
(* bus, and no request has more attempts than its retries allow.           *)
THEOREM TypeCorrect == Spec => []TypeOK
<1>1. ReportInv => TypeOK
  <2> SUFFICES ASSUME ReportInv  PROVE TypeOK
    OBVIOUS
  <2>1. TypeInv /\ LeaseInv /\ \A k \in Tasks : task[k].attempt <= Retries + 1
    BY DEF ReportInv, CloseInv, ReportsOK, Progress
  <2>2. /\ portal \in [Portals -> {"unused", "running", "stopping", "stopped"}]
        /\ current \in Portals \cup {NoPortal} /\ leases \in 0..Cardinality(Buses)
    <3>1. leases = Cardinality(Leaseholders) /\ Cardinality(Buses) \in Nat
      BY <2>1, FS_CardinalityType DEF LeaseInv, LeasesCounted
    <3> QED  BY <2>1, <3>1, HoldersFinite DEF TypeInv, LeaseTypes
  <2>3. ASSUME NEW b \in Buses
        PROVE  /\ stream[b] \in {"none", "open", "closing", "closed"}
               /\ \A i \in DOMAIN queue[b] : queue[b][i] \in Tasks
               /\ \A i \in DOMAIN observers[b] : observers[b][i] \in Observers
    BY <2>1 DEF TypeInv, LoopTypes
  <2>4. ASSUME NEW k \in Tasks
        PROVE  /\ task[k].stage \in Stages /\ task[k].attempt \in 0..(Retries + 1)
    BY <2>1 DEF TypeInv, LoopTypes, TaskRec
  <2>5. ASSUME NEW t \in Threads  PROVE thread[t].pc \in Pcs
    BY <2>1 DEF TypeInv, LeaseTypes, ThreadRec
  <2> QED  BY <2>2, <2>3, <2>4, <2>5 DEF TypeOK, Stages, Pcs
<1> QED  BY <1>1, ReportInvariant, PTL
=============================================================================
