---------------------------- MODULE SyncBus_proofs ----------------------------
(***************************************************************************)
(* Proofs about SyncBus, for any set of threads, tasks, observers and      *)
(* portals and any finite set of buses: the portal lives as long as the    *)
(* buses opened on it, and no longer.                                      *)
(***************************************************************************)
EXTENDS SyncBus, FiniteSetTheorems, SequenceTheorems,
        WellFoundedInduction, TLAPS

-----------------------------------------------------------------------------
(* Types                                                                   *)

Pcs == {"idle", "opening", "calling", "closing", "releasing", "stopping", "joining"}
Stages == {"free", "started", "waiting", "attempt", "sent", "reporting", "backoff", "closing",
           "done"}

ScopeRec == [buses : SUBSET Buses, requests : [Buses -> Nat], registrations : Nat,
             interrupts : Nat]
SyncRec  == [made : BOOLEAN, closed : BOOLEAN, entered : BOOLEAN,
             portal : Portals \cup {NoPortal}]
TaskRec  == [kind : Kinds \cup {"none", "open", "aclose"}, bus : Buses \cup {NoBus},
             portal : Portals \cup {NoPortal}, stage : Stages,
             out : {"none", "value", "error", "timeout", "closed"}, id : Nat,
             attempt : Nat, audience : Seq(Observers), called : Nat,
             late : BOOLEAN]
ThreadRec == [pc : Pcs, bus : Buses \cup {NoBus}, task : Tasks \cup {Nobody},
              portal : Portals \cup {NoPortal}]
Report   == [id : Nat, attempt : Nat, willRetry : BOOLEAN]
GhostRec == [opened : BOOLEAN, asked : Nat, closeReturned : BOOLEAN, closedOnLoop : BOOLEAN,
             log : Seq(Report), gaveUp : Nat, kept : [Observers -> Nat],
             told : [Observers -> Nat]]

LeaseTypes ==
  /\ portal \in [Portals -> {"unused", "running", "stopping", "stopped"}]
  /\ current \in Portals \cup {NoPortal} /\ leases \in Int
  /\ scope \in ScopeRec
  /\ sync \in [Buses -> SyncRec]
  /\ thread \in [Threads -> ThreadRec]
  /\ ghost \in [Buses -> GhostRec]
  /\ \A t \in Threads : thread[t].pc # "idle" => thread[t].bus \in Buses

LoopTypes ==
  /\ closed \in [Buses -> BOOLEAN]
  /\ stream \in [Buses -> {"none", "open", "closing", "closed"}]
  /\ queue \in [Buses -> Seq(Tasks)]
  /\ requests \in [Buses -> Nat]
  /\ observers \in [Buses -> Seq(Observers)]
  /\ task \in [Tasks -> TaskRec]
  /\ \A k \in Tasks : task[k].stage # "free" => task[k].bus \in Buses

TypeInv == LeaseTypes /\ LoopTypes

-----------------------------------------------------------------------------
(* The leases of the portal                                                *)

Leaseholder(b) ==
  sync[b].entered \/ \E t \in Threads : thread[t].pc = "opening" /\ thread[t].bus = b
Leaseholders == {b \in Buses : Leaseholder(b)}

(* A bus is opened once, and closed by one thread, before it is released.  *)
OpenedOnce ==
  /\ \A t \in Threads : thread[t].pc = "opening" =>
       ghost[thread[t].bus].opened /\ ~sync[thread[t].bus].made
  /\ \A t, u \in Threads :
       thread[t].pc = "opening" /\ thread[u].pc = "opening" /\ thread[t].bus = thread[u].bus
         => t = u
  /\ \A b \in Buses :
       /\ sync[b].made => ghost[b].opened
       /\ sync[b].entered => sync[b].made
       /\ sync[b].made /\ ~sync[b].closed => sync[b].entered
       /\ ghost[b].closedOnLoop => sync[b].made
  /\ \A t \in Threads : thread[t].pc \in {"closing", "releasing"} =>
       /\ sync[thread[t].bus].made /\ sync[thread[t].bus].closed
       /\ thread[t].portal = sync[thread[t].bus].portal

(* The provider counts the leaseholders, and they share its portal.        *)
LeasesCounted ==
  /\ leases = Cardinality(Leaseholders)
  /\ leases = 0 <=> current = NoPortal
  /\ current # NoPortal => portal[current] = "running"
  /\ \A b \in Buses : sync[b].entered => sync[b].portal = current
  /\ \A t \in Threads : thread[t].pc = "opening" => thread[t].portal = current
  /\ \A t \in Threads : thread[t].pc = "stopping" =>
       /\ thread[t].portal \in Portals /\ thread[t].portal # current
       /\ portal[thread[t].portal] # "unused"

LeaseInv == LeaseTypes /\ OpenedOnce /\ LeasesCounted /\ OrphanOnlyFromLoop
-----------------------------------------------------------------------------
(* Type correctness                                                        *)

USE PortalAssumption, SyncAssumption DEF NoPortal

(* A record put in its place leaves the others where they are.             *)
LEMMA StepTask ==
  ASSUME LoopTypes, NEW k \in Tasks, NEW r \in TaskRec, Step(k, r)
  PROVE  /\ task' \in [Tasks -> TaskRec]
         /\ task'[k] = r
         /\ \A l \in Tasks : l # k => task'[l] = task[l]
BY DEF LoopTypes, Step

(* A free place for a task has a task's type.                              *)
LEMMA NoTaskType == NoTask \in TaskRec
<1>1. <<>> \in Seq(Observers)
  OBVIOUS
<1> QED  BY <1>1 DEF NoTask, TaskRec, Stages

(* A thread that takes its result frees the place of its task.             *)
LEMMA FreeTask ==
  ASSUME LoopTypes, NEW t \in Threads, Free(t)
  PROVE  /\ task' \in [Tasks -> TaskRec]
         /\ thread[t].task \in Tasks => task'[thread[t].task] = NoTask
         /\ \A k \in Tasks : k # thread[t].task => task'[k] = task[k]
         /\ \A k \in Tasks : task'[k].stage # "free" => task'[k].bus \in Buses
<1>1. NoTask.stage = "free"
  BY DEF NoTask
<1> QED  BY <1>1, NoTaskType DEF LoopTypes, Free

(* A thread at rest has a thread's type.                                   *)
LEMMA AtRestType == AtRest \in ThreadRec
BY DEF AtRest, ThreadRec, Pcs

(* What the actions assign to a part of a record keeps its type.           *)
LEMMA ThreadUpdate ==
  ASSUME NEW r \in ThreadRec, NEW pc \in Pcs
  PROVE  /\ [r EXCEPT !.pc = pc] \in ThreadRec
         /\ [r EXCEPT !.pc = pc, !.task = Nobody] \in ThreadRec
         /\ [r EXCEPT !.pc = pc].pc = pc /\ [r EXCEPT !.pc = pc].bus = r.bus
         /\ [r EXCEPT !.pc = pc, !.task = Nobody].pc = pc
         /\ [r EXCEPT !.pc = pc, !.task = Nobody].bus = r.bus
BY DEF ThreadRec, Pcs

(* What is set in a bus object keeps its type.                             *)
LEMMA SyncUpdate ==
  ASSUME NEW r \in SyncRec
  PROVE  /\ [r EXCEPT !.closed = TRUE] \in SyncRec
         /\ [r EXCEPT !.entered = FALSE] \in SyncRec
         /\ [r EXCEPT !.closed = TRUE, !.entered = FALSE] \in SyncRec
BY DEF SyncRec

(* What is set in the history of a bus keeps its type.                     *)
LEMMA GhostUpdate ==
  ASSUME NEW r \in GhostRec, NEW n \in Nat
  PROVE  /\ [r EXCEPT !.opened = TRUE] \in GhostRec
         /\ [r EXCEPT !.asked = n] \in GhostRec
         /\ [r EXCEPT !.closeReturned = TRUE] \in GhostRec
         /\ [r EXCEPT !.closedOnLoop = TRUE, !.closeReturned = TRUE] \in GhostRec
         /\ [r EXCEPT !.gaveUp = n] \in GhostRec
BY DEF GhostRec

(* A thread that moves on leaves the other threads where they are.         *)
LEMMA SetThread ==
  ASSUME LeaseTypes, NEW t \in Threads, NEW r \in ThreadRec,
         thread' = [thread EXCEPT ![t] = r], r.pc # "idle" => r.bus \in Buses
  PROVE  /\ thread' \in [Threads -> ThreadRec]
         /\ \A u \in Threads : thread'[u].pc # "idle" => thread'[u].bus \in Buses
         /\ thread'[t] = r
         /\ \A u \in Threads : u # t => thread'[u] = thread[u]
BY DEF LeaseTypes

(* Taking an element out leaves a sequence of the others.                  *)
LEMMA FirstRemovedType ==
  ASSUME NEW S, NEW s \in Seq(S), NEW x
  PROVE  FirstRemoved(s, x) \in Seq(S)
<1>1. Len(s) \in Nat /\ DOMAIN s = 1..Len(s) /\ \A i \in 1..Len(s) : s[i] \in S
  BY LenProperties, ElementOfSeq
<1>2. CASE \A i \in DOMAIN s : s[i] # x
  BY <1>2 DEF FirstRemoved
<1>3. CASE ~\A i \in DOMAIN s : s[i] # x
  <2> DEFINE at == CHOOSE i \in DOMAIN s : s[i] = x /\ \A j \in 1..(i - 1) : s[j] # x
             rest == [i \in 1..(Len(s) - 1) |-> IF i < at THEN s[i] ELSE s[i + 1]]
  <2>1. FirstRemoved(s, x) = rest
    BY <1>3 DEF FirstRemoved
  <2> HIDE DEF at
  <2>2. rest \in [1..(Len(s) - 1) -> S]
    BY <1>1
  <2>3. Len(s) # 0
    BY <1>1, <1>3
  <2>4. Len(s) - 1 \in Nat
    BY <1>1, <2>3
  <2>5. rest \in Seq(S)
    BY <2>2, <2>4, SeqDef
  <2> QED  BY <2>1, <2>5
<1> QED  BY <1>2, <1>3

(* A call from a thread is a new task and a thread that waits for it.      *)
LEMMA SpawnTypes ==
  ASSUME TypeInv, NEW t \in Threads, NEW pc \in Pcs, NEW kind \in Kinds \cup {"open", "aclose"},
         NEW b \in Buses, NEW p \in Portals \cup {NoPortal}, Spawn(t, pc, kind, b, p)
  PROVE  /\ thread' \in [Threads -> ThreadRec] /\ task' \in [Tasks -> TaskRec]
         /\ \A u \in Threads : thread'[u].pc # "idle" => thread'[u].bus \in Buses
         /\ \A k \in Tasks : task'[k].stage # "free" => task'[k].bus \in Buses
         /\ \E k \in Tasks :
              /\ task[k] = NoTask
              /\ thread' = [thread EXCEPT ![t] = [pc |-> pc, bus |-> b, task |-> k,
                                                  portal |-> p]]
              /\ task' = [task EXCEPT ![k] = [NoTask EXCEPT !.kind = kind, !.bus = b,
                                                !.portal = p, !.stage = "started",
                                                !.late = Late(b)]]
<1>1. PICK k \in Tasks :
        /\ task[k] = NoTask
        /\ thread' = [thread EXCEPT ![t] = [pc |-> pc, bus |-> b, task |-> k, portal |-> p]]
        /\ task' = [task EXCEPT ![k] = [NoTask EXCEPT !.kind = kind, !.bus = b, !.portal = p,
                                                      !.stage = "started",
                                                      !.late = Late(b)]]
  BY DEF Spawn
<1>2. Late(b) \in BOOLEAN
  BY DEF Late
<1>3. [NoTask EXCEPT !.kind = kind, !.bus = b, !.portal = p, !.stage = "started",
                     !.late = Late(b)] \in TaskRec
  BY <1>2, NoTaskType DEF TaskRec, Stages
<1>4. task' \in [Tasks -> TaskRec]
  BY <1>1, <1>3 DEF TypeInv, LoopTypes
<1>5. /\ thread' \in [Threads -> ThreadRec]
      /\ \A u \in Threads : thread'[u].pc # "idle" => thread'[u].bus \in Buses
  <2>1. [pc |-> pc, bus |-> b, task |-> k, portal |-> p] \in ThreadRec
    BY DEF ThreadRec
  <2> QED  BY <1>1, <2>1, SetThread DEF TypeInv
<1>6. task'[k].bus = b /\ \A l \in Tasks : l # k => task'[l] = task[l]
  BY <1>1 DEF TypeInv, LoopTypes, NoTask
<1> QED  BY <1>1, <1>4, <1>5, <1>6 DEF TypeInv, LoopTypes

(* A set of natural numbers has a least element.                           *)
LEMMA LeastNatural ==
  ASSUME NEW S \in SUBSET Nat, S # {}
  PROVE  \E m \in S : \A n \in S : m <= n
<1>1. PICK m \in S : \A n \in S : <<n, m>> \notin OpToRel(<, Nat)
  <2>1. \E m \in S : \A n \in S : ~(<<n, m>> \in OpToRel(<, Nat))
    BY NatLessThanWellFounded, WFMin, Zenon
  <2> QED  BY <2>1
<1>2. \A n \in S : ~(n < m)
  BY <1>1, Zenon DEF OpToRel
<1> QED  BY <1>2

(* The portal's own steps.                                                 *)
LEMMA LeaseStep ==
  ASSUME LeaseTypes, Lease
  PROVE  /\ portal' \in [Portals -> {"unused", "running", "stopping", "stopped"}]
         /\ current' \in Portals /\ leases' = leases + 1
         /\ current = NoPortal => /\ portal[current'] = "unused"
                                  /\ portal' = [portal EXCEPT ![current'] = "running"]
         /\ current # NoPortal => UNCHANGED <<portal, current>>
<1>1. Unused # {} => NextPortal \in Unused
  <2> SUFFICES ASSUME Unused # {}
               PROVE  \E p \in Unused : \A q \in Unused : p <= q
    BY DEF NextPortal
  <2>1. Unused \subseteq Nat
    BY DEF Unused
  <2> QED  BY <2>1, LeastNatural
<1> QED  BY <1>1 DEF Lease, LeaseTypes, Unused

(* Every step of a thread keeps the types.                                 *)
LEMMA ThreadStepTypes ==
  ASSUME TypeInv, NEW t \in Threads,
         \/ ThreadStep(t) \/ Interrupt(t)
         \/ \E b \in Buses : Open(t, b) \/ Request(t, b) \/ Close(t, b)
  PROVE  TypeInv'
<1> DEFINE r == thread[t]
           ThreadsTyped ==
             /\ thread' \in [Threads -> ThreadRec]
             /\ \A u \in Threads : thread'[u].pc # "idle" => thread'[u].bus \in Buses
           TasksTyped ==
             /\ task' \in [Tasks -> TaskRec]
             /\ \A k \in Tasks : task'[k].stage # "free" => task'[k].bus \in Buses
           PortalTyped ==
             /\ portal' \in [Portals -> {"unused", "running", "stopping", "stopped"}]
             /\ current' \in Portals \cup {NoPortal} /\ leases' \in Int
<1>a. /\ r \in ThreadRec /\ (r.pc # "idle" => r.bus \in Buses)
      /\ AtRest.pc = "idle"
  BY DEF TypeInv, LeaseTypes, AtRest
<1>b. Free(t) => TasksTyped
  BY FreeTask DEF TypeInv
<1>c. thread' = [thread EXCEPT ![t] = AtRest] => ThreadsTyped
  BY <1>a, AtRestType, SetThread DEF TypeInv
<1>d. ASSUME NEW pc \in Pcs, r.pc # "idle",
             \/ thread' = [thread EXCEPT ![t] = [r EXCEPT !.pc = pc]]
             \/ thread' = [thread EXCEPT ![t] = [r EXCEPT !.pc = pc, !.task = Nobody]]
      PROVE  ThreadsTyped
  <2>1. /\ [r EXCEPT !.pc = pc] \in ThreadRec /\ [r EXCEPT !.pc = pc].bus = r.bus
        /\ [r EXCEPT !.pc = pc, !.task = Nobody] \in ThreadRec
        /\ [r EXCEPT !.pc = pc, !.task = Nobody].bus = r.bus
    BY <1>a, ThreadUpdate
  <2> QED  BY <1>a, <1>d, <2>1, SetThread DEF TypeInv
<1>e. Unlease => PortalTyped
  BY DEF Unlease, TypeInv, LeaseTypes
<1>f. ASSUME Exit(t), r.pc # "idle"  PROVE ThreadsTyped /\ PortalTyped
  <2>1. CASE leases = 1
    <3>1. thread' = [thread EXCEPT ![t] = [r EXCEPT !.pc = "stopping", !.task = Nobody]]
      BY <1>f, <2>1 DEF Exit
    <3> QED  BY <1>d, <1>e, <1>f, <3>1 DEF Exit, Pcs
  <2>2. CASE leases # 1
    BY <1>c, <1>e, <1>f, <2>2 DEF Exit
  <2> QED  BY <2>1, <2>2
<1>g. UNCHANGED portalVars => PortalTyped
  BY DEF portalVars, TypeInv, LeaseTypes
<1>h. Done(t, "opening") \/ Done(t, "calling") \/ Done(t, "closing") => r.pc # "idle"
  BY DEF Done
<1>i. ASSUME NEW b \in Buses
      PROVE  /\ sync[b] \in SyncRec /\ ghost[b] \in GhostRec
             /\ sync[b].portal \in Portals \cup {NoPortal} /\ ghost[b].asked \in Nat
  BY <1>i DEF TypeInv, LeaseTypes, SyncRec, GhostRec
<1> HIDE DEF r
<1>1. CASE Opened(t)
  <2>1. [made |-> TRUE, closed |-> FALSE, entered |-> TRUE, portal |-> r.portal] \in SyncRec
    BY <1>a DEF ThreadRec, SyncRec
  <2>2. sync' \in [Buses -> SyncRec]
    BY <1>1, <2>1 DEF Opened, TypeInv, LeaseTypes, r
  <2> QED  BY <1>b, <1>c, <1>g, <1>1, <2>2 DEF Opened, TypeInv, LeaseTypes, LoopTypes
<1>2. CASE OpenFailed(t)
  BY <1>b, <1>f, <1>h, <1>2 DEF OpenFailed, busVars, TypeInv, LeaseTypes, LoopTypes
<1>3. CASE Returned(t)
  BY <1>b, <1>c, <1>g, <1>3 DEF Returned, busVars, TypeInv, LeaseTypes, LoopTypes
<1>4. CASE Closed(t)
  <2>1. ThreadsTyped
    <3>1. thread' = [thread EXCEPT ![t] = [r EXCEPT !.pc = "releasing", !.task = Nobody]]
      BY <1>4 DEF Closed, r
    <3> QED  BY <1>d, <1>h, <1>4, <3>1 DEF Closed, Pcs
  <2>2. ghost' \in [Buses -> GhostRec]
    <3>1. r.bus \in Buses
      BY <1>4, <1>a, <1>h DEF Closed
    <3>2. [ghost[r.bus] EXCEPT !.closeReturned = TRUE] \in GhostRec
      BY <3>1, <1>i, GhostUpdate
    <3> QED  BY <1>4, <3>1, <3>2 DEF Closed, TypeInv, LeaseTypes, r
  <2> QED  BY <1>b, <1>g, <1>4, <2>1, <2>2 DEF Closed, busVars, TypeInv, LeaseTypes, LoopTypes
<1>5. CASE Release(t)
  <2>1. r.pc = "releasing" /\ r.bus \in Buses
    BY <1>5, <1>a DEF Release, r
  <2>2. sync' \in [Buses -> SyncRec]
    <3>1. [sync[r.bus] EXCEPT !.entered = FALSE] \in SyncRec
      BY <2>1, <1>i, SyncUpdate
    <3> QED  BY <1>5, <2>1, <3>1 DEF Release, TypeInv, LeaseTypes, r
  <2>3. ThreadsTyped /\ PortalTyped
    BY <1>c, <1>f, <1>g, <1>5, <2>1 DEF Release, portalVars
  <2> QED  BY <1>5, <2>2, <2>3 DEF Release, TypeInv, LeaseTypes, LoopTypes
<1>6. CASE StopPortal(t)
  <2>1. ThreadsTyped
    <3>1. thread' = [thread EXCEPT ![t] = [r EXCEPT !.pc = "joining"]] /\ r.pc # "idle"
      BY <1>6 DEF StopPortal, r
    <3> QED  BY <1>d, <3>1 DEF Pcs
  <2>2. PortalTyped
    BY <1>6 DEF StopPortal, Stop, TypeInv, LeaseTypes
  <2> QED  BY <1>6, <2>1, <2>2 DEF StopPortal, busVars, TypeInv, LeaseTypes, LoopTypes
<1>7. CASE Joined(t)
  BY <1>c, <1>g, <1>7 DEF Joined, busVars, TypeInv, LeaseTypes, LoopTypes
<1>8. CASE Interrupt(t)
  <2>1. r.pc # "idle"
    BY <1>8 DEF Interrupt, r
  <2>2. ThreadsTyped /\ PortalTyped
    <3>1. CASE r.pc = "opening"
      BY <1>f, <1>8, <2>1, <3>1 DEF Interrupt, r
    <3>2. CASE r.pc = "calling"
      BY <1>c, <1>g, <1>8, <3>2 DEF Interrupt, r
    <3>3. CASE r.pc = "closing"
      <4>1. thread' = [thread EXCEPT ![t] = [r EXCEPT !.pc = "releasing", !.task = Nobody]]
        BY <1>8, <3>3 DEF Interrupt, r
      <4> QED  BY <1>d, <1>g, <1>8, <2>1, <3>3, <4>1 DEF Interrupt, r, Pcs
    <3> QED  BY <1>8, <3>1, <3>2, <3>3 DEF Interrupt, r
  <2>3. scope' \in ScopeRec
    <3>1. scope \in ScopeRec /\ scope.interrupts - 1 \in Nat
      BY <1>8 DEF Interrupt, TypeInv, LeaseTypes, ScopeRec
    <3>2. [scope EXCEPT !.interrupts = scope.interrupts - 1] \in ScopeRec
      BY <3>1 DEF ScopeRec
    <3> QED  BY <1>8, <3>2 DEF Interrupt
  <2> QED  BY <1>8, <2>2, <2>3 DEF Interrupt, busVars, TypeInv, LeaseTypes, LoopTypes
<1>9. ASSUME NEW b \in Buses, Open(t, b)  PROVE TypeInv'
  <2>1. PortalTyped /\ current' \in Portals
    BY <1>9, LeaseStep DEF Open, TypeInv, LeaseTypes
  <2>2. ThreadsTyped /\ TasksTyped
    BY <1>9, <2>1, SpawnTypes DEF Open, Pcs
  <2>3. ghost' \in [Buses -> GhostRec]
    <3>1. [ghost[b] EXCEPT !.opened = TRUE] \in GhostRec
      BY <1>i, GhostUpdate
    <3> QED  BY <1>9, <3>1 DEF Open, TypeInv, LeaseTypes
  <2> QED  BY <1>9, <2>1, <2>2, <2>3 DEF Open, busVars, TypeInv, LeaseTypes, LoopTypes
<1>10. ASSUME NEW b \in Buses, Request(t, b)  PROVE TypeInv'
  <2>1. ThreadsTyped /\ TasksTyped
    <3>1. PICK kind \in Kinds : Spawn(t, "calling", kind, b, sync[b].portal)
      BY <1>10 DEF Request
    <3> QED  BY <3>1, <1>i, SpawnTypes DEF Pcs
  <2>2. ghost' \in [Buses -> GhostRec]
    <3>1. [ghost[b] EXCEPT !.asked = ghost[b].asked + 1] \in GhostRec
      <4>1. ghost[b].asked + 1 \in Nat
        BY <1>i
      <4> QED  BY <1>i, <4>1, GhostUpdate
    <3> QED  BY <1>10, <3>1 DEF Request, TypeInv, LeaseTypes
  <2> QED  BY <1>g, <1>10, <2>1, <2>2 DEF Request, busVars, TypeInv, LeaseTypes, LoopTypes
<1>11. ASSUME NEW b \in Buses, Close(t, b)  PROVE TypeInv'
  <2>1. sync' \in [Buses -> SyncRec]
    <3>1. [sync[b] EXCEPT !.closed = TRUE] \in SyncRec
      BY <1>i, SyncUpdate
    <3> QED  BY <1>11, <3>1 DEF Close, TypeInv, LeaseTypes
  <2>2. ThreadsTyped /\ TasksTyped
    <3>1. CASE Accepts(sync[b].portal)
      BY <1>11, <1>i, <3>1, SpawnTypes DEF Close, Pcs
    <3>2. CASE ~Accepts(sync[b].portal)
      <4>1. [pc |-> "releasing", bus |-> b, task |-> Nobody, portal |-> sync[b].portal]
              \in ThreadRec
        BY <1>i DEF ThreadRec, Pcs
      <4>2. ThreadsTyped
        BY <1>11, <3>2, <4>1, SetThread DEF Close, TypeInv
      <4> QED  BY <1>11, <3>2, <4>2 DEF Close, TypeInv, LoopTypes
    <3> QED  BY <3>1, <3>2
  <2> QED  BY <1>g, <1>11, <2>1, <2>2 DEF Close, TypeInv, LeaseTypes, LoopTypes
<1> QED  BY <1>1, <1>2, <1>3, <1>4, <1>5, <1>6, <1>7, <1>8, <1>9, <1>10, <1>11 DEF ThreadStep

(* A task that ends keeps its type.                                        *)
LEMMA TaskDone ==
  ASSUME NEW r \in TaskRec, NEW out \in {"none", "value", "error", "timeout", "closed"}
  PROVE  [r EXCEPT !.stage = "done", !.out = out] \in TaskRec
BY DEF TaskRec, Stages

(* A task that goes to another stage keeps its type.                       *)
LEMMA TaskStage ==
  ASSUME NEW r \in TaskRec, NEW stage \in Stages
  PROVE  [r EXCEPT !.stage = stage] \in TaskRec
BY DEF TaskRec

(* A task that begins its request keeps its type.                          *)
LEMMA TaskBegun ==
  ASSUME NEW r \in TaskRec, NEW n \in Nat
  PROVE  [r EXCEPT !.stage = "attempt", !.id = n, !.attempt = 1] \in TaskRec
BY DEF TaskRec, Stages

(* A task that tries again keeps its type.                                 *)
LEMMA TaskAgain ==
  ASSUME NEW r \in TaskRec, NEW n \in Nat
  PROVE  [r EXCEPT !.stage = "attempt", !.attempt = n] \in TaskRec
BY DEF TaskRec, Stages

(* A task that calls an observer keeps its type.                           *)
LEMMA TaskCalled ==
  ASSUME NEW r \in TaskRec, NEW n \in Nat
  PROVE  [r EXCEPT !.called = n] \in TaskRec
BY DEF TaskRec

(* A task that begins a report keeps its type.                             *)
LEMMA TaskReports ==
  ASSUME NEW r \in TaskRec, NEW out \in {"none", "value", "error", "timeout", "closed"},
         NEW a \in Seq(Observers)
  PROVE  [r EXCEPT !.stage = "reporting", !.audience = a, !.called = 0, !.out = out] \in TaskRec
BY DEF TaskRec, Stages

(* How often an element occurs in a sequence.                              *)
LEMMA CountType ==
  ASSUME NEW S, NEW s \in Seq(S), NEW o
  PROVE  Count(s, o) \in Nat
<1>1. DOMAIN s = 1..Len(s) /\ Len(s) \in Nat
  BY LenProperties
<1>2. IsFiniteSet(DOMAIN s)
  BY <1>1, FS_Interval
<1>3. {i \in DOMAIN s : s[i] = o} \subseteq DOMAIN s
  OBVIOUS
<1>4. IsFiniteSet({i \in DOMAIN s : s[i] = o})
  BY <1>2, <1>3, FS_Subset
<1> QED  BY <1>4, FS_CardinalityType DEF Count

(* The report of an attempt, and what its task goes on with.               *)
LEMMA AttemptEndsTypes ==
  ASSUME TypeInv, NEW k \in Tasks, InAttempt(k), NEW outcome, AttemptEnds(k, outcome)
  PROVE  TypeInv'
<1> DEFINE b == task[k].bus
           r == [id |-> task[k].id, attempt |-> task[k].attempt,
                 willRetry |-> WillRetry(k, outcome)]
           out == IF WillRetry(k, outcome) THEN "none" ELSE OutOf(outcome)
           g == [ghost[b] EXCEPT !.log = Reports(k, outcome),
                                 !.kept = [o \in Observers |-> Count(observers[b], o)],
                                 !.told = [o \in Observers |-> 0]]
<1>1. task[k] \in TaskRec /\ b \in Buses
  BY DEF TypeInv, LoopTypes, InAttempt, At
<1>2. out \in {"none", "value", "error", "timeout", "closed"}
  BY DEF OutOf
<1>3. observers[b] \in Seq(Observers) /\ ghost[b] \in GhostRec
  BY <1>1 DEF TypeInv, LoopTypes, LeaseTypes
<1>4. Reports(k, outcome) \in Seq(Report)
  <2>1. r \in Report
    BY <1>1 DEF Report, TaskRec, WillRetry
  <2>2. ghost[b].log \in Seq(Report)
    BY <1>3 DEF GhostRec
  <2>3. Append(ghost[b].log, r) \in Seq(Report) /\ <<r>> \in Seq(Report)
    BY <2>1, <2>2, AppendProperties
  <2> QED  BY <2>3 DEF Reports
<1>5. g \in GhostRec
  <2>1. [o \in Observers |-> Count(observers[b], o)] \in [Observers -> Nat]
    BY <1>3, CountType
  <2> HIDE DEF b
  <2> QED  BY <1>3, <1>4, <2>1 DEF GhostRec
<1>6. ghost' = [ghost EXCEPT ![b] = g]
  BY DEF AttemptEnds
<1>7. /\ ghost' \in [Buses -> GhostRec]
      /\ \A c \in Buses : ghost'[c] = IF c = b THEN g ELSE ghost[c]
  BY <1>1, <1>5, <1>6 DEF TypeInv, LeaseTypes
<1>8. /\ task' \in [Tasks -> TaskRec]
      /\ \A l \in Tasks : task'[l].stage # "free" => task'[l].bus \in Buses
  <2>1. [task[k] EXCEPT !.stage = "reporting", !.audience = observers[b], !.called = 0,
                        !.out = out] \in TaskRec
    BY <1>1, <1>2, <1>3, TaskReports
  <2>2. /\ task' \in [Tasks -> TaskRec]
        /\ \A l \in Tasks : l # k => task'[l] = task[l]
        /\ task'[k] = [task[k] EXCEPT !.stage = "reporting", !.audience = observers[b],
                                      !.called = 0, !.out = out]
    BY <2>1, StepTask DEF AttemptEnds, TypeInv
  <2>3. task'[k].bus = b
    BY <1>1, <2>2 DEF TaskRec
  <2> QED  BY <1>1, <2>2, <2>3 DEF TypeInv, LoopTypes
<1>9. closed' \in [Buses -> BOOLEAN]
  BY <1>1 DEF AttemptEnds, TypeInv, LoopTypes
<1> HIDE DEF g
<1> QED  BY <1>7, <1>8, <1>9 DEF AttemptEnds, portalVars, TypeInv, LeaseTypes, LoopTypes

(* Every step of a task keeps the types.                                   *)
LEMMA TaskStepTypes ==
  ASSUME TypeInv, NEW k \in Tasks, TaskStep(k) \/ Cancel(k)
  PROVE  TypeInv'
<1> DEFINE r == task[k]
           b == task[k].bus
           TasksTyped ==
             /\ task' \in [Tasks -> TaskRec]
             /\ \A l \in Tasks : task'[l].stage # "free" => task'[l].bus \in Buses
<1>a. r \in TaskRec /\ (r.stage # "free" => b \in Buses)
  BY DEF TypeInv, LoopTypes
<1>b. ASSUME NEW q \in TaskRec, Step(k, q), r.stage # "free", q.bus = b
      PROVE  TasksTyped
  <2>1. /\ task' \in [Tasks -> TaskRec] /\ task'[k] = q
        /\ \A l \in Tasks : l # k => task'[l] = task[l]
    BY <1>b, StepTask DEF TypeInv
  <2> QED  BY <1>a, <1>b, <2>1 DEF TypeInv, LoopTypes
<1>c. ASSUME NEW out \in {"none", "value", "error", "timeout", "closed"}, Finish(k, out),
             r.stage # "free"
      PROVE  TasksTyped
  <2>1. [r EXCEPT !.stage = "done", !.out = out] \in TaskRec
    BY <1>a, TaskDone
  <2>2. [r EXCEPT !.stage = "done", !.out = out].bus = b
    BY <1>a DEF TaskRec
  <2> QED  BY <1>b, <1>c, <2>1, <2>2 DEF Finish
<1>d. ASSUME NEW stage \in Stages, Step(k, [r EXCEPT !.stage = stage]), r.stage # "free"
      PROVE  TasksTyped
  <2>1. [r EXCEPT !.stage = stage] \in TaskRec
    BY <1>a, TaskStage
  <2>2. [r EXCEPT !.stage = stage].bus = b
    BY <1>a DEF TaskRec
  <2> QED  BY <1>b, <1>d, <2>1, <2>2
<1>e. ASSUME NEW stage, At(k, stage)  PROVE r.stage = stage
  BY <1>e DEF At
<1>f. ASSUME Without(k), r.stage # "free"  PROVE queue' \in [Buses -> Seq(Tasks)]
  <2>1. FirstRemoved(queue[b], k) \in Seq(Tasks)
    BY <1>a, <1>f, FirstRemovedType DEF TypeInv, LoopTypes
  <2> QED  BY <1>a, <1>f, <2>1 DEF Without, TypeInv, LoopTypes
<1>g. r.out \in {"none", "value", "error", "timeout", "closed"} /\ r.id \in Nat
      /\ r.attempt \in Nat /\ r.called \in Nat /\ r.audience \in Seq(Observers)
  BY <1>a DEF TaskRec
<1> HIDE DEF r
<1>1. CASE OpenPort(k)
  <2>1. TasksTyped
    BY <1>c, <1>e, <1>1 DEF OpenPort
  <2>2. stream' \in [Buses -> {"none", "open", "closing", "closed"}]
    BY <1>1 DEF OpenPort, TypeInv, LoopTypes
  <2> QED  BY <1>1, <2>1, <2>2 DEF OpenPort, portalVars, TypeInv, LeaseTypes, LoopTypes
<1>2. CASE Start(k)
  <2>1. r.stage = "started" /\ b \in Buses
    BY <1>a, <1>e, <1>2 DEF Start
  <2>2. TasksTyped
    BY <1>c, <1>d, <1>2, <2>1 DEF Start, Stages, r
  <2>3. queue' \in [Buses -> Seq(Tasks)]
    <3>1. Append(queue[b], k) \in Seq(Tasks)
      BY <2>1, AppendProperties DEF TypeInv, LoopTypes
    <3> QED  BY <1>2, <2>1, <3>1 DEF Start, TypeInv, LoopTypes
  <2> QED  BY <1>2, <2>2, <2>3 DEF Start, portalVars, TypeInv, LeaseTypes, LoopTypes
<1>3. CASE Acquire(k)
  <2>1. r.stage = "waiting" /\ b \in Buses
    BY <1>a, <1>e, <1>3 DEF Acquire
  <2>2. requests' \in [Buses -> Nat] /\ requests[b] + 1 \in Nat
    BY <1>3, <2>1 DEF Acquire, TypeInv, LoopTypes
  <2>3. TasksTyped
    <3>1. [r EXCEPT !.stage = "attempt", !.id = requests[b] + 1, !.attempt = 1] \in TaskRec
      BY <1>a, <2>2, TaskBegun
    <3>2. [r EXCEPT !.stage = "attempt", !.id = requests[b] + 1, !.attempt = 1].bus = b
      BY <1>a DEF TaskRec, r
    <3> QED  BY <1>b, <1>3, <2>1, <3>1, <3>2 DEF Acquire, r
  <2> QED  BY <1>3, <2>2, <2>3 DEF Acquire, portalVars, TypeInv, LeaseTypes, LoopTypes
<1>4. CASE Send(k)
  <2>1. TasksTyped
    BY <1>d, <1>e, <1>4 DEF Send, Stages, r
  <2> QED  BY <1>4, <2>1 DEF Send, portalVars, busVars, TypeInv, LeaseTypes, LoopTypes
<1>5. CASE Attempt(k)
  BY <1>5, AttemptEndsTypes DEF Attempt
<1>6. CASE Deliver(k)
  <2>1. r.stage = "reporting" /\ b \in Buses
    BY <1>a, <1>6 DEF Deliver, r
  <2>2. TasksTyped
    <3>1. r.called + 1 \in Nat
      BY <1>g
    <3>2. [r EXCEPT !.called = r.called + 1] \in TaskRec
      BY <1>a, <3>1, TaskCalled
    <3>3. [r EXCEPT !.called = r.called + 1].bus = b
      BY <1>a DEF TaskRec, r
    <3> QED  BY <1>b, <1>6, <2>1, <3>2, <3>3 DEF Deliver, r
  <2>3. ghost' \in [Buses -> GhostRec]
    <3> DEFINE o == r.audience[r.called + 1]
    <3>1. ghost[b] \in GhostRec
      BY <2>1 DEF TypeInv, LeaseTypes
    <3>2. ghost[b].told \in [Observers -> Nat]
      BY <3>1 DEF GhostRec
    <3>3. [ghost[b].told EXCEPT ![o] = ghost[b].told[o] + 1] \in [Observers -> Nat]
      <4>1. r.called + 1 \in 1..Len(r.audience)
        BY <1>6, <1>g, LenProperties DEF Deliver, Audience, r
      <4>2. o \in Observers
        BY <1>g, <4>1, ElementOfSeq
      <4> HIDE DEF o
      <4> QED  BY <3>2, <4>2
    <3>4. [ghost[b] EXCEPT !.told = [ghost[b].told EXCEPT ![o] = ghost[b].told[o] + 1]]
            \in GhostRec
      BY <3>1, <3>3 DEF GhostRec
    <3>5. ghost' = [ghost EXCEPT ![b] =
             [ghost[b] EXCEPT !.told = [ghost[b].told EXCEPT ![o] = ghost[b].told[o] + 1]]]
      BY <1>6 DEF Deliver, Audience, r
    <3> HIDE DEF o
    <3> QED  BY <2>1, <3>4, <3>5 DEF TypeInv, LeaseTypes
  <2> QED  BY <1>6, <2>2, <2>3 DEF Deliver, portalVars, busVars, TypeInv, LeaseTypes, LoopTypes
<1>7. CASE Reported(k)
  <2>1. r.stage = "reporting" /\ b \in Buses
    BY <1>a, <1>7 DEF Reported, r
  <2>2. TasksTyped
    BY <1>c, <1>d, <1>g, <1>7, <2>1 DEF Reported, Stages, r
  <2>3. queue' \in [Buses -> Seq(Tasks)]
    BY <1>f, <1>7, <2>1 DEF Reported, TypeInv, LoopTypes, r
  <2>4. ghost' \in [Buses -> GhostRec]
    <3>1. ghost[b] \in GhostRec /\ [o \in Observers |-> 0] \in [Observers -> Nat]
      BY <2>1 DEF TypeInv, LeaseTypes
    <3>2. [ghost[b] EXCEPT !.kept = [o \in Observers |-> 0], !.told = [o \in Observers |-> 0]]
            \in GhostRec
      BY <3>1 DEF GhostRec
    <3> QED  BY <1>7, <2>1, <3>2 DEF Reported, ReportOver, TypeInv, LeaseTypes
  <2> QED  BY <1>7, <2>2, <2>3, <2>4 DEF Reported, portalVars, TypeInv, LeaseTypes, LoopTypes
<1>8. CASE BackoffEnds(k)
  <2>1. TasksTyped
    <3>1. r.stage = "backoff"
      BY <1>e, <1>8 DEF BackoffEnds
    <3>2. r.attempt + 1 \in Nat
      BY <1>g
    <3>3. [r EXCEPT !.stage = "attempt", !.attempt = r.attempt + 1] \in TaskRec
      BY <1>a, <3>2, TaskAgain
    <3>4. [r EXCEPT !.stage = "attempt", !.attempt = r.attempt + 1].bus = b
      BY <1>a DEF TaskRec, r
    <3> QED  BY <1>b, <1>8, <3>1, <3>3, <3>4 DEF BackoffEnds, r
  <2> QED  BY <1>8, <2>1 DEF BackoffEnds, portalVars, busVars, TypeInv, LeaseTypes, LoopTypes
<1>9. CASE StartAclose(k)
  <2>1. TasksTyped
    BY <1>c, <1>d, <1>e, <1>9 DEF StartAclose, Stages, r
  <2>2. /\ closed' \in [Buses -> BOOLEAN]
        /\ stream' \in [Buses -> {"none", "open", "closing", "closed"}]
    BY <1>9 DEF StartAclose, TypeInv, LoopTypes
  <2> QED  BY <1>9, <2>1, <2>2 DEF StartAclose, portalVars, TypeInv, LeaseTypes, LoopTypes
<1>10. CASE StreamCloses(k)
  <2>1. TasksTyped
    BY <1>c, <1>e, <1>10 DEF StreamCloses
  <2>2. stream' \in [Buses -> {"none", "open", "closing", "closed"}]
    BY <1>10 DEF StreamCloses, TypeInv, LoopTypes
  <2> QED  BY <1>10, <2>1, <2>2 DEF StreamCloses, portalVars, TypeInv, LeaseTypes, LoopTypes
<1>11. CASE Forgotten(k)
  <2>1. /\ task' \in [Tasks -> TaskRec] /\ task'[k] = NoTask
        /\ \A l \in Tasks : l # k => task'[l] = task[l]
    BY <1>11, NoTaskType DEF Forgotten, TypeInv, LoopTypes
  <2>2. NoTask.stage = "free"
    BY DEF NoTask
  <2> QED  BY <1>11, <2>1, <2>2 DEF Forgotten, portalVars, busVars, TypeInv, LeaseTypes, LoopTypes
<1>12. CASE Cancel(k)
  <2>1. CASE InAttempt(k) /\ AttemptEnds(k, "cancelled")
    BY <2>1, AttemptEndsTypes
  <2>2. CASE ~(InAttempt(k) /\ AttemptEnds(k, "cancelled"))
    <3>1. r.stage \in {"waiting", "backoff"} /\ b \in Buses
      BY <1>a, <1>e, <1>12, <2>2 DEF Cancel
    <3>2. TasksTyped /\ queue' \in [Buses -> Seq(Tasks)]
      BY <1>c, <1>f, <1>12, <2>2, <3>1 DEF Cancel
    <3>3. ghost' \in [Buses -> GhostRec]
      <4>1. ghost[b] \in GhostRec /\ GivenUp(k, ghost[b].gaveUp) \in Nat
        <5>1. ghost[b] \in GhostRec /\ ghost[b].gaveUp \in Nat
          BY <3>1 DEF TypeInv, LeaseTypes, GhostRec
        <5> QED  BY <5>1, <1>g DEF GivenUp, r
      <4>2. [ghost[b] EXCEPT !.gaveUp = GivenUp(k, ghost[b].gaveUp)] \in GhostRec
        BY <4>1, GhostUpdate
      <4> QED  BY <1>12, <2>2, <3>1, <4>2 DEF Cancel, TypeInv, LeaseTypes
    <3> QED  BY <1>12, <2>2, <3>2, <3>3 DEF Cancel, portalVars, TypeInv, LeaseTypes, LoopTypes
  <2> QED  BY <2>1, <2>2
<1> QED
  BY <1>1, <1>2, <1>3, <1>4, <1>5, <1>6, <1>7, <1>8, <1>9, <1>10, <1>11, <1>12 DEF TaskStep

(* What neither a thread nor a task does.                                  *)
Others ==
  \/ \E p \in Portals : PortalEnds(p)
  \/ \E b \in Buses :
       \/ CloseOnLoop(b) \/ CloseAgain(b)
       \/ \E o \in Observers : AddTransactionObserver(b, o) \/ RemoveObserver(b, o)

(* So do the steps of neither a thread nor a task.                         *)
LEMMA OtherStepTypes ==
  ASSUME TypeInv, Others
  PROVE  TypeInv'
<1>1. ASSUME NEW p \in Portals, PortalEnds(p)  PROVE TypeInv'
  BY <1>1 DEF PortalEnds, Ends, busVars, TypeInv, LeaseTypes, LoopTypes
<1>2. ASSUME NEW b \in Buses, CloseOnLoop(b)  PROVE TypeInv'
  <2>1. sync' \in [Buses -> SyncRec]
    <3>1. sync[b] \in SyncRec
      BY DEF TypeInv, LeaseTypes
    <3>2. [sync[b] EXCEPT !.closed = TRUE, !.entered = FALSE] \in SyncRec
      BY <3>1, SyncUpdate
    <3>3. sync' = [sync EXCEPT ![b] = [sync[b] EXCEPT !.closed = TRUE, !.entered = FALSE]]
      BY <1>2, <3>1 DEF CloseOnLoop, SyncRec, TypeInv, LeaseTypes
    <3> QED  BY <3>2, <3>3 DEF TypeInv, LeaseTypes
  <2>2. ghost' \in [Buses -> GhostRec]
    <3>1. [ghost[b] EXCEPT !.closedOnLoop = TRUE, !.closeReturned = TRUE] \in GhostRec
      BY GhostUpdate DEF TypeInv, LeaseTypes
    <3>2. ghost' = [ghost EXCEPT ![b] =
                      [ghost[b] EXCEPT !.closedOnLoop = TRUE, !.closeReturned = TRUE]]
      BY <1>2, <3>1 DEF CloseOnLoop, GhostRec, TypeInv, LeaseTypes
    <3> QED  BY <3>1, <3>2 DEF TypeInv, LeaseTypes
  <2>3. current' \in Portals \cup {NoPortal} /\ leases' \in Int /\ portal' = portal
    BY <1>2 DEF CloseOnLoop, Unlease, TypeInv, LeaseTypes
  <2> QED  BY <1>2, <2>1, <2>2, <2>3 DEF CloseOnLoop, TypeInv, LeaseTypes, LoopTypes
<1>3. ASSUME NEW b \in Buses, NEW o \in Observers, AddTransactionObserver(b, o)  PROVE TypeInv'
  <2>1. observers' \in [Buses -> Seq(Observers)]
    <3>1. Append(observers[b], o) \in Seq(Observers)
      BY AppendProperties DEF TypeInv, LoopTypes
    <3> QED  BY <1>3, <3>1 DEF AddTransactionObserver, TypeInv, LoopTypes
  <2> QED  BY <1>3, <2>1 DEF AddTransactionObserver, portalVars, TypeInv, LeaseTypes, LoopTypes
<1>4. ASSUME NEW b \in Buses, NEW o \in Observers, RemoveObserver(b, o)  PROVE TypeInv'
  <2>1. observers[b] \in Seq(Observers) /\ ghost[b] \in GhostRec
    BY DEF TypeInv, LoopTypes, LeaseTypes
  <2>2. observers' \in [Buses -> Seq(Observers)]
    <3>1. FirstRemoved(observers[b], o) \in Seq(Observers)
      BY <2>1, FirstRemovedType
    <3> QED  BY <1>4, <3>1 DEF RemoveObserver, TypeInv, LoopTypes
  <2>3. ghost' \in [Buses -> GhostRec]
    <3> DEFINE left == Count(observers[b], o) - 1
               kept == ghost[b].kept
               now  == [kept EXCEPT ![o] = IF @ > left THEN left ELSE @]
    <3>1. left \in Nat
      BY <1>4, <2>1, CountType DEF RemoveObserver
    <3>2. kept \in [Observers -> Nat]
      BY <2>1 DEF GhostRec
    <3>3. now \in [Observers -> Nat]
      <4> HIDE DEF left, kept
      <4> QED  BY <3>1, <3>2
    <3>4. [ghost[b] EXCEPT !.kept = now] \in GhostRec
      <4> HIDE DEF now
      <4> QED  BY <2>1, <3>3 DEF GhostRec
    <3>5. ghost' = [ghost EXCEPT ![b] = [ghost[b] EXCEPT !.kept = now]]
      BY <1>4 DEF RemoveObserver
    <3> HIDE DEF now
    <3> QED  BY <3>4, <3>5 DEF TypeInv, LeaseTypes
  <2> QED  BY <1>4, <2>2, <2>3 DEF RemoveObserver, portalVars, TypeInv, LeaseTypes, LoopTypes
<1>5. ASSUME NEW b \in Buses, CloseAgain(b)  PROVE TypeInv'
  <2>1. ghost' \in [Buses -> GhostRec]
    <3>1. [ghost[b] EXCEPT !.closeReturned = TRUE] \in GhostRec
      BY GhostUpdate DEF TypeInv, LeaseTypes
    <3> QED  BY <1>5, <3>1 DEF CloseAgain, TypeInv, LeaseTypes
  <2> QED  BY <1>5, <2>1 DEF CloseAgain, portalVars, busVars, TypeInv, LeaseTypes, LoopTypes
<1> QED  BY <1>1, <1>2, <1>3, <1>4, <1>5 DEF Others

(* The four kinds of steps.                                                *)
LEMMA NextSplit ==
  ASSUME Next
  PROVE  \/ \E t \in Threads :
              \/ ThreadStep(t) \/ Interrupt(t)
              \/ \E b \in Buses : Open(t, b) \/ Request(t, b) \/ Close(t, b)
         \/ \E k \in Tasks : TaskStep(k) \/ Cancel(k)
         \/ Others
BY DEF Next, Others

(* Every step keeps the types.                                             *)
THEOREM TypeStep == TypeInv /\ [Next]_vars => TypeInv'
<1> SUFFICES ASSUME TypeInv, [Next]_vars  PROVE TypeInv'
  OBVIOUS
<1>1. CASE Next
  BY <1>1, NextSplit, ThreadStepTypes, TaskStepTypes, OtherStepTypes
<1>2. CASE UNCHANGED vars
  BY <1>2 DEF vars, portalVars, busVars, TypeInv, LeaseTypes, LoopTypes
<1> QED  BY <1>1, <1>2

(* The types hold at first.                                                *)
THEOREM InitTypes == Init => TypeInv
<1> SUFFICES ASSUME Init  PROVE TypeInv
  OBVIOUS
<1>1. scope \in ScopeRec
  BY DEF Init, ScopeRec
<1>2. sync \in [Buses -> SyncRec]
  BY DEF Init, SyncRec
<1>3. thread \in [Threads -> ThreadRec] /\ AtRest.pc = "idle"
  BY AtRestType DEF Init, AtRest
<1>4. ghost \in [Buses -> GhostRec]
  <2>1. <<>> \in Seq(Report) /\ [o \in Observers |-> 0] \in [Observers -> Nat]
    OBVIOUS
  <2> DEFINE g == [opened |-> FALSE, asked |-> 0, closeReturned |-> FALSE,
                   closedOnLoop |-> FALSE, log |-> <<>>, gaveUp |-> 0,
                   kept |-> [o \in Observers |-> 0], told |-> [o \in Observers |-> 0]]
  <2>2. g \in GhostRec
    BY <2>1 DEF GhostRec
  <2>3. ghost = [b \in Buses |-> g]
    BY DEF Init
  <2> HIDE DEF g
  <2> QED  BY <2>2, <2>3
<1>5. task \in [Tasks -> TaskRec] /\ NoTask.stage = "free"
  BY NoTaskType DEF Init, NoTask
<1>6. /\ portal \in [Portals -> {"unused", "running", "stopping", "stopped"}]
      /\ current \in Portals \cup {NoPortal} /\ leases \in Int
  BY DEF Init, PortalInit
<1>7. /\ queue \in [Buses -> Seq(Tasks)] /\ observers \in [Buses -> Seq(Observers)]
      /\ closed \in [Buses -> BOOLEAN] /\ requests \in [Buses -> Nat]
      /\ stream \in [Buses -> {"none", "open", "closing", "closed"}]
  BY DEF Init
<1>8. /\ \A t \in Threads : thread[t].pc = "idle"
      /\ \A k \in Tasks : task[k].stage = "free"
  BY <1>3, <1>5 DEF Init
<1> QED  BY <1>1, <1>2, <1>3, <1>4, <1>5, <1>6, <1>7, <1>8 DEF TypeInv, LeaseTypes, LoopTypes
-----------------------------------------------------------------------------
(* Leases                                                                  *)

(* There are finitely many leaseholders: at most one for each bus.         *)
LEMMA HoldersFinite ==
  /\ IsFiniteSet(Leaseholders) /\ Cardinality(Leaseholders) \in Nat
  /\ Cardinality(Leaseholders) <= Cardinality(Buses)
  /\ Cardinality(Leaseholders) = 0 <=> Leaseholders = {}
<1>1. Leaseholders \subseteq Buses
  BY DEF Leaseholders
<1> QED  BY <1>1, FS_Subset, FS_CardinalityType, FS_EmptySet

(* What a leaseholder knows of the portal.                                 *)
LEMMA LeaseholderServed ==
  ASSUME LeaseInv, NEW b \in Leaseholders
  PROVE  /\ leases > 0 /\ current # NoPortal /\ portal[current] = "running"
         /\ \/ sync[b].entered /\ sync[b].portal = current
            \/ \E t \in Threads : /\ thread[t].pc = "opening" /\ thread[t].bus = b
                                  /\ thread[t].portal = current
<1>1. leases \in Nat /\ leases # 0
  BY HoldersFinite DEF LeaseInv, LeasesCounted
<1> QED  BY <1>1 DEF LeaseInv, LeasesCounted, Leaseholders, Leaseholder

(* Steps that concern neither the portal nor a lease.                      *)
LEMMA LeaseKept ==
  ASSUME LeaseInv, LeaseTypes', UNCHANGED portalVars, NEW t \in Threads, NEW r \in ThreadRec,
         thread' = [thread EXCEPT ![t] = r],
         {thread[t].pc, r.pc} \cap {"opening", "stopping"} = {} \/ r = thread[t],
         \A b \in Buses :
           /\ sync'[b].made = sync[b].made /\ sync'[b].entered = sync[b].entered
           /\ sync'[b].portal = sync[b].portal /\ (sync[b].closed => sync'[b].closed)
           /\ ghost'[b].opened = ghost[b].opened
           /\ ghost'[b].closedOnLoop = ghost[b].closedOnLoop,
         r.pc \in {"closing", "releasing"} =>
           sync'[r.bus].made /\ sync'[r.bus].closed /\ r.portal = sync[r.bus].portal
  PROVE  LeaseInv'
<1>1. /\ thread'[t] = r
      /\ \A u \in Threads : u # t => thread'[u] = thread[u]
      /\ \A u \in Threads : thread[u].pc # "idle" => thread[u].bus \in Buses
      /\ \A u \in Threads : thread'[u].pc # "idle" => thread'[u].bus \in Buses
  BY DEF LeaseInv, LeaseTypes
<1>2. \A u \in Threads : thread'[u].pc \in {"opening", "stopping"}
                         \/ thread[u].pc \in {"opening", "stopping"} => thread'[u] = thread[u]
  BY <1>1
<1>3. Leaseholders' = Leaseholders
  BY <1>2 DEF Leaseholders, Leaseholder
<1>4. OpenedOnce'
  BY <1>1, <1>2 DEF LeaseInv, OpenedOnce
<1>5. LeasesCounted'
  BY <1>2, <1>3 DEF LeaseInv, LeasesCounted, portalVars
<1>6. OrphanOnlyFromLoop'
  <2> SUFFICES ASSUME NEW p \in Portals, portal'[p] = "running"
               PROVE  \/ \E b \in Buses : /\ sync'[b].portal = p
                                          /\ sync'[b].entered \/ ghost'[b].closedOnLoop
                      \/ \E u \in Threads : /\ thread'[u].portal = p
                                            /\ thread'[u].pc \in {"opening", "stopping"}
    BY DEF OrphanOnlyFromLoop
  <2>1. portal[p] = "running"
    BY DEF portalVars
  <2>2. CASE \E b \in Buses : sync[b].portal = p /\ (sync[b].entered \/ ghost[b].closedOnLoop)
    BY <2>2
  <2>3. CASE \E u \in Threads : thread[u].portal = p /\ thread[u].pc \in {"opening", "stopping"}
    BY <1>2, <2>3
  <2> QED  BY <2>1, <2>2, <2>3 DEF LeaseInv, OrphanOnlyFromLoop
<1> QED  BY <1>4, <1>5, <1>6 DEF LeaseInv

(* One lease is given up.                                                  *)
LEMMA LeaseGivenUp ==
  ASSUME LeaseInv, NEW b \in Leaseholders, Leaseholders' = Leaseholders \ {b}, Unlease
  PROVE  /\ leases' = Cardinality(Leaseholders') /\ leases' \in Nat
         /\ leases = 1 <=> Leaseholders' = {}
         /\ leases' = 0 <=> current' = NoPortal
         /\ current' # NoPortal => current' = current
         /\ portal' = portal
<1>1. leases = Cardinality(Leaseholders) /\ leases \in Nat /\ leases # 0
  BY HoldersFinite, LeaseholderServed DEF LeaseInv, LeasesCounted
<1>2. Cardinality(Leaseholders') = leases - 1 /\ IsFiniteSet(Leaseholders')
  BY <1>1, HoldersFinite, FS_RemoveElement
<1>3. Cardinality(Leaseholders') = 0 <=> Leaseholders' = {}
  BY <1>2, FS_EmptySet
<1>4. current # NoPortal
  BY LeaseholderServed
<1> QED  BY <1>1, <1>2, <1>3, <1>4 DEF Unlease

(* A thread that gives a lease up stops the portal, or rests.              *)
LEMMA ExitThread ==
  ASSUME LeaseTypes, NEW t \in Threads, Exit(t)
  PROVE  /\ \A u \in Threads : u # t => thread'[u] = thread[u]
         /\ leases = 1 => /\ thread'[t].pc = "stopping"
                          /\ thread'[t].portal = thread[t].portal
         /\ leases # 1 => thread'[t].pc = "idle"
<1>1. thread[t] \in ThreadRec /\ thread \in [Threads -> ThreadRec]
  BY DEF LeaseTypes
<1>2. CASE leases = 1
  <2>1. thread' = [thread EXCEPT ![t] = [thread[t] EXCEPT !.pc = "stopping",
                                                          !.task = Nobody]]
    BY <1>2 DEF Exit
  <2>2. /\ [thread[t] EXCEPT !.pc = "stopping", !.task = Nobody].pc = "stopping"
        /\ [thread[t] EXCEPT !.pc = "stopping", !.task = Nobody].portal = thread[t].portal
    BY <1>1 DEF ThreadRec
  <2> QED  BY <1>1, <1>2, <2>1, <2>2
<1>3. CASE leases # 1
  BY <1>1, <1>3 DEF Exit, AtRest
<1> QED  BY <1>2, <1>3

(* Without the last lease the portal serves those who still have one; the  *)
(* thread that gave up the last one stops it.                              *)
LEMMA ExitServes ==
  ASSUME LeaseInv, LeaseTypes', NEW t \in Threads, NEW b \in Leaseholders,
         Leaseholders' = Leaseholders \ {b}, Exit(t), thread[t].portal = current,
         thread[t].pc \in {"opening", "releasing"},
         \A c \in Buses : /\ sync'[c].portal = sync[c].portal
                          /\ sync'[c].entered => sync[c].entered
                          /\ ghost'[c].closedOnLoop = ghost[c].closedOnLoop
  PROVE  /\ LeasesCounted' /\ OrphanOnlyFromLoop'
         /\ thread'[t].pc \in {"idle", "stopping"}
         /\ \A u \in Threads : u # t => thread'[u] = thread[u]
<1>1. /\ leases' = Cardinality(Leaseholders') /\ leases' \in Nat
      /\ leases = 1 <=> Leaseholders' = {}
      /\ leases' = 0 <=> current' = NoPortal
      /\ current' # NoPortal => current' = current
      /\ portal' = portal /\ leases' = leases - 1
  BY LeaseGivenUp DEF Exit, Unlease
<1>2. /\ current \in Portals /\ portal[current] = "running"
  BY LeaseholderServed DEF LeaseInv, LeaseTypes
<1>3. /\ \A u \in Threads : u # t => thread'[u] = thread[u]
      /\ leases = 1 => thread'[t].pc = "stopping" /\ thread'[t].portal = current
      /\ leases # 1 => thread'[t].pc = "idle"
  BY ExitThread DEF LeaseInv
<1>4. LeasesCounted'
  <2>1. ASSUME NEW c \in Buses, sync'[c].entered  PROVE sync'[c].portal = current'
    <3>1. c \in Leaseholders'
      BY <2>1 DEF Leaseholders, Leaseholder
    <3>2. current' = current
      BY <1>1, <3>1
    <3> QED  BY <2>1, <3>2 DEF LeaseInv, LeasesCounted
  <2>2. ASSUME NEW u \in Threads, thread'[u].pc = "opening"
        PROVE  thread'[u].portal = current'
    <3>1. u # t /\ thread'[u] = thread[u]
      BY <1>3, <2>2
    <3>2. thread'[u].bus \in Leaseholders'
      BY <2>2 DEF Leaseholders, Leaseholder, LeaseTypes
    <3>3. current' = current
      BY <1>1, <3>2
    <3> QED  BY <2>2, <3>1, <3>3 DEF LeaseInv, LeasesCounted
  <2>3. ASSUME NEW u \in Threads, thread'[u].pc = "stopping"
        PROVE  /\ thread'[u].portal \in Portals /\ thread'[u].portal # current'
               /\ portal'[thread'[u].portal] # "unused"
    <3>1. CASE u = t
      <4>1. leases = 1 /\ thread'[u].portal = current
        BY <1>3, <2>3, <3>1
      <4>2. current' = NoPortal
        BY <1>1, <4>1
      <4> QED  BY <1>1, <1>2, <4>1, <4>2
    <3>2. CASE u # t
      BY <1>1, <1>3, <2>3, <3>2 DEF LeaseInv, LeasesCounted
    <3> QED  BY <3>1, <3>2
  <2> QED  BY <1>1, <1>2, <2>1, <2>2, <2>3 DEF LeasesCounted
<1>5. ASSUME NEW p \in Portals, portal'[p] = "running"
      PROVE  \/ \E c \in Buses : /\ sync'[c].portal = p
                                 /\ sync'[c].entered \/ ghost'[c].closedOnLoop
             \/ \E u \in Threads : /\ thread'[u].portal = p
                                   /\ thread'[u].pc \in {"opening", "stopping"}
  <2>1. CASE p = current /\ leases = 1
    BY <1>3, <2>1
  <2>2. CASE p = current /\ leases # 1
    <3>1. PICK c \in Leaseholders' : c \in Buses /\ Leaseholder(c)'
      BY <1>1, <2>2 DEF Leaseholders
    <3>2. CASE sync'[c].entered
      BY <2>2, <3>1, <3>2 DEF LeaseInv, LeasesCounted
    <3>3. CASE ~sync'[c].entered
      <4>1. PICK u \in Threads : thread'[u].pc = "opening"
        BY <3>1, <3>3 DEF Leaseholder
      <4>2. u # t /\ thread'[u] = thread[u]
        BY <1>3, <4>1
      <4> QED  BY <2>2, <4>1, <4>2 DEF LeaseInv, LeasesCounted
    <3> QED  BY <3>2, <3>3
  <2>3. CASE p # current
    <3>1. CASE \E c \in Buses : sync[c].portal = p /\ (sync[c].entered \/ ghost[c].closedOnLoop)
      BY <2>3, <3>1 DEF LeaseInv, LeasesCounted
    <3>2. CASE \E u \in Threads : thread[u].portal = p /\ thread[u].pc \in {"opening", "stopping"}
      BY <1>3, <2>3, <3>2 DEF LeaseInv, LeasesCounted
    <3> QED  BY <1>1, <1>5, <3>1, <3>2 DEF LeaseInv, OrphanOnlyFromLoop
  <2> QED  BY <2>1, <2>2, <2>3
<1> QED  BY <1>3, <1>4, <1>5 DEF OrphanOnlyFromLoop

(* A bus that a thread is opening or has entered is a leaseholder by that   *)
(* alone.                                                                  *)
LEMMA OneLeasePerBus ==
  ASSUME LeaseInv
  PROVE  /\ \A b \in Buses : sync[b].entered => b \in Leaseholders
         /\ \A t \in Threads : thread[t].pc = "opening" =>
              /\ thread[t].bus \in Leaseholders
              /\ ~sync[thread[t].bus].made /\ ~sync[thread[t].bus].entered
              /\ \A u \in Threads : thread[u].pc = "opening" /\ u # t =>
                   thread[u].bus # thread[t].bus
         /\ \A b \in Buses : sync[b].entered =>
              \A t \in Threads : thread[t].pc = "opening" => thread[t].bus # b
BY DEF LeaseInv, LeaseTypes, OpenedOnce, Leaseholders, Leaseholder

(* An open takes a lease for its bus.                                      *)
LEMMA OpenLeases ==
  ASSUME LeaseInv, LeaseTypes', NEW t \in Threads, NEW b \in Buses, TypeInv, Open(t, b)
  PROVE  LeaseInv'
<1>1. /\ portal' \in [Portals -> {"unused", "running", "stopping", "stopped"}]
      /\ current' \in Portals /\ leases' = leases + 1
      /\ current = NoPortal => /\ portal[current'] = "unused"
                               /\ portal' = [portal EXCEPT ![current'] = "running"]
      /\ current # NoPortal => UNCHANGED <<portal, current>>
  BY LeaseStep DEF Open, LeaseInv
<1>2. PICK k \in Tasks : thread' = [thread EXCEPT ![t] = [pc |-> "opening", bus |-> b,
                                                         task |-> k, portal |-> current']]
  <2>1. Spawn(t, "opening", "open", b, current')
    BY DEF Open
  <2>2. (CHOOSE x \in Tasks : task[x] = NoTask) \in Tasks
    BY <2>1 DEF Spawn
  <2> QED  BY <2>1, <2>2 DEF Spawn
<1>3. /\ thread'[t].pc = "opening" /\ thread'[t].bus = b /\ thread'[t].portal = current'
      /\ \A u \in Threads : u # t => thread'[u] = thread[u]
      /\ thread[t].pc = "idle" /\ ~ghost[b].opened
      /\ sync' = sync
  BY <1>2 DEF Open, LeaseInv, LeaseTypes, busVars
<1>4. /\ \A c \in Buses : ghost'[c].opened <=> ghost[c].opened \/ c = b
      /\ \A c \in Buses : ghost'[c].closedOnLoop = ghost[c].closedOnLoop
  BY DEF Open, LeaseInv, LeaseTypes, GhostRec
<1>5. b \notin Leaseholders
  BY <1>3 DEF LeaseInv, OpenedOnce, Leaseholders, Leaseholder
<1>6. Leaseholders' = Leaseholders \cup {b}
  BY <1>3 DEF Leaseholders, Leaseholder
<1>7. leases' = Cardinality(Leaseholders') /\ leases' # 0
  <2>1. Cardinality(Leaseholders') = Cardinality(Leaseholders) + 1
    BY <1>5, <1>6, HoldersFinite, FS_AddElement
  <2> QED  BY <1>1, <2>1, HoldersFinite DEF LeaseInv, LeasesCounted
<1>8. OpenedOnce'
  <2>1. \A u \in Threads : thread[u].pc = "opening" => thread[u].bus # b
    BY <1>3 DEF LeaseInv, OpenedOnce
  <2>2. ~sync[b].made
    BY <1>3 DEF LeaseInv, OpenedOnce
  <2>3. \A u \in Threads : thread'[u].pc # "idle" => thread'[u].bus \in Buses
    BY DEF LeaseTypes
  <2> QED  BY <1>3, <1>4, <2>1, <2>2, <2>3 DEF LeaseInv, OpenedOnce
<1>9. current' # NoPortal /\ portal'[current'] = "running"
  BY <1>1 DEF LeaseInv, LeaseTypes, LeasesCounted
<1>10. ASSUME NEW p \in Portals, p # current'  PROVE portal'[p] = portal[p]
  BY <1>1, <1>10 DEF LeaseInv, LeaseTypes
<1>11. LeasesCounted'
  <2>1. ASSUME NEW c \in Buses, sync'[c].entered  PROVE sync'[c].portal = current'
    <3>1. c \in Leaseholders
      BY <1>3, <2>1, OneLeasePerBus
    <3> QED  BY <1>1, <1>3, <2>1, <3>1, LeaseholderServed DEF LeaseInv, LeasesCounted
  <2>2. ASSUME NEW u \in Threads, thread'[u].pc = "opening"
        PROVE  thread'[u].portal = current'
    <3>1. CASE u # t
      <4>1. thread'[u] = thread[u] /\ thread[u].bus \in Leaseholders
        BY <1>3, <2>2, <3>1, OneLeasePerBus
      <4> QED  BY <1>1, <2>2, <4>1, LeaseholderServed DEF LeaseInv, LeasesCounted
    <3> QED  BY <1>3, <3>1
  <2>3. ASSUME NEW u \in Threads, thread'[u].pc = "stopping"
        PROVE  /\ thread'[u].portal \in Portals /\ thread'[u].portal # current'
               /\ portal'[thread'[u].portal] # "unused"
    <3>1. thread'[u] = thread[u] /\ u # t
      BY <1>3, <2>3
    <3>2. /\ thread[u].portal \in Portals /\ thread[u].portal # current
          /\ portal[thread[u].portal] # "unused"
      BY <2>3, <3>1 DEF LeaseInv, LeasesCounted
    <3> QED  BY <1>1, <1>10, <3>1, <3>2
  <2> QED  BY <1>7, <1>9, <2>1, <2>2, <2>3 DEF LeasesCounted
<1>12. OrphanOnlyFromLoop'
  <2> SUFFICES ASSUME NEW p \in Portals, portal'[p] = "running", p # current'
               PROVE  \/ \E c \in Buses : /\ sync'[c].portal = p
                                          /\ sync'[c].entered \/ ghost'[c].closedOnLoop
                      \/ \E u \in Threads : /\ thread'[u].portal = p
                                            /\ thread'[u].pc \in {"opening", "stopping"}
    BY <1>3 DEF OrphanOnlyFromLoop
  <2>1. portal[p] = "running"
    BY <1>10
  <2>2. CASE \E c \in Buses : sync[c].portal = p /\ (sync[c].entered \/ ghost[c].closedOnLoop)
    BY <1>3, <1>4, <2>2
  <2>3. CASE \E u \in Threads : thread[u].portal = p /\ thread[u].pc \in {"opening", "stopping"}
    BY <1>3, <2>3
  <2> QED  BY <2>1, <2>2, <2>3 DEF LeaseInv, OrphanOnlyFromLoop
<1> QED  BY <1>8, <1>11, <1>12 DEF LeaseInv

(* The other steps of a thread.                                            *)
LEMMA OpenedLeases ==
  ASSUME LeaseInv, LeaseTypes', NEW t \in Threads, Opened(t)
  PROVE  LeaseInv'
<1> DEFINE b == thread[t].bus
<1>1. thread[t].pc = "opening" /\ b \in Buses /\ thread[t].portal = current
  BY DEF Opened, Done, LeaseInv, LeaseTypes, LeasesCounted
<1>2. /\ thread'[t].pc = "idle"
      /\ \A u \in Threads : u # t => thread'[u] = thread[u]
      /\ UNCHANGED portalVars /\ ghost' = ghost
  BY DEF Opened, AtRest, LeaseInv, LeaseTypes
<1>3. /\ sync'[b] = [made |-> TRUE, closed |-> FALSE, entered |-> TRUE, portal |-> current]
      /\ \A c \in Buses : c # b => sync'[c] = sync[c]
  BY <1>1 DEF Opened, LeaseInv, LeaseTypes
<1>4. /\ b \in Leaseholders /\ ~sync[b].made
      /\ \A u \in Threads : thread[u].pc = "opening" /\ u # t => thread[u].bus # b
  BY <1>1, OneLeasePerBus
<1>5. Leaseholders' = Leaseholders
  BY <1>1, <1>2, <1>3, <1>4 DEF Leaseholders, Leaseholder
<1>6. OpenedOnce'
  BY <1>1, <1>2, <1>3, <1>4 DEF LeaseInv, LeaseTypes, OpenedOnce
<1>7. LeasesCounted'
  BY <1>1, <1>2, <1>3, <1>5 DEF LeaseInv, LeasesCounted, portalVars
<1>8. OrphanOnlyFromLoop'
  <2> SUFFICES ASSUME NEW p \in Portals, portal'[p] = "running"
               PROVE  \/ \E c \in Buses : /\ sync'[c].portal = p
                                          /\ sync'[c].entered \/ ghost'[c].closedOnLoop
                      \/ \E u \in Threads : /\ thread'[u].portal = p
                                            /\ thread'[u].pc \in {"opening", "stopping"}
    BY DEF OrphanOnlyFromLoop
  <2>1. portal[p] = "running"
    BY <1>2 DEF portalVars
  <2>2. CASE \E c \in Buses : sync[c].portal = p /\ (sync[c].entered \/ ghost[c].closedOnLoop)
    <3>1. PICK c \in Buses : sync[c].portal = p /\ (sync[c].entered \/ ghost[c].closedOnLoop)
      BY <2>2
    <3>2. c # b
      BY <1>4, <3>1 DEF LeaseInv, OpenedOnce
    <3> QED  BY <1>2, <1>3, <3>1, <3>2
  <2>3. CASE \E u \in Threads : thread[u].portal = p /\ thread[u].pc \in {"opening", "stopping"}
    BY <1>1, <1>2, <1>3, <2>3
  <2> QED  BY <2>1, <2>2, <2>3 DEF LeaseInv, OrphanOnlyFromLoop
<1> QED  BY <1>6, <1>7, <1>8 DEF LeaseInv

(* A thread whose open failed or was interrupted gives its lease up.       *)
LEMMA AbortedOpenLeases ==
  ASSUME LeaseInv, LeaseTypes', NEW t \in Threads, thread[t].pc = "opening", Exit(t),
         UNCHANGED <<sync, ghost>>
  PROVE  LeaseInv'
<1> DEFINE b == thread[t].bus
<1>1. /\ b \in Leaseholders /\ b \in Buses /\ ~sync[b].entered
      /\ thread[t].portal = current
      /\ \A u \in Threads : thread[u].pc = "opening" /\ u # t => thread[u].bus # b
  BY OneLeasePerBus DEF LeaseInv, LeaseTypes, LeasesCounted
<1>2. /\ thread'[t].pc \in {"idle", "stopping"}
      /\ \A u \in Threads : u # t => thread'[u] = thread[u]
  BY ExitThread DEF LeaseInv
<1>3. Leaseholders' = Leaseholders \ {b}
  BY <1>1, <1>2 DEF Leaseholders, Leaseholder
<1>4. LeasesCounted' /\ OrphanOnlyFromLoop'
  BY <1>1, <1>3, ExitServes
<1>5. OpenedOnce'
  BY <1>2 DEF LeaseInv, LeaseTypes, OpenedOnce
<1> QED  BY <1>4, <1>5 DEF LeaseInv

(* _release_portal gives the lease of a closed bus up.                     *)
LEMMA ReleaseLeases ==
  ASSUME LeaseInv, LeaseTypes', NEW t \in Threads, Release(t)
  PROVE  LeaseInv'
<1> DEFINE b == thread[t].bus
<1>1. /\ thread[t].pc = "releasing" /\ b \in Buses /\ sync[b].made /\ sync[b].closed
      /\ thread[t].portal = sync[b].portal
  BY DEF Release, LeaseInv, LeaseTypes, OpenedOnce
<1>2. CASE sync[b].entered
  <2>1. Exit(t) /\ sync' = [sync EXCEPT ![b].entered = FALSE] /\ ghost' = ghost
    BY <1>2 DEF Release
  <2>2. /\ ~sync'[b].entered /\ sync'[b].made = sync[b].made
        /\ sync'[b].closed = sync[b].closed /\ sync'[b].portal = sync[b].portal
        /\ \A c \in Buses : c # b => sync'[c] = sync[c]
    BY <1>1, <2>1 DEF LeaseInv, LeaseTypes, SyncRec
  <2>3. /\ thread'[t].pc \in {"idle", "stopping"}
        /\ \A u \in Threads : u # t => thread'[u] = thread[u]
    BY <2>1, ExitThread DEF LeaseInv
  <2>4. /\ b \in Leaseholders
        /\ \A u \in Threads : thread[u].pc = "opening" => thread[u].bus # b
    BY <1>1, <1>2, OneLeasePerBus
  <2>5. Leaseholders' = Leaseholders \ {b}
    BY <1>1, <2>2, <2>3, <2>4 DEF Leaseholders, Leaseholder
  <2>6. thread[t].portal = current
    BY <1>1, <1>2 DEF LeaseInv, LeasesCounted
  <2>7. LeasesCounted' /\ OrphanOnlyFromLoop'
    BY <1>1, <2>1, <2>2, <2>4, <2>5, <2>6, ExitServes
  <2>8. OpenedOnce'
    BY <1>1, <2>1, <2>2, <2>3 DEF LeaseInv, LeaseTypes, OpenedOnce
  <2> QED  BY <2>7, <2>8 DEF LeaseInv
<1>3. CASE ~sync[b].entered
  <2>1. thread' = [thread EXCEPT ![t] = AtRest] /\ UNCHANGED <<portalVars, sync, ghost>>
    BY <1>3 DEF Release
  <2>2. AtRest \in ThreadRec /\ AtRest.pc = "idle"
    BY AtRestType DEF AtRest
  <2> QED  BY <1>1, <2>1, <2>2, LeaseKept
<1> QED  BY <1>2, <1>3

(* A portal is stopped, and ends, that nobody leases.                      *)
LEMMA StopLeases ==
  ASSUME LeaseInv, LeaseTypes', NEW p \in Portals, p # current, portal[p] # "unused",
         UNCHANGED <<current, leases, sync, ghost>>,
         \A q \in Portals : q # p => portal'[q] = portal[q],
         portal'[p] \in {"stopping", "stopped"},
         \A u \in Threads :
           \/ thread'[u] = thread[u]
           \/ /\ thread[u].pc = "stopping" /\ thread[u].portal = p
              /\ thread'[u].pc = "joining"
  PROVE  LeaseInv'
<1>1. Leaseholders' = Leaseholders
  BY DEF Leaseholders, Leaseholder
<1>2. OpenedOnce'
  BY DEF LeaseInv, OpenedOnce
<1>3. LeasesCounted'
  <2>1. current # NoPortal => portal'[current] = "running"
    BY DEF LeaseInv, LeaseTypes, LeasesCounted
  <2>2. \A u \in Threads : thread'[u].pc \in {"opening", "stopping"} => thread'[u] = thread[u]
    OBVIOUS
  <2>3. \A q \in Portals : portal[q] # "unused" => portal'[q] # "unused"
    OBVIOUS
  <2> QED  BY <1>1, <2>1, <2>2, <2>3 DEF LeaseInv, LeasesCounted
<1>4. OrphanOnlyFromLoop'
  <2> SUFFICES ASSUME NEW q \in Portals, portal'[q] = "running"
               PROVE  \/ \E c \in Buses : /\ sync'[c].portal = q
                                          /\ sync'[c].entered \/ ghost'[c].closedOnLoop
                      \/ \E u \in Threads : /\ thread'[u].portal = q
                                            /\ thread'[u].pc \in {"opening", "stopping"}
    BY DEF OrphanOnlyFromLoop
  <2>1. q # p /\ portal[q] = "running"
    OBVIOUS
  <2>2. CASE \E c \in Buses : sync[c].portal = q /\ (sync[c].entered \/ ghost[c].closedOnLoop)
    BY <2>2
  <2>3. CASE \E u \in Threads : thread[u].portal = q /\ thread[u].pc \in {"opening", "stopping"}
    <3>1. PICK u \in Threads : thread[u].portal = q /\ thread[u].pc \in {"opening", "stopping"}
      BY <2>3
    <3>2. thread'[u] = thread[u]
      BY <2>1, <3>1
    <3> QED  BY <3>1, <3>2
  <2> QED  BY <2>1, <2>2, <2>3 DEF LeaseInv, OrphanOnlyFromLoop
<1> QED  BY <1>2, <1>3, <1>4 DEF LeaseInv

(* So does a close on the loop, which leaves the portal running.           *)
LEMMA CloseOnLoopLeases ==
  ASSUME LeaseInv, LeaseTypes', NEW b \in Buses, CloseOnLoop(b)
  PROVE  LeaseInv'
<1>1. sync[b].made /\ sync[b].entered /\ thread' = thread
  BY DEF CloseOnLoop, LeaseInv, OpenedOnce
<1>2. /\ ~sync'[b].entered /\ sync'[b].made /\ sync'[b].closed /\ sync'[b].portal = sync[b].portal
      /\ \A c \in Buses : c # b => sync'[c] = sync[c]
  BY <1>1 DEF CloseOnLoop, LeaseInv, LeaseTypes, SyncRec
<1>3. /\ ghost'[b].closedOnLoop /\ ghost'[b].opened = ghost[b].opened
      /\ \A c \in Buses : c # b => ghost'[c] = ghost[c]
  BY DEF CloseOnLoop, LeaseInv, LeaseTypes, GhostRec
<1>4. /\ b \in Leaseholders
      /\ \A u \in Threads : thread[u].pc = "opening" => thread[u].bus # b
  BY <1>1, OneLeasePerBus
<1>5. Leaseholders' = Leaseholders \ {b}
  BY <1>1, <1>2, <1>4 DEF Leaseholders, Leaseholder
<1>6. /\ leases' = Cardinality(Leaseholders')
      /\ leases' = 0 <=> current' = NoPortal
      /\ current' # NoPortal => current' = current
      /\ leases' = 0 <=> Leaseholders' = {}
      /\ portal' = portal
  <2>1. Unlease /\ leases \in Int
    BY DEF CloseOnLoop, LeaseInv, LeaseTypes
  <2>2. leases' = leases - 1
    BY <2>1 DEF Unlease
  <2>3. /\ leases' = Cardinality(Leaseholders')
        /\ leases = 1 <=> Leaseholders' = {}
        /\ leases' = 0 <=> current' = NoPortal
        /\ current' # NoPortal => current' = current
        /\ portal' = portal
    BY <1>4, <1>5, <2>1, LeaseGivenUp
  <2> QED  BY <2>1, <2>2, <2>3
<1>7. OpenedOnce'
  BY <1>1, <1>2, <1>3 DEF LeaseInv, LeaseTypes, OpenedOnce
<1>8. \A c \in Leaseholders' : current' = current
  BY <1>6
<1>9. LeasesCounted'
  <2>1. \A c \in Buses : sync'[c].entered => c \in Leaseholders'
    BY DEF Leaseholders, Leaseholder
  <2>2. \A u \in Threads : thread'[u].pc = "opening" => thread'[u].bus \in Leaseholders'
    BY DEF Leaseholders, Leaseholder, LeaseTypes
  <2>3. \A c \in Buses : sync'[c].entered => sync'[c].portal = current'
    BY <1>2, <1>8, <2>1 DEF LeaseInv, LeasesCounted
  <2>4. \A u \in Threads : thread'[u].pc = "opening" => thread'[u].portal = current'
    BY <1>1, <1>8, <2>2 DEF LeaseInv, LeasesCounted
  <2> QED  BY <1>1, <1>6, <2>3, <2>4 DEF LeaseInv, LeasesCounted
<1>10. OrphanOnlyFromLoop'
  BY <1>1, <1>2, <1>3, <1>6 DEF LeaseInv, OrphanOnlyFromLoop
<1> QED  BY <1>7, <1>9, <1>10 DEF LeaseInv

(* Every step of a thread keeps the leases counted.                        *)
LEMMA ThreadStepLeases ==
  ASSUME LeaseInv, TypeInv, TypeInv', NEW t \in Threads,
         \/ ThreadStep(t) \/ Interrupt(t)
         \/ \E b \in Buses : Open(t, b) \/ Request(t, b) \/ Close(t, b)
  PROVE  LeaseInv'
<1> DEFINE r == thread[t]
<1>a. /\ r \in ThreadRec /\ (r.pc # "idle" => r.bus \in Buses)
      /\ AtRest \in ThreadRec /\ AtRest.pc = "idle" /\ LeaseTypes'
  BY AtRestType DEF TypeInv, LeaseTypes, AtRest
<1>b. /\ [r EXCEPT !.pc = "releasing", !.task = Nobody] \in ThreadRec
      /\ [r EXCEPT !.pc = "releasing", !.task = Nobody].pc = "releasing"
      /\ [r EXCEPT !.pc = "releasing", !.task = Nobody].bus = r.bus
      /\ [r EXCEPT !.pc = "releasing", !.task = Nobody].portal = r.portal
  BY <1>a DEF ThreadRec, Pcs
<1>c. r.pc = "closing" => /\ sync[r.bus].made /\ sync[r.bus].closed
                          /\ r.portal = sync[r.bus].portal
  BY DEF LeaseInv, OpenedOnce
<1> HIDE DEF r
<1>1. CASE Opened(t)
  BY <1>a, <1>1, OpenedLeases
<1>2. CASE OpenFailed(t)
  BY <1>a, <1>2, AbortedOpenLeases DEF OpenFailed, Done, busVars
<1>3. CASE Returned(t)
  <2>1. /\ thread' = [thread EXCEPT ![t] = AtRest] /\ r.pc = "calling"
        /\ UNCHANGED <<portalVars, sync, ghost>>
    BY <1>3 DEF Returned, Done, busVars, r
  <2> QED  BY <1>a, <2>1, LeaseKept DEF r
<1>4. CASE Closed(t)
  <2>1. /\ thread' = [thread EXCEPT ![t] = [r EXCEPT !.pc = "releasing", !.task = Nobody]]
        /\ r.pc = "closing"
        /\ UNCHANGED <<portalVars, sync>>
    BY <1>4 DEF Closed, Done, busVars, r
  <2>2. \A b \in Buses : /\ ghost'[b].opened = ghost[b].opened
                         /\ ghost'[b].closedOnLoop = ghost[b].closedOnLoop
    BY <1>4 DEF Closed, TypeInv, LeaseTypes, GhostRec
  <2> QED  BY <1>a, <1>b, <1>c, <2>1, <2>2, LeaseKept DEF r
<1>5. CASE Release(t)
  BY <1>a, <1>5, ReleaseLeases
<1>6. CASE StopPortal(t)
  <2>1. /\ r.pc = "stopping" /\ r.portal \in Portals /\ r.portal # current
        /\ portal[r.portal] # "unused"
    BY <1>6 DEF StopPortal, LeaseInv, LeasesCounted, r
  <2>2. /\ UNCHANGED <<current, leases, sync, ghost>>
        /\ \A q \in Portals : q # r.portal => portal'[q] = portal[q]
        /\ portal'[r.portal] \in {"stopping", "stopped"}
    BY <1>6, <2>1 DEF StopPortal, Stop, busVars, TypeInv, LeaseTypes, r
  <2>3. thread'[t].pc = "joining" /\ \A u \in Threads : u # t => thread'[u] = thread[u]
    BY <1>6 DEF StopPortal, TypeInv, LeaseTypes, ThreadRec
  <2> DEFINE p == r.portal
  <2>4. \A u \in Threads :
          \/ thread'[u] = thread[u]
          \/ /\ thread[u].pc = "stopping" /\ thread[u].portal = p
             /\ thread'[u].pc = "joining"
    BY <2>1, <2>3 DEF r
  <2> HIDE DEF p
  <2> QED  BY <1>a, <2>1, <2>2, <2>4, StopLeases DEF p
<1>7. CASE Joined(t)
  <2>1. /\ thread' = [thread EXCEPT ![t] = AtRest] /\ r.pc = "joining"
        /\ UNCHANGED <<portalVars, sync, ghost>>
    BY <1>7 DEF Joined, busVars, r
  <2> QED  BY <1>a, <2>1, LeaseKept DEF r
<1>8. CASE Interrupt(t)
  <2>1. UNCHANGED <<sync, ghost>> /\ r.pc \in {"opening", "calling", "closing"}
    BY <1>8 DEF Interrupt, busVars, r
  <2>2. CASE r.pc = "opening"
    BY <1>a, <1>8, <2>1, <2>2, AbortedOpenLeases DEF Interrupt, r
  <2>3. CASE r.pc = "calling"
    <3>1. thread' = [thread EXCEPT ![t] = AtRest] /\ UNCHANGED portalVars
      BY <1>8, <2>3 DEF Interrupt, r
    <3> QED  BY <1>a, <2>1, <2>3, <3>1, LeaseKept DEF r
  <2>4. CASE r.pc = "closing"
    <3>1. /\ thread' = [thread EXCEPT ![t] = [r EXCEPT !.pc = "releasing", !.task = Nobody]]
          /\ UNCHANGED portalVars
      BY <1>8, <2>4 DEF Interrupt, r
    <3> QED  BY <1>a, <1>b, <1>c, <2>1, <2>4, <3>1, LeaseKept DEF r
  <2> QED  BY <2>1, <2>2, <2>3, <2>4
<1>9. ASSUME NEW b \in Buses, Open(t, b)  PROVE LeaseInv'
  BY <1>a, <1>9, OpenLeases
<1>10. ASSUME NEW b \in Buses, Request(t, b)  PROVE LeaseInv'
  <2>1. PICK kind \in Kinds : Spawn(t, "calling", kind, b, sync[b].portal)
    BY <1>10 DEF Request
  <2>2. \E k : /\ k \in Tasks
               /\ thread' = [thread EXCEPT ![t] = [pc |-> "calling", bus |-> b, task |-> k,
                                                   portal |-> sync[b].portal]]
    <3>1. \E k \in Tasks : task[k] = NoTask
      BY <2>1 DEF Spawn
    <3>2. (CHOOSE x \in Tasks : task[x] = NoTask) \in Tasks
      BY <3>1
    <3> QED  BY <2>1, <3>2 DEF Spawn
  <2>3. PICK k \in Tasks :
          thread' = [thread EXCEPT ![t] = [pc |-> "calling", bus |-> b, task |-> k,
                                           portal |-> sync[b].portal]]
    BY <2>2
  <2> DEFINE q == [pc |-> "calling", bus |-> b, task |-> k, portal |-> sync[b].portal]
  <2>4. q \in ThreadRec /\ q.pc = "calling"
    BY DEF ThreadRec, Pcs, TypeInv, LeaseTypes, SyncRec
  <2>5. /\ UNCHANGED <<portalVars, sync>> /\ r.pc = "idle"
        /\ \A c \in Buses : /\ ghost'[c].opened = ghost[c].opened
                            /\ ghost'[c].closedOnLoop = ghost[c].closedOnLoop
    BY <1>10 DEF Request, busVars, TypeInv, LeaseTypes, GhostRec, r
  <2> HIDE DEF q
  <2>6. thread' = [thread EXCEPT ![t] = q]
    BY <2>3 DEF q
  <2> QED  BY <1>a, <2>4, <2>5, <2>6, LeaseKept DEF r
<1>11. ASSUME NEW b \in Buses, Close(t, b)  PROVE LeaseInv'
  <2>1. \E k \in Tasks \cup {Nobody}, pc \in {"closing", "releasing"} :
          thread' = [thread EXCEPT ![t] = [pc |-> pc, bus |-> b, task |-> k,
                                           portal |-> sync[b].portal]]
    <3>1. CASE Accepts(sync[b].portal)
      <4>1. Spawn(t, "closing", "aclose", b, sync[b].portal)
        BY <1>11, <3>1 DEF Close
      <4>2. (CHOOSE x \in Tasks : task[x] = NoTask) \in Tasks
        BY <4>1 DEF Spawn
      <4> QED  BY <4>1, <4>2 DEF Spawn
    <3>2. CASE ~Accepts(sync[b].portal)
      BY <1>11, <3>2 DEF Close
    <3> QED  BY <3>1, <3>2
  <2>2. PICK k \in Tasks \cup {Nobody}, pc \in {"closing", "releasing"} :
          thread' = [thread EXCEPT ![t] = [pc |-> pc, bus |-> b, task |-> k,
                                           portal |-> sync[b].portal]]
    BY <2>1
  <2> DEFINE q == [pc |-> pc, bus |-> b, task |-> k, portal |-> sync[b].portal]
  <2>3. /\ q \in ThreadRec /\ q.pc \notin {"opening", "stopping"} /\ q.bus = b
        /\ q.portal = sync[b].portal
    BY DEF ThreadRec, Pcs, TypeInv, LeaseTypes, SyncRec
  <2>4. /\ sync'[b].made /\ sync'[b].closed /\ sync'[b].entered = sync[b].entered
        /\ sync'[b].portal = sync[b].portal /\ sync[b].made
        /\ \A c \in Buses : c # b => sync'[c] = sync[c]
    BY <1>11 DEF Close, TypeInv, LeaseTypes, SyncRec
  <2>5. /\ UNCHANGED <<portalVars, ghost>> /\ r.pc = "idle"
    <3>1. r.pc = "idle"
      BY <1>11 DEF Close, r
    <3> HIDE DEF r, q
    <3> QED  BY <1>11, <3>1, Zenon DEF Close
  <2> HIDE DEF q
  <2>6. thread' = [thread EXCEPT ![t] = q]
    BY <2>2 DEF q
  <2>7. sync[b].made \in BOOLEAN /\ sync'[b].made \in BOOLEAN
    BY DEF TypeInv, LeaseTypes, SyncRec
  <2> QED  BY <1>a, <2>3, <2>4, <2>5, <2>6, <2>7, LeaseKept DEF r
<1> QED  BY <1>1, <1>2, <1>3, <1>4, <1>5, <1>6, <1>7, <1>8, <1>9, <1>10, <1>11 DEF ThreadStep

(* Steps of tasks leave the threads and the leases alone, and of the bus   *)
(* objects and their history what concerns these.                          *)
LEMMA TaskStepFrame ==
  ASSUME TypeInv, NEW k \in Tasks, TaskStep(k) \/ Cancel(k)
  PROVE  /\ UNCHANGED <<portalVars, sync, thread, scope, observers>>
         /\ \A b \in Buses : /\ ghost'[b].opened = ghost[b].opened
                             /\ ghost'[b].closedOnLoop = ghost[b].closedOnLoop
                             /\ ghost'[b].closeReturned = ghost[b].closeReturned
<1>1. UNCHANGED <<portalVars, sync, thread, scope, observers>>
  BY DEF TaskStep, Cancel, OpenPort, Start, Acquire, Send, Attempt, AttemptEnds, Deliver,
         Reported, BackoffEnds, StartAclose, StreamCloses, Forgotten, busVars
<1>2. \/ UNCHANGED ghost
      \/ \E log, kept, told : ghost' = [ghost EXCEPT ![task[k].bus].log = log,
                                ![task[k].bus].kept = kept, ![task[k].bus].told = told]
      \/ \E kept, told : ghost' = [ghost EXCEPT ![task[k].bus].kept = kept,
                                                 ![task[k].bus].told = told]
      \/ \E told : ghost' = [ghost EXCEPT ![task[k].bus].told = told]
      \/ \E n : ghost' = [ghost EXCEPT ![task[k].bus].gaveUp = n]
  <2>1. ASSUME NEW outcome, AttemptEnds(k, outcome)
        PROVE  \E log, kept, told : ghost' = [ghost EXCEPT ![task[k].bus].log = log,
                                ![task[k].bus].kept = kept, ![task[k].bus].told = told]
    BY <2>1, Zenon DEF AttemptEnds
  <2>2. CASE Attempt(k)
    BY <2>1, <2>2 DEF Attempt
  <2>3. CASE Deliver(k)
    BY <2>3 DEF Deliver
  <2>4. CASE Reported(k)
    BY <2>4, Zenon DEF Reported, ReportOver
  <2>5. CASE Cancel(k)
    BY <2>1, <2>5 DEF Cancel
  <2>6. CASE ~(Attempt(k) \/ Deliver(k) \/ Reported(k) \/ Cancel(k))
    BY <2>6 DEF TaskStep, OpenPort, Start, Acquire, Send, BackoffEnds, StartAclose, StreamCloses,
                Forgotten
  <2> QED  BY <2>2, <2>3, <2>4, <2>5, <2>6
<1>3. ghost \in [Buses -> GhostRec]
  BY DEF TypeInv, LeaseTypes
<1>4. CASE UNCHANGED ghost
  BY <1>1, <1>4
<1>5. CASE \E log, kept, told : ghost' = [ghost EXCEPT ![task[k].bus].log = log,
                            ![task[k].bus].kept = kept, ![task[k].bus].told = told]
  BY <1>1, <1>3, <1>5 DEF GhostRec
<1>6. CASE \E kept, told : ghost' = [ghost EXCEPT ![task[k].bus].kept = kept,
                                             ![task[k].bus].told = told]
  BY <1>1, <1>3, <1>6 DEF GhostRec
<1>7. CASE \E told : ghost' = [ghost EXCEPT ![task[k].bus].told = told]
  BY <1>1, <1>3, <1>7 DEF GhostRec
<1>8. CASE \E n : ghost' = [ghost EXCEPT ![task[k].bus].gaveUp = n]
  BY <1>1, <1>3, <1>8 DEF GhostRec
<1> QED  BY <1>2, <1>4, <1>5, <1>6, <1>7, <1>8

(* Steps that leave the portal, the bus objects and the threads alone.     *)
LEMMA NothingLeased ==
  ASSUME LeaseInv, LeaseTypes', UNCHANGED <<portalVars, sync, thread>>,
         \A b \in Buses : /\ ghost'[b].opened = ghost[b].opened
                          /\ ghost'[b].closedOnLoop = ghost[b].closedOnLoop
  PROVE  LeaseInv'
<1>1. Leaseholders' = Leaseholders
  BY DEF Leaseholders, Leaseholder
<1>2. OpenedOnce'
  BY DEF LeaseInv, LeaseTypes, OpenedOnce
<1>3. LeasesCounted'
  BY <1>1 DEF LeaseInv, LeasesCounted, portalVars
<1>4. OrphanOnlyFromLoop'
  BY DEF LeaseInv, OrphanOnlyFromLoop, portalVars
<1> QED  BY <1>2, <1>3, <1>4 DEF LeaseInv

(* The other steps keep the leases counted.                                *)
LEMMA OtherStepLeases ==
  ASSUME LeaseInv, TypeInv, TypeInv', Others
  PROVE  LeaseInv'
<1>a. LeaseTypes'
  BY DEF TypeInv
<1>1. ASSUME NEW p \in Portals, PortalEnds(p)  PROVE LeaseInv'
  <2>1. /\ portal[p] = "stopping" /\ portal' = [portal EXCEPT ![p] = "stopped"]
        /\ UNCHANGED <<current, leases, sync, ghost, thread>>
    BY <1>1 DEF PortalEnds, Ends, busVars
  <2>2. p # current
    BY <2>1 DEF LeaseInv, LeasesCounted
  <2>3. /\ portal'[p] \in {"stopping", "stopped"}
        /\ \A q \in Portals : q # p => portal'[q] = portal[q]
    BY <2>1 DEF LeaseInv, LeaseTypes
  <2> QED  BY <1>a, <2>1, <2>2, <2>3, StopLeases
<1>2. ASSUME NEW b \in Buses, CloseOnLoop(b)  PROVE LeaseInv'
  BY <1>a, <1>2, CloseOnLoopLeases
<1>3. ASSUME NEW b \in Buses, NEW o \in Observers, AddTransactionObserver(b, o)
      PROVE  LeaseInv'
  BY <1>a, <1>3, NothingLeased DEF AddTransactionObserver
<1>4. ASSUME NEW b \in Buses, NEW o \in Observers, RemoveObserver(b, o)  PROVE LeaseInv'
  <2>1. \A c \in Buses : /\ ghost'[c].opened = ghost[c].opened
                         /\ ghost'[c].closedOnLoop = ghost[c].closedOnLoop
    <3> DEFINE left == Count(observers[b], o) - 1
               now  == [ghost[b].kept EXCEPT ![o] = IF @ > left THEN left ELSE @]
    <3>1. ghost' = [ghost EXCEPT ![b] = [ghost[b] EXCEPT !.kept = now]]
      BY <1>4 DEF RemoveObserver
    <3> HIDE DEF now
    <3> QED  BY <3>1 DEF TypeInv, LeaseTypes, GhostRec
  <2> QED  BY <1>a, <1>4, <2>1, NothingLeased DEF RemoveObserver
<1>5. ASSUME NEW b \in Buses, CloseAgain(b)  PROVE LeaseInv'
  <2>1. \A c \in Buses : /\ ghost'[c].opened = ghost[c].opened
                         /\ ghost'[c].closedOnLoop = ghost[c].closedOnLoop
    BY <1>5 DEF CloseAgain, TypeInv, LeaseTypes, GhostRec
  <2> QED  BY <1>a, <1>5, <2>1, NothingLeased DEF CloseAgain, portalVars, busVars
<1> QED  BY <1>1, <1>2, <1>3, <1>4, <1>5 DEF Others

(* No step breaks what the leases of the portal rest on.                   *)
THEOREM LeaseStepInv == LeaseInv /\ TypeInv /\ [Next]_vars => LeaseInv'
<1> SUFFICES ASSUME LeaseInv, TypeInv, [Next]_vars  PROVE LeaseInv'
  OBVIOUS
<1>1. TypeInv' /\ LeaseTypes'
  BY TypeStep DEF TypeInv
<1>2. CASE UNCHANGED vars
  BY <1>1, <1>2, NothingLeased DEF vars, busVars
<1>3. ASSUME NEW k \in Tasks, TaskStep(k) \/ Cancel(k)  PROVE LeaseInv'
  BY <1>1, <1>3, TaskStepFrame, NothingLeased
<1>4. CASE Next
  BY <1>1, <1>3, <1>4, NextSplit, ThreadStepLeases, OtherStepLeases
<1> QED  BY <1>2, <1>4

(* It holds before anything is leased.                                     *)
THEOREM InitLeases == Init => LeaseInv
<1> SUFFICES ASSUME Init  PROVE LeaseInv
  OBVIOUS
<1>1. LeaseTypes
  BY InitTypes DEF TypeInv
<1>2. /\ \A t \in Threads : thread[t].pc = "idle"
      /\ \A b \in Buses : ~sync[b].made /\ ~sync[b].entered /\ ~ghost[b].closedOnLoop
      /\ \A p \in Portals : portal[p] = "unused"
      /\ leases = 0 /\ current = NoPortal
  BY DEF Init, PortalInit, AtRest
<1>3. Leaseholders = {}
  BY <1>2 DEF Leaseholders, Leaseholder
<1>4. OpenedOnce
  BY <1>2 DEF OpenedOnce
<1>5. LeasesCounted
  BY <1>2, <1>3, HoldersFinite DEF LeasesCounted
<1>6. OrphanOnlyFromLoop
  BY <1>2 DEF OrphanOnlyFromLoop
<1> QED  BY <1>1, <1>4, <1>5, <1>6 DEF LeaseInv

(* The portal of a bus that has not been released takes its calls.         *)
LEMMA LeasesServed == LeaseInv => PortalServesOpenBuses
<1> SUFFICES ASSUME LeaseInv, NEW b \in Buses, sync[b].entered
             PROVE  Accepts(sync[b].portal) /\ current = sync[b].portal
  BY DEF PortalServesOpenBuses
<1>1. b \in Leaseholders
  BY OneLeasePerBus
<1> QED  BY <1>1, LeaseholderServed DEF Accepts, LeaseInv, LeasesCounted

(* In every reachable state the provider counts the leaseholders.          *)
THEOREM LeasesInvariant == Spec => [](TypeInv /\ LeaseInv)
<1>1. Init => TypeInv /\ LeaseInv
  BY InitTypes, InitLeases
<1>2. TypeInv /\ LeaseInv /\ [Next]_vars => (TypeInv /\ LeaseInv)'
  BY TypeStep, LeaseStepInv
<1> QED  BY <1>1, <1>2, PTL DEF Spec

(* The portal of a bus that has not been released takes its calls, and is   *)
(* the one a bus opened now would get: whatever threads open, fail to open, *)
(* interrupt, close and release, and in whatever order (sync.Bus).          *)
THEOREM PortalServes == Spec => []PortalServesOpenBuses
BY LeasesServed, LeasesInvariant, PTL

(* The loop's thread does not outlive its buses: a portal that runs has a   *)
(* bus, a thread that opens one or is about to stop it, or a bus that was   *)
(* closed on the loop's own thread (_release_portal).                       *)
THEOREM NoOrphan == Spec => []OrphanOnlyFromLoop
<1>1. LeaseInv => OrphanOnlyFromLoop
  BY DEF LeaseInv
<1> QED  BY <1>1, LeasesInvariant, PTL
=============================================================================
