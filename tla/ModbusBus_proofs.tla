-------------------------- MODULE ModbusBus_proofs --------------------------
(***************************************************************************)
(* Proofs about ModbusBus, for every value of its constants: type          *)
(* correctness and no write sent twice by a call, from BaseInv; then that  *)
(* a window which is long enough excludes stale replies; then what the bus *)
(* promises about time on the wire; then what it promises its callers.     *)
(***************************************************************************)
EXTENDS ModbusBus, SequenceTheorems, TLAPS

-----------------------------------------------------------------------------
(* Sequences                                                               *)

(* What is left of a sequence without its i-th element.                    *)
LEMMA RemoveProperties ==
  ASSUME NEW S, NEW s \in Seq(S), NEW i \in 1..Len(s)
  PROVE  LET t == SubSeq(s, 1, i - 1) \o SubSeq(s, i + 1, Len(s)) IN
         /\ t \in Seq(S) /\ Len(t) = Len(s) - 1
         /\ \A k \in 1..Len(t) : t[k] = IF k < i THEN s[k] ELSE s[k + 1]
<1> DEFINE a == SubSeq(s, 1, i - 1)
           b == SubSeq(s, i + 1, Len(s))
<1>1. /\ a \in Seq(S) /\ Len(a) = i - 1
      /\ \A k \in 1..(i - 1) : a[k] = s[k]
  <2>1. \A k \in 1..(i - 1) : s[k] \in S
    BY ElementOfSeq, LenProperties
  <2> QED  BY <2>1, SubSeqProperties, LenProperties
<1>2. /\ b \in Seq(S) /\ Len(b) = Len(s) - i
      /\ \A k \in 1..(Len(s) - i) : b[k] = s[k + i]
  <2>1. \A k \in (i + 1)..Len(s) : s[k] \in S
    BY ElementOfSeq, LenProperties
  <2> QED  BY <2>1, SubSeqProperties, LenProperties
<1> HIDE DEF a, b
<1>3. /\ a \o b \in Seq(S) /\ Len(a \o b) = Len(a) + Len(b)
      /\ \A k \in 1..(Len(a) + Len(b)) :
           (a \o b)[k] = IF k <= Len(a) THEN a[k] ELSE b[k - Len(a)]
  BY <1>1, <1>2, ConcatProperties
<1>4. Len(a \o b) = Len(s) - 1
  BY <1>1, <1>2, <1>3, LenProperties
<1>5. ASSUME NEW k \in 1..(Len(s) - 1)
      PROVE  (a \o b)[k] = IF k < i THEN s[k] ELSE s[k + 1]
  BY <1>1, <1>2, <1>3, LenProperties
<1> QED  BY <1>3, <1>4, <1>5 DEF a, b

(* What is left of a sequence without its first n elements.                *)
LEMMA DropProperties ==
  ASSUME NEW S, NEW s \in Seq(S), NEW n \in 1..Len(s)
  PROVE  LET t == SubSeq(s, n + 1, Len(s)) IN
         /\ t \in Seq(S) /\ Len(t) = Len(s) - n
         /\ \A k \in 1..Len(t) : t[k] = s[k + n]
<1>1. \A k \in (n + 1)..Len(s) : s[k] \in S
  BY ElementOfSeq, LenProperties
<1> QED  BY <1>1, SubSeqProperties, LenProperties

(* Expiring frames changes nothing but whose they are.                     *)
LEMMA ExpiredRxProperties ==
  ASSUME NEW s \in Seq(Frame)
  PROVE  /\ ExpiredRx(s) \in Seq(Frame)
         /\ DOMAIN ExpiredRx(s) = DOMAIN s
         /\ \A i \in DOMAIN s :
              /\ ExpiredRx(s)[i].cur = FALSE
              /\ ExpiredRx(s)[i].kind = s[i].kind
<1>1. \A f \in Frame : Expired(f) \in Frame /\ Expired(f).cur = FALSE /\ Expired(f).kind = f.kind
  BY DEF Frame, Expired
<1>2. /\ Len(s) \in Nat /\ DOMAIN s = 1..Len(s)
      /\ \A i \in 1..Len(s) : s[i] \in Frame
  BY LenProperties, ElementOfSeq
<1>3. ExpiredRx(s) \in [1..Len(s) -> Frame]
  BY <1>1, <1>2 DEF ExpiredRx
<1>4. ExpiredRx(s) \in Seq(Frame)
  BY <1>2, <1>3, SeqDef
<1> QED  BY <1>1, <1>2, <1>3, <1>4 DEF ExpiredRx

LEMMA ExpiredExchange ==
  ASSUME NEW x \in Exchange
  PROVE  /\ Expired(x) \in Exchange
         /\ Expired(x).cur = FALSE /\ Expired(x).req = x.req
         /\ Expired(x).stage = x.stage /\ Expired(x).left = x.left
BY DEF Exchange, Expired
-----------------------------------------------------------------------------
(* Types and the queue of callers                                          *)

(* The holder of the lock is a caller, and its request is a request.       *)
LEMMA OwnerCalls ==
  ASSUME TypeOK, CallsOK, queue # <<>>
  PROVE  Owner \in Callers /\ Owner = queue[1] /\ 1 \in DOMAIN queue /\ Request \in Requests
<1>1. Len(queue) \in Nat \ {0} /\ DOMAIN queue = 1..Len(queue)
  BY EmptySeq, LenProperties DEF TypeOK
<1>2. Owner = queue[1] /\ queue[1] \in Callers
  BY <1>1, HeadTailProperties DEF TypeOK, Owner
<1>3. req[queue[1]] # NoRequest
  BY <1>1, <1>2 DEF CallsOK
<1> QED  BY <1>1, <1>2, <1>3 DEF TypeOK, Request, Owner

(* Releasing the lock ends the holder's call and makes the next one holder.*)
LEMMA ReleaseStep ==
  ASSUME TypeOK, CallsOK, queue # <<>>, Release
  PROVE  /\ queue' \in Seq(Callers) /\ req' \in [Callers -> Requests \cup {NoRequest}]
         /\ phase' \in {"free", "granted"} /\ (phase' = "free" <=> queue' = <<>>)
         /\ attempt' = 0 /\ sends' = 0 /\ timer' = 0
         /\ CallsOK'
<1> DEFINE n == Len(queue)
<1>1. n \in Nat \ {0} /\ DOMAIN queue = 1..n
  BY EmptySeq, LenProperties DEF TypeOK
<1>2. /\ queue' = Tail(queue) /\ queue' \in Seq(Callers) /\ Len(queue') = n - 1
      /\ \A i \in 1..(n - 1) : queue'[i] = queue[i + 1]
  BY HeadTailProperties DEF TypeOK, Release
<1>3. DOMAIN queue' = 1..(n - 1) /\ (queue' = <<>> <=> n = 1)
  <2>1. DOMAIN queue' = 1..Len(queue') /\ Len(queue') \in Nat
    BY <1>2, LenProperties
  <2>2. Len(queue') = 0 <=> queue' = <<>>
    BY <1>2, EmptySeq
  <2> QED  BY <1>1, <1>2, <2>1, <2>2
<1>4. Owner \in Callers /\ Owner = queue[1]
  BY OwnerCalls
<1>5. req' \in [Callers -> Requests \cup {NoRequest}]
  BY <1>4 DEF TypeOK, Release
<1>6. CallsOK'
  <2>1. \A i, j \in DOMAIN queue' : queue'[i] = queue'[j] => i = j
    <3> SUFFICES ASSUME NEW i \in 1..(n - 1), NEW j \in 1..(n - 1), queue'[i] = queue'[j]
                 PROVE  i = j
      BY <1>3
    <3>1. i + 1 \in 1..n /\ j + 1 \in 1..n /\ queue[i + 1] = queue[j + 1]
      BY <1>1, <1>2
    <3>2. i + 1 = j + 1
      BY <3>1, <1>1 DEF CallsOK
    <3> QED  BY <3>2
  <2>2. ASSUME NEW c \in Callers
        PROVE  req'[c] # NoRequest <=> \E i \in DOMAIN queue' : queue'[i] = c
    <3>1. CASE c = Owner
      <4>1. req'[c] = NoRequest
        BY <3>1, <1>4 DEF TypeOK, Release
      <4>2. ASSUME NEW i \in 1..(n - 1), queue'[i] = c  PROVE FALSE
        <5>1. i + 1 \in 1..n /\ 1 \in 1..n /\ queue[i + 1] = queue[1]
          BY <4>2, <1>1, <1>2, <1>4, <3>1
        <5>2. i + 1 = 1
          BY <5>1, <1>1 DEF CallsOK
        <5> QED  BY <5>2
      <4> QED  BY <4>1, <4>2, <1>3
    <3>2. CASE c # Owner
      <4>1. req'[c] = req[c]
        BY <3>2, <1>4 DEF TypeOK, Release
      <4>2. ASSUME NEW i \in 1..n, queue[i] = c  PROVE \E k \in 1..(n - 1) : queue'[k] = c
        <5>1. i # 1
          BY <4>2, <3>2, <1>4
        <5>2. i - 1 \in 1..(n - 1) /\ queue'[i - 1] = queue[(i - 1) + 1]
          BY <5>1, <1>1, <1>2
        <5> QED  BY <5>2, <4>2
      <4>3. ASSUME NEW k \in 1..(n - 1), queue'[k] = c  PROVE \E i \in 1..n : queue[i] = c
        BY <4>3, <1>1, <1>2
      <4> QED  BY <4>1, <4>2, <4>3, <1>1, <1>3 DEF CallsOK
    <3> QED  BY <3>1, <3>2
  <2> QED  BY <2>1, <2>2 DEF CallsOK
<1>7. phase' = (IF n > 1 THEN "granted" ELSE "free") /\ timer' = 0
  BY DEF Release, SetPhase
<1>8. phase' \in {"free", "granted"} /\ (phase' = "free" <=> queue' = <<>>)
  BY <1>1, <1>3, <1>7
<1> QED  BY <1>2, <1>5, <1>6, <1>7, <1>8 DEF Release

(* A new caller joins at the end of the queue.                             *)
LEMMA CallStep ==
  ASSUME TypeOK, CallsOK, NEW c \in Callers, NEW r \in Requests, Call(c, r)
  PROVE  /\ queue' \in Seq(Callers) /\ req' \in [Callers -> Requests \cup {NoRequest}]
         /\ queue' # <<>>
         /\ queue # <<>> => Owner' = Owner /\ Request' = Request
         /\ CallsOK'
<1> DEFINE n == Len(queue)
<1>1. n \in Nat /\ DOMAIN queue = 1..n
  BY LenProperties DEF TypeOK
<1>2. /\ queue' = Append(queue, c) /\ queue' \in Seq(Callers) /\ queue' # <<>>
      /\ Len(queue') = n + 1
      /\ \A i \in 1..n : queue'[i] = queue[i]
      /\ queue'[n + 1] = c
  BY AppendProperties DEF TypeOK, Call
<1>3. DOMAIN queue' = 1..(n + 1)
  BY <1>1, <1>2, LenProperties
<1>4. req' = [req EXCEPT ![c] = r] /\ req[c] = NoRequest /\ r # NoRequest
  BY RequestsAssumption DEF Call
<1>5. \A i \in 1..n : queue[i] # c
  BY <1>1, <1>4 DEF CallsOK
<1>6. \A i, j \in 1..(n + 1) : queue'[i] = queue'[j] => i = j
  <2> SUFFICES ASSUME NEW i \in 1..(n + 1), NEW j \in 1..(n + 1), queue'[i] = queue'[j]
               PROVE  i = j
    OBVIOUS
  <2>1. CASE i \in 1..n /\ j \in 1..n
    BY <2>1, <1>1, <1>2 DEF CallsOK
  <2>2. CASE i = n + 1 \/ j = n + 1
    BY <2>2, <1>1, <1>2, <1>5
  <2> QED  BY <2>1, <2>2, <1>1
<1>7. ASSUME NEW d \in Callers
      PROVE  req'[d] # NoRequest <=> \E i \in 1..(n + 1) : queue'[i] = d
  <2>1. CASE d = c
    BY <2>1, <1>1, <1>2, <1>4 DEF TypeOK
  <2>2. CASE d # c
    <3>1. req'[d] = req[d]
      BY <2>2, <1>4 DEF TypeOK
    <3>2. (\E i \in 1..(n + 1) : queue'[i] = d) <=> (\E i \in 1..n : queue[i] = d)
      BY <2>2, <1>1, <1>2
    <3> QED  BY <3>1, <3>2, <1>1 DEF CallsOK
  <2> QED  BY <2>1, <2>2
<1>8. CallsOK'
  BY <1>3, <1>6, <1>7 DEF CallsOK
<1>9. queue # <<>> => Owner' = Owner /\ Request' = Request
  <2> SUFFICES ASSUME queue # <<>>  PROVE Owner' = Owner /\ Request' = Request
    OBVIOUS
  <2>1. Owner \in Callers /\ Owner = queue[1] /\ 1 \in 1..n /\ Request \in Requests
    BY OwnerCalls, <1>1
  <2>2. Owner' = queue'[1] /\ queue'[1] = queue[1]
    BY <2>1, <1>2, HeadTailProperties DEF Owner
  <2>3. Owner # c
    BY <2>1, <1>4, RequestsAssumption DEF Request
  <2> QED  BY <2>1, <2>2, <2>3, <1>4 DEF Request, TypeOK
<1> QED  BY <1>2, <1>4, <1>8, <1>9 DEF TypeOK
-----------------------------------------------------------------------------
(* The end of an attempt, and the shared pieces of the other steps         *)

LEMMA AwaitGapStep ==
  ASSUME TypeOK, NEW STATE age, age \in -1..Gap, AwaitGap(age)
  PROVE  /\ settled' \in BOOLEAN /\ timer' \in Nat
         /\ phase' \in {"settle", "gap", "reset", "sending"}
<1> USE ConfigAssumption
<1>1. Proceed => phase' \in {"reset", "sending"} /\ timer' = 0
  BY DEF Proceed, StartSending, SetPhase
<1> QED  BY <1>1 DEF AwaitGap, SetPhase, TypeOK, Never

LEMMA SentStep ==
  ASSUME Sent
  PROVE  /\ timer' \in Nat
         /\ phase' = IF Broadcasting THEN "turnaround"
                     ELSE IF PostTxSettle > 0 THEN "txsettle" ELSE "reading"
BY ConfigAssumption DEF Sent, SetPhase

(* An attempt ends in the lock released, or in another attempt to come.    *)
LEMMA FinishStep ==
  ASSUME BaseInv, phase \in Attempting, closed' \in BOOLEAN,
         NEW STATE outcome, outcome \in Outcomes, NEW STATE l, NEW STATE u,
         l \subseteq Exchange, u \in Seq(Frame),
         FinishAttempt(outcome, l, u)
  PROVE  /\ BaseInv'
         /\ phase' \in {"free", "granted", "backoff"}
<1>1. queue # <<>>
  BY DEF BaseInv, TypeOK, Attempting, Reading, Writing, Sleeping
<1>2. quiet' \in -1..Window
  BY ConfigAssumption DEF BaseInv, TypeOK, FinishAttempt, Higher
<1>3. line' \subseteq Exchange
  BY ExpiredExchange DEF FinishAttempt
<1>4. rx' \in Seq(Frame)
  BY ExpiredRxProperties DEF FinishAttempt
<1>5. /\ ioAge' \in -1..Gap /\ idleLeft' \in 0..Idle /\ limitLeft' \in 0..(Window + RequestTimeout)
      /\ settled' = settled /\ stream' = stream /\ hush' = hush /\ warm' = warm
  BY ConfigAssumption DEF FinishAttempt, Idle, Higher
<1>6. CASE ShouldRetry(outcome)
  <2>1. /\ phase' = "backoff" /\ timer' = Gap + Backoff
        /\ UNCHANGED <<attempt, sends, queue, req>> /\ NoneEnded
    BY <1>6 DEF FinishAttempt, SetPhase
  <2>2. TypeOK'
    BY <1>1, <1>2, <1>3, <1>4, <1>5, <2>1, ConfigAssumption DEF BaseInv, TypeOK, NoneEnded
  <2>3. CallsOK'
    BY <2>1 DEF BaseInv, CallsOK
  <2>4. Request' = Request /\ Broadcasting' = Broadcasting
    BY <2>1 DEF Request, Owner, Broadcasting
  <2>5. AttemptsOK'
    BY <1>6, <2>1, <2>4 DEF BaseInv, AttemptsOK, ShouldRetry
  <2> QED  BY <2>1, <2>2, <2>3, <2>5 DEF BaseInv
<1>7. CASE ~ShouldRetry(outcome)
  <2>1. Release /\ Ended(Owner, outcome)
    BY <1>7 DEF FinishAttempt
  <2>2. /\ queue' \in Seq(Callers) /\ req' \in [Callers -> Requests \cup {NoRequest}]
        /\ phase' \in {"free", "granted"} /\ (phase' = "free" <=> queue' = <<>>)
        /\ attempt' = 0 /\ sends' = 0 /\ timer' = 0
        /\ CallsOK'
    BY <1>1, <2>1, ReleaseStep DEF BaseInv
  <2>3. ended' \subseteq [caller : Callers, how : Outcomes]
    BY <1>1, <2>1, OwnerCalls DEF BaseInv, Ended
  <2>4. TypeOK'
    BY <1>2, <1>3, <1>4, <1>5, <2>2, <2>3, ConfigAssumption DEF BaseInv, TypeOK
  <2>5. AttemptsOK'
    BY <2>2 DEF AttemptsOK
  <2> QED  BY <2>2, <2>4, <2>5 DEF BaseInv
<1> QED  BY <1>6, <1>7

(* Attempts that are cancelled while sending, and every other case of a    *)
(* finishing attempt, leave exchanges on the line.                         *)
LEMMA NewExchangeType ==
  ASSUME NEW r \in Requests, NEW mine \in BOOLEAN, FreeIds # {}
  PROVE  /\ NewExchange(r, mine) \in Exchange
         /\ NewExchange(r, mine).stage = "tx" /\ NewExchange(r, mine).left = TxMax
         /\ NewExchange(r, mine).req = r /\ NewExchange(r, mine).cur = mine
<1>1. (CHOOSE i \in FreeIds : TRUE) \in 1..MaxExchanges
  BY DEF FreeIds
<1> DEFINE id == CHOOSE i \in FreeIds : TRUE
<1>2. NewExchange(r, mine) = [id |-> id, req |-> r, stage |-> "tx", cur |-> mine, left |-> TxMax]
  BY DEF NewExchange
<1> HIDE DEF id
<1>3. id \in 1..MaxExchanges
  BY <1>1 DEF id
<1> QED  BY <1>2, <1>3, LineAssumption DEF Exchange

LEMMA MaybeHandedOverType ==
  ASSUME TypeOK, CallsOK, queue # <<>>, NEW l \in MaybeHandedOver
  PROVE  l \subseteq Exchange
<1>1. FreeIds # {} => NewExchange(Request, FALSE) \in Exchange
  BY OwnerCalls, NewExchangeType
<1>2. l = line \/ (FreeIds # {} /\ l = line \cup {NewExchange(Request, FALSE)})
  BY DEF MaybeHandedOver
<1> QED  BY <1>1, <1>2 DEF TypeOK
-----------------------------------------------------------------------------
(* Type correctness                                                        *)

USE DEF BaseInv

(* The types hold at first.                                                *)
THEOREM InitBase == Init => BaseInv
<1> SUFFICES ASSUME Init  PROVE BaseInv
  OBVIOUS
<1> USE ConfigAssumption, LineAssumption DEF Init
<1>1. rx \in Seq(Frame)
  <2>1. Junk \in Frame
    BY DEF Junk, Frame
  <2>2. <<Junk>> \in Seq(Frame) /\ <<>> \in Seq(Frame)
    BY <2>1
  <2> QED  BY <2>2
<1>2. TypeOK
  <2>1. queue \in Seq(Callers) /\ req \in [Callers -> Requests \cup {NoRequest}]
    OBVIOUS
  <2>2. ioAge \in -1..Gap /\ quiet \in -1..Window /\ warm \in -1..StartupSettle
    BY DEF Never, NoWindow
  <2>3. idleLeft \in 0..Idle /\ limitLeft \in 0..(Window + RequestTimeout) /\ hush \in 0..Gap
    BY DEF Idle, Higher
  <2>4. phase = "free" /\ queue = <<>> /\ stream = "up" /\ line = {} /\ ended = {}
    OBVIOUS
  <2>5. closed \in BOOLEAN /\ settled \in BOOLEAN
    OBVIOUS
  <2>6. timer \in Nat /\ attempt \in 0..Retries /\ sends \in 0..(Retries + 1)
    OBVIOUS
  <2> HIDE DEF Init
  <2> QED  BY <1>1, <2>1, <2>2, <2>3, <2>4, <2>5, <2>6 DEF TypeOK
<1>3. CallsOK
  BY DEF CallsOK
<1>4. AttemptsOK
  BY DEF AttemptsOK
<1> QED  BY <1>2, <1>3, <1>4

(* A cancelled call leaves the queue, and if it held the lock lets it go.  *)
LEMMA CancelQueuedStep ==
  ASSUME BaseInv, NEW c \in Callers, CancelQueued(c)
  PROVE  /\ BaseInv'
         /\ \/ phase = "granted" /\ phase' \in {"free", "granted"}
            \/ phase' = phase /\ Request' = Request
<1> USE ConfigAssumption
<1>a. phase # "free" => queue # <<>>
  BY DEF TypeOK
<1>0. PICK i \in DOMAIN queue :
        /\ queue[i] = c
        /\ IF i = 1
           THEN phase = "granted" /\ "granted" \in CancelAt /\ Release
           ELSE /\ "queued" \in CancelAt
                /\ queue' = SubSeq(queue, 1, i - 1) \o SubSeq(queue, i + 1, Len(queue))
                /\ req' = [req EXCEPT ![c] = NoRequest]
                /\ UNCHANGED <<phase, timer, attempt, sends>>
  BY DEF CancelQueued
<1>u. UNCHANGED <<busVars, idleLeft, limitLeft, envVars>>
  BY DEF CancelQueued
<1>v. ended' \subseteq [caller : Callers, how : Outcomes]
  BY DEF CancelQueued, Ended, Outcomes
<1>1. CASE i = 1
  <2>1. Release /\ queue # <<>>
    BY <1>0, <1>1, <1>a
  <2>2. /\ queue' \in Seq(Callers) /\ req' \in [Callers -> Requests \cup {NoRequest}]
        /\ phase' \in {"free", "granted"} /\ (phase' = "free" <=> queue' = <<>>)
        /\ attempt' = 0 /\ sends' = 0 /\ timer' = 0 /\ CallsOK'
    BY <2>1, ReleaseStep
  <2>3. TypeOK'
    BY <2>2, <1>u, <1>v DEF TypeOK, busVars, envVars
  <2>4. AttemptsOK'
    BY <2>2 DEF AttemptsOK
  <2>5. phase = "granted"
    BY <1>0, <1>1
  <2> QED  BY <2>2, <2>3, <2>4, <2>5
<1>2. CASE i # 1
  <2> DEFINE n == Len(queue)
  <2>1. n \in Nat /\ DOMAIN queue = 1..n /\ i \in 2..n
    <3>1. n \in Nat /\ DOMAIN queue = 1..n
      BY LenProperties DEF TypeOK
    <3> QED  BY <3>1, <1>2
  <2>2. /\ queue' \in Seq(Callers) /\ Len(queue') = n - 1
        /\ \A k \in 1..(n - 1) : queue'[k] = IF k < i THEN queue[k] ELSE queue[k + 1]
    <3>1. queue' = SubSeq(queue, 1, i - 1) \o SubSeq(queue, i + 1, n)
      BY <1>0, <1>2
    <3>2. queue \in Seq(Callers) /\ i \in 1..Len(queue)
      BY <2>1 DEF TypeOK
    <3> HIDE DEF n
    <3> QED  BY <2>1, <3>1, <3>2, RemoveProperties DEF n
  <2>3. DOMAIN queue' = 1..(n - 1) /\ queue' # <<>>
    BY <2>1, <2>2, LenProperties
  <2>4. req' = [req EXCEPT ![c] = NoRequest] /\ UNCHANGED <<phase, timer, attempt, sends>>
    BY <1>0, <1>2
  <2>5. CallsOK'
    <3>1. ASSUME NEW k \in 1..(n - 1), NEW m \in 1..(n - 1), queue'[k] = queue'[m]
          PROVE  k = m
      <4> DEFINE at(x) == IF x < i THEN x ELSE x + 1
      <4>1. at(k) \in 1..n /\ at(m) \in 1..n
        BY <2>1
      <4>2. queue'[k] = queue[at(k)] /\ queue'[m] = queue[at(m)]
        BY <2>2
      <4> HIDE DEF at
      <4>3. \A a, b \in 1..n : queue[a] = queue[b] => a = b
        BY <2>1 DEF CallsOK
      <4>4. at(k) = at(m)
        BY <3>1, <4>1, <4>2, <4>3
      <4> QED  BY <4>4, <2>1 DEF at
    <3>2. ASSUME NEW d \in Callers
          PROVE  req'[d] # NoRequest <=> \E k \in 1..(n - 1) : queue'[k] = d
      <4>1. CASE d = c
        <5>1. req'[d] = NoRequest
          BY <4>1, <2>4 DEF TypeOK
        <5>2. ASSUME NEW k \in 1..(n - 1), queue'[k] = c  PROVE FALSE
          <6> DEFINE j == IF k < i THEN k ELSE k + 1
          <6>1. j \in 1..n /\ queue[j] = queue[i] /\ j # i
            <7>1. queue[i] = c
              BY <1>0
            <7> QED  BY <7>1, <5>2, <2>1, <2>2
          <6> QED  BY <6>1, <2>1 DEF CallsOK
        <5> QED  BY <5>1, <5>2, <4>1
      <4>2. CASE d # c
        <5>1. req'[d] = req[d]
          BY <4>2, <2>4 DEF TypeOK
        <5>2. ASSUME NEW j \in 1..n, queue[j] = d  PROVE \E k \in 1..(n - 1) : queue'[k] = d
          <6>1. j # i
            BY <5>2, <4>2, <1>0
          <6>2. CASE j < i
            BY <6>2, <5>2, <2>1, <2>2
          <6>3. CASE j > i
            <7>1. j - 1 \in 1..(n - 1) /\ queue'[j - 1] = queue[(j - 1) + 1]
              BY <6>3, <2>1, <2>2
            <7> QED  BY <7>1, <5>2
          <6> QED  BY <6>1, <6>2, <6>3, <2>1
        <5>3. ASSUME NEW k \in 1..(n - 1), queue'[k] = d  PROVE \E j \in 1..n : queue[j] = d
          BY <5>3, <2>1, <2>2
        <5> QED  BY <5>1, <5>2, <5>3, <2>1 DEF CallsOK
      <4> QED  BY <4>1, <4>2
    <3> QED  BY <2>3, <3>1, <3>2 DEF CallsOK
  <2>6. Request' = Request
    <3>1. Owner = queue[1] /\ 1 \in 1..n /\ n \in Nat \ {0} /\ Owner \in Callers
      BY <2>1, OwnerCalls, EmptySeq DEF TypeOK
    <3>2. Owner' = queue'[1] /\ queue'[1] = queue[1]
      BY <2>1, <2>2, <2>3, <3>1, HeadTailProperties DEF Owner
    <3>3. Owner # c
      BY <1>0, <1>2, <2>1, <3>1 DEF CallsOK
    <3> QED  BY <3>1, <3>2, <3>3, <2>4 DEF Request, TypeOK
  <2>7. TypeOK'
    <3>1. req' \in [Callers -> Requests \cup {NoRequest}] /\ phase # "free"
      BY <2>1, <2>4 DEF TypeOK
    <3> QED  BY <3>1, <2>2, <2>3, <2>4, <1>u, <1>v DEF TypeOK, busVars, envVars
  <2>8. AttemptsOK'
    BY <2>4, <2>6 DEF AttemptsOK, Broadcasting
  <2> QED  BY <2>4, <2>5, <2>6, <2>7, <2>8
<1> QED  BY <1>1, <1>2

(* No step breaks them.                                                    *)
LEMMA BaseStep == BaseInv /\ [Next]_vars => BaseInv'
<1> SUFFICES ASSUME BaseInv, [Next]_vars  PROVE BaseInv'
  OBVIOUS
<1> USE RequestsAssumption, ConfigAssumption, LineAssumption
<1>a. phase # "free" => queue # <<>>
  BY DEF TypeOK
<1>1. ASSUME NEW c \in Callers, NEW r \in Requests, Call(c, r)
      PROVE  BaseInv'
  <2>1. /\ queue' \in Seq(Callers) /\ req' \in [Callers -> Requests \cup {NoRequest}]
        /\ queue' # <<>> /\ CallsOK'
        /\ queue # <<>> => Owner' = Owner /\ Request' = Request
    BY <1>1, CallStep
  <2>2. /\ UNCHANGED <<busVars, attempt, sends, timer, idleLeft, limitLeft, envVars>>
        /\ phase' = IF queue = <<>> THEN "granted" ELSE phase
        /\ NoneEnded
    BY <1>1 DEF Call
  <2>3. TypeOK'
    BY <2>1, <2>2 DEF TypeOK, busVars, envVars, NoneEnded
  <2>4. AttemptsOK'
    <3>1. UNCHANGED <<attempt, sends>>
      BY <2>2
    <3> QED  BY <2>1, <2>2, <3>1 DEF TypeOK, AttemptsOK, Broadcasting
  <2> QED  BY <2>1, <2>3, <2>4
<1>2. ASSUME NEW c \in Callers, CancelQueued(c)
      PROVE  BaseInv'
  BY <1>2, CancelQueuedStep
<1>3. ASSUME phase \in {"granted", "backoff"}, NEW STATE m, m \in 0..Retries, sends <= m,
             m > 0 => ~Broadcasting /\ (IdempotentOnly => Idempotent(Request)),
             BeginAttempt(m)
      PROVE  BaseInv'
  <2>1. /\ attempt' = m /\ NoneEnded
        /\ UNCHANGED <<closed, ioAge, quiet, callVars, sends, stream, line, rx, hush>>
    BY <1>3 DEF BeginAttempt
  <2>2. /\ settled' \in BOOLEAN /\ timer' \in Nat
        /\ phase' \in {"discard", "settle", "gap", "reset", "sending"}
        /\ idleLeft' \in 0..Idle /\ limitLeft' \in 0..(Window + RequestTimeout)
    <3>1. CASE quiet # NoWindow
      BY <1>3, <3>1 DEF BeginAttempt, TypeOK, SetPhase, NoWindow, Idle, Higher
    <3>2. CASE quiet = NoWindow
      <4>1. AwaitGap(ioAge) /\ UNCHANGED <<idleLeft, limitLeft>>
        BY <1>3, <3>2 DEF BeginAttempt
      <4> QED  BY <4>1, AwaitGapStep DEF TypeOK
    <3> QED  BY <3>1, <3>2
  <2>3. warm' \in -1..StartupSettle
    BY <1>3 DEF BeginAttempt, TypeOK
  <2>4. TypeOK'
    BY <1>3, <2>1, <2>2, <2>3 DEF TypeOK, callVars, NoneEnded, Attempting, Reading, Writing, Sleeping
  <2>5. CallsOK'
    BY <2>1 DEF CallsOK, callVars
  <2>6. AttemptsOK'
    BY <1>3, <2>1, <2>2 DEF AttemptsOK, TypeOK, callVars, Request, Owner, Broadcasting
  <2> QED  BY <2>4, <2>5, <2>6
<1>4. ASSUME FirstAttempt  PROVE BaseInv'
  BY <1>3, <1>4 DEF FirstAttempt, AttemptsOK
<1>5. ASSUME NextAttempt  PROVE BaseInv'
  <2>1. attempt + 1 \in 0..Retries /\ sends <= attempt + 1
    BY <1>5 DEF NextAttempt, AttemptsOK, TypeOK
  <2>2. ~Broadcasting /\ (IdempotentOnly => Idempotent(Request))
    BY <1>5 DEF NextAttempt, AttemptsOK
  <2> QED  BY <1>3, <1>5, <2>1, <2>2 DEF NextAttempt
<1>6. ASSUME NEW STATE age, age \in -1..Gap, phase = "discard", EndDiscard(age),
             ioAge' \in -1..Gap, rx' \in Seq(Frame), NoneEnded,
             UNCHANGED <<closed, callVars, attempt, sends, stream, line, hush, warm>>
      PROVE  BaseInv'
  <2>1. /\ settled' \in BOOLEAN /\ timer' \in Nat
        /\ phase' \in {"settle", "gap", "reset", "sending"}
    BY <1>6, AwaitGapStep DEF EndDiscard
  <2>2. quiet' \in -1..Window /\ idleLeft' \in 0..Idle /\ limitLeft' \in 0..(Window + RequestTimeout)
    BY <1>6 DEF EndDiscard, NoWindow, Idle, Higher
  <2>3. TypeOK'
    BY <1>6, <2>1, <2>2 DEF TypeOK, callVars, NoneEnded, Attempting, Reading, Writing, Sleeping
  <2>4. CallsOK'
    BY <1>6 DEF CallsOK, callVars
  <2>5. AttemptsOK'
    BY <1>6, <2>1 DEF AttemptsOK, callVars, Request, Owner, Broadcasting
  <2> QED  BY <2>3, <2>4, <2>5
<1>7. ASSUME DiscardLate  PROVE BaseInv'
  <2>1. rx' \in Seq(Frame) /\ 0 \in -1..Gap /\ ioAge' = 0
    BY <1>7 DEF DiscardLate
  <2>2. CASE DiscardUntil(Idle) = 0
    BY <1>6, <1>7, <2>1, <2>2 DEF DiscardLate
  <2>3. CASE DiscardUntil(Idle) # 0
    <3>1. /\ idleLeft' = Idle /\ ioAge' = 0 /\ rx' = <<>>
          /\ UNCHANGED <<quiet, settled, phase, timer, limitLeft,
                         closed, callVars, attempt, sends, stream, line, hush, warm>>
          /\ NoneEnded
      BY <1>7, <2>3 DEF DiscardLate
    <3>2. Idle \in 0..Idle
      BY DEF Idle, Higher
    <3>3. TypeOK'
      BY <2>1, <3>1, <3>2 DEF TypeOK, callVars, NoneEnded
    <3> QED  BY <3>1, <3>3 DEF CallsOK, AttemptsOK, callVars, Request, Owner, Broadcasting
  <2> QED  BY <2>2, <2>3
<1>8. ASSUME DiscardOver  PROVE BaseInv'
  BY <1>6, <1>8 DEF DiscardOver, TypeOK, envVars
<1>9. ASSUME phase \in Attempting, phase' \in Attempting, timer' \in Nat,
             line' \subseteq Exchange, rx' \in Seq(Frame),
             sends' \in 0..(Retries + 1), sends' <= attempt + 1,
             phase' \in {"discard", "settle", "gap", "reset", "sending"} => sends' <= attempt,
             UNCHANGED <<busVars, callVars, attempt, idleLeft, limitLeft, stream, hush, warm>>,
             NoneEnded
      PROVE  BaseInv'
  <2>1. phase' \notin {"free", "granted", "backoff"} /\ phase # "free"
    BY <1>9 DEF Attempting, Reading, Writing, Sleeping
  <2>2. TypeOK'
    BY <1>9, <2>1 DEF TypeOK, busVars, callVars, NoneEnded
  <2>3. CallsOK'
    BY <1>9 DEF CallsOK, callVars
  <2>4. AttemptsOK'
    BY <1>9, <2>1 DEF AttemptsOK, callVars, Request, Owner, Broadcasting
  <2> QED  BY <2>2, <2>3, <2>4
<1> DEFINE Quiet == /\ UNCHANGED <<busVars, callVars, attempt, idleLeft, limitLeft, stream, hush, warm>>
                    /\ NoneEnded
<1>b. Proceed => phase' \in {"reset", "sending"} /\ timer' = 0
  BY DEF Proceed, StartSending, SetPhase
<1>c. line \subseteq Exchange /\ rx \in Seq(Frame) /\ sends \in 0..(Retries + 1) /\ sends <= attempt + 1
  BY DEF TypeOK, AttemptsOK
<1> USE DEF Attempting, Reading, Writing, Sleeping
<1>10. ASSUME WaitOver  PROVE BaseInv'
  <2>1. sends <= attempt
    BY <1>10 DEF WaitOver, AttemptsOK
  <2>2. Quiet /\ phase \in Attempting /\ UNCHANGED <<sends, line, rx>>
    BY <1>10 DEF WaitOver, envVars
  <2>3. phase' \in {"reset", "sending"} /\ timer' = 0
    BY <1>10, <1>b DEF WaitOver
  <2> QED  BY <1>9, <1>c, <2>1, <2>2, <2>3
<1>11. ASSUME ResetInput  PROVE BaseInv'
  <2>1. sends <= attempt
    BY <1>11 DEF ResetInput, AttemptsOK
  <2>2. Quiet /\ phase \in Attempting /\ UNCHANGED <<sends, line>>
    BY <1>11 DEF ResetInput
  <2>3. phase' = "sending" /\ timer' = 0 /\ rx' = <<>>
    BY <1>11 DEF ResetInput, StartSending, SetPhase
  <2>4. rx' \in Seq(Frame)
    BY <2>3
  <2> QED  BY <1>9, <1>c, <2>1, <2>2, <2>3, <2>4
<1>d. CanDrain \in BOOLEAN
  OBVIOUS
<1>12. ASSUME HandOver  PROVE BaseInv'
  <2>1. sends <= attempt /\ attempt \in 0..Retries /\ sends' = sends + 1
    BY <1>12 DEF HandOver, AttemptsOK, TypeOK
  <2>2. Quiet /\ phase \in Attempting /\ UNCHANGED rx
    BY <1>12 DEF HandOver
  <2>3. line' \subseteq Exchange
    <3>1. queue # <<>> /\ FreeIds # {} /\ line' = line \cup {NewExchange(Request, TRUE)}
      BY <1>12, <1>a DEF HandOver
    <3>2. NewExchange(Request, TRUE) \in Exchange
      BY <3>1, OwnerCalls, NewExchangeType
    <3> QED  BY <1>c, <3>1, <3>2
  <2>4. phase' \in {"draining", "turnaround", "txsettle", "reading"} /\ timer' \in Nat
    BY <1>12, SentStep DEF HandOver, SetPhase
  <2> QED  BY <1>9, <1>c, <2>1, <2>2, <2>3, <2>4
<1>13. ASSUME Drained  PROVE BaseInv'
  <2>1. Quiet /\ phase \in Attempting /\ UNCHANGED <<sends, line, rx>>
    BY <1>13 DEF Drained, envVars
  <2>2. phase' \in {"turnaround", "txsettle", "reading"} /\ timer' \in Nat
    BY <1>13, SentStep DEF Drained
  <2> QED  BY <1>9, <1>c, <2>1, <2>2
<1>14. ASSUME TxSettled  PROVE BaseInv'
  <2>1. Quiet /\ phase \in Attempting /\ UNCHANGED <<sends, line, rx>>
    BY <1>14 DEF TxSettled, envVars
  <2>2. phase' = "reading" /\ timer' \in Nat
    BY <1>14 DEF TxSettled, SetPhase
  <2> QED  BY <1>9, <1>c, <2>1, <2>2
<1>15. ASSUME SkipStray  PROVE BaseInv'
  <2>1. /\ Quiet /\ phase \in Attempting /\ UNCHANGED <<phase, timer, sends, line>>
        /\ phase' = "reading"
    BY <1>15 DEF SkipStray, ownVars
  <2>2. rx' \in Seq(Frame)
    <3>1. PICK n \in DOMAIN rx : rx' = SubSeq(rx, n + 1, Len(rx))
      BY <1>15 DEF SkipStray
    <3>2. n \in 1..Len(rx)
      BY <1>c, LenProperties
    <3> QED  BY <1>c, <3>1, <3>2, DropProperties
  <2>3. timer' \in Nat
    BY <2>1 DEF TypeOK
  <2> QED  BY <1>9, <1>c, <2>1, <2>2, <2>3
<1>16. ASSUME TurnaroundOver  PROVE BaseInv'
  <2>1. phase \in Attempting /\ closed' \in BOOLEAN /\ FinishAttempt("broadcast_sent", line, rx)
    BY <1>16 DEF TurnaroundOver, TypeOK
  <2> QED  BY <1>c, <2>1, FinishStep DEF Outcomes
<1>17. ASSUME ReadFrame  PROVE BaseInv'
  <2> DEFINE f == Head(rx)
             o == IF Answers(f, Request) THEN "reply"
                  ELSE IF Refuses(f, Request) THEN "exception" ELSE "bad"
  <2>1. phase \in Attempting /\ closed' \in BOOLEAN /\ rx # <<>> /\ FinishAttempt(o, line, Tail(rx))
    BY <1>17 DEF ReadFrame, TypeOK
  <2>2. Tail(rx) \in Seq(Frame)
    BY <1>c, <2>1, HeadTailProperties
  <2>3. o \in Outcomes
    BY DEF Outcomes
  <2> HIDE DEF o
  <2> QED  BY <1>c, <2>1, <2>2, <2>3, FinishStep
<1>18. ASSUME ReadDamaged  PROVE BaseInv'
  <2>1. phase \in Attempting /\ closed' \in BOOLEAN
    BY <1>18 DEF ReadDamaged, TypeOK
  <2>2. ASSUME FinishAttempt("bad", line, rx)  PROVE BaseInv'
    BY <1>c, <2>1, <2>2, FinishStep DEF Outcomes
  <2>3. ASSUME NEW n \in DOMAIN rx, FinishAttempt("bad", line, SubSeq(rx, n + 1, Len(rx)))
        PROVE  BaseInv'
    <3>1. n \in 1..Len(rx)
      BY <1>c, LenProperties
    <3>2. SubSeq(rx, n + 1, Len(rx)) \in Seq(Frame)
      BY <1>c, <3>1, DropProperties
    <3> QED  BY <1>c, <2>1, <2>3, <3>2, FinishStep DEF Outcomes
  <2> QED  BY <1>18, <2>2, <2>3 DEF ReadDamaged
<1>19. ASSUME ReadTimeout  PROVE BaseInv'
  <2>1. phase \in Attempting /\ closed' \in BOOLEAN /\ FinishAttempt("timeout", line, rx)
    BY <1>19 DEF ReadTimeout, TypeOK
  <2> QED  BY <1>c, <2>1, FinishStep DEF Outcomes
<1>20. ASSUME CancelAttempt  PROVE BaseInv'
  <2>1. phase \in Attempting /\ closed' \in BOOLEAN /\ queue # <<>>
    BY <1>20, <1>a DEF CancelAttempt, TypeOK
  <2>2. PICK l \in MaybeHandedOver : FinishAttempt("cancelled", l, rx)
    BY <1>20 DEF CancelAttempt
  <2>3. l \subseteq Exchange
    BY <2>1, MaybeHandedOverType
  <2> QED  BY <1>c, <2>1, <2>2, <2>3, FinishStep DEF Outcomes
<1>21. ASSUME StreamFails  PROVE BaseInv'
  <2>1. phase \in Attempting /\ closed' \in BOOLEAN
    BY <1>21 DEF StreamFails, TypeOK
  <2>2. PICK outcome \in StreamErrors(stream) : FinishAttempt(outcome, line, rx)
    BY <1>21 DEF StreamFails
  <2>3. outcome \in Outcomes
    BY DEF StreamErrors, Outcomes
  <2> QED  BY <1>c, <2>1, <2>2, <2>3, FinishStep
<1>22. ASSUME CancelBackoff  PROVE BaseInv'
  <2>1. /\ Release /\ Ended(Owner, "cancelled") /\ queue # <<>>
        /\ UNCHANGED <<busVars, idleLeft, limitLeft, envVars>>
    BY <1>22, <1>a DEF CancelBackoff
  <2>2. /\ queue' \in Seq(Callers) /\ req' \in [Callers -> Requests \cup {NoRequest}]
        /\ phase' \in {"free", "granted"} /\ (phase' = "free" <=> queue' = <<>>)
        /\ attempt' = 0 /\ sends' = 0 /\ timer' = 0 /\ CallsOK'
    BY <2>1, ReleaseStep
  <2>3. ended' \subseteq [caller : Callers, how : Outcomes]
    BY <2>1, OwnerCalls DEF Ended, Outcomes
  <2>4. TypeOK'
    BY <2>1, <2>2, <2>3 DEF TypeOK, busVars, envVars
  <2> QED  BY <2>2, <2>4 DEF AttemptsOK
<1>23. ASSUME UNCHANGED <<callVars, phase, attempt, sends>>,
              closed' \in BOOLEAN, settled' = settled, ioAge' \in -1..Gap, quiet' \in -1..Window,
              timer' \in Nat, idleLeft' \in 0..Idle, limitLeft' \in 0..(Window + RequestTimeout),
              stream' \in {"up"} \cup FaultKinds, line' \subseteq Exchange, rx' \in Seq(Frame),
              hush' \in 0..Gap, warm' \in -1..StartupSettle, NoneEnded \/ ended' = ended
       PROVE  BaseInv'
  <2>1. TypeOK'
    BY <1>23 DEF TypeOK, callVars, NoneEnded
  <2>2. CallsOK'
    BY <1>23 DEF CallsOK, callVars
  <2>3. AttemptsOK'
    BY <1>23 DEF AttemptsOK, callVars, Request, Owner, Broadcasting
  <2> QED  BY <2>1, <2>2, <2>3
<1>24. ASSUME Close \/ CloseStream \/ StreamRecovers \/ (\E fault \in Faults : StreamFault(fault))
       PROVE  BaseInv'
  <2>1. closed' \in BOOLEAN
    BY <1>24 DEF Close, CloseStream, StreamRecovers, StreamFault, TypeOK, busVars
  <2>2. stream' \in {"up"} \cup FaultKinds
    BY <1>24 DEF Close, CloseStream, StreamRecovers, StreamFault, TypeOK, envVars, FaultKinds
  <2>3. UNCHANGED <<settled, ioAge, quiet, callVars, ownVars, line, rx, hush, warm>> /\ NoneEnded
    BY <1>24 DEF Close, CloseStream, StreamRecovers, StreamFault, busVars, envVars
  <2> QED  BY <1>23, <2>1, <2>2, <2>3 DEF TypeOK, ownVars
<1>25. ASSUME NEW x \in line, Transmit(x) \/ Lose(x) \/ WorkDone(x) \/ \E f \in Frame : Reply(x, f)
       PROVE  BaseInv'
  <2>1. line' \subseteq Exchange
    <3>1. CASE Transmit(x)
      <4>1. x \in Exchange
        BY <1>c
      <4>2. [x EXCEPT !.stage = "work", !.left = Turnaround] \in Exchange
        BY <4>1 DEF Exchange
      <4>3. [x EXCEPT !.stage = "slave", !.left = ReplyMax] \in Exchange
        BY <4>1 DEF Exchange
      <4> QED  BY <1>c, <3>1, <4>2, <4>3 DEF Transmit
    <3>2. CASE ~Transmit(x)
      BY <1>c, <1>25, <3>2 DEF Lose, WorkDone, Reply
    <3> QED  BY <3>1, <3>2
  <2>2. rx' \in Seq(Frame) /\ hush' \in 0..Gap
    <3>1. CASE \E f \in Frame : Reply(x, f)
      BY <1>c, <3>1, AppendProperties DEF Reply
    <3>2. CASE Transmit(x) \/ Lose(x) \/ WorkDone(x)
      <4>1. rx' = rx /\ (hush' = 0 \/ hush' = hush)
        BY <3>2 DEF Transmit, Lose, WorkDone
      <4>2. hush \in 0..Gap
        BY DEF TypeOK
      <4> QED  BY <1>c, <4>1, <4>2
    <3> QED  BY <1>25, <3>1, <3>2
  <2>3. UNCHANGED <<busVars, callVars, ownVars, stream, warm>> /\ NoneEnded
    BY <1>25 DEF Transmit, Lose, WorkDone, Reply
  <2> QED  BY <1>23, <2>1, <2>2, <2>3 DEF TypeOK, busVars, ownVars
<1>26. ASSUME Noise  PROVE BaseInv'
  <2>1. rx' \in Seq(Frame)
    <3>1. Junk \in Frame /\ rx' = <<Junk>>
      BY <1>26 DEF Noise, Junk, Frame
    <3> QED  BY <3>1
  <2> QED  BY <1>23, <1>26, <2>1 DEF Noise, TypeOK, busVars, ownVars
<1>27. ASSUME Tick  PROVE BaseInv'
  <2>1. line' \subseteq Exchange
    <3>1. ASSUME NEW x \in line  PROVE [x EXCEPT !.left = @ - 1] \in Exchange
      <4>1. x \in Exchange /\ x.left > 0
        BY <1>27, <1>c DEF Tick
      <4> QED  BY <4>1 DEF Exchange
    <3> QED  BY <1>27, <3>1 DEF Tick
  <2>2. /\ ioAge' \in -1..Gap /\ quiet' \in -1..Window /\ timer' \in Nat
        /\ idleLeft' \in 0..Idle /\ limitLeft' \in 0..(Window + RequestTimeout)
        /\ hush' \in 0..Gap /\ warm' \in -1..StartupSettle
    <3>1. /\ ioAge' = IF ioAge = Never THEN Never ELSE Lower(ioAge + 1, Gap)
          /\ quiet' = IF quiet > 0 THEN quiet - 1 ELSE quiet
          /\ timer' = Higher(timer - 1, 0)
          /\ idleLeft' = Higher(idleLeft - 1, 0) /\ limitLeft' = Higher(limitLeft - 1, 0)
          /\ hush' = Lower(hush + 1, Gap)
          /\ warm' = IF warm = Never THEN Never ELSE Lower(warm + 1, StartupSettle)
      BY <1>27 DEF Tick
    <3>2. /\ ioAge \in -1..Gap /\ quiet \in -1..Window /\ timer \in Nat
          /\ idleLeft \in 0..Idle /\ limitLeft \in 0..(Window + RequestTimeout)
          /\ hush \in 0..Gap /\ warm \in -1..StartupSettle
      BY DEF TypeOK
    <3>3. Idle \in Nat
      BY DEF Idle, Higher
    <3>4. ioAge' \in -1..Gap /\ quiet' \in -1..Window
      BY <3>1, <3>2 DEF Lower, Never
    <3>5. timer' \in Nat /\ idleLeft' \in 0..Idle /\ limitLeft' \in 0..(Window + RequestTimeout)
      BY <3>1, <3>2, <3>3 DEF Higher
    <3>6. hush' \in 0..Gap /\ warm' \in -1..StartupSettle
      BY <3>1, <3>2 DEF Lower, Never
    <3> QED  BY <3>4, <3>5, <3>6
  <2>3. UNCHANGED <<closed, settled, callVars, phase, attempt, sends, stream, rx>> /\ NoneEnded
    BY <1>27 DEF Tick
  <2> QED  BY <1>23, <2>1, <2>2, <2>3 DEF TypeOK
<1>28. ASSUME UNCHANGED vars  PROVE BaseInv'
  BY <1>23, <1>28 DEF vars, busVars, ownVars, envVars, TypeOK
<1> QED
  BY <1>1, <1>2, <1>4, <1>5, <1>7, <1>8, <1>10, <1>11, <1>12, <1>13, <1>14, <1>15, <1>16,
     <1>17, <1>18, <1>19, <1>20, <1>21, <1>22, <1>24, <1>25, <1>26, <1>27, <1>28
     DEF Next, BusStep, WaitForLine, WaitToRead, ReadReply, LineStep

(* Every state the bus can reach is of the declared kind.                  *)
THEOREM TypeCorrect == Spec => []TypeOK
<1>1. Spec => []BaseInv
  BY InitBase, BaseStep, PTL DEF Spec
<1> QED  BY <1>1, PTL

(* A call hands a write to the kernel at most once, however its attempts   *)
(* end: _should_retry allows a second attempt only of idempotent requests. *)
THEOREM WritesOnce == Spec => []WriteSentOnce
<1>1. Spec => []BaseInv
  BY InitBase, BaseStep, PTL DEF Spec
<1>2. BaseInv => WriteSentOnce
  <2> SUFFICES ASSUME BaseInv, phase # "free", IdempotentOnly,
                      Kind[Request] \in {"write", "broadcast"}
               PROVE  sends <= 1
    BY DEF WriteSentOnce
  <2>1. ~Idempotent(Request)
    BY DEF Idempotent
  <2>2. ~(attempt > 0)
    BY <2>1 DEF AttemptsOK
  <2>3. attempt \in Nat /\ sends \in Nat /\ sends <= attempt + 1
    BY ConfigAssumption DEF TypeOK, AttemptsOK
  <2> QED  BY <2>2, <2>3
<1> QED  BY <1>1, <1>2, PTL

-----------------------------------------------------------------------------
(***************************************************************************)
(* The late-reply window is enough: if it is longer than a request may     *)
(* stay in the kernel and its reply may take, no reply is ever taken for   *)
(* another request, whatever fails or is cancelled and however the callers *)
(* interleave.  Where every send is drained, it only has to be longer than *)
(* the reply may take.  IInv of ModbusBus is inductive under either.       *)
(***************************************************************************)

(* Exchanges, and what an open window says of them                         *)

(* The bounds a stage puts on an exchange, as in LineOK.                   *)
Staged(x) ==
  /\ x.stage = "tx" => x.left <= TxMax
  /\ x.stage = "slave" => x.left <= ReplyMax /\ Kind[x.req] # "broadcast"
  /\ x.stage = "work" => Kind[x.req] = "broadcast"

(* A reply is due no later than the slowest one.                           *)
LEMMA DueProperties ==
  ASSUME NEW x \in Exchange
  PROVE  /\ Due(x) \in Nat
         /\ Staged(x) /\ AwaitsReply(x) => Due(x) <= TxMax + ReplyMax
<1>1. x.left \in Nat /\ x.stage \in {"tx", "slave", "work"}
  BY DEF Exchange
<1> QED  BY <1>1, LineAssumption DEF Due, AwaitsReply, Staged

(* Expiring an exchange leaves its stage, time and request as they were.   *)
LEMMA ExpiredStaged ==
  ASSUME NEW x \in Exchange
  PROVE  /\ Expired(x).cur = FALSE
         /\ Staged(Expired(x)) <=> Staged(x)
         /\ AwaitsReply(Expired(x)) <=> AwaitsReply(x)
         /\ Due(Expired(x)) = Due(x)
BY ExpiredExchange DEF Staged, AwaitsReply, Due

(* Without a window, only the attempt in progress can be answered.         *)
LEMMA NoWindowClear ==
  ASSUME IInv, quiet = NoWindow
  PROVE  /\ \A x \in line : AwaitsReply(x) => Mute \/ x.cur
         /\ \A i \in DOMAIN rx : rx[i].kind # "bad" => rx[i].cur
<1>1. ASSUME NEW x \in line, AwaitsReply(x), ~Mute, ~x.cur  PROVE FALSE
  <2>1. Due(x) < quiet /\ x \in Exchange
    BY <1>1 DEF IInv, WindowOK, TypeOK
  <2> QED  BY <2>1, DueProperties DEF NoWindow
<1>2. ASSUME NEW i \in DOMAIN rx, rx[i].kind # "bad"  PROVE rx[i].cur
  <2>1. rx \in Seq(Frame)
    BY DEF IInv, TypeOK
  <2>2. rx[i].cur \in BOOLEAN
    <3>1. i \in 1..Len(rx)
      BY <2>1, LenProperties
    <3>2. rx[i] \in Frame
      BY <2>1, <3>1, ElementOfSeq
    <3> QED  BY <3>2 DEF Frame
  <2> QED  BY <1>2, <2>2 DEF IInv, WindowOK
<1>3. \A x \in line : x.cur \in BOOLEAN
  BY DEF IInv, TypeOK, Exchange
<1> QED  BY <1>1, <1>2, <1>3

(* Between attempts, and before a request is handed over, nothing on the   *)
(* line belongs to the attempt in progress.                                *)
LEMMA NothingCurrent ==
  ASSUME IInv, ~OnWire \/ phase = "sending"
  PROVE  /\ \A x \in line : ~x.cur
         /\ \A i \in DOMAIN rx : ~rx[i].cur
BY DEF IInv, LineOK, RxOK
-----------------------------------------------------------------------------
(* Steps of the lock holder                                                *)

OffLine == {"free", "granted", "backoff"}
Inductive == LineOK /\ RxOK /\ OneReply /\ WindowOK

(* Steps that leave the line alone and stay where they are or off the line.*)
LEMMA KeepLine ==
  ASSUME IInv, UNCHANGED <<line, rx, quiet, limitLeft>>, Mute => Mute',
         \/ phase' = phase /\ Request' = Request
         \/ phase \in OffLine /\ phase' \in OffLine
  PROVE  Inductive'
<1>1. CASE phase' = phase /\ Request' = Request
  <2>1. (OnWire <=> OnWire') /\ (Broadcasting <=> Broadcasting')
    BY <1>1 DEF OnWire, Broadcasting
  <2> QED  BY <1>1, <2>1 DEF IInv, Inductive, LineOK, RxOK, OneReply, WindowOK, Due, AwaitsReply
<1>2. CASE phase \in OffLine /\ phase' \in OffLine
  <2>1. ~OnWire
    BY <1>2 DEF OnWire, OffLine
  <2>2. (\A x \in line : ~x.cur) /\ (\A i \in DOMAIN rx : ~rx[i].cur)
    BY <2>1, NothingCurrent
  <2>3. LineOK' /\ RxOK' /\ OneReply'
    BY <2>2 DEF IInv, LineOK, RxOK, OneReply
  <2>4. WindowOK'
    BY <1>2 DEF IInv, WindowOK, OffLine, Due, AwaitsReply
  <2> QED  BY <2>3, <2>4 DEF Inductive
<1> QED  BY <1>1, <1>2

(* Steps towards sending on a line nobody is about to answer.              *)
LEMMA ToSending ==
  ASSUME IInv, ~OnWire, UNCHANGED <<line, stream>>, quiet' = NoWindow,
         phase' \in {"settle", "gap", "reset", "sending"},
         rx' = rx \/ rx' = <<>>,
         \A x \in line : AwaitsReply(x) => Mute,
         \A i \in DOMAIN rx' : rx'[i].kind = "bad"
  PROVE  Inductive'
<1>1. (\A x \in line : ~x.cur) /\ (\A i \in DOMAIN rx' : ~rx'[i].cur)
  BY NothingCurrent
<1>2. LineOK' /\ RxOK' /\ OneReply'
  BY <1>1 DEF IInv, LineOK, RxOK, OneReply
<1>3. WindowOK'
  BY DEF WindowOK, AwaitsReply, Due, Mute, Broken
<1> QED  BY <1>2, <1>3 DEF Inductive

LEMMA BeginAttemptLine ==
  ASSUME IInv, phase \in OffLine, NEW STATE n, BeginAttempt(n)
  PROVE  Inductive'
<1>1. UNCHANGED <<quiet, line, rx, stream>> /\ ~OnWire
  BY DEF BeginAttempt, OffLine, OnWire
<1>2. CASE quiet # NoWindow
  <2>1. phase' = "discard" /\ limitLeft' = quiet + RequestTimeout
    BY <1>2 DEF BeginAttempt, SetPhase
  <2>2. (\A x \in line : ~x.cur) /\ (\A i \in DOMAIN rx : ~rx[i].cur)
    BY <1>1, NothingCurrent
  <2>3. LineOK' /\ RxOK' /\ OneReply'
    BY <1>1, <2>2 DEF IInv, LineOK, RxOK, OneReply
  <2>4. quiet <= quiet + RequestTimeout
    BY ConfigAssumption DEF IInv, TypeOK
  <2>5. WindowOK'
    BY <1>1, <1>2, <2>1, <2>2, <2>4 DEF IInv, WindowOK, Due, AwaitsReply, Mute, Broken
  <2> QED  BY <2>3, <2>5 DEF Inductive
<1>3. CASE quiet = NoWindow
  <2>1. phase' \in {"settle", "gap", "reset", "sending"}
    BY <1>3, AwaitGapStep DEF BeginAttempt, IInv, TypeOK
  <2>2. /\ \A x \in line : AwaitsReply(x) => Mute
        /\ \A i \in DOMAIN rx : rx[i].kind = "bad"
    BY <1>1, <1>3, NothingCurrent, NoWindowClear
  <2> QED  BY <1>1, <1>3, <2>1, <2>2, ToSending
<1> QED  BY <1>2, <1>3

(* The discard ends only when the window has closed: nobody answers then.  *)
LEMMA EndDiscardLine ==
  ASSUME IInv, phase = "discard", NEW STATE age, age \in -1..Gap, EndDiscard(age),
         NEW STATE idle, idle \in Nat, DiscardUntil(idle) = 0,
         UNCHANGED <<line, stream>>, rx' = <<>>
  PROVE  Inductive'
<1>1. quiet # NoWindow /\ quiet <= limitLeft /\ quiet \in -1..Window
  BY DEF IInv, WindowOK, TypeOK
<1>2. limitLeft \in Nat
  BY DEF IInv, TypeOK
<1>3. quiet = 0
  BY <1>1, <1>2, ConfigAssumption DEF DiscardUntil, Lower, Higher, NoWindow
<1>4. ~OnWire
  BY DEF OnWire
<1>5. \A x \in line : AwaitsReply(x) => Mute
  <2> SUFFICES ASSUME NEW x \in line, AwaitsReply(x), ~Mute  PROVE FALSE
    OBVIOUS
  <2>1. Due(x) < quiet /\ x \in Exchange
    BY <1>4, NothingCurrent DEF IInv, WindowOK, TypeOK
  <2> QED  BY <1>3, <2>1, DueProperties
<1>6. quiet' = NoWindow /\ phase' \in {"settle", "gap", "reset", "sending"}
  BY AwaitGapStep DEF EndDiscard, IInv
<1>7. DOMAIN rx' = {}
  OBVIOUS
<1> QED  BY <1>4, <1>5, <1>6, <1>7, ToSending

LEMMA WaitForLineStep ==
  ASSUME IInv, WaitForLine
  PROVE  Inductive'
<1>1. ASSUME FirstAttempt  PROVE Inductive'
  BY <1>1, BeginAttemptLine DEF FirstAttempt, OffLine
<1>2. ASSUME NextAttempt  PROVE Inductive'
  BY <1>2, BeginAttemptLine DEF NextAttempt, OffLine
<1>i. Idle \in Nat /\ 0 \in -1..Gap
  BY ConfigAssumption DEF Idle, Higher
<1>3. ASSUME DiscardLate  PROVE Inductive'
  <2>1. phase = "discard" /\ rx' = <<>> /\ UNCHANGED <<line, stream>>
    BY <1>3 DEF DiscardLate
  <2>2. CASE DiscardUntil(Idle) = 0
    BY <1>3, <1>i, <2>1, <2>2, EndDiscardLine DEF DiscardLate
  <2>3. CASE DiscardUntil(Idle) # 0
    <3>1. UNCHANGED <<quiet, phase, limitLeft, callVars>>
      BY <1>3, <2>3 DEF DiscardLate
    <3>2. (\A x \in line : ~x.cur) /\ DOMAIN rx' = {}
      BY <2>1, NothingCurrent DEF OnWire
    <3>3. LineOK' /\ RxOK' /\ OneReply'
      BY <2>1, <3>2 DEF IInv, LineOK, RxOK, OneReply
    <3>4. WindowOK'
      BY <2>1, <3>1, <3>2 DEF IInv, WindowOK, Due, AwaitsReply, Mute, Broken
    <3> QED  BY <3>3, <3>4 DEF Inductive
  <2> QED  BY <2>2, <2>3
<1>4. ASSUME DiscardOver  PROVE Inductive'
  <2>1. /\ phase = "discard" /\ rx' = <<>> /\ UNCHANGED <<line, stream>>
        /\ DiscardUntil(idleLeft) = 0 /\ EndDiscard(ioAge)
    BY <1>4 DEF DiscardOver, envVars
  <2>2. idleLeft \in Nat /\ ioAge \in -1..Gap
    BY DEF IInv, TypeOK
  <2> QED  BY <2>1, <2>2, EndDiscardLine
<1>5. ASSUME WaitOver \/ ResetInput  PROVE Inductive'
  <2>1. /\ phase \in {"settle", "gap", "reset"} /\ phase' \in {"reset", "sending"}
        /\ UNCHANGED <<line, quiet, stream>> /\ (rx' = rx \/ rx' = <<>>)
    BY <1>5 DEF WaitOver, ResetInput, Proceed, StartSending, SetPhase, busVars, envVars
  <2>2. quiet = NoWindow /\ ~OnWire
    BY <2>1 DEF IInv, WindowOK, OnWire
  <2>3. /\ \A x \in line : AwaitsReply(x) => Mute
        /\ \A i \in DOMAIN rx' : rx'[i].kind = "bad"
    BY <2>1, <2>2, NothingCurrent, NoWindowClear
  <2> QED  BY <2>1, <2>2, <2>3, ToSending
<1> QED  BY <1>1, <1>2, <1>3, <1>4, <1>5 DEF WaitForLine

(* The request handed over is the only thing of this attempt on the line.  *)
LEMMA HandOverStep ==
  ASSUME IInv, HandOver
  PROVE  Inductive'
<1> DEFINE new == NewExchange(Request, TRUE)
<1>1. /\ phase = "sending" /\ FreeIds # {} /\ line' = line \cup {new} /\ rx' = rx
      /\ UNCHANGED <<quiet, callVars, stream>>
  BY DEF HandOver, busVars
<1>2. queue # <<>>
  BY <1>1 DEF IInv, TypeOK
<1>3. new.stage = "tx" /\ new.left = TxMax /\ new.req = Request /\ new.cur = TRUE
  BY <1>1, <1>2, OwnerCalls, NewExchangeType DEF IInv
<1> HIDE DEF new
<1>4. (\A x \in line : ~x.cur) /\ (\A i \in DOMAIN rx : ~rx[i].cur)
  BY <1>1, NothingCurrent
<1>5. /\ phase' \in {"draining", "turnaround", "txsettle", "reading"}
      /\ phase' = "turnaround" => Broadcasting
  BY SentStep DEF HandOver, SetPhase
<1>6. Request' = Request /\ (Broadcasting <=> Broadcasting')
  BY <1>1 DEF callVars, Request, Owner, Broadcasting
<1>7. LineOK'
  BY <1>1, <1>3, <1>4, <1>5, <1>6, LineAssumption DEF IInv, LineOK, OnWire
<1>8. RxOK' /\ OneReply'
  BY <1>1, <1>4 DEF RxOK, OneReply
<1>9. WindowOK'
  BY <1>1, <1>3, <1>4, <1>5, <1>6 DEF IInv, WindowOK, Due, AwaitsReply, Mute, Broken
<1> QED  BY <1>7, <1>8, <1>9 DEF Inductive

(* From one stage of an attempt under way to the next.                     *)
LEMMA UnderWayStep ==
  ASSUME IInv, WaitToRead
  PROVE  Inductive'
<1>1. /\ phase \in {"draining", "txsettle"} /\ UNCHANGED <<line, rx, quiet, callVars, stream>>
      /\ phase' \in {"turnaround", "txsettle", "reading"}
      /\ phase' = "turnaround" => Broadcasting
  BY SentStep DEF WaitToRead, Drained, TxSettled, SetPhase, busVars, envVars
<1>2. Request' = Request /\ (Broadcasting <=> Broadcasting')
  BY <1>1 DEF callVars, Request, Owner, Broadcasting
<1>3. OnWire'
  BY <1>1 DEF OnWire
<1>4. LineOK' /\ RxOK'
  BY <1>1, <1>2, <1>3 DEF IInv, LineOK, RxOK
<1>5. OneReply'
  BY <1>1 DEF IInv, OneReply
<1>6. WindowOK'
  BY <1>1, <1>2 DEF IInv, WindowOK, Due, AwaitsReply, Mute, Broken
<1> QED  BY <1>4, <1>5, <1>6 DEF Inductive

LEMMA SkipStrayStep ==
  ASSUME IInv, SkipStray
  PROVE  Inductive'
<1>1. UNCHANGED <<phase, line, quiet, limitLeft, callVars, stream>>
  BY DEF SkipStray, busVars, ownVars
<1>2. PICK n \in DOMAIN rx : rx' = SubSeq(rx, n + 1, Len(rx))
  BY DEF SkipStray
<1>3. /\ rx \in Seq(Frame) /\ rx' \in Seq(Frame) /\ n \in 1..Len(rx) /\ Len(rx) \in Nat
      /\ Len(rx') = Len(rx) - n
      /\ \A k \in 1..Len(rx') : rx'[k] = rx[k + n]
  BY <1>2, LenProperties, DropProperties, ZenonT(60) DEF IInv, TypeOK
<1>4. \A k \in DOMAIN rx' : k \in Nat /\ k + n \in DOMAIN rx /\ rx'[k] = rx[k + n]
  <2>1. DOMAIN rx' = 1..Len(rx') /\ DOMAIN rx = 1..Len(rx)
    BY <1>3, LenProperties
  <2> QED  BY <1>3, <2>1
<1>5. /\ Request' = Request /\ (Broadcasting <=> Broadcasting')
      /\ OnWire <=> OnWire'
  BY <1>1 DEF callVars, Request, Owner, Broadcasting, OnWire
<1>6. LineOK' /\ RxOK'
  BY <1>1, <1>4, <1>5 DEF IInv, LineOK, RxOK
<1>7. OneReply'
  <2>1. \A i, j \in DOMAIN rx' : rx'[i].cur /\ rx'[j].cur => i = j
    <3> SUFFICES ASSUME NEW i \in DOMAIN rx', NEW j \in DOMAIN rx', rx'[i].cur, rx'[j].cur
                 PROVE  i = j
      OBVIOUS
    <3>1. i + n = j + n
      BY <1>4 DEF IInv, OneReply
    <3> QED  BY <1>3, <1>4, <3>1
  <2> QED  BY <1>1, <1>4, <2>1 DEF IInv, OneReply
<1>8. WindowOK'
  BY <1>1, <1>4, <1>5 DEF IInv, WindowOK, Due, AwaitsReply, Mute, Broken
<1> QED  BY <1>6, <1>7, <1>8 DEF Inductive
-----------------------------------------------------------------------------
(* The end of an attempt                                                   *)

(* The actions that end an attempt.                                        *)
Ending == TurnaroundOver \/ ReadFrame \/ ReadDamaged \/ ReadTimeout \/ CancelAttempt \/ StreamFails

(* However an attempt ends, its end is stamped and the lock released or a  *)
(* backoff begun; only a cancelled send may have added to the line.        *)
LEMMA EndingStep ==
  ASSUME BaseInv, Ending
  PROVE  /\ phase \in Attempting /\ phase' \in OffLine /\ ioAge' = 0
         /\ UNCHANGED <<settled, stream, hush, warm>>
         /\ quiet' \in {quiet, Higher(quiet, Window)}
         /\ \/ line' = {Expired(x) : x \in line}
            \/ /\ CancelAttempt /\ phase = "sending" /\ FreeIds # {}
               /\ line' = {Expired(x) : x \in line \cup {NewExchange(Request, FALSE)}}
<1>1. phase \in Attempting /\ closed' \in BOOLEAN
  BY DEF TypeOK, Ending, TurnaroundOver, ReadFrame, ReadDamaged, ReadTimeout, CancelAttempt,
         StreamFails, Attempting, Reading, Writing, Sleeping
<1>2. /\ line \subseteq Exchange /\ rx \in Seq(Frame) /\ queue # <<>>
      /\ Len(rx) \in Nat /\ DOMAIN rx = 1..Len(rx)
  BY <1>1, LenProperties DEF TypeOK, Attempting, Reading, Writing, Sleeping
<1>3. \A l \in MaybeHandedOver : l \subseteq Exchange
  BY <1>2, MaybeHandedOverType
<1>4. ASSUME NEW o \in Outcomes, NEW l \in MaybeHandedOver, NEW u \in Seq(Frame),
             FinishAttempt(o, l, u)
      PROVE  /\ phase' \in OffLine /\ ioAge' = 0
             /\ UNCHANGED <<settled, stream, hush, warm>>
             /\ quiet' \in {quiet, Higher(quiet, Window)}
             /\ line' = {Expired(x) : x \in l}
  <2>1. phase' \in OffLine
    BY <1>1, <1>3, <1>4, FinishStep DEF OffLine
  <2> QED  BY <1>4, <2>1 DEF FinishAttempt
<1>5. line \in MaybeHandedOver
  BY DEF MaybeHandedOver
<1>6. \A n \in DOMAIN rx : SubSeq(rx, n + 1, Len(rx)) \in Seq(Frame)
  BY <1>2, DropProperties
<1>7. CASE CancelAttempt
  <2>1. PICK l \in MaybeHandedOver : FinishAttempt("cancelled", l, rx)
    BY <1>7 DEF CancelAttempt
  <2>2. l = line \/ (phase = "sending" /\ FreeIds # {} /\ l = line \cup {NewExchange(Request, FALSE)})
    BY DEF MaybeHandedOver
  <2> QED  BY <1>1, <1>2, <1>4, <1>7, <2>1, <2>2 DEF Outcomes
<1>8. CASE ReadFrame
  <2>1. Tail(rx) \in Seq(Frame)
    BY <1>2, <1>8, HeadTailProperties DEF ReadFrame
  <2>2. \E o \in Outcomes : FinishAttempt(o, line, Tail(rx))
    BY <1>8 DEF ReadFrame, Outcomes
  <2> QED  BY <1>1, <1>4, <1>5, <2>1, <2>2
<1>9. CASE ReadDamaged
  <2>1. \E u \in Seq(Frame) : FinishAttempt("bad", line, u)
    BY <1>2, <1>6, <1>9 DEF ReadDamaged
  <2> QED  BY <1>1, <1>4, <1>5, <2>1 DEF Outcomes
<1>10. CASE TurnaroundOver \/ ReadTimeout \/ StreamFails
  <2>1. \E o \in Outcomes : FinishAttempt(o, line, rx)
    BY <1>10 DEF TurnaroundOver, ReadTimeout, StreamFails, StreamErrors, Outcomes
  <2> QED  BY <1>1, <1>2, <1>4, <1>5, <2>1
<1> QED  BY <1>7, <1>8, <1>9, <1>10 DEF Ending

(* Whatever can still answer when an attempt ends, the window it leaves    *)
(* open covers: then nothing of it belongs to a later attempt.             *)
LEMMA FinishLine ==
  ASSUME NEW STATE outcome, NEW STATE l, NEW STATE u,
         l \subseteq Exchange, u \in Seq(Frame),
         FinishAttempt(outcome, l, u),
         phase' \in OffLine,
         \A x \in l : Staged(x) /\ (AwaitsReply(x) => Mute \/ Due(x) < quiet'),
         \A i \in DOMAIN u : u[i].kind # "bad" => quiet' # NoWindow
  PROVE  Inductive'
<1>1. line' = {Expired(x) : x \in l} /\ rx' = ExpiredRx(u) /\ (Mute <=> Mute')
  BY DEF FinishAttempt, Mute, Broken
<1>2. \A y \in line' : ~y.cur /\ Staged(y) /\ (AwaitsReply(y) => Mute \/ Due(y) < quiet')
  <2> SUFFICES ASSUME NEW x \in l
               PROVE  /\ ~Expired(x).cur /\ Staged(Expired(x))
                      /\ AwaitsReply(Expired(x)) => Mute \/ Due(Expired(x)) < quiet'
    BY <1>1
  <2>1. x \in Exchange /\ Staged(x) /\ (AwaitsReply(x) => Mute \/ Due(x) < quiet')
    OBVIOUS
  <2> QED  BY <2>1, ExpiredStaged
<1>3. \A i \in DOMAIN rx' : ~rx'[i].cur /\ (rx'[i].kind # "bad" => quiet' # NoWindow)
  BY <1>1, ExpiredRxProperties
<1>4. LineOK'
  BY <1>2 DEF LineOK, Staged
<1>5. RxOK' /\ OneReply'
  BY <1>2, <1>3 DEF RxOK, OneReply
<1>6. WindowOK'
  BY <1>1, <1>2, <1>3 DEF WindowOK, OffLine, Due, AwaitsReply
<1> QED  BY <1>4, <1>5, <1>6 DEF Inductive

(* An uncertain end opens the window; a broadcast's leaves nothing to wait *)
(* for.  l is the line, or the line with a request whose sending was       *)
(* cancelled; u is what is left unread.                                    *)
LEMMA UncertainEnd ==
  ASSUME WindowSuffices, IInv, phase \in Attempting, closed' \in BOOLEAN,
         NEW STATE outcome, outcome \in Outcomes, NEW STATE l, NEW STATE u,
         ~Certain(outcome) \/ Broadcasting,
         l \in MaybeHandedOver, u \in Seq(Frame),
         \A i \in DOMAIN u : \E j \in DOMAIN rx : u[i] = rx[j],
         FinishAttempt(outcome, l, u),
         SendsDrained => (phase = "sending" => l = line) /\ (phase = "draining" => Broken)
  PROVE  Inductive'
<1>1. queue # <<>> /\ line \subseteq Exchange /\ quiet \in -1..Window
  BY DEF IInv, TypeOK, Attempting, Reading, Writing, Sleeping
<1>2. l \subseteq Exchange
  BY <1>1, MaybeHandedOverType DEF IInv
<1>3. phase' \in OffLine
  BY <1>2, FinishStep DEF IInv, OffLine
<1>4. \A x \in l : x \in line \/ (phase = "sending" /\ x.stage = "tx" /\ x.left = TxMax /\ x.req = Request)
  <2>1. FreeIds # {} => LET x == NewExchange(Request, FALSE) IN
                           x.stage = "tx" /\ x.left = TxMax /\ x.req = Request
    BY <1>1, OwnerCalls, NewExchangeType DEF IInv
  <2> QED  BY <2>1 DEF MaybeHandedOver
<1>5. \A x \in l : Staged(x)
  <2>1. \A x \in line : Staged(x)
    BY DEF IInv, LineOK, Staged
  <2> QED  BY <1>4, <2>1, LineAssumption DEF Staged
<1>w. /\ Window \in Nat /\ Window > 0 /\ TxMax \in Nat /\ ReplyMax \in Nat
      /\ \/ TxMax + ReplyMax < Window
         \/ SendsDrained /\ ~WindowCoversReply /\ ReplyMax < Window
  BY ConfigAssumption, LineAssumption DEF WindowSuffices, WindowCoversReply
<1>6. CASE OpensWindow(outcome)
  <2>1. quiet' = Higher(quiet, Window)
    BY <1>6 DEF FinishAttempt
  <2>2. quiet' \in Nat /\ Window <= quiet'
    BY <1>1, <1>w, <2>1 DEF Higher
  <2>3. ASSUME NEW x \in l, AwaitsReply(x)  PROVE Mute \/ Due(x) < quiet'
    <3>1. Due(x) \in Nat /\ Due(x) <= TxMax + ReplyMax
      BY <1>2, <1>5, <2>3, DueProperties
    <3>2. CASE TxMax + ReplyMax < Window
      BY <1>w, <2>2, <3>1, <3>2
    <3>3. CASE SendsDrained /\ ~WindowCoversReply /\ ReplyMax < Window
      <4>1. CASE x.stage = "tx"
        <5>1. x \in line
          BY <1>4, <3>3
        <5>2. Broken
          BY <3>3, <4>1, <5>1 DEF IInv, KernelEmpties
        <5> QED  BY <3>3, <5>2 DEF Mute
      <4>2. CASE x.stage # "tx"
        <5>1. x.stage = "slave" /\ x.left <= ReplyMax /\ x.left \in Nat
          BY <1>2, <1>5, <2>3, <4>2 DEF Staged, AwaitsReply, Exchange
        <5>2. Due(x) = x.left
          BY <4>2 DEF Due
        <5> QED  BY <1>w, <2>2, <3>3, <5>1, <5>2
      <4> QED  BY <4>1, <4>2
    <3> QED  BY <1>w, <3>2, <3>3
  <2>4. quiet' # NoWindow
    BY <2>2 DEF NoWindow
  <2> QED  BY <1>2, <1>3, <1>5, <2>3, <2>4, FinishLine
<1>7. CASE ~OpensWindow(outcome)
  <2>1. quiet' = quiet
    BY <1>7 DEF FinishAttempt
  <2>2. ~OnWire \/ Broadcasting
    BY <1>7, <1>w DEF OpensWindow
  <2>3. \A x \in line : AwaitsReply(x) => ~x.cur
    BY <2>2 DEF IInv, LineOK, AwaitsReply, Broadcasting
  <2>4. \A j \in DOMAIN rx : ~rx[j].cur
    BY <2>2 DEF IInv, RxOK
  <2>5. ASSUME NEW x \in l, AwaitsReply(x)  PROVE Mute \/ Due(x) < quiet'
    <3>1. CASE x \in line
      BY <2>1, <2>3, <2>5, <3>1 DEF IInv, WindowOK
    <3>2. CASE x \notin line
      <4>1. phase = "sending" /\ x.req = Request
        BY <1>4, <3>2
      <4>2. Broadcasting
        BY <2>2, <4>1 DEF OnWire
      <4> QED  BY <2>5, <4>1, <4>2 DEF AwaitsReply, Broadcasting
    <3> QED  BY <3>1, <3>2
  <2>6. \A i \in DOMAIN u : u[i].kind # "bad" => quiet' # NoWindow
    BY <2>1, <2>4 DEF IInv, WindowOK
  <2> QED  BY <1>2, <1>3, <1>5, <2>5, <2>6, FinishLine
<1> QED  BY <1>6, <1>7

(* A frame that answers is the one reply of this attempt: nothing of it is *)
(* left, whether it was what the request asked for or not.                 *)
LEMMA ReadFrameStep ==
  ASSUME IInv, ReadFrame
  PROVE  Inductive'
<1> DEFINE f == Head(rx)
           o == IF Answers(f, Request) THEN "reply"
                ELSE IF Refuses(f, Request) THEN "exception" ELSE "bad"
<1>1. /\ phase = "reading" /\ rx # <<>> /\ f.kind # "bad" /\ FinishAttempt(o, line, Tail(rx))
      /\ closed' \in BOOLEAN /\ o \in Outcomes
  BY DEF ReadFrame, IInv, TypeOK, Outcomes
<1> HIDE DEF o
<1>2. line \subseteq Exchange /\ rx \in Seq(Frame)
  BY DEF IInv, TypeOK
<1>3. /\ Len(rx) \in Nat \ {0} /\ DOMAIN rx = 1..Len(rx) /\ f = rx[1]
      /\ Tail(rx) \in Seq(Frame) /\ Len(Tail(rx)) = Len(rx) - 1
      /\ \A i \in 1..(Len(rx) - 1) : Tail(rx)[i] = rx[i + 1]
      /\ DOMAIN Tail(rx) = 1..(Len(rx) - 1)
  <2>1. Len(rx) \in Nat \ {0} /\ DOMAIN rx = 1..Len(rx)
    BY <1>1, <1>2, EmptySeq, LenProperties
  <2>2. /\ f = rx[1] /\ Tail(rx) \in Seq(Frame) /\ Len(Tail(rx)) = Len(rx) - 1
        /\ \A i \in 1..(Len(rx) - 1) : Tail(rx)[i] = rx[i + 1]
    BY <1>1, <1>2, HeadTailProperties
  <2>3. DOMAIN Tail(rx) = 1..Len(Tail(rx))
    BY <2>2, LenProperties
  <2> QED  BY <2>1, <2>2, <2>3
<1>4. quiet = NoWindow
  BY <1>1 DEF IInv, WindowOK
<1>5. /\ \A x \in line : AwaitsReply(x) => Mute \/ x.cur
      /\ \A i \in DOMAIN rx : rx[i].kind # "bad" => rx[i].cur
  BY <1>4, NoWindowClear
<1>6. 1 \in DOMAIN rx /\ rx[1].cur
  BY <1>1, <1>3, <1>5
<1>7. \A x \in line : AwaitsReply(x) => Mute
  BY <1>5, <1>6 DEF IInv, OneReply
<1>8. ASSUME NEW i \in DOMAIN Tail(rx)  PROVE Tail(rx)[i].kind = "bad"
  <2>1. i + 1 \in DOMAIN rx /\ i + 1 # 1 /\ Tail(rx)[i] = rx[i + 1]
    BY <1>3
  <2>2. ~rx[i + 1].cur
    BY <1>6, <2>1 DEF IInv, OneReply
  <2> QED  BY <1>5, <2>1, <2>2
<1>9. phase' \in OffLine
  <2>1. phase \in Attempting
    BY <1>1 DEF Attempting, Reading
  <2> QED  BY <1>1, <1>2, <1>3, <2>1, FinishStep DEF IInv, OffLine
<1>10. \A x \in line : Staged(x)
  BY DEF IInv, LineOK, Staged
<1> QED  BY <1>1, <1>2, <1>3, <1>7, <1>8, <1>9, <1>10, FinishLine

LEMMA AttemptEnds ==
  ASSUME WindowSuffices, IInv,
         TurnaroundOver \/ ReadDamaged \/ ReadTimeout \/ CancelAttempt \/ StreamFails
  PROVE  Inductive'
<1>1. /\ rx \in Seq(Frame) /\ line \in MaybeHandedOver
      /\ \A i \in DOMAIN rx : \E j \in DOMAIN rx : rx[i] = rx[j]
  BY DEF IInv, TypeOK, MaybeHandedOver
<1>2. phase \in Attempting /\ closed' \in BOOLEAN
  BY DEF IInv, TypeOK, TurnaroundOver, ReadDamaged, ReadTimeout, CancelAttempt, StreamFails,
         Attempting, Reading, Writing, Sleeping
<1>d. SendsDrained => (CancelAttempt => phase # "sending") /\ (phase = "draining" => Broken)
  <2> SUFFICES ASSUME SendsDrained
               PROVE  (CancelAttempt => phase # "sending") /\ (phase = "draining" => Broken)
    OBVIOUS
  <2>1. phase \in {"sending", "draining"} => ~CancelAttempt
    BY DEF CancelAttempt, SendsDrained
  <2>2. ASSUME phase = "draining"  PROVE Broken
    <3>1. StreamFails
      BY <2>1, <2>2 DEF TurnaroundOver, ReadDamaged, ReadTimeout
    <3>2. stream \notin {"up", "eof", "oserror", "etimedout"} /\ stream \in {"up"} \cup FaultKinds
      BY <2>2, <3>1 DEF StreamFails, Reading, IInv, TypeOK, KernelEmpties
    <3> QED  BY <3>2 DEF Broken, FaultKinds
  <2> QED  BY <2>1, <2>2
<1>e. SendsDrained => (phase = "sending" => line = line) /\ (phase = "draining" => Broken)
  BY <1>d
<1>3. ASSUME TurnaroundOver  PROVE Inductive'
  <2>1. Broadcasting /\ "broadcast_sent" \in Outcomes /\ FinishAttempt("broadcast_sent", line, rx)
    BY <1>3 DEF TurnaroundOver, IInv, WindowOK, Outcomes
  <2> QED  BY <1>1, <1>2, <2>1, <1>e, UncertainEnd
<1>4. ASSUME ReadDamaged  PROVE Inductive'
  <2>1. "bad" \in Outcomes /\ ~Certain("bad")
    BY DEF Outcomes, Certain
  <2>2. ASSUME FinishAttempt("bad", line, rx)  PROVE Inductive'
    BY <1>1, <1>2, <2>1, <2>2, <1>e, UncertainEnd
  <2>3. ASSUME NEW n \in DOMAIN rx, FinishAttempt("bad", line, SubSeq(rx, n + 1, Len(rx)))
        PROVE  Inductive'
    <3> DEFINE u == SubSeq(rx, n + 1, Len(rx))
    <3>1. n \in 1..Len(rx) /\ DOMAIN rx = 1..Len(rx) /\ Len(rx) \in Nat
      BY <1>1, LenProperties
    <3>2. u \in Seq(Frame) /\ Len(u) = Len(rx) - n /\ \A k \in 1..Len(u) : u[k] = rx[k + n]
      BY <1>1, <3>1, DropProperties
    <3>3. DOMAIN u = 1..Len(u)
      BY <3>2, LenProperties
    <3>4. FinishAttempt("bad", line, u)
      BY <2>3
    <3> HIDE DEF u
    <3>5. \A i \in DOMAIN u : \E j \in DOMAIN rx : u[i] = rx[j]
      <4> SUFFICES ASSUME NEW i \in DOMAIN u  PROVE \E j \in DOMAIN rx : u[i] = rx[j]
        OBVIOUS
      <4>1. i \in 1..Len(u) /\ i + n \in 1..Len(rx)
        BY <3>1, <3>2, <3>3
      <4>2. u[i] = rx[i + n]
        BY <3>2, <4>1
      <4> QED  BY <3>1, <4>1, <4>2
    <3> QED  BY <1>1, <1>2, <2>1, <3>2, <3>4, <3>5, <1>e, UncertainEnd, ZenonT(60)
  <2> QED  BY <1>4, <2>2, <2>3 DEF ReadDamaged
<1>5. ASSUME ReadTimeout  PROVE Inductive'
  <2>1. "timeout" \in Outcomes /\ ~Certain("timeout") /\ FinishAttempt("timeout", line, rx)
    BY <1>5 DEF Outcomes, Certain, ReadTimeout
  <2> QED  BY <1>1, <1>2, <2>1, <1>e, UncertainEnd
<1>6. ASSUME CancelAttempt  PROVE Inductive'
  <2>1. "cancelled" \in Outcomes /\ ~Certain("cancelled")
    BY DEF Outcomes, Certain
  <2>2. PICK l \in MaybeHandedOver : FinishAttempt("cancelled", l, rx)
    BY <1>6 DEF CancelAttempt
  <2>3. SendsDrained => (phase = "sending" => l = line) /\ (phase = "draining" => Broken)
    BY <1>6, <1>d
  <2> QED  BY <1>1, <1>2, <2>1, <2>2, <2>3, UncertainEnd
<1>7. ASSUME StreamFails  PROVE Inductive'
  <2>1. PICK outcome \in StreamErrors(stream) : FinishAttempt(outcome, line, rx)
    BY <1>7 DEF StreamFails
  <2>2. outcome \in Outcomes /\ ~Certain(outcome)
    BY DEF Outcomes, Certain, StreamErrors
  <2> QED  BY <1>1, <1>2, <2>1, <2>2, <1>e, UncertainEnd
<1> QED  BY <1>3, <1>4, <1>5, <1>6, <1>7
-----------------------------------------------------------------------------
(* Steps of the line, and of time                                          *)

(* Handing an exchange on to its slave takes nothing off what is due.      *)
LEMMA TransmitStep ==
  ASSUME IInv, NEW x \in line, Transmit(x)
  PROVE  Inductive'
<1> DEFINE y == IF Kind[x.req] = "broadcast"
                THEN [x EXCEPT !.stage = "work", !.left = Turnaround]
                ELSE [x EXCEPT !.stage = "slave", !.left = ReplyMax]
<1>1. /\ line' = (line \ {x}) \cup {y} /\ x.stage = "tx"
      /\ UNCHANGED <<rx, quiet, phase, limitLeft, callVars, stream>>
  BY DEF Transmit, busVars, ownVars
<1>2. x \in Exchange
  BY DEF IInv, TypeOK
<1>3. /\ y.cur = x.cur /\ y.req = x.req
      /\ Kind[x.req] = "broadcast" => y.stage = "work"
      /\ Kind[x.req] # "broadcast" => y.stage = "slave" /\ y.left = ReplyMax
  BY <1>2 DEF Exchange
<1> HIDE DEF y
<1>4. /\ Request' = Request /\ (Broadcasting <=> Broadcasting')
      /\ OnWire <=> OnWire'
  BY <1>1 DEF callVars, Request, Owner, Broadcasting, OnWire
<1>5. x.left \in Nat
  BY <1>2 DEF Exchange
<1>6. LineOK' /\ RxOK'
  BY <1>1, <1>3, <1>4, LineAssumption DEF IInv, LineOK, RxOK
<1>7. OneReply'
  BY <1>1, <1>3 DEF IInv, OneReply
<1>8. AwaitsReply(y) /\ ~y.cur => Mute \/ Due(y) < quiet
  <2> SUFFICES ASSUME AwaitsReply(y), ~y.cur, ~Mute  PROVE Due(y) < quiet
    OBVIOUS
  <2>1. y.stage = "slave" /\ Due(y) = ReplyMax
    BY <1>3 DEF AwaitsReply, Due
  <2>2. AwaitsReply(x) /\ ~x.cur
    BY <1>1, <1>3 DEF AwaitsReply
  <2>3. Due(x) < quiet /\ Due(x) = x.left + ReplyMax
    BY <1>1, <2>2 DEF IInv, WindowOK, Due
  <2>4. quiet \in Int
    BY ConfigAssumption DEF IInv, TypeOK
  <2> QED  BY <1>5, <2>1, <2>3, <2>4, LineAssumption
<1>9. WindowOK'
  <2>1. \A z \in line' : AwaitsReply(z) /\ ~z.cur => Mute \/ Due(z) < quiet
    BY <1>1, <1>8 DEF IInv, WindowOK
  <2> QED  BY <1>1, <1>4, <2>1 DEF IInv, WindowOK, AwaitsReply, Due, Mute, Broken
<1> QED  BY <1>6, <1>7, <1>9 DEF Inductive

LEMMA ReplyStep ==
  ASSUME IInv, NEW x \in line, NEW f \in Frame, Reply(x, f)
  PROVE  Inductive'
<1>1. /\ line' = line \ {x} /\ rx' = Append(rx, f) /\ x.stage = "slave"
      /\ UNCHANGED <<quiet, phase, limitLeft, callVars, stream>> /\ ~Mute
  BY DEF Reply, busVars, ownVars, Mute, Broken
<1>2. (f.kind = "bad" /\ f.cur = FALSE) \/ (f.req = x.req /\ f.cur = x.cur)
  <2>1. \/ f = [req |-> x.req, kind |-> "ok", cur |-> x.cur]
        \/ f = [req |-> x.req, kind |-> "exception", cur |-> x.cur]
        \/ f = [req |-> NoRequest, kind |-> "bad", cur |-> FALSE]
    BY DEF Reply, Junk
  <2> QED  BY <2>1
<1>3. rx \in Seq(Frame) /\ x \in Exchange
  BY DEF IInv, TypeOK
<1>4. /\ Len(rx) \in Nat /\ DOMAIN rx = 1..Len(rx) /\ DOMAIN rx' = 1..(Len(rx) + 1)
      /\ \A i \in 1..Len(rx) : rx'[i] = rx[i]
      /\ rx'[Len(rx) + 1] = f
  <2>1. Len(rx) \in Nat /\ DOMAIN rx = 1..Len(rx)
    BY <1>3, LenProperties
  <2>2. /\ rx' \in Seq(Frame) /\ Len(rx') = Len(rx) + 1
        /\ \A i \in 1..Len(rx) : rx'[i] = rx[i]
        /\ rx'[Len(rx) + 1] = f
    BY <1>1, <1>3, AppendProperties
  <2> QED  BY <2>1, <2>2, LenProperties
<1>5. ASSUME NEW i \in DOMAIN rx'
      PROVE  (i \in DOMAIN rx /\ rx'[i] = rx[i]) \/ (i = Len(rx) + 1 /\ rx'[i] = f)
  <2>1. i \in 1..Len(rx) \/ i = Len(rx) + 1
    BY <1>4
  <2> QED  BY <1>4, <2>1
<1>6. /\ Request' = Request /\ (Broadcasting <=> Broadcasting')
      /\ OnWire <=> OnWire'
  BY <1>1 DEF callVars, Request, Owner, Broadcasting, OnWire
<1>7. Kind[x.req] # "broadcast" /\ AwaitsReply(x)
  BY <1>1 DEF IInv, LineOK, AwaitsReply
<1>8. LineOK'
  BY <1>1, <1>6 DEF IInv, LineOK
<1>9. RxOK'
  <2>1. f.cur => OnWire /\ phase # "sending" /\ f.req = Request /\ ~Broadcasting
    BY <1>2, <1>7 DEF IInv, LineOK, Broadcasting
  <2> QED  BY <1>1, <1>5, <1>6, <2>1 DEF IInv, RxOK
<1>10. OneReply'
  <2>1. f.cur => x.cur
    BY <1>2
  <2>2. \A i, j \in DOMAIN rx' : rx'[i].cur /\ rx'[j].cur => i = j
    BY <1>5, <2>1 DEF IInv, OneReply
  <2>3. \A y \in line', i \in DOMAIN rx' : ~(y.cur /\ rx'[i].cur)
    BY <1>1, <1>5, <2>1 DEF IInv, OneReply
  <2> QED  BY <1>1, <2>2, <2>3 DEF IInv, OneReply
<1>11. f.kind # "bad" /\ ~f.cur => quiet # NoWindow
  <2> SUFFICES ASSUME ~x.cur  PROVE quiet # NoWindow
    BY <1>2
  <2>1. Due(x) < quiet /\ Due(x) \in Nat
    BY <1>1, <1>3, <1>7, DueProperties DEF IInv, WindowOK
  <2> QED  BY <2>1 DEF NoWindow
<1>12. WindowOK'
  <2>1. \A i \in DOMAIN rx' : rx'[i].kind # "bad" /\ ~rx'[i].cur => quiet # NoWindow
    BY <1>5, <1>11 DEF IInv, WindowOK
  <2> QED  BY <1>1, <1>6, <2>1 DEF IInv, WindowOK, AwaitsReply, Due, Mute, Broken
<1> QED  BY <1>8, <1>9, <1>10, <1>12 DEF Inductive

LEMMA DropExchange ==
  ASSUME IInv, NEW x \in line, Lose(x) \/ WorkDone(x)
  PROVE  Inductive'
<1>1. line' \subseteq line /\ UNCHANGED <<rx, quiet, phase, limitLeft, callVars, stream>>
  BY DEF Lose, WorkDone, busVars, ownVars
<1>2. /\ Request' = Request /\ (Broadcasting <=> Broadcasting')
      /\ OnWire <=> OnWire'
  BY <1>1 DEF callVars, Request, Owner, Broadcasting, OnWire
<1>3. LineOK' /\ RxOK' /\ OneReply'
  BY <1>1, <1>2 DEF IInv, LineOK, RxOK, OneReply
<1>4. WindowOK'
  BY <1>1, <1>2 DEF IInv, WindowOK, AwaitsReply, Due, Mute, Broken
<1> QED  BY <1>3, <1>4 DEF Inductive

LEMMA NoiseStep ==
  ASSUME IInv, Noise
  PROVE  Inductive'
<1>1. /\ UNCHANGED <<line, quiet, phase, limitLeft, callVars, stream>>
      /\ rx' = <<Junk>>
  BY DEF Noise, busVars, ownVars
<1>2. \A i \in DOMAIN rx' : rx'[i].kind = "bad" /\ rx'[i].cur = FALSE
  <2>1. DOMAIN rx' = {1} /\ rx'[1] = Junk
    BY <1>1
  <2> QED  BY <2>1 DEF Junk
<1>3. /\ Request' = Request /\ (Broadcasting <=> Broadcasting')
      /\ OnWire <=> OnWire'
  BY <1>1 DEF callVars, Request, Owner, Broadcasting, OnWire
<1>4. LineOK' /\ RxOK' /\ OneReply'
  BY <1>1, <1>2, <1>3 DEF IInv, LineOK, RxOK, OneReply
<1>5. WindowOK'
  BY <1>1, <1>2, <1>3 DEF IInv, WindowOK, AwaitsReply, Due, Mute, Broken
<1> QED  BY <1>4, <1>5 DEF Inductive

(* The window and what it covers run out together.                         *)
LEMMA TickStep ==
  ASSUME IInv, Tick
  PROVE  Inductive'
<1> DEFINE next(x) == [x EXCEPT !.left = @ - 1]
<1>1. /\ line' = {next(x) : x \in line} /\ \A x \in line : x.left > 0
      /\ quiet' = IF quiet > 0 THEN quiet - 1 ELSE quiet
      /\ limitLeft' = Higher(limitLeft - 1, 0)
      /\ UNCHANGED <<phase, rx, callVars, stream>>
  BY DEF Tick
<1>2. quiet \in -1..Window /\ limitLeft \in Nat
  BY DEF IInv, TypeOK
<1>3. (quiet' = NoWindow <=> quiet = NoWindow) /\ (quiet <= limitLeft => quiet' <= limitLeft')
  BY <1>1, <1>2, ConfigAssumption DEF NoWindow, Higher
<1>4. ASSUME NEW x \in line
      PROVE  /\ next(x) \in Exchange /\ next(x).left = x.left - 1 /\ next(x).stage = x.stage
             /\ next(x).req = x.req /\ next(x).cur = x.cur
             /\ x.left \in Nat \ {0}
  <2>1. x \in Exchange /\ x.left > 0
    BY <1>1 DEF IInv, TypeOK
  <2> QED  BY <2>1 DEF Exchange
<1> HIDE DEF next
<1>5. /\ Request' = Request /\ (Broadcasting <=> Broadcasting')
      /\ OnWire <=> OnWire'
  BY <1>1 DEF callVars, Request, Owner, Broadcasting, OnWire
<1>6. LineOK'
  <2> SUFFICES ASSUME NEW x \in line
               PROVE  /\ next(x).stage = "tx" => next(x).left <= TxMax
                      /\ next(x).stage = "slave" =>
                           next(x).left <= ReplyMax /\ Kind[next(x).req] # "broadcast"
                      /\ next(x).stage = "work" => Kind[next(x).req] = "broadcast"
                      /\ next(x).cur => OnWire' /\ phase' # "sending" /\ next(x).req = Request'
    BY <1>1 DEF LineOK
  <2>1. /\ x.stage = "tx" => x.left <= TxMax
        /\ x.stage = "slave" => x.left <= ReplyMax /\ Kind[x.req] # "broadcast"
        /\ x.stage = "work" => Kind[x.req] = "broadcast"
        /\ x.cur => OnWire /\ phase # "sending" /\ x.req = Request
    BY DEF IInv, LineOK
  <2> QED  BY <1>1, <1>4, <1>5, <2>1, LineAssumption
<1>7. RxOK'
  BY <1>1, <1>5 DEF IInv, RxOK
<1>8. OneReply'
  BY <1>1, <1>4 DEF IInv, OneReply
<1>9. ASSUME NEW x \in line, AwaitsReply(next(x)), ~next(x).cur, ~Mute
      PROVE  Due(next(x)) < quiet'
  <2>1. AwaitsReply(x) /\ ~x.cur
    BY <1>4, <1>9 DEF AwaitsReply
  <2>2. Due(x) < quiet
    BY <1>9, <2>1 DEF IInv, WindowOK
  <2>3. Due(next(x)) = Due(x) - 1 /\ Due(x) \in Nat \ {0}
    BY <1>4, LineAssumption DEF Due
  <2> QED  BY <1>1, <1>2, <2>2, <2>3
<1>10. WindowOK'
  <2>1. \A y \in line' : AwaitsReply(y) /\ ~y.cur => Mute \/ Due(y) < quiet'
    BY <1>1, <1>9
  <2> QED  BY <1>1, <1>3, <1>5, <2>1 DEF IInv, WindowOK, AwaitsReply, Due, Mute, Broken
<1> QED  BY <1>6, <1>7, <1>8, <1>10 DEF Inductive
-----------------------------------------------------------------------------
(* The invariant, and what it says                                         *)

LEMMA InitIInv == Init => IInv
<1> SUFFICES ASSUME Init  PROVE IInv
  OBVIOUS
<1>1. BaseInv
  BY InitBase
<1>2. line = {} /\ phase = "free" /\ quiet = NoWindow
  BY DEF Init
<1>3. \A i \in DOMAIN rx : rx[i].kind = "bad" /\ rx[i].cur = FALSE
  <2>1. rx = <<>> \/ rx = <<Junk>>
    BY DEF Init
  <2>2. CASE rx = <<>>
    BY <2>2
  <2>3. CASE rx = <<Junk>>
    <3>1. DOMAIN rx = {1} /\ rx[1] = Junk
      BY <2>3
    <3> QED  BY <3>1 DEF Junk
  <2> QED  BY <2>1, <2>2, <2>3
<1> QED  BY <1>1, <1>2, <1>3 DEF IInv, LineOK, RxOK, OneReply, WindowOK, KernelEmpties, Init

(* A stream that has failed for good stays so.                             *)
LEMMA StreamStep ==
  ASSUME [Next]_vars
  PROVE  /\ \/ UNCHANGED stream
            \/ CloseStream \/ StreamRecovers \/ \E fault \in Faults : StreamFault(fault)
         /\ Broken => Broken'
         /\ Mute => Mute'
<1>1. \/ UNCHANGED stream
      \/ CloseStream \/ StreamRecovers \/ \E fault \in Faults : StreamFault(fault)
  <2>1. ASSUME \/ WaitForLine \/ WaitToRead \/ SkipStray \/ Ending \/ HandOver \/ CancelBackoff
               \/ Close \/ Noise \/ Tick \/ UNCHANGED vars
        PROVE  UNCHANGED stream
    BY <2>1 DEF WaitForLine, WaitToRead, SkipStray, Ending, HandOver, CancelBackoff, Close, Noise,
       Tick, FirstAttempt, NextAttempt, BeginAttempt, DiscardLate, DiscardOver, WaitOver, ResetInput,
       Drained, TxSettled, TurnaroundOver, ReadFrame, ReadDamaged, ReadTimeout, StreamFails,
       CancelAttempt, FinishAttempt, vars, envVars
  <2>2. ASSUME \/ LineStep
               \/ \E c \in Callers, r \in Requests : Call(c, r)
               \/ \E c \in Callers : CancelQueued(c)
        PROVE  UNCHANGED stream
    BY <2>2 DEF LineStep, Transmit, Reply, Lose, WorkDone, Call, CancelQueued, envVars
  <2> QED  BY <2>1, <2>2 DEF Next, BusStep, ReadReply, Ending
<1>2. Broken => Broken'
  BY <1>1 DEF CloseStream, StreamRecovers, StreamFault, Broken
<1> QED  BY <1>1, <1>2 DEF Mute

(* Where sends are drained, an attempt ends with nothing in the kernel.    *)
LEMMA KeepEmptying ==
  ASSUME KernelEmpties, stream' \notin {"oserror", "etimedout"}, Broken => Broken',
         \A y \in line' : y.stage = "tx" => \E x \in line : x.stage = "tx",
         phase = "draining" => phase' = "draining" \/ Broken \/ \A x \in line : x.stage # "tx"
  PROVE  KernelEmpties'
BY DEF KernelEmpties

LEMMA EmptiesStep ==
  ASSUME SendsDrained, BaseInv, KernelEmpties, [Next]_vars
  PROVE  KernelEmpties'
<1>1. stream' \notin {"oserror", "etimedout"} /\ (Broken => Broken')
  <2>1. CASE UNCHANGED stream
    BY <2>1, StreamStep DEF KernelEmpties
  <2>2. CASE CloseStream \/ StreamRecovers \/ \E fault \in Faults : StreamFault(fault)
    BY <2>2, StreamStep DEF CloseStream, StreamRecovers, StreamFault, SendsDrained
  <2> QED  BY <2>1, <2>2, StreamStep
<1>2. line \subseteq Exchange
  BY DEF TypeOK
<1>3. CASE Ending
  <2>1. line' = {Expired(x) : x \in line}
    BY <1>3, EndingStep DEF CancelAttempt, SendsDrained
  <2>2. \A x \in line : Expired(x).stage = x.stage
    BY <1>2, ExpiredExchange
  <2>3. phase = "draining" => Broken
    <3> SUFFICES ASSUME phase = "draining"  PROVE Broken
      OBVIOUS
    <3>1. StreamFails
      BY <1>3 DEF Ending, TurnaroundOver, ReadFrame, ReadDamaged, ReadTimeout, CancelAttempt, SendsDrained
    <3>2. stream \notin {"up", "eof", "oserror", "etimedout"} /\ stream \in {"up"} \cup FaultKinds
      BY <3>1 DEF StreamFails, Reading, TypeOK, KernelEmpties
    <3> QED  BY <3>2 DEF Broken, FaultKinds
  <2> QED  BY <1>1, <2>1, <2>2, <2>3, KeepEmptying
<1>4. CASE HandOver
  BY <1>1, <1>4 DEF HandOver, SendsDrained, SetPhase, KernelEmpties
<1>5. CASE Drained
  <2>1. line' = line /\ \A x \in line : x.stage # "tx"
    BY <1>5 DEF Drained, envVars
  <2> QED  BY <1>1, <2>1, KeepEmptying
<1>6. CASE Tick
  <2>1. line' = {[x EXCEPT !.left = @ - 1] : x \in line} /\ phase' = phase
    BY <1>6 DEF Tick
  <2>2. \A x \in line : [x EXCEPT !.left = @ - 1].stage = x.stage
    BY <1>2 DEF Exchange
  <2> QED  BY <1>1, <2>1, <2>2, KeepEmptying
<1>7. ASSUME NEW x \in line, Transmit(x)  PROVE KernelEmpties'
  <2>1. /\ phase' = phase /\ x.stage = "tx"
        /\ \A y \in line' : y \in line \/ y.stage # "tx"
    BY <1>2, <1>7 DEF Transmit, Exchange, ownVars
  <2> QED  BY <1>1, <2>1, KeepEmptying
<1>8. CASE /\ line' \subseteq line
           /\ phase' = phase \/ phase # "draining"
  BY <1>1, <1>8, KeepEmptying
<1>9. \/ Ending \/ HandOver \/ Drained \/ Tick \/ \E x \in line : Transmit(x)
      \/ line' \subseteq line /\ (phase' = phase \/ phase # "draining")
  <2>1. ASSUME NEW c \in Callers, NEW r \in Requests, Call(c, r)
        PROVE  line' = line /\ (phase' = phase \/ phase # "draining")
    BY <2>1 DEF Call, envVars, TypeOK
  <2>2. ASSUME NEW c \in Callers, CancelQueued(c)
        PROVE  line' = line /\ (phase' = phase \/ phase # "draining")
    BY <2>2 DEF CancelQueued, envVars
  <2>3. ASSUME WaitForLine \/ TxSettled \/ SkipStray \/ CancelBackoff
        PROVE  line' = line /\ phase # "draining"
    BY <2>3 DEF WaitForLine, FirstAttempt, NextAttempt, BeginAttempt, DiscardLate, DiscardOver,
                WaitOver, ResetInput, TxSettled, SkipStray, CancelBackoff, envVars
  <2>4. ASSUME NEW x \in line, Lose(x) \/ WorkDone(x) \/ \E f \in Frame : Reply(x, f)
        PROVE  line' \subseteq line /\ phase' = phase
    BY <2>4 DEF Lose, WorkDone, Reply, ownVars
  <2>5. ASSUME \/ Close \/ CloseStream \/ Noise \/ StreamRecovers \/ UNCHANGED vars
               \/ \E fault \in Faults : StreamFault(fault)
        PROVE  line' = line /\ phase' = phase
    BY <2>5 DEF Close, CloseStream, Noise, StreamRecovers, StreamFault, vars, busVars, ownVars, envVars
  <2> QED  BY <2>1, <2>2, <2>3, <2>4, <2>5
           DEF Next, BusStep, WaitToRead, ReadReply, LineStep, Ending
<1> QED  BY <1>3, <1>4, <1>5, <1>6, <1>7, <1>8, <1>9

LEMMA IInvStep == WindowSuffices /\ IInv /\ [Next]_vars => IInv'
<1> SUFFICES ASSUME WindowSuffices, IInv, [Next]_vars  PROVE IInv'
  OBVIOUS
<1>1. /\ BaseInv' /\ (SendsDrained => KernelEmpties')
      /\ Mute => Mute'
  BY BaseStep, EmptiesStep, StreamStep DEF IInv
<1>2. ASSUME NEW c \in Callers, NEW r \in Requests, Call(c, r)  PROVE Inductive'
  <2>1. /\ UNCHANGED <<line, rx, quiet, limitLeft>>
        /\ phase' = IF queue = <<>> THEN "granted" ELSE phase
    BY <1>2 DEF Call, busVars, envVars
  <2>2. queue # <<>> => Request' = Request
    BY <1>2, CallStep DEF IInv
  <2>3. queue = <<>> => phase = "free"
    BY DEF IInv, TypeOK
  <2> QED  BY <1>1, <2>1, <2>2, <2>3, KeepLine DEF OffLine
<1>3. ASSUME NEW c \in Callers, CancelQueued(c)  PROVE Inductive'
  <2>1. UNCHANGED <<line, rx, quiet, limitLeft>>
    BY <1>3 DEF CancelQueued, busVars, envVars
  <2> QED  BY <1>1, <1>3, <2>1, CancelQueuedStep, KeepLine DEF IInv, OffLine
<1>4. ASSUME CancelBackoff  PROVE Inductive'
  <2>1. /\ UNCHANGED <<line, rx, quiet, limitLeft>> /\ phase = "backoff"
        /\ phase' \in {"free", "granted"}
    BY <1>4 DEF CancelBackoff, Release, SetPhase, busVars, envVars
  <2> QED  BY <1>1, <2>1, KeepLine DEF OffLine
<1>5. ASSUME \/ Close \/ CloseStream \/ StreamRecovers \/ UNCHANGED vars
             \/ \E fault \in Faults : StreamFault(fault)
      PROVE  Inductive'
  <2>1. UNCHANGED <<line, rx, quiet, limitLeft, phase, callVars>>
    BY <1>5 DEF Close, CloseStream, StreamRecovers, StreamFault, vars, busVars, ownVars, envVars
  <2>2. Request' = Request
    BY <2>1 DEF callVars, Request, Owner
  <2> QED  BY <1>1, <2>1, <2>2, KeepLine
<1>6. ASSUME NEW x \in line,
             Transmit(x) \/ Lose(x) \/ WorkDone(x) \/ \E f \in Frame : Reply(x, f)
      PROVE  Inductive'
  BY <1>6, TransmitStep, DropExchange, ReplyStep
<1>7. Inductive'
  BY <1>2, <1>3, <1>4, <1>5, <1>6, HandOverStep, WaitForLineStep, UnderWayStep, AttemptEnds,
     ReadFrameStep, SkipStrayStep, NoiseStep, TickStep
     DEF Next, BusStep, ReadReply, LineStep
<1> QED  BY <1>1, <1>7 DEF IInv, Inductive

LEMMA WindowInductive == WindowSuffices => (Spec => []IInv)
<1> SUFFICES ASSUME WindowSuffices  PROVE Spec => []IInv
  OBVIOUS
<1>1. Init => IInv
  BY InitIInv
<1>2. IInv /\ [Next]_vars => IInv'
  BY IInvStep
<1> QED  BY <1>1, <1>2, PTL DEF Spec

(* While a reply is read for, every frame in the buffer that would be taken*)
(* for it was sent for by this attempt: WindowOK says that without a window*)
(* nothing else is left, and there is no window once a request is sent.    *)
THEOREM NoStale == WindowSuffices => (Spec => []NoStaleReply)
<1> SUFFICES ASSUME WindowSuffices  PROVE Spec => []NoStaleReply
  OBVIOUS
<1>1. IInv => NoStaleReply
  <2> SUFFICES ASSUME IInv, phase = "reading", NEW i \in DOMAIN rx,
                      Answers(rx[i], Request) \/ Refuses(rx[i], Request)
               PROVE  rx[i].cur
    BY DEF NoStaleReply
  <2>1. quiet = NoWindow
    BY DEF IInv, WindowOK
  <2>2. rx[i].kind # "bad"
    BY DEF Answers, Refuses
  <2> QED  BY <2>1, <2>2, NoWindowClear
<1> QED  BY <1>1, WindowInductive, PTL

(* A closed window means that nothing is still to be answered: the next    *)
(* request need not wait for anything but the gap (Bus._await_line_idle).  *)
THEOREM ClosedWindowIsSafe == WindowCoversReply => (Spec => []NoWindowNoReply)
<1> SUFFICES ASSUME WindowCoversReply  PROVE Spec => []NoWindowNoReply
  OBVIOUS
<1>1. IInv => NoWindowNoReply
  <2> SUFFICES ASSUME IInv, quiet = NoWindow, ~OnWire, NEW x \in line
               PROVE  Kind[x.req] = "broadcast"
    BY DEF NoWindowNoReply
  <2>1. ~AwaitsReply(x)
    BY NothingCurrent, NoWindowClear DEF Mute
  <2> QED  BY <2>1 DEF AwaitsReply, IInv, LineOK
<1>2. WindowSuffices
  BY DEF WindowSuffices
<1> QED  BY <1>1, <1>2, WindowInductive, PTL

-----------------------------------------------------------------------------
(* What the bus promises about time on the wire: the startup settle before  *)
(* the first frame, the turnaround after a broadcast, the gap before any    *)
(* frame.  Each promise is kept by a task that sleeps, so each needs that   *)
(* the sleep is not cut short where the code does not resume it: those      *)
(* hypotheses are named, and the runs cancelled_settle and                  *)
(* cancelled_turnaround show why they are there.                            *)
-----------------------------------------------------------------------------
(* The startup settle                                                      *)

(* A task that sleeps the startup settle is not cancelled: settled is set  *)
(* before the sleep, so nobody would sleep what is left of it.             *)
SettleKept == "settle" \notin CancelAt

(* Before the settle nothing has been on the line; once begun, it has been *)
(* slept or its sleeper still holds the lock.                              *)
SettleOK ==
  /\ ~settled => ioAge = Never /\ quiet = NoWindow /\ phase \in {"free", "granted"}
  /\ settled => \/ warm >= StartupSettle
                \/ phase = "settle" /\ warm # Never /\ warm + timer >= StartupSettle

LEMMA BeginAttemptSettle ==
  ASSUME TypeOK, SettleOK, NEW STATE n, phase # "settle", BeginAttempt(n)
  PROVE  SettleOK'
<1>1. /\ StartupSettle \in Nat /\ warm \in -1..StartupSettle /\ settled \in BOOLEAN
      /\ ioAge' = ioAge /\ quiet' = quiet
      /\ warm' = IF warm = Never THEN 0 ELSE warm
  BY ConfigAssumption DEF TypeOK, BeginAttempt
<1>2. CASE settled
  <2>1. warm' >= StartupSettle
    BY <1>1, <1>2 DEF SettleOK, Never
  <2>2. settled'
    BY <1>2 DEF BeginAttempt, AwaitGap
  <2> QED  BY <2>1, <2>2 DEF SettleOK
<1>3. CASE ~settled
  <2>1. ioAge = Never /\ AwaitGap(ioAge) /\ warm' \in Nat
    BY <1>1, <1>3 DEF SettleOK, BeginAttempt, Never
  <2>2. settled'
    BY <2>1 DEF AwaitGap
  <2>3. CASE StartupSettle > 0
    <3>1. phase' = "settle" /\ timer' = StartupSettle
      BY <1>3, <2>1, <2>3 DEF AwaitGap, SetPhase
    <3> QED  BY <1>1, <2>1, <2>2, <3>1 DEF SettleOK, Never
  <2>4. CASE StartupSettle = 0
    BY <2>1, <2>2, <2>4 DEF SettleOK
  <2> QED  BY <1>1, <2>3, <2>4
<1> QED  BY <1>1, <1>2, <1>3

(* Steps that do not sleep: settled before means settled afterwards.       *)
LEMMA StaySettled ==
  ASSUME TypeOK, SettleOK, settled, phase # "settle" \/ timer = 0, settled' = settled, warm' = warm
  PROVE  SettleOK'
<1>1. warm >= StartupSettle
  BY ConfigAssumption DEF TypeOK, SettleOK
<1> QED  BY <1>1 DEF SettleOK

LEMMA SettleStep ==
  ASSUME SettleKept, BaseInv, SettleOK, [Next]_vars
  PROVE  SettleOK'
<1>1. TypeOK /\ CallsOK
  OBVIOUS
<1>s. \/ phase \in {"free", "granted"}
      \/ settled
  BY DEF SettleOK, TypeOK
<1>2. ASSUME NEW c \in Callers, NEW r \in Requests, Call(c, r)  PROVE SettleOK'
  BY <1>1, <1>2 DEF Call, SettleOK, TypeOK, busVars, envVars
<1>3. ASSUME NEW c \in Callers, CancelQueued(c)  PROVE SettleOK'
  <2>1. UNCHANGED <<settled, ioAge, quiet, warm>>
    BY <1>3 DEF CancelQueued, busVars, envVars
  <2>2. \/ phase = "granted" /\ phase' \in {"free", "granted"}
        \/ UNCHANGED <<phase, timer>>
    BY <1>3 DEF CancelQueued, Release, SetPhase
  <2> QED  BY <2>1, <2>2 DEF SettleOK
<1>4. ASSUME FirstAttempt \/ NextAttempt  PROVE SettleOK'
  BY <1>1, <1>4, BeginAttemptSettle DEF FirstAttempt, NextAttempt
<1>5. ASSUME DiscardLate \/ DiscardOver  PROVE SettleOK'
  <2>1. phase = "discard" /\ warm' = warm /\ settled
    BY <1>5, <1>s DEF DiscardLate, DiscardOver, envVars
  <2>2. settled' = settled
    BY <1>5, <2>1 DEF DiscardLate, DiscardOver, EndDiscard, AwaitGap, TypeOK
  <2> QED  BY <1>1, <2>1, <2>2, StaySettled
<1>6. ASSUME \/ WaitOver \/ ResetInput \/ HandOver \/ WaitToRead \/ SkipStray \/ CancelBackoff
      PROVE  SettleOK'
  <2>1. /\ phase \notin {"free", "granted"} /\ (phase # "settle" \/ timer = 0)
        /\ settled' = settled /\ warm' = warm
    BY <1>6 DEF WaitOver, ResetInput, HandOver, WaitToRead, Drained, TxSettled, SkipStray,
                CancelBackoff, busVars, envVars
  <2> QED  BY <1>1, <1>s, <2>1, StaySettled
<1>7. ASSUME Ending  PROVE SettleOK'
  <2>1. /\ phase \in Attempting /\ UNCHANGED <<settled, warm>>
    BY <1>7, EndingStep
  <2>2. phase # "settle"
    BY <1>7 DEF SettleKept, Ending, TurnaroundOver, ReadFrame, ReadDamaged, ReadTimeout,
                CancelAttempt, StreamFails, Reading, Writing
  <2> QED  BY <1>1, <1>s, <2>1, <2>2, StaySettled DEF Attempting, Reading, Writing, Sleeping
<1>8. ASSUME \/ Close \/ CloseStream \/ LineStep \/ Noise \/ StreamRecovers \/ UNCHANGED vars
             \/ \E fault \in Faults : StreamFault(fault)
      PROVE  SettleOK'
  <2>1. UNCHANGED <<settled, ioAge, quiet, phase, timer, warm>>
    BY <1>8 DEF Close, CloseStream, LineStep, Transmit, Reply, Lose, WorkDone, Noise,
                StreamRecovers, StreamFault, vars, busVars, ownVars, envVars
  <2> QED  BY <2>1 DEF SettleOK
<1>9. ASSUME Tick  PROVE SettleOK'
  <2>1. /\ warm \in -1..StartupSettle /\ timer \in Nat /\ StartupSettle \in Nat
        /\ quiet \in -1..Window
    BY ConfigAssumption DEF TypeOK
  <2>2. /\ settled' = settled /\ phase' = phase /\ timer' = Higher(timer - 1, 0)
        /\ warm' = IF warm = Never THEN Never ELSE Lower(warm + 1, StartupSettle)
        /\ ioAge = Never => ioAge' = Never
        /\ quiet = NoWindow => quiet' = NoWindow
    BY <1>9, <2>1 DEF Tick, NoWindow
  <2>3. warm >= StartupSettle => warm' >= StartupSettle
    BY <2>1, <2>2 DEF Lower, Never
  <2>4. warm # Never /\ warm + timer >= StartupSettle => warm' + timer' >= StartupSettle
    BY <2>1, <2>2 DEF Lower, Higher, Never
  <2>5. warm # Never => warm' # Never
    BY <2>1, <2>2 DEF Lower, Never
  <2> QED  BY <2>2, <2>3, <2>4, <2>5 DEF SettleOK
<1> QED  BY <1>2, <1>3, <1>4, <1>5, <1>6, <1>7, <1>8, <1>9
         DEF Next, BusStep, WaitForLine, ReadReply, Ending

(* The first frame is handed over when the settle has been slept.          *)
THEOREM SettledFirst == SettleKept => (Spec => SettledBeforeFirst)
<1> SUFFICES ASSUME SettleKept  PROVE Spec => SettledBeforeFirst
  OBVIOUS
<1>1. Init => BaseInv /\ SettleOK
  <2>1. Init => SettleOK
    BY DEF Init, SettleOK
  <2> QED  BY <2>1, InitBase
<1>2. BaseInv /\ SettleOK /\ [Next]_vars => (BaseInv /\ SettleOK)'
  BY BaseStep, SettleStep
<1>3. BaseInv /\ SettleOK => [HandOver => warm >= StartupSettle]_vars
  BY DEF SettleOK, HandOver
<1> QED  BY <1>1, <1>2, <1>3, PTL DEF Spec, SettledBeforeFirst
-----------------------------------------------------------------------------
(* The broadcast turnaround                                                *)

(* Sends are drained, and the sleep of the turnaround is not cancelled.    *)
TurnaroundKept == SendsDrained /\ "turnaround" \notin CancelAt

(* The task that sent what is in the kernel waits until it has gone.       *)
Drains == \A x \in line : x.stage = "tx" => Broken \/ (phase = "draining" /\ x.req = Request)

(* A broadcast is carried out before its sender's turnaround is over, and  *)
(* while it is, the kernel holds nothing.                                  *)
WorkKept ==
  /\ \A y \in line : y.stage = "work" /\ y.left > 0 =>
       \/ Broken
       \/ phase = "draining" /\ Broadcasting
       \/ phase = "turnaround" /\ y.left <= timer
  /\ \A x, y \in line : y.stage = "work" /\ y.left > 0 => x.stage # "tx"

TurnOK ==
  /\ stream \notin {"oserror", "etimedout"}
  /\ \A x, y \in line : x.stage = "tx" /\ y.stage = "tx" => x = y
  /\ \A y \in line : y.stage = "work" => y.left <= Turnaround
  /\ Drains /\ WorkKept

(* Nobody waits for the line: it owes nobody anything.                     *)
Unwatched == Broken \/ phase \notin {"draining", "turnaround"} \/ (phase = "turnaround" /\ timer = 0)

LEMMA LeaveTurn ==
  ASSUME TypeOK, TurnOK, Unwatched, stream' = stream,
         \/ line' \subseteq line
         \/ line' = {Expired(x) : x \in line}
  PROVE  TurnOK'
<1>1. \A y \in line' : \E x \in line : y.stage = x.stage /\ y.left = x.left /\ y.req = x.req
                                       /\ (y = x \/ y = Expired(x))
  BY ExpiredExchange DEF TypeOK
<1>2. (Broken' <=> Broken) /\ \A x \in line : x.left \in Nat
  BY DEF Broken, TypeOK, Exchange
<1>3. \A x \in line : x.stage = "tx" => Broken
  BY DEF TurnOK, Drains, Unwatched
<1>4. \A y \in line : y.stage = "work" /\ y.left > 0 => Broken
  BY <1>2 DEF TurnOK, WorkKept, Unwatched
<1>5. Drains'
  BY <1>1, <1>2, <1>3 DEF Drains
<1>6. WorkKept'
  <2>1. \A y \in line' : y.stage = "work" /\ y.left > 0 => Broken'
    BY <1>1, <1>2, <1>4
  <2>2. \A x, y \in line' : y.stage = "work" /\ y.left > 0 => x.stage # "tx"
    BY <1>1 DEF TurnOK, WorkKept
  <2> QED  BY <2>1, <2>2 DEF WorkKept
<1>7. \A x, y \in line' : x.stage = "tx" /\ y.stage = "tx" => x = y
  <2> SUFFICES ASSUME NEW x \in line', NEW y \in line', x.stage = "tx", y.stage = "tx"
               PROVE  x = y
    OBVIOUS
  <2>1. \A p, q \in line : p.stage = "tx" /\ q.stage = "tx" => p = q
    BY DEF TurnOK
  <2>2. CASE line' \subseteq line
    BY <2>1, <2>2
  <2>3. CASE line' = {Expired(z) : z \in line}
    <3>1. PICK p \in line : x = Expired(p)
      BY <2>3
    <3>2. PICK q \in line : y = Expired(q)
      BY <2>3
    <3>3. p.stage = "tx" /\ q.stage = "tx"
      BY <3>1, <3>2, ExpiredExchange DEF TypeOK
    <3> QED  BY <2>1, <3>1, <3>2, <3>3
  <2> QED  BY <2>2, <2>3
<1>8. \A y \in line' : y.stage = "work" => y.left <= Turnaround
  BY <1>1 DEF TurnOK
<1> QED  BY <1>5, <1>6, <1>7, <1>8 DEF TurnOK

(* Steps that leave the watcher where it is and take nothing but away.     *)
LEMMA KeepTurn ==
  ASSUME TurnOK, line' \subseteq line, phase' = phase, timer' = timer, Request' = Request,
         Broken => Broken', stream' \notin {"oserror", "etimedout"}
  PROVE  TurnOK'
<1>1. Broadcasting' <=> Broadcasting
  BY DEF Broadcasting
<1> QED  BY <1>1 DEF TurnOK, Drains, WorkKept

LEMMA TurnHandOver ==
  ASSUME TurnaroundKept, BaseInv, TurnOK, HandOver
  PROVE  TurnOK'
<1> DEFINE new == NewExchange(Request, TRUE)
<1>1. /\ phase = "sending" /\ FreeIds # {} /\ line' = line \cup {new}
      /\ stream \in {"up", "eof"} /\ stream' = stream /\ phase' = "draining"
      /\ UNCHANGED callVars
  BY DEF HandOver, TurnaroundKept, SendsDrained, SetPhase
<1>2. new.stage = "tx" /\ new.req = Request
  <2>1. queue # <<>>
    BY <1>1 DEF TypeOK
  <2> QED  BY <1>1, <2>1, OwnerCalls, NewExchangeType
<1> HIDE DEF new
<1>3. ~Broken /\ Request' = Request
  BY <1>1 DEF Broken, callVars, Request, Owner
<1>4. \A x \in line : x.stage # "tx" /\ ~(x.stage = "work" /\ x.left > 0)
  BY <1>1, <1>3 DEF TurnOK, Drains, WorkKept
<1>5. Drains'
  BY <1>1, <1>2, <1>3, <1>4 DEF Drains
<1>6. WorkKept'
  BY <1>1, <1>2, <1>4 DEF WorkKept
<1> QED  BY <1>1, <1>2, <1>4, <1>5, <1>6 DEF TurnOK

LEMMA TurnTransmit ==
  ASSUME BaseInv, TurnOK, NEW x \in line, Transmit(x)
  PROVE  TurnOK'
<1> DEFINE y == IF Kind[x.req] = "broadcast"
                THEN [x EXCEPT !.stage = "work", !.left = Turnaround]
                ELSE [x EXCEPT !.stage = "slave", !.left = ReplyMax]
<1>1. /\ line' = (line \ {x}) \cup {y} /\ x.stage = "tx"
      /\ UNCHANGED <<stream, phase, timer, callVars>>
  BY DEF Transmit, ownVars
<1>2. /\ y.stage \in {"work", "slave"}
      /\ y.stage = "work" => Kind[x.req] = "broadcast" /\ y.left = Turnaround
  BY DEF TypeOK, Exchange
<1> HIDE DEF y
<1>3. /\ Request' = Request /\ (Broadcasting <=> Broadcasting')
      /\ Broken <=> Broken'
  BY <1>1 DEF callVars, Request, Owner, Broadcasting, Broken
<1>4. \A z \in line' : z.stage # "tx"
  BY <1>1, <1>2 DEF TurnOK
<1>5. \A z \in line : ~(z.stage = "work" /\ z.left > 0)
  BY <1>1 DEF TurnOK, WorkKept
<1>6. y.stage = "work" => Broken \/ (phase = "draining" /\ Broadcasting)
  BY <1>1, <1>2 DEF TurnOK, Drains, Broadcasting
<1>7. Turnaround <= Turnaround
  BY ConfigAssumption
<1>8. WorkKept'
  BY <1>1, <1>3, <1>4, <1>5, <1>6 DEF WorkKept
<1> QED  BY <1>1, <1>2, <1>4, <1>7, <1>8 DEF TurnOK, Drains

LEMMA TurnDrained ==
  ASSUME BaseInv, TurnOK, Drained
  PROVE  TurnOK'
<1>1. /\ phase = "draining" /\ \A x \in line : x.stage # "tx"
      /\ UNCHANGED <<stream, line, callVars>>
  BY DEF Drained, envVars
<1>2. Broadcasting => phase' = "turnaround" /\ timer' = Turnaround
  BY DEF Drained, Sent, SetPhase
<1>3. Broken <=> Broken'
  BY <1>1 DEF Broken
<1>4. \A y \in line : y.stage = "work" /\ y.left > 0 => Broken \/ Broadcasting
  BY <1>1 DEF TurnOK, WorkKept
<1>5. WorkKept'
  BY <1>1, <1>2, <1>3, <1>4 DEF TurnOK, WorkKept
<1> QED  BY <1>1, <1>5 DEF TurnOK, Drains

LEMMA TurnTick ==
  ASSUME BaseInv, TurnOK, Tick
  PROVE  TurnOK'
<1> DEFINE next(x) == [x EXCEPT !.left = @ - 1]
<1>1. /\ line' = {next(x) : x \in line} /\ \A x \in line : x.left > 0
      /\ timer' = Higher(timer - 1, 0)
      /\ UNCHANGED <<phase, stream, callVars>>
  BY DEF Tick
<1>2. ASSUME NEW x \in line
      PROVE  /\ next(x).left = x.left - 1 /\ next(x).stage = x.stage /\ next(x).req = x.req
             /\ x.left \in Nat \ {0}
  BY <1>1 DEF TypeOK, Exchange
<1> HIDE DEF next
<1>3. /\ Request' = Request /\ (Broadcasting <=> Broadcasting')
      /\ Broken <=> Broken'
  BY <1>1 DEF callVars, Request, Owner, Broadcasting, Broken
<1>4. timer \in Nat /\ Turnaround \in Nat
  BY ConfigAssumption DEF TypeOK
<1>5. \A x, y \in line' : x.stage = "tx" /\ y.stage = "tx" => x = y
  BY <1>1, <1>2 DEF TurnOK
<1>6. \A y \in line' : y.stage = "work" => y.left <= Turnaround
  <2> SUFFICES ASSUME NEW x \in line, x.stage = "work"  PROVE x.left - 1 <= Turnaround
    BY <1>1, <1>2
  <2> QED  BY <1>2, <1>4 DEF TurnOK
<1>7. Drains'
  BY <1>1, <1>2, <1>3 DEF TurnOK, Drains
<1>8. WorkKept'
  <2>1. ASSUME NEW x \in line, x.stage = "work"
        PROVE  \/ Broken
               \/ phase = "draining" /\ Broadcasting
               \/ phase = "turnaround" /\ x.left - 1 <= timer'
    <3>1. \/ Broken
          \/ phase = "draining" /\ Broadcasting
          \/ phase = "turnaround" /\ x.left <= timer
      BY <1>2, <2>1 DEF TurnOK, WorkKept
    <3>2. x.left <= timer => x.left - 1 <= timer'
      BY <1>1, <1>2, <1>4 DEF Higher
    <3> QED  BY <3>1, <3>2
  <2>2. \A y \in line' : y.stage = "work" /\ y.left > 0 =>
           \/ Broken'
           \/ phase' = "draining" /\ Broadcasting'
           \/ phase' = "turnaround" /\ y.left <= timer'
    BY <1>1, <1>2, <1>3, <2>1
  <2>3. ASSUME NEW x \in line, NEW y \in line, y.stage = "work"  PROVE x.stage # "tx"
    BY <1>2, <2>3 DEF TurnOK, WorkKept
  <2>4. \A x, y \in line' : y.stage = "work" /\ y.left > 0 => x.stage # "tx"
    BY <1>1, <1>2, <2>3
  <2> QED  BY <2>2, <2>4 DEF WorkKept
<1> QED  BY <1>1, <1>5, <1>6, <1>7, <1>8 DEF TurnOK

LEMMA TurnStep ==
  ASSUME TurnaroundKept, BaseInv, TurnOK, [Next]_vars
  PROVE  TurnOK'
<1>1. stream \notin {"oserror", "etimedout"} /\ stream \in {"up"} \cup FaultKinds
  BY DEF TurnOK, TypeOK
<1>2. ASSUME NEW c \in Callers, NEW r \in Requests, Call(c, r)  PROVE TurnOK'
  <2>1. UNCHANGED <<line, stream, timer>> /\ phase' = IF queue = <<>> THEN "granted" ELSE phase
    BY <1>2 DEF Call, envVars
  <2>2. CASE queue = <<>>
    <3>1. phase = "free"
      BY <2>2 DEF TypeOK
    <3> QED  BY <2>1, <3>1, LeaveTurn DEF Unwatched
  <2>3. CASE queue # <<>>
    <3>1. Request' = Request
      BY <1>2, <2>3, CallStep
    <3> QED  BY <1>1, <2>1, <2>3, <3>1, KeepTurn DEF Broken
  <2> QED  BY <2>2, <2>3
<1>3. ASSUME NEW c \in Callers, CancelQueued(c)  PROVE TurnOK'
  <2>1. UNCHANGED <<line, stream>>
    BY <1>3 DEF CancelQueued, envVars
  <2>2. CASE phase = "granted"
    BY <2>1, <2>2, LeaveTurn DEF Unwatched
  <2>3. CASE phase # "granted"
    <3>1. UNCHANGED <<phase, timer>>
      BY <1>3, <2>3 DEF CancelQueued
    <3>2. Request' = Request
      BY <1>3, <2>3, CancelQueuedStep
    <3> QED  BY <1>1, <2>1, <3>1, <3>2, KeepTurn DEF Broken
  <2> QED  BY <2>2, <2>3
<1>4. ASSUME WaitForLine \/ TxSettled \/ SkipStray \/ CancelBackoff  PROVE TurnOK'
  <2>1. UNCHANGED <<line, stream>> /\ phase \notin {"draining", "turnaround"}
    BY <1>4 DEF WaitForLine, FirstAttempt, NextAttempt, BeginAttempt, DiscardLate, DiscardOver,
                WaitOver, ResetInput, TxSettled, SkipStray, CancelBackoff, envVars
  <2> QED  BY <2>1, LeaveTurn DEF Unwatched
<1>5. ASSUME Ending  PROVE TurnOK'
  <2>1. UNCHANGED stream /\ line' = {Expired(x) : x \in line}
    BY <1>5, EndingStep DEF TurnaroundKept, SendsDrained, CancelAttempt
  <2>2. Unwatched
    BY <1>1, <1>5 DEF Ending, TurnaroundOver, ReadFrame, ReadDamaged, ReadTimeout, CancelAttempt,
       StreamFails, TurnaroundKept, SendsDrained, Unwatched, Broken, Reading, Writing, FaultKinds
  <2> QED  BY <2>1, <2>2, LeaveTurn
<1>6. ASSUME NEW x \in line, Lose(x) \/ WorkDone(x) \/ \E f \in Frame : Reply(x, f)  PROVE TurnOK'
  <2>1. line' \subseteq line /\ UNCHANGED <<stream, phase, timer, callVars>>
    BY <1>6 DEF Lose, WorkDone, Reply, ownVars
  <2>2. Request' = Request
    BY <2>1 DEF callVars, Request, Owner
  <2> QED  BY <1>1, <2>1, <2>2, KeepTurn DEF Broken
<1>7. ASSUME \/ Close \/ CloseStream \/ Noise \/ StreamRecovers \/ UNCHANGED vars
             \/ \E fault \in Faults : StreamFault(fault)
      PROVE  TurnOK'
  <2>1. /\ UNCHANGED <<line, phase, timer, callVars>>
        /\ stream' \notin {"oserror", "etimedout"} /\ (Broken => Broken')
    BY <1>1, <1>7 DEF Close, CloseStream, Noise, StreamRecovers, StreamFault, Broken,
       TurnaroundKept, SendsDrained, vars, busVars, ownVars, envVars
  <2>2. Request' = Request
    BY <2>1 DEF callVars, Request, Owner
  <2> QED  BY <2>1, <2>2, KeepTurn
<1> QED  BY <1>2, <1>3, <1>4, <1>5, <1>6, <1>7, TurnHandOver, TurnDrained, TurnTransmit, TurnTick
         DEF Next, BusStep, WaitToRead, ReadReply, LineStep, Ending

(* No frame goes out while the slaves carry out a broadcast.               *)
THEOREM TurnaroundIsHeld == TurnaroundKept => (Spec => TurnaroundHeld)
<1> SUFFICES ASSUME TurnaroundKept  PROVE Spec => TurnaroundHeld
  OBVIOUS
<1>1. Init => BaseInv /\ TurnOK
  <2>1. Init => TurnOK
    BY DEF Init, TurnOK, Drains, WorkKept
  <2> QED  BY <2>1, InitBase
<1>2. BaseInv /\ TurnOK /\ [Next]_vars => (BaseInv /\ TurnOK)'
  BY BaseStep, TurnStep
<1>3. BaseInv /\ TurnOK =>
        [\A x \in line : Transmit(x) => \A y \in line : y.stage = "work" => y.left = 0]_vars
  <2> SUFFICES ASSUME BaseInv, TurnOK, NEW x \in line, Transmit(x),
                      NEW y \in line, y.stage = "work"
               PROVE  y.left = 0
    OBVIOUS
  <2>1. y.left \in Nat
    BY DEF TypeOK, Exchange
  <2>2. ~(y.left > 0)
    BY DEF TurnOK, WorkKept, Transmit
  <2> QED  BY <2>1, <2>2
<1> QED  BY <1>1, <1>2, <1>3, PTL DEF Spec, TurnaroundHeld
-----------------------------------------------------------------------------
(* The gap between frames                                                  *)

(* Broadcasts leave the kernel within their attempt, or there are none: a  *)
(* broadcast opens no window to wait for one that is still in the kernel.  *)
NoBroadcasts == \A r \in Requests : Kind[r] # "broadcast"
BroadcastsDrained == NoBroadcasts \/ SendsDrained

(* The window is also as long as the gap and a request still in the kernel *)
(* when its attempt ends, which matters if the request is then lost: the   *)
(* gap of the next attempt is counted from the end of the last.  (A slave  *)
(* that keeps the gap before it replies makes ReplyMax >= Gap, and then    *)
(* WindowCoversReply says so too.)                                         *)
WindowCoversGap == TxMax + Gap <= Window

(* Or no request is left in the kernel, but by a stream that has failed.   *)
GapCovered == WindowCoversGap \/ SendsDrained

(* A stream that has failed for good while it was drained: nothing is      *)
(* handed to it any more.                                                  *)
Spent == Broken /\ SendsDrained

LEMMA MuteSpent == WindowSuffices /\ Mute => Spent
BY DEF WindowSuffices, Mute, Spent

(* A request in the kernel is alone on its way, and the line was silent    *)
(* when it was handed over.                                                *)
KernelOK ==
  /\ \A x, y \in line : x.stage = "tx" /\ y.stage # "work" => x = y
  /\ \A x \in line : x.stage = "tx" => hush >= Gap
  /\ \A x \in line : x.stage = "tx" /\ ~x.cur =>
       IF Kind[x.req] = "broadcast" THEN Broken ELSE Spent \/ x.left + Gap <= quiet
  /\ \A x \in line : x.stage = "tx" /\ x.cur /\ Kind[x.req] = "broadcast" => phase = "draining"

(* Something may still be sent.                                            *)
Usable == (NoBroadcasts \/ ~Broken) /\ ~Spent

(* What the next sender waits for covers what the line still needs: since  *)
(* the last attempt ended nothing was on it, or it is in the buffer, to be *)
(* discarded and then waited for, or the window gives it the time.         *)
Waits ==
  /\ ioAge = Never /\ ~OnWire => hush >= Gap
  /\ phase \in OffLine \cup {"discard"} /\ ioAge # Never =>
       \/ hush >= ioAge
       \/ quiet # NoWindow /\ (rx # <<>> \/ hush + quiet >= Gap)
  /\ phase \in {"settle", "gap"} => hush + timer >= Gap
  /\ phase \in {"reset", "sending"} => hush >= Gap

SpacingOK ==
  /\ NoBroadcasts \/ stream \notin {"oserror", "etimedout"}
  /\ ioAge = Never => quiet = NoWindow
  /\ KernelOK
  /\ Usable => Waits

(* Steps that neither send nor receive, by a holder that stays where it is *)
(* or off the line.                                                        *)
LEMMA KeepSpacing ==
  ASSUME IInv, SpacingOK, line' \subseteq line, UNCHANGED <<hush, quiet, ioAge>>,
         \/ phase' = phase /\ timer' = timer
         \/ phase \in OffLine /\ phase' \in OffLine,
         rx' = rx \/ rx' # <<>> \/ phase = "reading",
         Broken => Broken', NoBroadcasts \/ stream' \notin {"oserror", "etimedout"}
  PROVE  SpacingOK'
<1>1. OnWire <=> OnWire'
  BY DEF OnWire, OffLine
<1>2. KernelOK'
  BY DEF SpacingOK, KernelOK, OffLine, Spent
<1>3. ASSUME Usable'  PROVE Waits'
  <2>1. Usable
    BY <1>3 DEF Usable, Spent
  <2>2. Waits
    BY <2>1 DEF SpacingOK
  <2>3. phase \in OffLine \cup {"discard"} => phase # "reading"
    BY DEF OffLine
  <2> QED  BY <1>1, <2>2, <2>3 DEF Waits, OffLine
<1> QED  BY <1>2, <1>3 DEF SpacingOK

(* The gap is counted from the end of the last attempt, or not at all      *)
(* before the first.                                                       *)
LEMMA AwaitGapHush ==
  ASSUME TypeOK, NEW STATE age, age \in -1..Gap, AwaitGap(age), hush' = hush,
         hush >= Gap \/ (age # Never /\ hush >= age)
  PROVE  /\ phase' \in {"settle", "gap", "reset", "sending"}
         /\ phase' \in {"settle", "gap"} => hush' + timer' >= Gap
         /\ phase' \in {"reset", "sending"} => hush' >= Gap
<1>1. hush \in Nat /\ Gap \in Nat /\ StartupSettle \in Nat
  BY ConfigAssumption DEF TypeOK
<1>2. phase' \in {"settle", "gap", "reset", "sending"} /\ timer' \in Nat
  BY AwaitGapStep
<1>3. CASE hush >= Gap
  <2>1. hush >= Gap /\ hush \in Nat /\ timer' \in Nat
    BY <1>1, <1>2, <1>3
  <2>2. \A h, g, t \in Nat : h >= g => h + t >= g
    OBVIOUS
  <2>3. hush + timer' >= Gap
    BY <1>1, <2>1, <2>2
  <2> QED  BY <1>2, <2>1, <2>3
<1>4. CASE age # Never /\ hush >= age /\ age < Gap
  <2>1. phase' = "gap" /\ timer' = Gap - age
    BY <1>4 DEF AwaitGap, SetPhase
  <2> QED  BY <1>1, <1>4, <2>1
<1>5. CASE hush >= age /\ age >= Gap
  BY <1>1, <1>3, <1>5
<1> QED  BY <1>1, <1>3, <1>4, <1>5

(* The kernel holds no request on the way to the next one.                 *)
LEMMA TowardsSending ==
  ASSUME WindowSuffices, IInv, SpacingOK, line' = line, stream' = stream, hush' = hush,
         ~OnWire, quiet \in {NoWindow, 0}, quiet' = NoWindow,
         phase' \in {"settle", "gap", "reset", "sending"},
         Usable => /\ phase' \in {"settle", "gap"} => hush' + timer' >= Gap
                   /\ phase' \in {"reset", "sending"} => hush' >= Gap
                   /\ ioAge' = Never => hush >= Gap
  PROVE  SpacingOK'
<1>1. \A x \in line : (AwaitsReply(x) => Spent) /\ ~x.cur /\ x \in Exchange
  <2> SUFFICES ASSUME NEW x \in line  PROVE (AwaitsReply(x) => Spent) /\ ~x.cur /\ x \in Exchange
    OBVIOUS
  <2>1. ~x.cur /\ x \in Exchange
    BY NothingCurrent DEF IInv, TypeOK
  <2>2. AwaitsReply(x) => Mute \/ Due(x) < quiet
    BY <2>1 DEF IInv, WindowOK
  <2> QED  BY <2>1, <2>2, DueProperties, MuteSpent DEF NoWindow
<1>2. (Broken <=> Broken') /\ (Spent <=> Spent') /\ (Usable <=> Usable')
  BY DEF Broken, Usable, Spent
<1>3. KernelOK'
  BY <1>1, <1>2 DEF SpacingOK, KernelOK, AwaitsReply
<1>4. Usable' => Waits'
  BY <1>2 DEF Waits, OffLine, OnWire
<1> QED  BY <1>2, <1>3, <1>4 DEF SpacingOK

LEMMA SpacingBegin ==
  ASSUME WindowSuffices, IInv, SpacingOK, phase \in OffLine, NEW STATE n, BeginAttempt(n)
  PROVE  SpacingOK'
<1>1. UNCHANGED <<ioAge, quiet, stream, line, rx, hush>> /\ ~OnWire
  BY DEF BeginAttempt, OffLine, OnWire
<1>2. CASE quiet # NoWindow
  <2>1. phase' = "discard"
    BY <1>2 DEF BeginAttempt, SetPhase
  <2>2. (Broken <=> Broken') /\ (Spent <=> Spent') /\ (Usable <=> Usable')
    BY <1>1 DEF Broken, Usable, Spent
  <2>3. KernelOK'
    BY <1>1, <2>2, NothingCurrent DEF SpacingOK, KernelOK
  <2>4. Waits => Waits'
    BY <1>1, <2>1 DEF Waits, OffLine, OnWire
  <2> QED  BY <1>1, <2>2, <2>3, <2>4 DEF SpacingOK
<1>3. CASE quiet = NoWindow
  <2>1. AwaitGap(ioAge) /\ ioAge \in -1..Gap
    BY <1>3 DEF BeginAttempt, IInv, TypeOK
  <2>2. phase' \in {"settle", "gap", "reset", "sending"}
    BY <2>1, AwaitGapStep DEF IInv
  <2>3. ASSUME Usable
        PROVE  /\ phase' \in {"settle", "gap"} => hush' + timer' >= Gap
               /\ phase' \in {"reset", "sending"} => hush' >= Gap
               /\ ioAge' = Never => hush >= Gap
    <3>1. Waits
      BY <2>3 DEF SpacingOK
    <3>2. (ioAge = Never => hush >= Gap) /\ (hush >= Gap \/ (ioAge # Never /\ hush >= ioAge))
      BY <1>1, <1>3, <3>1 DEF Waits
    <3> QED  BY <1>1, <2>1, <3>2, AwaitGapHush DEF IInv
  <2> QED  BY <1>1, <1>3, <2>2, <2>3, TowardsSending
<1> QED  BY <1>2, <1>3

LEMMA SpacingDiscard ==
  ASSUME WindowSuffices, IInv, SpacingOK, DiscardLate \/ DiscardOver
  PROVE  SpacingOK'
<1>1. /\ phase = "discard" /\ UNCHANGED <<stream, line, hush>> /\ ~OnWire
  BY DEF DiscardLate, DiscardOver, envVars, OnWire
<1>2. /\ quiet # NoWindow /\ quiet <= limitLeft /\ quiet \in -1..Window /\ limitLeft \in Nat
      /\ Idle \in Nat /\ idleLeft \in Nat /\ ioAge \in -1..Gap /\ hush \in 0..Gap
  BY <1>1, ConfigAssumption DEF IInv, WindowOK, TypeOK, Idle, Higher
<1>3. ASSUME NEW idle \in Nat, DiscardUntil(idle) = 0  PROVE quiet = 0
  BY <1>2, <1>3, ConfigAssumption DEF DiscardUntil, Lower, Higher, NoWindow
<1>4. CASE DiscardLate /\ DiscardUntil(Idle) # 0
  <2>1. rx' = <<>> /\ ioAge' = 0 /\ UNCHANGED <<quiet, phase, timer>>
    BY <1>4 DEF DiscardLate
  <2>2. (Broken <=> Broken') /\ (Spent <=> Spent') /\ (Usable <=> Usable')
    BY <1>1 DEF Broken, Usable, Spent
  <2>3. KernelOK'
    BY <1>1, <2>1, <2>2 DEF SpacingOK, KernelOK
  <2>4. Waits'
    BY <1>1, <1>2, <2>1 DEF Waits, Never
  <2> QED  BY <1>1, <2>1, <2>2, <2>3, <2>4 DEF SpacingOK, Never
<1>5. CASE DiscardLate /\ DiscardUntil(Idle) = 0
  <2>1. ioAge' = 0 /\ quiet' = NoWindow /\ AwaitGap(0) /\ quiet = 0
    BY <1>2, <1>3, <1>5 DEF DiscardLate, EndDiscard
  <2>2. 0 \in -1..Gap /\ 0 # Never /\ hush >= 0
    BY <1>2, ConfigAssumption DEF Never
  <2>3. /\ phase' \in {"settle", "gap", "reset", "sending"}
        /\ phase' \in {"settle", "gap"} => hush' + timer' >= Gap
        /\ phase' \in {"reset", "sending"} => hush' >= Gap
    BY <1>1, <2>1, <2>2, AwaitGapHush DEF IInv
  <2> QED  BY <1>1, <2>1, <2>2, <2>3, TowardsSending
<1>6. CASE DiscardOver
  <2>1. /\ ioAge' = ioAge /\ quiet' = NoWindow /\ AwaitGap(ioAge) /\ quiet = 0 /\ rx = <<>>
    BY <1>2, <1>3, <1>6 DEF DiscardOver, EndDiscard
  <2>2. ioAge # Never
    BY <1>2 DEF SpacingOK
  <2>3. phase' \in {"settle", "gap", "reset", "sending"}
    BY <1>2, <2>1, AwaitGapStep DEF IInv
  <2>4. ASSUME Usable
        PROVE  /\ phase' \in {"settle", "gap"} => hush' + timer' >= Gap
               /\ phase' \in {"reset", "sending"} => hush' >= Gap
    <3>1. Waits
      BY <2>4 DEF SpacingOK
    <3>2. hush >= ioAge \/ hush + quiet >= Gap
      BY <1>1, <2>1, <2>2, <3>1 DEF Waits
    <3>3. hush >= Gap \/ hush >= ioAge
      BY <1>2, <2>1, <3>2
    <3> QED  BY <1>1, <1>2, <2>1, <2>2, <3>3, AwaitGapHush DEF IInv
  <2> QED  BY <1>1, <2>1, <2>2, <2>3, <2>4, TowardsSending
<1> QED  BY <1>4, <1>5, <1>6

LEMMA SpacingWait ==
  ASSUME WindowSuffices, IInv, SpacingOK, WaitOver \/ ResetInput
  PROVE  SpacingOK'
<1>1. /\ phase \in {"settle", "gap", "reset"} /\ phase' \in {"reset", "sending"}
      /\ (phase \in {"settle", "gap"} => timer = 0)
      /\ UNCHANGED <<ioAge, quiet, stream, line, hush>>
  BY DEF WaitOver, ResetInput, Proceed, StartSending, SetPhase, busVars, envVars
<1>2. quiet = NoWindow /\ ~OnWire /\ hush \in Nat
  BY <1>1 DEF IInv, WindowOK, OnWire, TypeOK
<1>3. Usable => hush >= Gap
  BY <1>1, <1>2 DEF SpacingOK, Waits
<1> QED  BY <1>1, <1>2, <1>3, TowardsSending

LEMMA SpacingHandOver ==
  ASSUME BroadcastsDrained, IInv, SpacingOK, HandOver
  PROVE  SpacingOK'
<1> DEFINE new == NewExchange(Request, TRUE)
<1>1. /\ phase = "sending" /\ FreeIds # {} /\ line' = line \cup {new}
      /\ stream \in {"up", "eof"} /\ UNCHANGED <<ioAge, quiet, stream, hush, callVars>>
  BY DEF HandOver, busVars
<1>2. queue # <<>>
  BY <1>1 DEF IInv, TypeOK
<1>3. new.stage = "tx" /\ new.req = Request /\ new.cur = TRUE /\ Request \in Requests
  BY <1>1, <1>2, OwnerCalls, NewExchangeType DEF IInv
<1> HIDE DEF new
<1>4. Usable /\ ~Broken /\ (Broken <=> Broken') /\ (Spent <=> Spent') /\ (Usable <=> Usable')
  BY <1>1 DEF Broken, Usable, Spent
<1>5. quiet = NoWindow /\ hush >= Gap
  BY <1>1, <1>4 DEF IInv, WindowOK, SpacingOK, Waits
<1>6. \A x \in line : ~x.cur /\ x.stage = "work"
  <2> SUFFICES ASSUME NEW x \in line  PROVE ~x.cur /\ x.stage = "work"
    OBVIOUS
  <2>1. ~x.cur /\ ~AwaitsReply(x) /\ x.stage \in {"tx", "slave", "work"}
    BY <1>1, <1>5, <1>4, NothingCurrent, NoWindowClear DEF Mute, IInv, TypeOK, Exchange
  <2>2. x.stage # "slave"
    BY <2>1 DEF IInv, LineOK, AwaitsReply
  <2>3. x.stage # "tx"
    BY <1>4, <2>1 DEF SpacingOK, KernelOK, AwaitsReply
  <2> QED  BY <2>1, <2>2, <2>3
<1>7. phase' \in {"draining", "turnaround", "txsettle", "reading"}
      /\ (CanDrain => phase' = "draining")
  BY SentStep DEF HandOver, SetPhase
<1>8. Kind[new.req] = "broadcast" => phase' = "draining"
  BY <1>3, <1>7 DEF BroadcastsDrained, NoBroadcasts, SendsDrained
<1>9. KernelOK'
  BY <1>1, <1>3, <1>5, <1>6, <1>8 DEF KernelOK
<1>10. Waits'
  BY <1>7 DEF Waits, OffLine, OnWire
<1> QED  BY <1>1, <1>9, <1>10 DEF SpacingOK

LEMMA SpacingToRead ==
  ASSUME IInv, SpacingOK, WaitToRead
  PROVE  SpacingOK'
<1>1. /\ phase \in {"draining", "txsettle"} /\ phase' \in {"turnaround", "txsettle", "reading"}
      /\ UNCHANGED <<ioAge, quiet, stream, line, hush>>
      /\ phase = "draining" => \A x \in line : x.stage # "tx"
  BY SentStep DEF WaitToRead, Drained, TxSettled, SetPhase, busVars, envVars
<1>2. Broken <=> Broken'
  BY <1>1 DEF Broken
<1>3. KernelOK'
  BY <1>1, <1>2 DEF SpacingOK, KernelOK, Spent
<1>4. Waits'
  BY <1>1 DEF Waits, OffLine, OnWire
<1> QED  BY <1>1, <1>3, <1>4 DEF SpacingOK

(* An attempt that ends while its request is in the kernel opened the      *)
(* window, and what it left of an earlier one is as old as its window.     *)
LEMMA SpacingEnd ==
  ASSUME WindowSuffices, GapCovered, BroadcastsDrained, IInv, IInv', SpacingOK, Ending
  PROVE  SpacingOK'
<1>1. /\ phase \in Attempting /\ phase' \in OffLine /\ ioAge' = 0
      /\ UNCHANGED <<stream, hush>> /\ quiet' \in {quiet, Higher(quiet, Window)}
  BY EndingStep DEF IInv
<1>2. (Broken <=> Broken') /\ (Spent <=> Spent') /\ (Usable <=> Usable')
  BY <1>1 DEF Broken, Usable, Spent
<1>3. /\ hush \in Nat /\ Gap \in Nat /\ TxMax \in Nat /\ Window \in Nat /\ ReplyMax \in Nat
      /\ quiet \in -1..Window /\ line \subseteq Exchange /\ line' \subseteq Exchange
  <2>1. TypeOK /\ TypeOK'
    BY DEF IInv
  <2>2. hush \in Nat /\ quiet \in -1..Window /\ line \subseteq Exchange
    BY <2>1 DEF TypeOK
  <2>3. line' \subseteq Exchange
    BY <2>1 DEF TypeOK
  <2>4. Gap \in Nat /\ TxMax \in Nat /\ Window \in Nat /\ ReplyMax \in Nat
    BY ConfigAssumption, LineAssumption
  <2> QED
    BY <2>2, <2>3, <2>4
<1> DEFINE new == NewExchange(Request, FALSE)
<1>4. \A y \in line' :
        \/ \E x \in line : y = Expired(x) /\ y.stage = x.stage /\ y.req = x.req /\ y.left = x.left
                           /\ y.cur = FALSE
        \/ /\ phase = "sending" /\ CancelAttempt
           /\ y = Expired(new) /\ y.stage = "tx" /\ y.req = Request /\ y.cur = FALSE
  <2>1. CASE line' = {Expired(x) : x \in line}
    <3>1. \A x \in line : /\ Expired(x).stage = x.stage /\ Expired(x).req = x.req
                          /\ Expired(x).left = x.left /\ Expired(x).cur = FALSE
      BY <1>3, ExpiredExchange
    <3> QED  BY <2>1, <3>1
  <2>2. CASE /\ CancelAttempt /\ phase = "sending" /\ FreeIds # {}
             /\ line' = {Expired(x) : x \in line \cup {new}}
    <3>1. queue # <<>>
      BY <2>2 DEF IInv, TypeOK
    <3>2. new \in Exchange /\ new.stage = "tx" /\ new.req = Request
      BY <2>2, <3>1, OwnerCalls, NewExchangeType DEF IInv
    <3> HIDE DEF new
    <3>3. /\ Expired(new).stage = "tx" /\ Expired(new).req = Request /\ Expired(new).cur = FALSE
      BY <3>2, ExpiredExchange
    <3>4. \A x \in line : /\ Expired(x).stage = x.stage /\ Expired(x).req = x.req
                          /\ Expired(x).left = x.left /\ Expired(x).cur = FALSE
      BY <1>3, ExpiredExchange
    <3> QED  BY <2>2, <3>3, <3>4
  <2> QED  BY <2>1, <2>2, EndingStep DEF IInv
<1> HIDE DEF new
<1>5. phase = "sending" /\ CancelAttempt => NoBroadcasts /\ line = {} /\ hush >= Gap
  <2> SUFFICES ASSUME phase = "sending", CancelAttempt
               PROVE  NoBroadcasts /\ line = {} /\ hush >= Gap
    OBVIOUS
  <2>1. NoBroadcasts /\ ~SendsDrained /\ ~Spent
    BY DEF CancelAttempt, BroadcastsDrained, SendsDrained, Spent
  <2>2. hush >= Gap /\ quiet = NoWindow
    BY <2>1 DEF SpacingOK, Usable, Waits, IInv, WindowOK
  <2>3. \A x \in line : FALSE
    <3> SUFFICES ASSUME NEW x \in line  PROVE FALSE
      OBVIOUS
    <3>1. ~AwaitsReply(x) /\ Kind[x.req] # "broadcast"
      BY <1>3, <2>1, <2>2, NothingCurrent, NoWindowClear, MuteSpent DEF NoBroadcasts, Exchange
    <3> QED  BY <3>1 DEF AwaitsReply, IInv, LineOK
  <2> QED  BY <2>1, <2>2, <2>3
<1>6. \A x, y \in line' : x.stage = "tx" /\ y.stage # "work" => x = y
  <2> SUFFICES ASSUME NEW x \in line', NEW y \in line', x.stage = "tx", y.stage # "work"
               PROVE  x = y
    OBVIOUS
  <2>1. CASE phase = "sending" /\ CancelAttempt
    BY <1>4, <1>5, <2>1
  <2>2. CASE ~(phase = "sending" /\ CancelAttempt)
    <3>1. PICK p \in line : x = Expired(p) /\ x.stage = p.stage
      BY <1>4, <2>2
    <3>2. PICK q \in line : y = Expired(q) /\ y.stage = q.stage
      BY <1>4, <2>2
    <3>3. p = q
      BY <3>1, <3>2 DEF SpacingOK, KernelOK
    <3> QED  BY <3>1, <3>2, <3>3
  <2> QED  BY <2>1, <2>2
<1>7. \A y \in line' : y.stage = "tx" => hush >= Gap
  BY <1>4, <1>5 DEF SpacingOK, KernelOK
<1>8. ASSUME NEW y \in line', y.stage = "tx", Kind[y.req] = "broadcast"  PROVE Broken
  <2>1. y.req \in Requests
    BY <1>3 DEF Exchange
  <2>2. ~NoBroadcasts
    BY <1>8, <2>1 DEF NoBroadcasts
  <2>3. PICK x \in line : x.stage = "tx" /\ x.req = y.req
    BY <1>4, <1>5, <1>8, <2>2
  <2>4. CASE ~x.cur
    BY <1>8, <2>3, <2>4 DEF SpacingOK, KernelOK
  <2>5. CASE x.cur
    <3>1. phase = "draining"
      BY <1>8, <2>3, <2>5 DEF SpacingOK, KernelOK
    <3>2. "draining" \notin CancelAt /\ stream \notin {"oserror", "etimedout"}
      BY <2>2 DEF BroadcastsDrained, SendsDrained, SpacingOK
    <3>3. StreamFails
      BY <3>1, <3>2 DEF Ending, TurnaroundOver, ReadFrame, ReadDamaged, ReadTimeout, CancelAttempt
    <3>4. stream \notin {"up", "eof"} /\ stream \in {"up"} \cup FaultKinds
      BY <3>1, <3>3 DEF StreamFails, Reading, IInv, TypeOK
    <3> QED  BY <3>2, <3>4 DEF Broken, FaultKinds
  <2> QED  BY <1>3, <2>4, <2>5 DEF Exchange
<1>9. ASSUME NEW y \in line', y.stage = "tx", Kind[y.req] # "broadcast"
      PROVE  Spent' \/ y.left + Gap <= quiet'
  <2>1. y \in Exchange /\ y.left <= TxMax /\ y.left \in Nat /\ ~y.cur
    BY <1>3, <1>4, <1>9 DEF IInv, LineOK, Exchange
  <2>d. CASE SendsDrained
    <3>1. KernelEmpties' /\ phase' # "draining"
      BY <1>1, <2>d DEF IInv, OffLine
    <3> QED  BY <1>9, <2>d, <3>1 DEF KernelEmpties, Spent
  <2>k. CASE ~SendsDrained /\ quiet' = Higher(quiet, Window)
    <3>1. Window <= quiet' /\ quiet' \in Nat
      BY <1>3, <2>k DEF Higher
    <3> QED  BY <1>3, <2>1, <2>k, <3>1 DEF GapCovered, WindowCoversGap
  <2>3. CASE ~SendsDrained /\ quiet' = quiet
    <3>m. ~Mute'
      BY <1>2, <2>3, MuteSpent DEF Mute, Spent
    <3>1. Due(y) < quiet' /\ Due(y) \in Nat
      BY <1>9, <2>1, <3>m, DueProperties DEF IInv, WindowOK, AwaitsReply
    <3>2. quiet # NoWindow
      BY <2>3, <3>1 DEF NoWindow
    <3>3. phase = "discard"
      BY <1>1, <3>2 DEF IInv, WindowOK, Attempting, Reading, Writing, Sleeping
    <3>4. PICK x \in line : x.stage = "tx" /\ x.left = y.left /\ x.req = y.req
      BY <1>4, <1>9, <3>3
    <3>5. ~x.cur
      BY <3>3, NothingCurrent DEF OnWire
    <3> QED  BY <1>9, <2>3, <3>4, <3>5 DEF SpacingOK, KernelOK, Spent
  <2> QED  BY <1>1, <2>d, <2>k, <2>3
<1>10. \A y \in line' : ~y.cur
  BY <1>4
<1>11. KernelOK'
  BY <1>1, <1>2, <1>6, <1>7, <1>8, <1>9, <1>10 DEF KernelOK
<1>12. Waits'
  <2>1. ioAge' # Never /\ hush' >= ioAge'
    BY <1>1, <1>3 DEF Never
  <2> QED  BY <1>1, <2>1 DEF Waits, OffLine
<1> QED  BY <1>1, <1>11, <1>12 DEF SpacingOK, Never

(* A frame that ends on the wire is that of the attempt in progress, or    *)
(* the window still has time for it.                                       *)
LEMMA SpacingTransmit ==
  ASSUME IInv, SpacingOK, NEW x \in line, Transmit(x)
  PROVE  SpacingOK'
<1> DEFINE y == IF Kind[x.req] = "broadcast"
                THEN [x EXCEPT !.stage = "work", !.left = Turnaround]
                ELSE [x EXCEPT !.stage = "slave", !.left = ReplyMax]
<1>1. /\ line' = (line \ {x}) \cup {y} /\ x.stage = "tx" /\ hush' = 0
      /\ UNCHANGED <<ioAge, quiet, stream, phase, timer, rx>>
  BY DEF Transmit, busVars, ownVars
<1>2. x \in Exchange /\ y.stage \in {"work", "slave"}
  BY DEF IInv, TypeOK, Exchange
<1> HIDE DEF y
<1>3. \A z \in line' : z.stage # "tx"
  BY <1>1, <1>2 DEF SpacingOK, KernelOK
<1>4. KernelOK'
  BY <1>3 DEF KernelOK
<1>5. (Broken <=> Broken') /\ (Spent <=> Spent') /\ (Usable <=> Usable')
  BY <1>1 DEF Broken, Usable, Spent
<1>6. ASSUME Usable  PROVE Waits'
  <2>1. CASE x.cur
    <3>1. OnWire /\ phase # "sending"
      BY <2>1 DEF IInv, LineOK
    <3> QED  BY <1>1, <3>1 DEF Waits, OnWire, OffLine
  <2>2. CASE ~x.cur
    <3>1. Kind[x.req] # "broadcast"
      BY <1>1, <1>2, <1>6, <2>2 DEF SpacingOK, KernelOK, Usable, NoBroadcasts, Exchange
    <3>2. x.left + Gap <= quiet /\ x.left \in Nat /\ Gap \in Nat /\ quiet \in -1..Window
      BY <1>1, <1>2, <1>6, <2>2, <3>1, ConfigAssumption DEF Usable, SpacingOK, KernelOK, Exchange, IInv, TypeOK
    <3>3. quiet # NoWindow /\ 0 + quiet >= Gap
      BY <3>2, ConfigAssumption DEF NoWindow
    <3>4. phase \in OffLine \cup {"discard"} /\ ioAge # Never
      BY <3>3 DEF IInv, WindowOK, SpacingOK, OffLine
    <3> QED  BY <1>1, <3>3, <3>4 DEF Waits, OffLine
  <2> QED  BY <1>2, <2>1, <2>2 DEF Exchange
<1> QED  BY <1>1, <1>4, <1>5, <1>6 DEF SpacingOK

LEMMA SpacingReply ==
  ASSUME IInv, SpacingOK, NEW x \in line, NEW f \in Frame, Reply(x, f)
  PROVE  SpacingOK'
<1>1. /\ line' = line \ {x} /\ x.stage = "slave" /\ hush' = 0 /\ rx' = Append(rx, f)
      /\ UNCHANGED <<ioAge, quiet, stream, phase, timer>> /\ ~Mute
  BY DEF Reply, busVars, ownVars, Mute, Broken
<1>2. x \in Exchange /\ rx \in Seq(Frame)
  BY DEF IInv, TypeOK
<1>3. rx' # <<>>
  BY <1>1, <1>2, AppendProperties
<1>4. \A z \in line' : z.stage # "tx"
  BY <1>1 DEF SpacingOK, KernelOK
<1>5. KernelOK'
  BY <1>4 DEF KernelOK
<1>6. (Broken <=> Broken') /\ (Spent <=> Spent') /\ (Usable <=> Usable')
  BY <1>1 DEF Broken, Usable, Spent
<1>7. Waits'
  <2>1. CASE x.cur
    <3>1. OnWire /\ phase # "sending"
      BY <2>1 DEF IInv, LineOK
    <3> QED  BY <1>1, <3>1 DEF Waits, OnWire, OffLine
  <2>2. CASE ~x.cur
    <3>1. AwaitsReply(x)
      BY <1>1 DEF IInv, LineOK, AwaitsReply
    <3>2. Due(x) < quiet /\ Due(x) \in Nat
      BY <1>1, <1>2, <2>2, <3>1, DueProperties DEF IInv, WindowOK
    <3>3. quiet # NoWindow
      BY <3>2 DEF NoWindow
    <3>4. phase \in OffLine \cup {"discard"} /\ ioAge # Never
      BY <3>3 DEF IInv, WindowOK, SpacingOK, OffLine
    <3> QED  BY <1>1, <1>3, <3>3, <3>4 DEF Waits, OffLine
  <2> QED  BY <1>2, <2>1, <2>2 DEF Exchange
<1> QED  BY <1>1, <1>5, <1>6, <1>7 DEF SpacingOK

LEMMA SpacingTick ==
  ASSUME IInv, SpacingOK, Tick
  PROVE  SpacingOK'
<1> DEFINE next(x) == [x EXCEPT !.left = @ - 1]
<1>1. /\ line' = {next(x) : x \in line} /\ \A x \in line : x.left > 0
      /\ ioAge' = (IF ioAge = Never THEN Never ELSE Lower(ioAge + 1, Gap))
      /\ quiet' = (IF quiet > 0 THEN quiet - 1 ELSE quiet)
      /\ timer' = Higher(timer - 1, 0) /\ hush' = Lower(hush + 1, Gap)
      /\ UNCHANGED <<phase, stream, rx>>
  BY DEF Tick
<1>2. ASSUME NEW x \in line
      PROVE  /\ next(x).left = x.left - 1 /\ next(x).stage = x.stage /\ next(x).req = x.req
             /\ next(x).cur = x.cur /\ x.left \in Nat \ {0}
  BY <1>1 DEF IInv, TypeOK, Exchange
<1> HIDE DEF next
<1>3. /\ ioAge \in -1..Gap /\ quiet \in -1..Window /\ timer \in Nat /\ hush \in 0..Gap
      /\ Gap \in Nat /\ Window \in Nat
  BY ConfigAssumption DEF IInv, TypeOK
<1>4. /\ ioAge' = Never <=> ioAge = Never
      /\ quiet' = NoWindow <=> quiet = NoWindow
      /\ hush >= Gap => hush' >= Gap
      /\ ioAge # Never /\ hush >= ioAge => hush' >= ioAge'
  BY <1>1, <1>3 DEF Never, NoWindow, Lower
<1>5. quiet # NoWindow /\ hush + quiet >= Gap => hush' + quiet' >= Gap
  BY <1>1, <1>3 DEF NoWindow, Lower
<1>6. hush + timer >= Gap => hush' + timer' >= Gap
  BY <1>1, <1>3 DEF Lower, Higher
<1>7. (Broken <=> Broken') /\ (Spent <=> Spent') /\ (Usable <=> Usable') /\ (OnWire <=> OnWire')
  BY <1>1 DEF Broken, Usable, Spent, OnWire
<1>8. Waits => Waits'
  BY <1>1, <1>4, <1>5, <1>6, <1>7 DEF Waits
<1>9. KernelOK'
  <2>1. \A x, y \in line' : x.stage = "tx" /\ y.stage # "work" => x = y
    BY <1>1, <1>2 DEF SpacingOK, KernelOK
  <2>2. \A x \in line' : x.stage = "tx" => hush' >= Gap
    BY <1>1, <1>2, <1>4 DEF SpacingOK, KernelOK
  <2>3. ASSUME NEW x \in line, x.stage = "tx", ~x.cur
        PROVE  IF Kind[x.req] = "broadcast" THEN Broken ELSE Spent \/ x.left - 1 + Gap <= quiet'
    <3>1. IF Kind[x.req] = "broadcast" THEN Broken ELSE Spent \/ x.left + Gap <= quiet
      BY <2>3 DEF SpacingOK, KernelOK
    <3>2. x.left + Gap <= quiet => x.left - 1 + Gap <= quiet'
      BY <1>1, <1>2, <1>3
    <3> QED  BY <3>1, <3>2
  <2>4. \A x \in line' : x.stage = "tx" /\ ~x.cur =>
          IF Kind[x.req] = "broadcast" THEN Broken' ELSE Spent' \/ x.left + Gap <= quiet'
    BY <1>1, <1>2, <1>7, <2>3
  <2>5. \A x \in line' : x.stage = "tx" /\ x.cur /\ Kind[x.req] = "broadcast" => phase' = "draining"
    BY <1>1, <1>2 DEF SpacingOK, KernelOK
  <2> QED  BY <2>1, <2>2, <2>4, <2>5 DEF KernelOK
<1> QED  BY <1>1, <1>4, <1>7, <1>8, <1>9 DEF SpacingOK

LEMMA SpacingStep ==
  ASSUME WindowSuffices, GapCovered, BroadcastsDrained, IInv, SpacingOK, [Next]_vars
  PROVE  SpacingOK'
<1>1. /\ NoBroadcasts \/ stream \notin {"oserror", "etimedout"}
      /\ IInv' /\ TypeOK
  BY IInvStep DEF SpacingOK, IInv
<1>2. ASSUME NEW c \in Callers, NEW r \in Requests, Call(c, r)  PROVE SpacingOK'
  <2>1. /\ UNCHANGED <<ioAge, quiet, stream, line, rx, hush, timer>>
        /\ phase' = IF queue = <<>> THEN "granted" ELSE phase
    BY <1>2 DEF Call, busVars, envVars
  <2>2. queue = <<>> => phase = "free"
    BY <1>1 DEF TypeOK
  <2> QED  BY <1>1, <2>1, <2>2, KeepSpacing DEF OffLine, Broken
<1>3. ASSUME NEW c \in Callers, CancelQueued(c)  PROVE SpacingOK'
  <2>1. /\ UNCHANGED <<ioAge, quiet, stream, line, rx, hush>>
        /\ \/ phase = "granted" /\ phase' \in {"free", "granted"}
           \/ UNCHANGED <<phase, timer>>
    BY <1>3 DEF CancelQueued, Release, SetPhase, busVars, envVars
  <2> QED  BY <1>1, <2>1, KeepSpacing DEF OffLine, Broken
<1>4. ASSUME CancelBackoff  PROVE SpacingOK'
  <2>1. /\ UNCHANGED <<ioAge, quiet, stream, line, rx, hush>>
        /\ phase = "backoff" /\ phase' \in {"free", "granted"}
    BY <1>4 DEF CancelBackoff, Release, SetPhase, busVars, envVars
  <2> QED  BY <1>1, <2>1, KeepSpacing DEF OffLine, Broken
<1>5. ASSUME FirstAttempt \/ NextAttempt  PROVE SpacingOK'
  BY <1>5, SpacingBegin DEF FirstAttempt, NextAttempt, OffLine
<1>6. ASSUME SkipStray  PROVE SpacingOK'
  <2>1. UNCHANGED <<ioAge, quiet, stream, line, hush, phase, timer>> /\ phase = "reading"
    BY <1>6 DEF SkipStray, busVars, ownVars
  <2> QED  BY <1>1, <2>1, KeepSpacing DEF Broken
<1>7. ASSUME NEW x \in line,
             Transmit(x) \/ Lose(x) \/ WorkDone(x) \/ \E f \in Frame : Reply(x, f)
      PROVE  SpacingOK'
  <2>1. ASSUME Lose(x) \/ WorkDone(x)  PROVE SpacingOK'
    <3>1. /\ UNCHANGED <<ioAge, quiet, stream, rx, hush, phase, timer>> /\ line' \subseteq line
      BY <2>1 DEF Lose, WorkDone, busVars, ownVars
    <3> QED  BY <1>1, <3>1, KeepSpacing DEF Broken
  <2> QED  BY <1>7, <2>1, SpacingTransmit, SpacingReply
<1>8. ASSUME \/ Close \/ CloseStream \/ Noise \/ StreamRecovers \/ UNCHANGED vars
             \/ \E fault \in Faults : StreamFault(fault)
      PROVE  SpacingOK'
  <2>1. UNCHANGED <<ioAge, quiet, line, hush, phase, timer>> /\ (rx' = rx \/ rx' # <<>>)
    BY <1>8 DEF Close, CloseStream, Noise, StreamRecovers, StreamFault, vars, busVars, ownVars, envVars
  <2>2. (Broken => Broken') /\ (NoBroadcasts \/ stream' \notin {"oserror", "etimedout"})
    BY <1>1, <1>8 DEF Close, CloseStream, Noise, StreamRecovers, StreamFault, vars, envVars,
       Broken, BroadcastsDrained, SendsDrained
  <2> QED  BY <2>1, <2>2, KeepSpacing
<1> QED  BY <1>1, <1>2, <1>3, <1>4, <1>5, <1>6, <1>7, <1>8, SpacingHandOver, SpacingDiscard,
            SpacingWait, SpacingToRead, SpacingEnd, SpacingTick
         DEF Next, BusStep, WaitForLine, ReadReply, LineStep, Ending

(* Before a frame goes out the line was silent for the gap: the stamp of   *)
(* the last attempt's end and the window stand for all that may still have *)
(* been on the line since (_await_inter_frame_gap, _finish_attempt).  The  *)
(* window has to reach a gap beyond what may still leave the kernel, unless*)
(* sends are drained and nothing does.                                     *)
THEOREM FramesSpaced ==
  WindowSuffices /\ GapCovered /\ BroadcastsDrained => (Spec => FrameSpacing)
<1> SUFFICES ASSUME WindowSuffices, GapCovered, BroadcastsDrained
             PROVE  Spec => FrameSpacing
  OBVIOUS
<1>1. Init => SpacingOK
  BY ConfigAssumption DEF Init, SpacingOK, KernelOK, Waits, Never
<1>2. IInv /\ SpacingOK /\ [Next]_vars => (IInv /\ SpacingOK)'
  BY IInvStep, SpacingStep
<1>3. IInv /\ SpacingOK => [\A x \in line : Transmit(x) => hush >= Gap]_vars
  BY DEF SpacingOK, KernelOK, Transmit
<1> QED  BY <1>1, <1>2, <1>3, InitIInv, PTL DEF Spec, FrameSpacing
-----------------------------------------------------------------------------
(***************************************************************************)
(* What the callers see: the bus implements RequestReply, a step of the   *)
(* bus being a step of the call it serves, or none.                        *)
(***************************************************************************)

(* A request is read for, or a turnaround held, once it has been sent.     *)
SentOK == phase \in {"draining", "txsettle", "reading", "turnaround"} => sends >= 1

LEMMA SentInit == Init => SentOK
BY DEF Init, SentOK

LEMMA SentKept ==
  ASSUME BaseInv, SentOK, [Next]_vars
  PROVE  SentOK'
<1>1. ASSUME Ending  PROVE SentOK'
  <2>1. phase' \in OffLine
    BY <1>1, EndingStep
  <2> QED  BY <2>1 DEF SentOK, OffLine
<1>2. ASSUME HandOver  PROVE SentOK'
  BY <1>2 DEF HandOver, SentOK, TypeOK
<1>3. ASSUME Drained \/ TxSettled  PROVE SentOK'
  BY <1>3 DEF Drained, TxSettled, SentOK
<1>4. ASSUME WaitForLine  PROVE SentOK'
  BY <1>4 DEF WaitForLine, FirstAttempt, NextAttempt, BeginAttempt, DiscardLate, DiscardOver,
     EndDiscard, AwaitGap, Proceed, StartSending, WaitOver, ResetInput, SetPhase, SentOK
<1>5. ASSUME NEW c \in Callers, NEW r \in Requests, Call(c, r)  PROVE SentOK'
  BY <1>5 DEF Call, SentOK
<1>6. ASSUME NEW c \in Callers, CancelQueued(c)  PROVE SentOK'
  BY <1>6 DEF CancelQueued, Release, SetPhase, SentOK
<1>7. ASSUME CancelBackoff  PROVE SentOK'
  BY <1>7 DEF CancelBackoff, Release, SetPhase, SentOK
<1>8. ASSUME \/ SkipStray \/ Close \/ CloseStream \/ Noise \/ StreamRecovers \/ UNCHANGED vars
             \/ LineStep \/ Tick \/ \E fault \in Faults : StreamFault(fault)
      PROVE  SentOK'
  <2>1. UNCHANGED <<phase, sends>>
    BY <1>8 DEF SkipStray, Close, CloseStream, Noise, StreamRecovers, StreamFault, LineStep,
       Transmit, Reply, Lose, WorkDone, Tick, vars, ownVars
  <2> QED  BY <2>1 DEF SentOK
<1> QED  BY <1>1, <1>2, <1>3, <1>4, <1>5, <1>6, <1>7, <1>8
         DEF Next, BusStep, WaitToRead, ReadReply, Ending

(* What becomes of the answer, by what becomes of the line and the buffer. *)
NothingMine(l, u) == (\A x \in l : ~x.cur) /\ (\A i \in DOMAIN u : ~u[i].cur)

LEMMA AnswerNone == NothingMine(line, rx) => answer = "none"
BY DEF NothingMine, answer, Arrived

LEMMA AnswerNoneNext == NothingMine(line', rx') => answer' = "none"
BY DEF NothingMine, answer, Arrived

LEMMA AnswerSame == UNCHANGED <<line, rx>> => answer' = answer
BY DEF answer, Arrived

LEMMA OwnAnswer ==
  ASSUME IInv, NEW i \in DOMAIN rx, rx[i].cur
  PROVE  /\ rx[i].kind = "ok" => answer = "reply"
         /\ rx[i].kind = "exception" => answer = "exception"
         /\ answer # "due"
BY DEF IInv, OneReply, answer, Arrived

LEMMA OwnDue ==
  ASSUME IInv, NEW x \in line, x.cur
  PROVE  answer = "due"
BY DEF IInv, OneReply, answer, Arrived
-----------------------------------------------------------------------------
(* Steps of a call, as steps of RequestReply                               *)

LEMMA RestRefines ==
  ASSUME NoneEnded, UNCHANGED <<queue, req, sends>>, answer' \in {answer, "none"}
  PROVE  Promise!Next
BY DEF NoneEnded, Promise!Next, Promise!Rest, Promise!NoAnswer

LEMMA EndRefines ==
  ASSUME queue # <<>>, Release, answer' = "none",
         NEW how \in Outcomes, Ended(Owner, how),
         how \in {"reply", "exception"} => answer = how,
         how = "broadcast_sent" => Broadcasting /\ sends = 1
  PROVE  Promise!Next
<1>1. Promise!End(how)
  BY DEF Ended, Promise!End, Promise!Request, Release, Owner, Request, Broadcasting
<1> QED  BY <1>1 DEF Outcomes, Promise!Errors, Promise!Next

LEMMA FinishRefines ==
  ASSUME BaseInv, phase \in Attempting,
         NEW STATE outcome, outcome \in Outcomes, NEW STATE l, NEW STATE u,
         l \subseteq Exchange, u \in Seq(Frame),
         FinishAttempt(outcome, l, u),
         outcome \in {"reply", "exception"} => answer = outcome,
         outcome = "broadcast_sent" => Broadcasting /\ sends = 1
  PROVE  Promise!Next
<1>1. queue # <<>>
  BY DEF TypeOK, Attempting, Reading, Writing, Sleeping
<1>2. line' = {Expired(x) : x \in l} /\ rx' = ExpiredRx(u)
  BY DEF FinishAttempt
<1>3. NothingMine(line', rx')
  <2>1. \A x \in l : ~Expired(x).cur
    BY ExpiredExchange
  <2>2. \A i \in DOMAIN rx' : ~rx'[i].cur
    BY <1>2, ExpiredRxProperties
  <2> QED  BY <1>2, <2>1, <2>2 DEF NothingMine
<1>4. answer' = "none"
  BY <1>3, AnswerNoneNext
<1>5. CASE ShouldRetry(outcome)
  <2>1. UNCHANGED <<queue, req, sends>> /\ NoneEnded
    BY <1>5 DEF FinishAttempt
  <2> QED  BY <1>4, <2>1, RestRefines
<1>6. CASE ~ShouldRetry(outcome)
  <2>1. Release /\ Ended(Owner, outcome)
    BY <1>6 DEF FinishAttempt
  <2> QED  BY <1>1, <1>4, <2>1, EndRefines
<1> QED  BY <1>5, <1>6

LEMMA CallRefines ==
  ASSUME BaseInv, NEW c \in Callers, NEW r \in Requests, Call(c, r)
  PROVE  Promise!Next
<1>1. /\ req[c] = NoRequest /\ req' = [req EXCEPT ![c] = r]
      /\ queue' = Append(queue, c) /\ UNCHANGED <<sends, line, rx>>
      /\ ended' = {}
  BY DEF Call, envVars, NoneEnded
<1>2. answer' = answer
  BY <1>1, AnswerSame
<1>3. Promise!Call(c, r)
  BY <1>1, <1>2 DEF Promise!Call
<1> QED  BY <1>3 DEF Promise!Next

LEMMA CancelQueuedRefines ==
  ASSUME IInv, NEW c \in Callers, CancelQueued(c)
  PROVE  Promise!Next
<1>1. PICK i \in DOMAIN queue :
        /\ queue[i] = c
        /\ IF i = 1
           THEN phase = "granted" /\ Release
           ELSE /\ queue' = SubSeq(queue, 1, i - 1) \o SubSeq(queue, i + 1, Len(queue))
                /\ req' = [req EXCEPT ![c] = NoRequest]
                /\ UNCHANGED sends
  BY DEF CancelQueued
<1>2. UNCHANGED <<line, rx>> /\ Ended(c, "cancelled")
  BY DEF CancelQueued, envVars
<1>3. answer' = answer
  BY <1>2, AnswerSame
<1>4. CASE i = 1
  <2>1. phase = "granted" /\ Release /\ queue # <<>>
    BY <1>1, <1>4 DEF IInv, TypeOK
  <2>2. NothingMine(line, rx)
    BY <2>1, NothingCurrent DEF OnWire, NothingMine
  <2>3. Owner = c
    BY <1>1, <1>4, <2>1, OwnerCalls DEF IInv
  <2> QED  BY <1>2, <1>3, <2>1, <2>2, <2>3, AnswerNone, EndRefines DEF Outcomes
<1>5. CASE i # 1
  <2>1. Promise!Leave(c)
    BY <1>1, <1>2, <1>3, <1>5 DEF Ended, Promise!Leave
  <2> QED  BY <2>1 DEF Promise!Next
<1> QED  BY <1>4, <1>5

LEMMA HandOverRefines ==
  ASSUME IInv, HandOver
  PROVE  Promise!Next
<1>1. /\ phase = "sending" /\ sends' = sends + 1
      /\ line' = line \cup {NewExchange(Request, TRUE)}
      /\ UNCHANGED <<queue, req, rx>> /\ ended' = {}
  BY DEF HandOver, callVars, NoneEnded
<1>2. /\ queue # <<>> /\ sends \in Nat /\ attempt \in Nat /\ attempt <= Retries
      /\ sends <= attempt /\ Retries \in Nat
  BY <1>1, ConfigAssumption DEF IInv, TypeOK, AttemptsOK
<1>3. NothingMine(line, rx)
  BY <1>1, NothingCurrent DEF NothingMine
<1>4. answer' = "due"
  <2>1. NewExchange(Request, TRUE).cur
    BY DEF NewExchange
  <2> QED  BY <1>1, <1>3, <2>1 DEF NothingMine, answer, Arrived
<1>5. ASSUME sends # 0  PROVE Promise!MayAskAgain
  <2>1. attempt > 0 /\ sends <= Retries
    BY <1>2, <1>5
  <2>2. ~Broadcasting /\ (IdempotentOnly => Idempotent(Request))
    BY <2>1 DEF IInv, AttemptsOK
  <2> QED  BY <2>1, <2>2
           DEF Promise!MayAskAgain, Promise!Request, Broadcasting, Idempotent, Request, Owner
<1>6. answer = "none"
  BY <1>3, AnswerNone
<1>7. Promise!Ask
  BY <1>1, <1>2, <1>4, <1>5, <1>6 DEF Promise!Ask
<1> QED  BY <1>7 DEF Promise!Next

LEMMA ReplyRefines ==
  ASSUME IInv, NEW x \in line, NEW f \in Frame, Reply(x, f)
  PROVE  Promise!Next
<1>1. /\ x.stage = "slave" /\ line' = line \ {x} /\ rx' = Append(rx, f)
      /\ f \in {[req |-> x.req, kind |-> "ok", cur |-> x.cur],
                [req |-> x.req, kind |-> "exception", cur |-> x.cur], Junk}
      /\ UNCHANGED <<queue, req, sends>> /\ NoneEnded
  BY DEF Reply, callVars, ownVars
<1>2. ended' = {}
  BY <1>1 DEF NoneEnded
<1>3. \A kind \in {"ok", "exception"} :
        Arrived(kind)' <=> Arrived(kind) \/ (f.cur /\ f.kind = kind)
  <2>1. rx \in Seq(Frame) /\ DOMAIN rx = 1..Len(rx) /\ Len(rx) \in Nat
    BY LenProperties DEF IInv, TypeOK
  <2>2. /\ DOMAIN rx' = 1..(Len(rx) + 1)
        /\ \A i \in 1..Len(rx) : rx'[i] = rx[i]
        /\ rx'[Len(rx) + 1] = f
    BY <1>1, <2>1, AppendProperties, LenProperties
  <2> QED  BY <2>1, <2>2 DEF Arrived
<1>4. CASE x.cur
  <2>1. answer = "due" /\ ~Arrived("ok") /\ ~Arrived("exception")
    BY <1>4, OwnDue DEF answer
  <2>2. \A y \in line' : ~y.cur
    BY <1>1, <1>4 DEF IInv, OneReply
  <2>3. Kind[Request] # "broadcast"
    BY <1>1, <1>4 DEF IInv, LineOK
  <2>4. CASE f.kind = "ok"
    <3>1. f.cur
      BY <1>1, <1>4, <2>4 DEF Junk
    <3>2. answer' = "reply"
      BY <1>3, <2>4, <3>1 DEF answer
    <3>3. Promise!Answer("reply")
      BY <1>1, <1>2, <2>1, <2>3, <3>2 DEF Promise!Answer, Promise!Request, Request, Owner
    <3> QED  BY <3>3 DEF Promise!Next
  <2>5. CASE f.kind = "exception"
    <3>1. f.cur
      BY <1>1, <1>4, <2>5 DEF Junk
    <3>2. answer' = "exception"
      BY <1>3, <2>1, <2>5, <3>1 DEF answer
    <3>3. Promise!Answer("exception")
      BY <1>1, <1>2, <2>1, <2>3, <3>2 DEF Promise!Answer, Promise!Request, Request, Owner
    <3> QED  BY <3>3 DEF Promise!Next
  <2>6. CASE f = Junk
    <3>1. answer' = "none"
      BY <1>3, <2>1, <2>2, <2>6 DEF answer, Junk
    <3> QED  BY <1>1, <3>1, RestRefines
  <2> QED  BY <1>1, <2>4, <2>5, <2>6
<1>5. CASE ~x.cur
  <2>1. ~f.cur
    BY <1>1, <1>5 DEF Junk
  <2>2. (\E y \in line' : y.cur) <=> (\E y \in line : y.cur)
    BY <1>1, <1>5
  <2>3. answer' = answer
    BY <1>3, <2>1, <2>2 DEF answer
  <2> QED  BY <1>1, <2>3, RestRefines
<1> QED  BY <1>4, <1>5

(* An exchange moves on, or is over.                                       *)
LEMMA LineRefines ==
  ASSUME IInv, NEW x \in line, Transmit(x) \/ Lose(x) \/ WorkDone(x)
  PROVE  Promise!Next
<1>1. UNCHANGED <<queue, req, sends, rx>> /\ NoneEnded
  BY DEF Transmit, Lose, WorkDone, callVars, ownVars
<1>2. \A kind : Arrived(kind)' = Arrived(kind)
  BY <1>1 DEF Arrived
<1>3. CASE Transmit(x)
  <2>1. (\E y \in line' : y.cur) <=> (\E y \in line : y.cur)
    <3>1. /\ [x EXCEPT !.stage = "work", !.left = Turnaround].cur = x.cur
          /\ [x EXCEPT !.stage = "slave", !.left = ReplyMax].cur = x.cur
      BY DEF IInv, TypeOK, Exchange
    <3>2. \/ line' = (line \ {x}) \cup {[x EXCEPT !.stage = "work", !.left = Turnaround]}
          \/ line' = (line \ {x}) \cup {[x EXCEPT !.stage = "slave", !.left = ReplyMax]}
      BY <1>3 DEF Transmit
    <3> QED  BY <3>1, <3>2
  <2>2. answer' = answer
    BY <1>2, <2>1 DEF answer
  <2> QED  BY <1>1, <2>2, RestRefines
<1>4. CASE Lose(x) \/ WorkDone(x)
  <2>1. line' = line \ {x}
    BY <1>4 DEF Lose, WorkDone
  <2>2. CASE x.cur
    <3>1. answer = "due" /\ \A y \in line' : ~y.cur
      BY <2>1, <2>2, OwnDue DEF IInv, OneReply
    <3>2. answer' = "none"
      BY <1>2, <3>1 DEF answer
    <3> QED  BY <1>1, <3>2, RestRefines
  <2>3. CASE ~x.cur
    <3>1. (\E y \in line' : y.cur) <=> (\E y \in line : y.cur)
      BY <2>1, <2>3
    <3>2. answer' = answer
      BY <1>2, <3>1 DEF answer
    <3> QED  BY <1>1, <3>2, RestRefines
  <2> QED  BY <2>2, <2>3
<1> QED  BY <1>3, <1>4

LEMMA TickRefines ==
  ASSUME IInv, Tick
  PROVE  Promise!Next
<1>1. /\ UNCHANGED <<queue, req, sends, rx>> /\ NoneEnded
      /\ line' = {[x EXCEPT !.left = @ - 1] : x \in line}
  BY DEF Tick, callVars
<1>2. \A kind : Arrived(kind)' = Arrived(kind)
  BY <1>1 DEF Arrived
<1>3. \A x \in line : [x EXCEPT !.left = @ - 1].cur = x.cur
  BY DEF IInv, TypeOK, Exchange
<1>4. (\E y \in line' : y.cur) <=> (\E y \in line : y.cur)
  BY <1>1, <1>3
<1>5. answer' = answer
  BY <1>2, <1>4 DEF answer
<1> QED  BY <1>1, <1>5, RestRefines

(* Frames that are dropped may take the answer with them.                  *)
LEMMA SkipStrayRefines ==
  ASSUME IInv, SkipStray
  PROVE  Promise!Next
<1>1. UNCHANGED <<queue, req, sends, line>> /\ NoneEnded
  BY DEF SkipStray, callVars, ownVars
<1>2. PICK n \in DOMAIN rx : rx' = SubSeq(rx, n + 1, Len(rx))
  BY DEF SkipStray
<1>3. \A k \in DOMAIN rx' : \E i \in DOMAIN rx : rx'[k] = rx[i]
  <2>1. rx \in Seq(Frame) /\ DOMAIN rx = 1..Len(rx) /\ Len(rx) \in Nat /\ n \in 1..Len(rx)
    BY LenProperties DEF IInv, TypeOK
  <2>2. /\ rx' \in Seq(Frame) /\ Len(rx') = Len(rx) - n
        /\ \A k \in 1..Len(rx') : rx'[k] = rx[k + n]
    BY <1>2, <2>1, DropProperties
  <2>3. DOMAIN rx' = 1..Len(rx')
    BY <2>2, LenProperties
  <2>4. ASSUME NEW k \in DOMAIN rx'  PROVE k + n \in DOMAIN rx /\ rx'[k] = rx[k + n]
    BY <2>1, <2>2, <2>3
  <2> QED  BY <2>4
<1>4. CASE \E k \in DOMAIN rx' : rx'[k].cur
  <2>1. PICK k \in DOMAIN rx' : rx'[k].cur
    BY <1>4
  <2>2. PICK i \in DOMAIN rx : rx'[k] = rx[i]
    BY <1>3, <2>1
  <2>3. \A j \in DOMAIN rx : rx[j].cur => rx[j] = rx[i]
    BY <2>1, <2>2 DEF IInv, OneReply
  <2>4. \A kind : Arrived(kind)' <=> Arrived(kind)
    BY <1>3, <2>1, <2>2, <2>3 DEF Arrived
  <2>5. answer' = answer
    BY <1>1, <2>4 DEF answer
  <2> QED  BY <1>1, <2>5, RestRefines
<1>5. CASE \A k \in DOMAIN rx' : ~rx'[k].cur
  <2>1. ~Arrived("ok")' /\ ~Arrived("exception")'
    BY <1>5 DEF Arrived
  <2>2. CASE \E x \in line : x.cur
    <3>1. answer = "due" /\ answer' = "due"
      BY <1>1, <2>1, <2>2, OwnDue DEF answer
    <3> QED  BY <1>1, <3>1, RestRefines
  <2>3. CASE \A x \in line : ~x.cur
    <3>1. answer' = "none"
      BY <1>1, <2>1, <2>3 DEF answer
    <3> QED  BY <1>1, <3>1, RestRefines
  <2> QED  BY <2>2, <2>3
<1> QED  BY <1>4, <1>5

(* Steps that neither send nor read, and bytes that nobody asked for.      *)
LEMMA QuietRefines ==
  ASSUME IInv,
         \/ WaitForLine \/ WaitToRead \/ Close \/ CloseStream \/ Noise \/ StreamRecovers
         \/ \E fault \in Faults : StreamFault(fault)
  PROVE  Promise!Next
<1>1. UNCHANGED <<queue, req, sends, line>> /\ NoneEnded
  BY DEF WaitForLine, FirstAttempt, NextAttempt, BeginAttempt, DiscardLate, DiscardOver, WaitOver,
     ResetInput, WaitToRead, Drained, TxSettled, Close, CloseStream, Noise, StreamRecovers,
     StreamFault, callVars, ownVars, envVars
<1>2. CASE DiscardLate \/ ResetInput
  <2>1. NothingMine(line, rx) /\ rx' = <<>>
    BY <1>2, NothingCurrent DEF DiscardLate, ResetInput, OnWire, NothingMine
  <2>2. NothingMine(line', rx')
    BY <1>1, <2>1 DEF NothingMine
  <2> QED  BY <1>1, <2>2, AnswerNoneNext, RestRefines
<1>3. CASE Noise
  <2>1. rx = <<>> /\ rx' = <<Junk>>
    BY <1>3 DEF Noise
  <2>2. \A kind : ~Arrived(kind) /\ ~Arrived(kind)'
    BY <2>1 DEF Arrived, Junk
  <2>3. answer' = answer
    BY <1>1, <2>2 DEF answer
  <2> QED  BY <1>1, <2>3, RestRefines
<1>4. CASE UNCHANGED rx
  <2>1. answer' = answer
    BY <1>1, <1>4, AnswerSame
  <2> QED  BY <1>1, <2>1, RestRefines
<1>5. DiscardLate \/ ResetInput \/ Noise \/ UNCHANGED rx
  BY DEF WaitForLine, FirstAttempt, NextAttempt, BeginAttempt, DiscardOver, WaitOver,
     WaitToRead, Drained, TxSettled, Close, CloseStream, StreamRecovers,
     StreamFault, envVars
<1> QED  BY <1>2, <1>3, <1>4, <1>5

(* The end of an attempt that may not end its call with a value.           *)
LEMMA FailureRefines ==
  ASSUME BaseInv, CancelAttempt \/ ReadDamaged \/ ReadTimeout \/ StreamFails
  PROVE  Promise!Next
<1>1. phase \in Attempting /\ queue # <<>>
  BY DEF TypeOK, CancelAttempt, ReadDamaged, ReadTimeout, StreamFails, Attempting, Reading,
         Writing, Sleeping
<1>2. /\ line \subseteq Exchange /\ rx \in Seq(Frame)
      /\ \A n \in DOMAIN rx : SubSeq(rx, n + 1, Len(rx)) \in Seq(Frame)
  <2>1. rx \in Seq(Frame) /\ Len(rx) \in Nat /\ DOMAIN rx = 1..Len(rx)
    BY LenProperties DEF TypeOK
  <2> QED  BY <2>1, DropProperties DEF TypeOK
<1>3. ASSUME NEW o \in {"bad", "timeout", "connection", "cancelled"},
             NEW l \in MaybeHandedOver \cup {line}, NEW u \in Seq(Frame), FinishAttempt(o, l, u)
      PROVE  Promise!Next
  <2>1. l \subseteq Exchange
    BY <1>1, <1>2, MaybeHandedOverType
  <2>2. o \in Outcomes /\ o \notin {"reply", "exception", "broadcast_sent"}
    BY DEF Outcomes
  <2> QED  BY <1>1, <1>3, <2>1, <2>2, FinishRefines
<1>4. CASE ReadDamaged
  <2>1. \/ FinishAttempt("bad", line, rx)
        \/ \E n \in DOMAIN rx : FinishAttempt("bad", line, SubSeq(rx, n + 1, Len(rx)))
    BY <1>4 DEF ReadDamaged
  <2> QED  BY <1>2, <1>3, <2>1
<1>5. CASE CancelAttempt
  <2>1. \E l \in MaybeHandedOver : FinishAttempt("cancelled", l, rx)
    BY <1>5 DEF CancelAttempt
  <2> QED  BY <1>2, <1>3, <2>1
<1>6. CASE ReadTimeout \/ StreamFails
  <2>1. \E o \in {"bad", "timeout", "connection"} : FinishAttempt(o, line, rx)
    BY <1>6 DEF ReadTimeout, StreamFails, StreamErrors
  <2> QED  BY <1>2, <1>3, <2>1
<1> QED  BY <1>4, <1>5, <1>6

LEMMA CancelBackoffRefines ==
  ASSUME IInv, CancelBackoff
  PROVE  Promise!Next
<1>1. Release /\ UNCHANGED <<line, rx>> /\ phase = "backoff" /\ queue # <<>>
  BY DEF CancelBackoff, envVars, IInv, TypeOK
<1>2. answer' = "none"
  <2>1. NothingMine(line, rx)
    BY <1>1, NothingCurrent DEF OnWire, NothingMine
  <2> QED  BY <1>1, <2>1, AnswerNone, AnswerSame
<1>3. "cancelled" \in Outcomes /\ Ended(Owner, "cancelled")
  BY DEF CancelBackoff, Outcomes
<1> QED  BY <1>1, <1>2, <1>3, EndRefines

(* A broadcast whose turnaround is over has been sent, once.               *)
LEMMA TurnaroundRefines ==
  ASSUME IInv, SentOK, TurnaroundOver
  PROVE  Promise!Next
<1>1. phase = "turnaround" /\ FinishAttempt("broadcast_sent", line, rx)
  BY DEF TurnaroundOver
<1>2. Broadcasting /\ phase \in Attempting /\ queue # <<>>
  BY <1>1 DEF IInv, WindowOK, TypeOK, Attempting, Sleeping
<1>3. sends = 1
  <2>1. attempt \in Nat /\ sends \in Nat /\ sends >= 1 /\ sends <= attempt + 1
    BY <1>1, ConfigAssumption DEF SentOK, IInv, TypeOK, AttemptsOK
  <2>2. ~(attempt > 0)
    BY <1>2 DEF IInv, AttemptsOK
  <2> QED  BY <2>1, <2>2
<1>4. line \subseteq Exchange /\ rx \in Seq(Frame) /\ BaseInv /\ "broadcast_sent" \in Outcomes
  BY DEF IInv, TypeOK, Outcomes
<1> QED  BY <1>1, <1>2, <1>3, <1>4, FinishRefines

(* A frame that is taken for the reply, or for an exception response, is   *)
(* what the slave has answered to the request of this attempt.             *)
LEMMA ReadFrameRefines ==
  ASSUME IInv, ReadFrame
  PROVE  Promise!Next
<1> DEFINE o == IF Answers(Head(rx), Request) THEN "reply"
                ELSE IF Refuses(Head(rx), Request) THEN "exception" ELSE "bad"
<1>1. /\ phase = "reading" /\ rx # <<>> /\ Head(rx).kind # "bad"
      /\ FinishAttempt(o, line, Tail(rx))
  BY DEF ReadFrame
<1>2. /\ rx \in Seq(Frame) /\ Tail(rx) \in Seq(Frame) /\ line \subseteq Exchange /\ BaseInv
      /\ phase \in Attempting /\ 1 \in DOMAIN rx /\ Head(rx) = rx[1]
  <2>1. rx \in Seq(Frame) /\ line \subseteq Exchange
    BY DEF IInv, TypeOK
  <2>2. Tail(rx) \in Seq(Frame)
    BY <1>1, <2>1, HeadTailProperties
  <2>3. Len(rx) \in Nat /\ Len(rx) # 0 /\ DOMAIN rx = 1..Len(rx)
    BY <1>1, <2>1, LenProperties, EmptySeq
  <2>4. Head(rx) = rx[1]
    BY <1>1, <2>1, HeadTailProperties
  <2> QED  BY <1>1, <2>1, <2>2, <2>3, <2>4 DEF IInv, Attempting, Reading
<1>3. rx[1].cur
  BY <1>1, <1>2, NoWindowClear DEF IInv, WindowOK
<1>4. o \in {"reply", "exception"} => answer = o
  <2>1. CASE Answers(rx[1], Request)
    BY <1>2, <1>3, <2>1, OwnAnswer DEF Answers
  <2>2. CASE ~Answers(rx[1], Request) /\ Refuses(rx[1], Request)
    BY <1>2, <1>3, <2>2, OwnAnswer DEF Refuses
  <2>3. CASE ~Answers(rx[1], Request) /\ ~Refuses(rx[1], Request)
    BY <1>2, <2>3
  <2> QED  BY <2>1, <2>2, <2>3
<1>5. o \in Outcomes /\ o # "broadcast_sent"
  BY DEF Outcomes
<1> HIDE DEF o
<1> QED  BY <1>1, <1>2, <1>4, <1>5, FinishRefines

(* Every step of the bus is a step of RequestReply.                        *)
LEMMA CallsRefine ==
  ASSUME IInv, SentOK, Next
  PROVE  Promise!Next
<1>1. CASE \E x \in line : Transmit(x) \/ Lose(x) \/ WorkDone(x) \/ \E f \in Frame : Reply(x, f)
  BY <1>1, LineRefines, ReplyRefines
<1>2. CASE CancelAttempt \/ ReadDamaged \/ ReadTimeout \/ StreamFails
  BY <1>2, FailureRefines DEF IInv
<1>3. CASE ReadFrame \/ TurnaroundOver
  BY <1>3, ReadFrameRefines, TurnaroundRefines
<1>4. CASE \/ \E c \in Callers, r \in Requests : Call(c, r)
           \/ \E c \in Callers : CancelQueued(c)
           \/ HandOver \/ CancelBackoff \/ SkipStray \/ Tick
  BY <1>4, CallRefines, CancelQueuedRefines, HandOverRefines, CancelBackoffRefines,
     SkipStrayRefines, TickRefines DEF IInv
<1>5. CASE \/ WaitForLine \/ WaitToRead \/ Close \/ CloseStream \/ Noise \/ StreamRecovers
           \/ \E fault \in Faults : StreamFault(fault)
  BY <1>5, QuietRefines
<1> QED  BY <1>1, <1>2, <1>3, <1>4, <1>5 DEF Next, BusStep, ReadReply, LineStep

(* The bus keeps its promise: calls are served in turn, a call that returns*)
(* has the answer of its slave to its own last request, a broadcast that   *)
(* returns was sent once, and a write is never asked for again (Bus._txn,  *)
(* Bus._broadcast, _await_line_idle, _finish_attempt).                     *)
THEOREM PromiseKept == WindowSuffices => (Spec => KeepsPromise)
<1> SUFFICES ASSUME WindowSuffices  PROVE Spec => KeepsPromise
  OBVIOUS
<1>1. Init => IInv /\ SentOK
  BY InitIInv, SentInit
<1>2. IInv /\ SentOK /\ [Next]_vars => (IInv /\ SentOK)'
  BY IInvStep, SentKept DEF IInv
<1>3. Init => Promise!Init
  <2> SUFFICES ASSUME Init  PROVE Promise!Init
    OBVIOUS
  <2>1. NothingMine(line, rx)
    BY DEF Init, NothingMine, Junk
  <2>2. answer = "none"
    BY <2>1, AnswerNone
  <2> QED  BY <2>2 DEF Init, Promise!Init
<1>4. IInv /\ SentOK /\ [Next]_vars => [Promise!Next]_Promise!promiseVars
  <2> SUFFICES ASSUME IInv, SentOK, [Next]_vars
               PROVE  [Promise!Next]_Promise!promiseVars
    OBVIOUS
  <2>1. CASE Next
    BY <2>1, CallsRefine
  <2>2. CASE UNCHANGED vars
    <3>1. UNCHANGED <<queue, req, sends, line, rx, ended>>
      BY <2>2 DEF vars, callVars, ownVars, envVars
    <3> QED  BY <3>1, AnswerSame DEF Promise!promiseVars
  <2> QED  BY <2>1, <2>2
<1> QED  BY <1>1, <1>2, <1>3, <1>4, PTL DEF Spec, KeepsPromise, Promise!Spec
=============================================================================
