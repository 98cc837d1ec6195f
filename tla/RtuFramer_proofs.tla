-------------------------- MODULE RtuFramer_proofs --------------------------
(***************************************************************************)
(* Proofs about RtuFramer, for every reader, line, damage and way of       *)
(* cutting the bytes into receives.                                        *)
(***************************************************************************)
EXTENDS RtuFramer, SequenceTheorems, FiniteSetTheorems, TLAPS

(* Pauses are not received.                                                *)
ByteToken == {x \in Token : IsByte(x.b)}

(* A read for a number of bytes wants more of them; one to the idle gap has*)
(* the header, and room.                                                   *)
Undecided == mode = "exact" => NextMode(Bytes(frame)) = "exact"
InTail    == mode \in {"gap", "stray"} => HeadLen <= Len(frame) /\ Len(frame) < HeadLen + MaxTail

LongestRead == IF HeadLen + MaxTail > Longest THEN HeadLen + MaxTail ELSE Longest

(* A read that has ended has a result, and while one goes on there is none;*)
(* a client drains before it reads.                                        *)
ResultOK ==
  /\ mode \in {"exact", "gap", "stray"} => result = "none"
  /\ mode = "drain" /\ ~Server => frame = <<>> /\ result = "none"
  /\ mode = "stray" => ~Server

TypeInv ==
  /\ setup \in Setups /\ wire \in Seq(Token) /\ eof \in BOOLEAN
  /\ buffer \in Seq(ByteToken) /\ frame \in Seq(ByteToken)
  /\ mode \in Modes /\ result \in Results
  /\ Len(frame) <= LongestRead
  /\ Undecided /\ InTail /\ ResultOK

-----------------------------------------------------------------------------
(* Sequences of bytes                                                      *)

LEMMA BytesProperties ==
  ASSUME NEW f \in Seq(ByteToken)
  PROVE  /\ Bytes(f) \in Seq(Byte) /\ Len(Bytes(f)) = Len(f)
         /\ \A i \in 1..Len(f) : Bytes(f)[i] = f[i].b /\ f[i].b \in Byte
<1>1. Len(f) \in Nat /\ DOMAIN f = 1..Len(f) /\ \A i \in 1..Len(f) : f[i] \in ByteToken
  BY LenProperties, ElementOfSeq
<1>2. \A i \in 1..Len(f) : f[i].b \in Byte
  BY <1>1 DEF ByteToken, Token, IsByte
<1>3. Bytes(f) = [i \in 1..Len(f) |-> f[i].b]
  BY <1>1 DEF Bytes
<1>4. Bytes(f) \in Seq(Byte)
  BY <1>1, <1>2, <1>3, IsASeq
<1> QED  BY <1>1, <1>2, <1>3, <1>4, LenProperties

(* A receive moves bytes from the buffer to the frame.                     *)
LEMMA Taken ==
  ASSUME NEW f \in Seq(ByteToken), NEW b \in Seq(ByteToken), NEW n \in 0..Len(b)
  PROVE  LET g == f \o First(b, n) IN
         /\ g \in Seq(ByteToken) /\ Rest(b, n) \in Seq(ByteToken)
         /\ Len(g) = Len(f) + n /\ Len(Rest(b, n)) = Len(b) - n
         /\ \A i \in 1..Len(f) : g[i] = f[i]
         /\ \A i \in 1..n : g[Len(f) + i] = b[i]
<1>1. Len(f) \in Nat /\ Len(b) \in Nat /\ \A i \in 1..Len(b) : b[i] \in ByteToken
  BY LenProperties, ElementOfSeq
<1>2. \A i \in 1..n : b[i] \in ByteToken
  BY <1>1
<1>3. \A i \in (n + 1)..Len(b) : b[i] \in ByteToken
  BY <1>1
<1> DEFINE h == First(b, n)
<1>4. h \in Seq(ByteToken) /\ Len(h) = n /\ \A i \in 1..n : h[i] = b[i]
  BY <1>1, <1>2, SubSeqProperties DEF First
<1>5. Rest(b, n) \in Seq(ByteToken) /\ Len(Rest(b, n)) = Len(b) - n
  BY <1>1, <1>3, SubSeqProperties DEF Rest
<1> HIDE DEF h
<1>6. /\ f \o h \in Seq(ByteToken) /\ Len(f \o h) = Len(f) + n
      /\ \A i \in 1..(Len(f) + n) : (f \o h)[i] = IF i <= Len(f) THEN f[i] ELSE h[i - Len(f)]
  BY <1>4, ConcatProperties
<1>7. \A i \in 1..Len(f) : (f \o h)[i] = f[i]
  BY <1>1, <1>6
<1>8. \A i \in 1..n : (f \o h)[Len(f) + i] = b[i]
  BY <1>1, <1>4, <1>6
<1> QED  BY <1>5, <1>6, <1>7, <1>8 DEF h

(* What a transmission carries, and how it is marked on the line.          *)
Whole(t) == \E a \in Adus : Carries(t, a)

LEMMA MarkedProperties ==
  ASSUME NEW t \in Seq(Byte \cup {Pause})
  PROVE  /\ Marked(t) \in Seq(Token) /\ Len(Marked(t)) = Len(t) /\ Len(t) \in Nat
         /\ \A i \in 1..Len(t) : Marked(t)[i] = [b |-> t[i], start |-> i = 1, whole |-> Whole(t)]
<1>1. Len(t) \in Nat /\ DOMAIN t = 1..Len(t) /\ \A i \in 1..Len(t) : t[i] \in Byte \cup {Pause}
  BY LenProperties, ElementOfSeq
<1>2. Whole(t) \in BOOLEAN
  BY DEF Whole
<1>3. Marked(t) = [i \in 1..Len(t) |-> [b |-> t[i], start |-> i = 1, whole |-> Whole(t)]]
  BY <1>1 DEF Marked, Whole
<1>4. \A i \in 1..Len(t) : [b |-> t[i], start |-> i = 1, whole |-> Whole(t)] \in Token
  BY <1>1, <1>2 DEF Token
<1>5. Marked(t) \in Seq(Token)
  BY <1>1, <1>3, <1>4, IsASeq
<1> QED  BY <1>1, <1>3, <1>5, LenProperties

LEMMA SetupKept == [Next]_vars => setup' = setup
BY DEF Next, ReaderStep, LineStep, Start, ReceiveExact, ReceiveUntilIdle, ReceiveDrain, GapOver,
       EndOfStream, Expire, Transmit, Arrive, PauseOver, CloseLine, vars

LEMMA SetupTypes ==
  ASSUME setup \in Setups
  PROVE  /\ Server \in BOOLEAN /\ Resync \in BOOLEAN /\ Address \in Byte
         /\ Setup[setup].line \subseteq Seq(Byte \cup {Pause})
BY FramerAssumption DEF Server, Resync, Address

-----------------------------------------------------------------------------
(* How long a frame is                                                     *)

USE DEF HeadLen, CrcLen

(* Where the byte count is, and how far the reader reads, for the bytes    *)
(* received so far: never past the longest frame, and never past the header*)
(* before it is known whose frame it is.                                   *)
LEMMA TargetBounds ==
  ASSUME setup \in Setups, NEW s \in Seq(Byte), NextMode(s) = "exact"
  PROVE  /\ Target(s) \in Nat /\ Len(s) < Target(s)
         /\ Len(s) < HeadLen => Target(s) = HeadLen
         /\ Len(s) >= HeadLen => HasLength(s[2]) /\ (Server \/ s[1] = Address)
         /\ Target(s) <= LongestRead
<1>1. /\ Len(s) \in Nat /\ MaxByteCount \in Nat /\ MaxTail \in Nat
      /\ MaxTail >= 8 /\ MaxTail >= MaxByteCount + 3
      /\ Server \in BOOLEAN
      /\ \A i \in 1..Len(s) : s[i] \in Byte
  BY FramerAssumption, SetupTypes, LenProperties, ElementOfSeq
<1>2. LongestRead >= HeadLen + MaxTail /\ LongestRead >= Longest /\ LongestRead \in Nat
  BY <1>1 DEF LongestRead, Longest
<1>3. CASE Len(s) < HeadLen
  BY <1>1, <1>2, <1>3 DEF Target
<1>4. CASE Len(s) >= HeadLen
  <2>1. /\ Server \/ s[1] = Address
        /\ HasLength(s[2]) /\ ~CountTooLarge(s) /\ Len(s) < Target(s)
    BY <1>1, <1>4 DEF NextMode, VerifyCrc
  <2> DEFINE at == CountAt(s[2])
  <2>2. s[2] \in Byte
    BY <1>1, <1>4
  <2>3. CASE at = 0
    <3>1. Target(s) = FixedLength(s[2])
      BY <1>4, <1>1, <2>3 DEF Target
    <3>2. FixedLength(s[2]) \in 0..10
      BY <1>1, <2>1, <2>2, <2>3 DEF FixedLength, HasLength, CountAt, RequestFixedTail, FixedTail,
                RequestByteCountPrefix, ByteCount1B, IsException, Byte
    <3> QED  BY <1>1, <1>2, <1>4, <2>1, <3>1, <3>2
  <2>4. CASE at # 0
    <3>1. at \in Nat /\ at >= 1 /\ at <= 11 /\ (~Server => at = 3)
      BY <1>1, <2>4 DEF CountAt, RequestByteCountPrefix
    <3>2. CASE Len(s) < at
      <4>1. Target(s) = at
        BY <1>1, <1>4, <2>4, <3>2 DEF Target
      <4>2. at <= LongestRead
        BY <1>1, <1>2, <3>1 DEF Longest
      <4> QED  BY <1>4, <1>1, <2>1, <3>1, <4>1, <4>2
    <3>3. CASE Len(s) >= at
      <4>1. Target(s) = at + s[at] + CrcLen
        BY <1>1, <1>4, <2>4, <3>1, <3>3 DEF Target
      <4>2. s[at] \in Nat
        <5>1. at \in 1..Len(s)
          BY <1>1, <3>1, <3>3
        <5> HIDE DEF at
        <5>2. s[at] \in Byte
          BY <5>1, ElementOfSeq
        <5>3. \A x \in Byte : x \in Nat
          BY DEF Byte
        <5> QED  BY <5>2, <5>3
      <4>3. s[at] <= MaxByteCount
        BY <1>1, <2>1, <2>4, <3>3, <4>2 DEF CountTooLarge
      <4>4. at + s[at] + CrcLen <= LongestRead
        BY <1>1, <1>2, <3>1, <4>2, <4>3 DEF Longest
      <4> QED  BY <1>4, <1>1, <2>1, <3>1, <4>1, <4>2, <4>4
    <3> QED  BY <1>1, <3>1, <3>2, <3>3
  <2> QED  BY <2>3, <2>4
<1> QED  BY <1>1, <1>3, <1>4

(* The decision depends on the bytes received and on the setup only.       *)
LEMMA SameDecision ==
  ASSUME setup' = setup, NEW f, frame' = f
  PROVE  /\ (NextMode(Bytes(frame)))' = NextMode(Bytes(f))
         /\ Server' = Server /\ Resync' = Resync /\ LongestRead' = LongestRead
BY DEF NextMode, Target, HasLength, CountAt, FixedLength, CountTooLarge, VerifyCrc, Server, Address,
       Resync, Bytes, LongestRead, Longest

(* What a decision leads to.                                               *)
LEMMA Decisions ==
  ASSUME setup \in Setups, NEW s
  PROVE  /\ NextMode(s) \in {"exact", "stray", "protocol", "gap", "frame", "ok", "crc"}
         /\ NextMode(s) \in {"stray", "protocol"} => ~Server
         /\ NextMode(s) \in {"gap", "stray"} => ~(Len(s) < HeadLen)
         /\ NextMode(s) = "stray" => ~Server /\ s[1] # Address
         /\ NextMode(s) = "gap" => ~HasLength(s[2])
BY SetupTypes DEF NextMode

-----------------------------------------------------------------------------
(* Types                                                                   *)

LEMMA InitTypes == Init => TypeInv
<1> SUFFICES ASSUME Init  PROVE TypeInv
  OBVIOUS
<1>1. <<>> \in Seq(Token) /\ <<>> \in Seq(ByteToken) /\ Len(<<>>) = 0
  BY EmptySeq
<1>2. setup \in Setups /\ mode = "idle" /\ result = "none" /\ eof = FALSE
      /\ wire = <<>> /\ buffer = <<>> /\ frame = <<>>
  BY DEF Init
<1>3. 0 <= LongestRead
  BY <1>2, FramerAssumption, SetupTypes DEF LongestRead, Longest
<1> QED  BY <1>1, <1>2, <1>3 DEF TypeInv, Modes, Results, Undecided, InTail, ResultOK

(* The bytes a receive takes.                                              *)
Takes(f, n) ==
  /\ n \in 1..Len(buffer)
  /\ f = frame \o First(buffer, n) /\ buffer' = Rest(buffer, n)
  /\ UNCHANGED <<setup, wire, eof>>

(* A read for a number of bytes goes on, ends, or leaves the rest of the   *)
(* frame to the idle gap.                                                  *)
LEMMA ExactStep ==
  ASSUME TypeInv, ReceiveExact
  PROVE  \E n \in 1..Len(buffer) :
           /\ Takes(frame', n) /\ frame' \in Seq(ByteToken) /\ Len(frame') <= LongestRead
           /\ Len(frame') <= Target(Bytes(frame))
           /\ LET m == NextMode(Bytes(frame')) IN
              /\ m \in {"gap", "stray"} => Len(frame') = HeadLen
              /\ IF m \in Modes THEN Await(m) ELSE Finish(m, Server /\ m \in {"crc", "frame"})
<1> DEFINE n == Lower(Len(buffer), Target(Bytes(frame)) - Len(frame))
           f == frame \o First(buffer, n)
           m == NextMode(Bytes(f))
<1>1. /\ mode = "exact" /\ buffer # <<>> /\ UNCHANGED <<setup, wire, eof>>
      /\ frame' = f /\ buffer' = Rest(buffer, n)
      /\ IF m \in Modes THEN Await(m) ELSE Finish(m, Server /\ m \in {"crc", "frame"})
  BY DEF ReceiveExact
<1>2. /\ buffer \in Seq(ByteToken) /\ frame \in Seq(ByteToken) /\ setup \in Setups
      /\ NextMode(Bytes(frame)) = "exact"
  BY <1>1 DEF TypeInv, Undecided
<1>3. Len(buffer) \in Nat \ {0} /\ Len(frame) \in Nat
  BY <1>1, <1>2, EmptySeq, LenProperties
<1>4. /\ Bytes(frame) \in Seq(Byte) /\ Len(Bytes(frame)) = Len(frame)
      /\ \A i \in 1..Len(frame) : Bytes(frame)[i] = frame[i].b
  BY <1>2, BytesProperties
<1>5. /\ Target(Bytes(frame)) \in Nat /\ Len(frame) < Target(Bytes(frame))
      /\ Len(frame) < HeadLen => Target(Bytes(frame)) = HeadLen
      /\ Len(frame) >= HeadLen =>
           HasLength(Bytes(frame)[2]) /\ (Server \/ Bytes(frame)[1] = Address)
      /\ Target(Bytes(frame)) <= LongestRead
  BY <1>2, <1>4, TargetBounds
<1>6. n \in 1..Len(buffer) /\ Len(frame) + n <= Target(Bytes(frame))
  BY <1>3, <1>5 DEF Lower
<1> HIDE DEF n
<1>7. /\ f \in Seq(ByteToken) /\ Rest(buffer, n) \in Seq(ByteToken) /\ Len(f) = Len(frame) + n
      /\ \A i \in 1..Len(frame) : f[i] = frame[i]
  <2>1. n \in 0..Len(buffer)
    BY <1>3, <1>6
  <2> QED  BY <1>2, <2>1, Taken
<1>8. Takes(f, n)
  BY <1>1, <1>6 DEF Takes
<1> HIDE DEF f
<1>9. /\ Len(Bytes(f)) = Len(f) /\ \A i \in 1..Len(f) : Bytes(f)[i] = f[i].b
  BY <1>7, BytesProperties
<1>10. Len(f) <= LongestRead
  <2>1. LongestRead \in Int
    BY <1>2, FramerAssumption, SetupTypes DEF LongestRead, Longest
  <2> QED  BY <1>3, <1>5, <1>6, <1>7, <2>1
<1>11. m \in {"gap", "stray"} => Len(f) = HeadLen
  <2>1. m \in {"gap", "stray"} => ~(Len(f) < HeadLen)
    BY <1>2, <1>9, Decisions
  <2>2. CASE Len(frame) < HeadLen
    BY <1>3, <1>5, <1>6, <1>7, <2>1, <2>2
  <2>3. CASE Len(frame) >= HeadLen
    <3>1. 1 \in 1..Len(frame) /\ 2 \in 1..Len(frame) /\ 1 \in 1..Len(f) /\ 2 \in 1..Len(f)
      BY <1>3, <1>6, <1>7, <2>3
    <3>2. Bytes(f)[1] = Bytes(frame)[1] /\ Bytes(f)[2] = Bytes(frame)[2]
      BY <1>4, <1>7, <1>9, <3>1
    <3> QED  BY <1>2, <1>5, <2>3, <3>2, Decisions
  <2> QED  BY <1>3, <2>2, <2>3
<1>12. frame' = f
  BY <1>1
<1>13. Len(f) <= Target(Bytes(frame))
  BY <1>6, <1>7
<1> HIDE DEF m
<1>14. /\ m \in {"gap", "stray"} => Len(f) = HeadLen
       /\ IF m \in Modes THEN Await(m) ELSE Finish(m, Server /\ m \in {"crc", "frame"})
  BY <1>1, <1>11
<1> QED  BY <1>6, <1>7, <1>8, <1>10, <1>12, <1>13, <1>14 DEF m

LEMMA ExactTypes ==
  ASSUME TypeInv, ReceiveExact
  PROVE  TypeInv'
<1>1. PICK n \in 1..Len(buffer) :
           /\ Takes(frame', n) /\ frame' \in Seq(ByteToken) /\ Len(frame') <= LongestRead
           /\ LET m == NextMode(Bytes(frame')) IN
              /\ m \in {"gap", "stray"} => Len(frame') = HeadLen
              /\ IF m \in Modes THEN Await(m) ELSE Finish(m, Server /\ m \in {"crc", "frame"})
  BY ExactStep
<1> DEFINE m == NextMode(Bytes(frame'))
<1>2. /\ m \in {"gap", "stray"} => Len(frame') = HeadLen
      /\ IF m \in Modes THEN Await(m) ELSE Finish(m, Server /\ m \in {"crc", "frame"})
  BY <1>1
<1>3. /\ setup \in Setups /\ wire \in Seq(Token) /\ eof \in BOOLEAN
      /\ buffer \in Seq(ByteToken) /\ mode = "exact" /\ result = "none"
  BY DEF ReceiveExact, TypeInv, ResultOK
<1>4. setup' = setup /\ wire' = wire /\ eof' = eof /\ buffer' \in Seq(ByteToken)
  <2>1. Len(buffer) \in Nat
    BY <1>3, LenProperties
  <2>2. n \in 0..Len(buffer) /\ buffer' = Rest(buffer, n) /\ frame \in Seq(ByteToken)
    BY <1>1, <2>1 DEF Takes, TypeInv
  <2>3. Rest(buffer, n) \in Seq(ByteToken)
    BY <1>3, <2>2, Taken
  <2> QED  BY <1>1, <2>2, <2>3 DEF Takes
<1>5. (NextMode(Bytes(frame)))' = m /\ Server' = Server /\ LongestRead' = LongestRead
  BY <1>4, SameDecision
<1>6. /\ m \in {"exact", "stray", "protocol", "gap", "frame", "ok", "crc"}
      /\ m = "stray" => ~Server
  BY <1>3, Decisions
<1> HIDE DEF m
<1>7. CASE m \in Modes
  <2>1. m \in {"exact", "gap", "stray"} /\ mode' = m /\ result' = result
    BY <1>2, <1>6, <1>7 DEF Modes, Await
  <2>2. Undecided'
    BY <1>5, <2>1 DEF Undecided
  <2>3. InTail'
    <3>1. \A l \in {2} : 2 <= l /\ l < 2 + MaxTail
      BY FramerAssumption
    <3> QED  BY <1>2, <2>1, <3>1 DEF InTail
  <2> QED  BY <1>1, <1>3, <1>4, <1>5, <1>6, <2>1, <2>2, <2>3 DEF TypeInv, ResultOK, Modes
<1>8. CASE m \notin Modes
  <2>1. mode' \in {"idle", "drain"} /\ result' = m /\ (mode' = "drain" => Server)
    BY <1>2, <1>8 DEF Finish
  <2>2. m \in Results
    BY <1>6, <1>8 DEF Modes, Results
  <2>3. Undecided' /\ InTail' /\ ResultOK'
    BY <1>5, <2>1 DEF Undecided, InTail, ResultOK
  <2> QED  BY <1>1, <1>3, <1>4, <1>5, <2>1, <2>2, <2>3 DEF TypeInv, Modes
<1> QED  BY <1>7, <1>8

LEMMA EmptyFrame ==
  ASSUME setup \in Setups, setup' = setup, frame' = <<>>
  PROVE  /\ frame' \in Seq(ByteToken) /\ Len(frame') = 0 /\ Len(frame') <= LongestRead'
         /\ Undecided'
<1>1. <<>> \in Seq(ByteToken) /\ Len(<<>>) = 0
  BY EmptySeq
<1>2. Bytes(<<>>) \in Seq(Byte) /\ Len(Bytes(<<>>)) = 0
  BY <1>1, BytesProperties
<1>3. NextMode(Bytes(<<>>)) = "exact"
  BY <1>2 DEF NextMode
<1>4. (NextMode(Bytes(frame)))' = "exact" /\ LongestRead' = LongestRead
  <2> DEFINE f == <<>>
  <2>1. frame' = f
    OBVIOUS
  <2> QED  BY <1>3, <2>1, SameDecision
<1>5. 0 <= LongestRead
  BY FramerAssumption, SetupTypes DEF LongestRead, Longest
<1> QED  BY <1>1, <1>4, <1>5 DEF Undecided

(* The frame read to the idle gap is judged, a stray one forgotten.        *)
LEMMA EndIdleTypes ==
  ASSUME TypeInv, mode \in {"gap", "stray"}, NEW f \in Seq(ByteToken), EndIdle(f),
         Len(f) <= LongestRead, setup' = setup
  PROVE  /\ frame' \in Seq(ByteToken) /\ mode' \in Modes /\ result' \in Results
         /\ Len(frame') <= LongestRead' /\ Undecided' /\ InTail' /\ ResultOK'
         /\ mode' \in {"exact", "idle", "drain"}
<1>1. setup \in Setups /\ result = "none"
  BY DEF TypeInv, ResultOK
<1>2. CASE mode = "stray"
  <2>1. frame' = <<>> /\ mode' = "exact" /\ result' = "none"
    BY <1>1, <1>2 DEF EndIdle, Await
  <2> QED  BY <1>1, <2>1, EmptyFrame DEF Modes, Results, InTail, ResultOK
<1>3. CASE mode = "gap"
  <2>1. /\ frame' = f /\ result' \in {"frame", "ok", "crc"}
        /\ mode' \in {"idle", "drain"} /\ (mode' = "drain" => Server)
    BY <1>3 DEF EndIdle, Finish, GapResult
  <2>2. Server' = Server /\ LongestRead' = LongestRead
    BY <2>1, SameDecision
  <2> QED  BY <2>1, <2>2 DEF Modes, Results, Undecided, InTail, ResultOK
<1> QED  BY <1>2, <1>3

LEMMA UntilIdleStep ==
  ASSUME TypeInv, ReceiveUntilIdle
  PROVE  \E n \in 1..Len(buffer), f \in Seq(ByteToken) :
           /\ Takes(f, n) /\ HeadLen <= Len(f) /\ Len(f) <= HeadLen + MaxTail
           /\ IF Len(f) = HeadLen + MaxTail THEN EndIdle(f) ELSE frame' = f /\ Await(mode)
<1> DEFINE n == Lower(Len(buffer), HeadLen + MaxTail - Len(frame))
           f == frame \o First(buffer, n)
<1>1. /\ mode \in {"gap", "stray"} /\ buffer # <<>> /\ UNCHANGED <<setup, wire, eof>>
      /\ buffer' = Rest(buffer, n)
      /\ IF Full(f) THEN EndIdle(f) ELSE frame' = f /\ Await(mode)
  BY DEF ReceiveUntilIdle
<1>2. /\ buffer \in Seq(ByteToken) /\ frame \in Seq(ByteToken)
      /\ HeadLen <= Len(frame) /\ Len(frame) < HeadLen + MaxTail
  BY <1>1 DEF TypeInv, InTail
<1>3. Len(buffer) \in Nat \ {0} /\ Len(frame) \in Nat /\ MaxTail \in Nat
  BY <1>1, <1>2, EmptySeq, LenProperties, FramerAssumption
<1>4. n \in 1..Len(buffer) /\ n \in 0..Len(buffer) /\ Len(frame) + n <= HeadLen + MaxTail
  BY <1>2, <1>3 DEF Lower
<1> HIDE DEF n
<1>5. f \in Seq(ByteToken) /\ Len(f) = Len(frame) + n
  BY <1>2, <1>4, Taken
<1>6. Takes(f, n)
  BY <1>1, <1>4 DEF Takes
<1> HIDE DEF f
<1>7. HeadLen <= Len(f) /\ Len(f) <= HeadLen + MaxTail
  BY <1>2, <1>3, <1>4, <1>5
<1>8. IF Len(f) = HeadLen + MaxTail THEN EndIdle(f) ELSE frame' = f /\ Await(mode)
  BY <1>1 DEF Full
<1> QED  BY <1>4, <1>5, <1>6, <1>7, <1>8

LEMMA UntilIdleTypes ==
  ASSUME TypeInv, ReceiveUntilIdle
  PROVE  TypeInv'
<1>1. PICK n \in 1..Len(buffer), f \in Seq(ByteToken) :
           /\ Takes(f, n) /\ HeadLen <= Len(f) /\ Len(f) <= HeadLen + MaxTail
           /\ IF Len(f) = HeadLen + MaxTail THEN EndIdle(f) ELSE frame' = f /\ Await(mode)
  BY UntilIdleStep
<1>2. /\ setup \in Setups /\ wire \in Seq(Token) /\ eof \in BOOLEAN /\ result = "none"
      /\ buffer \in Seq(ByteToken) /\ frame \in Seq(ByteToken) /\ mode \in {"gap", "stray"}
  BY DEF ReceiveUntilIdle, TypeInv, ResultOK
<1>3. setup' = setup /\ wire' = wire /\ eof' = eof /\ buffer' \in Seq(ByteToken)
  <2>1. Len(buffer) \in Nat
    BY <1>2, LenProperties
  <2>2. n \in 0..Len(buffer) /\ buffer' = Rest(buffer, n)
    BY <1>1, <2>1 DEF Takes
  <2>3. Rest(buffer, n) \in Seq(ByteToken)
    BY <1>2, <2>2, Taken
  <2> QED  BY <1>1, <2>2, <2>3 DEF Takes
<1>4. Len(f) \in Nat /\ MaxTail \in Nat /\ Len(f) <= LongestRead
  <2>1. LongestRead >= HeadLen + MaxTail /\ LongestRead \in Int /\ MaxTail \in Nat
    BY <1>2, FramerAssumption, SetupTypes DEF LongestRead, Longest
  <2>2. Len(f) \in Nat
    BY LenProperties
  <2> QED  BY <1>1, <2>1, <2>2
<1>5. CASE Len(f) = HeadLen + MaxTail
  BY <1>1, <1>2, <1>3, <1>4, <1>5, EndIdleTypes DEF TypeInv
<1>6. CASE Len(f) # HeadLen + MaxTail
  <2>1. frame' = f /\ mode' = mode /\ result' = result
    BY <1>1, <1>6 DEF Await
  <2>2. HeadLen <= Len(f) /\ Len(f) < HeadLen + MaxTail
    BY <1>1, <1>4, <1>6
  <2>3. Server' = Server /\ LongestRead' = LongestRead
    BY <1>3, <2>1, SameDecision
  <2>4. Undecided' /\ InTail' /\ ResultOK'
    BY <1>2, <2>1, <2>2, <2>3 DEF Undecided, InTail, ResultOK, TypeInv
  <2> QED  BY <1>2, <1>3, <1>4, <2>1, <2>3, <2>4 DEF TypeInv, Modes
<1> QED  BY <1>5, <1>6

LEMMA TypeStep == TypeInv /\ [Next]_vars => TypeInv'
<1> SUFFICES ASSUME TypeInv, [Next]_vars  PROVE TypeInv'
  OBVIOUS
<1>1. setup' = setup /\ setup \in Setups
  BY SetupKept DEF TypeInv
<1>2. /\ (NextMode(Bytes(frame)))' = NextMode(Bytes(frame')) /\ Server' = Server
      /\ LongestRead' = LongestRead
  BY <1>1, SameDecision
<1>3. ASSUME UNCHANGED <<mode, frame, result>>
      PROVE  /\ Undecided' /\ InTail' /\ ResultOK'
  <2>1. (NextMode(Bytes(frame)))' = NextMode(Bytes(frame))
    BY <1>1, <1>3, SameDecision
  <2> QED  BY <1>2, <1>3, <2>1 DEF TypeInv, Undecided, InTail, ResultOK
<1>4. ASSUME mode' \in {"idle", "drain"}, mode' = "drain" => Server
      PROVE  Undecided' /\ InTail' /\ ResultOK'
  BY <1>2, <1>4 DEF Undecided, InTail, ResultOK
<1>5. CASE Start
  <2>1. /\ frame' = <<>> /\ result' = "none" /\ mode' \in {"exact", "drain"}
        /\ UNCHANGED <<setup, wire, buffer, eof>>
    BY <1>5 DEF Start
  <2> QED  BY <1>1, <2>1, EmptyFrame DEF TypeInv, Modes, Results, InTail, ResultOK
<1>6. CASE ReceiveDrain
  <2>1. <<>> \in Seq(ByteToken)
    BY EmptySeq
  <2>2. buffer' = <<>> /\ UNCHANGED <<setup, wire, mode, frame, result, eof>>
    BY <1>6 DEF ReceiveDrain
  <2> QED  BY <1>2, <1>3, <2>1, <2>2 DEF TypeInv
<1>7. ASSUME mode = "drain", EndDrain, UNCHANGED <<setup, wire, buffer, eof>>
      PROVE  TypeInv'
  <2>1. UNCHANGED <<frame, result>> /\ mode' = IF Server THEN "idle" ELSE "exact"
    BY <1>7 DEF EndDrain
  <2>2. CASE Server
    BY <1>2, <1>4, <1>7, <2>1, <2>2 DEF TypeInv, Modes
  <2>3. CASE ~Server
    <3>1. frame' = <<>> /\ result' = "none"
      BY <1>7, <2>1, <2>3 DEF TypeInv, ResultOK
    <3> QED  BY <1>1, <1>7, <2>1, <2>3, <3>1, EmptyFrame
             DEF TypeInv, Modes, Results, InTail, ResultOK
  <2> QED  BY <2>2, <2>3
<1>8. CASE GapOver
  <2>1. UNCHANGED <<setup, wire, buffer, eof>>
    BY <1>8 DEF GapOver
  <2>2. CASE mode = "drain"
    BY <1>7, <1>8, <2>1, <2>2 DEF GapOver
  <2>3. CASE mode # "drain"
    <3>1. mode \in {"gap", "stray"} /\ EndIdle(frame)
      BY <1>8, <2>3 DEF GapOver, WaitsForGap
    <3> QED  BY <1>1, <2>1, <3>1, EndIdleTypes DEF TypeInv
  <2> QED  BY <2>2, <2>3
<1>9. CASE EndOfStream
  <2>1. UNCHANGED <<setup, wire, buffer, eof>> /\ mode # "idle"
    BY <1>9 DEF EndOfStream
  <2>2. CASE mode = "drain" /\ Server
    BY <1>7, <1>9, <2>1, <2>2 DEF EndOfStream
  <2>3. CASE mode \in {"gap", "stray"}
    <3>1. EndIdle(frame)
      BY <1>9, <2>3 DEF EndOfStream
    <3> QED  BY <1>1, <2>1, <2>3, <3>1, EndIdleTypes DEF TypeInv
  <2>4. CASE mode = "exact" \/ (mode = "drain" /\ ~Server)
    <3>1. mode' = "idle" /\ result' \in {"eof", "frame"} /\ frame' = frame
      BY <1>9, <2>4 DEF EndOfStream, Finish
    <3> QED  BY <1>2, <1>4, <2>1, <3>1 DEF TypeInv, Modes, Results
  <2> QED  BY <2>1, <2>2, <2>3, <2>4 DEF TypeInv, Modes
<1>10. CASE Expire
  <2>1. mode' = "idle" /\ result' = "timeout" /\ UNCHANGED <<setup, wire, buffer, frame, eof>>
    BY <1>10 DEF Expire, Finish
  <2> QED  BY <1>2, <1>4, <2>1 DEF TypeInv, Modes, Results
<1>11. ASSUME NEW t \in Setup[setup].line, Transmit(t)  PROVE TypeInv'
  <2>1. Marked(t) \in Seq(Token)
    BY <1>1, SetupTypes, MarkedProperties
  <2> QED  BY <1>2, <1>3, <1>11, <2>1 DEF Transmit, TypeInv
<1>12. CASE Arrive
  <2>1. /\ Head(wire) \in ByteToken /\ Tail(wire) \in Seq(Token)
    BY <1>12, HeadTailProperties DEF Arrive, TypeInv, ByteToken
  <2>2. Append(buffer, Head(wire)) \in Seq(ByteToken)
    BY <2>1, AppendProperties DEF TypeInv
  <2> QED  BY <1>2, <1>3, <1>12, <2>1, <2>2 DEF Arrive, TypeInv
<1>13. CASE PauseOver
  <2>1. Tail(wire) \in Seq(Token)
    BY <1>13, HeadTailProperties DEF PauseOver, TypeInv
  <2> QED  BY <1>2, <1>3, <1>13, <2>1 DEF PauseOver, TypeInv
<1>14. CASE CloseLine
  BY <1>2, <1>3, <1>14 DEF CloseLine, TypeInv
<1>15. CASE UNCHANGED vars
  BY <1>2, <1>3, <1>15 DEF vars, TypeInv
<1> QED  BY <1>5, <1>6, <1>8, <1>9, <1>10, <1>11, <1>12, <1>13, <1>14, <1>15, ExactTypes,
            UntilIdleTypes DEF Next, ReaderStep, LineStep

(* A damaged byte count or a station that never pauses cannot make a frame *)
(* grow past the longest ADU (_MAX_BYTE_COUNT, _MAX_TAIL_BYTES).           *)
THEOREM TypeCorrect == Spec => []TypeOK
<1>1. TypeInv => TypeOK
  <2> SUFFICES ASSUME TypeInv  PROVE TypeOK
    OBVIOUS
  <2>1. ASSUME NEW f \in Seq(ByteToken)
        PROVE  f \in Seq(Token) /\ \A i \in DOMAIN f : IsByte(f[i].b)
    <3>1. ByteToken \subseteq Token
      BY DEF ByteToken
    <3>2. \A i \in DOMAIN f : f[i] \in ByteToken
      BY LenProperties, ElementOfSeq
    <3> QED  BY <3>1, <3>2, SeqMonotonic DEF ByteToken
  <2> QED  BY <2>1 DEF TypeInv, TypeOK, LongestRead
<1> QED  BY <1>1, InitTypes, TypeStep, PTL DEF Spec
-----------------------------------------------------------------------------
(* Where a read begins                                                     *)

Line == Setup[setup].line

(* Transmissions are bytes without a pause, and a pause after them.        *)
Paused(t) == Len(t) > 1 /\ \A i \in 1..Len(t) : t[i] = Pause <=> i = Len(t)

(* The CRC shows damage: no transmission begins with a frame that is not   *)
(* all of it, and none that was cut off is made a frame by the next.       *)
DamageShows(t) ==
  \A a \in Adus :
    /\ Len(a) < Len(t) /\ (\A i \in 1..Len(a) : a[i] = t[i]) => Len(a) = Len(t) - 1
    /\ \A u \in Line :
         ~ /\ Len(a) >= Len(t)
           /\ \A i \in 1..(Len(t) - 1) : a[i] = t[i]
           /\ \A i \in 1..(Len(u) - 1) : Len(t) - 1 + i <= Len(a) => a[Len(t) - 1 + i] = u[i]

(* The line of the protocol: what a client is sent has more bytes than a   *)
(* header, and no more than an ADU.                                        *)
CleanLine ==
  \A t \in Line :
    /\ Paused(t) /\ DamageShows(t)
    /\ ~Server => HeadLen + 1 < Len(t) /\ Len(t) <= HeadLen + MaxTail + 1

(* What is not received yet; what the reader has and what is to come.      *)
Stream == buffer \o wire
All    == frame \o Stream

(* Nothing of a transmission has been received, or all but its pause.      *)
AtStart(s) == s = <<>> \/ \E t \in Line : s = Marked(t)
Fresh(s)   == AtStart(s) \/ (Len(s) = 1 /\ s[1].b = Pause)

(* The bytes of t follow in s after the first n.                           *)
Follows(s, n, t) == \A i \in 1..(Len(t) - 1) : n + i <= Len(s) /\ s[n + i].b = t[i]

(* A frame f with s to come is of one transmission; it is one that was cut *)
(* off, and its pause is over; it goes on in another.                      *)
Within(f, s)   == \E t \in Line : f \o s = Marked(t)
CutOff(f, s)   == AtStart(s) /\ \E t \in Line : Follows(f \o s, 0, t) /\ Len(f) = Len(t) - 1
Spanning(f, s) == \E t \in Line : \E u \in Line :
                    Len(f) >= Len(t) /\ Follows(f \o s, 0, t) /\ Follows(f \o s, Len(t) - 1, u)

StreamOK == \A i \in 1..Len(Stream) : Stream[i].b = Pause <=> i = Len(Stream)

Reading ==
  IF frame = <<>> THEN Fresh(Stream)
  ELSE \/ Within(frame, Stream)
       \/ mode # "stray" /\ (CutOff(frame, Stream) \/ Spanning(frame, Stream))

(* A reader that is to begin at a boundary is at one, or will drain first. *)
BoundaryOK ==
  /\ StreamOK
  /\ frame # <<>> => frame[1].start
  /\ mode = "idle" => Fresh(Stream) \/ (~Server /\ MayLeaveBytes(result))
  /\ mode \in {"exact", "gap", "stray"} => Reading

LEMMA StreamTypes ==
  ASSUME TypeInv
  PROVE  /\ Stream \in Seq(Token) /\ Len(Stream) = Len(buffer) + Len(wire)
         /\ buffer \in Seq(Token) /\ frame \in Seq(Token) /\ wire \in Seq(Token)
         /\ Len(buffer) \in Nat /\ Len(wire) \in Nat /\ Len(frame) \in Nat
         /\ \A i \in 1..Len(buffer) : Stream[i] = buffer[i] /\ IsByte(buffer[i].b)
         /\ \A i \in 1..Len(wire) : Stream[Len(buffer) + i] = wire[i]
<1>1. ByteToken \subseteq Token
  BY DEF ByteToken
<1>2. buffer \in Seq(Token) /\ frame \in Seq(Token) /\ wire \in Seq(Token)
  BY <1>1, SeqMonotonic DEF TypeInv
<1>3. Len(buffer) \in Nat /\ Len(wire) \in Nat /\ Len(frame) \in Nat
  BY <1>2, LenProperties
<1>4. /\ Stream \in Seq(Token) /\ Len(Stream) = Len(buffer) + Len(wire)
      /\ \A i \in 1..(Len(buffer) + Len(wire)) :
           Stream[i] = IF i <= Len(buffer) THEN buffer[i] ELSE wire[i - Len(buffer)]
  BY <1>2, ConcatProperties DEF Stream
<1>5. \A i \in 1..Len(buffer) : buffer[i] \in ByteToken
  BY ElementOfSeq DEF TypeInv
<1>6. \A i \in 1..Len(buffer) : Stream[i] = buffer[i] /\ IsByte(buffer[i].b)
  BY <1>3, <1>4, <1>5 DEF ByteToken
<1>7. \A i \in 1..Len(wire) : Stream[Len(buffer) + i] = wire[i]
  BY <1>3, <1>4
<1> QED  BY <1>2, <1>3, <1>4, <1>6, <1>7

LEMMA AllTypes ==
  ASSUME TypeInv
  PROVE  /\ All \in Seq(Token) /\ Len(All) = Len(frame) + Len(Stream)
         /\ Len(frame) \in Nat /\ Len(Stream) \in Nat
         /\ \A i \in 1..Len(frame) : All[i] = frame[i] /\ IsByte(frame[i].b)
         /\ \A i \in 1..Len(Stream) : All[Len(frame) + i] = Stream[i]
<1>1. /\ Stream \in Seq(Token) /\ frame \in Seq(Token)
      /\ Len(frame) \in Nat /\ Len(Stream) \in Nat
  BY StreamTypes, LenProperties
<1>2. /\ All \in Seq(Token) /\ Len(All) = Len(frame) + Len(Stream)
      /\ \A i \in 1..(Len(frame) + Len(Stream)) :
           All[i] = IF i <= Len(frame) THEN frame[i] ELSE Stream[i - Len(frame)]
  BY <1>1, ConcatProperties DEF All
<1>3. \A i \in 1..Len(frame) : frame[i] \in ByteToken
  BY ElementOfSeq DEF TypeInv
<1>4. \A i \in 1..Len(frame) : All[i] = frame[i] /\ IsByte(frame[i].b)
  BY <1>1, <1>2, <1>3 DEF ByteToken
<1>5. ASSUME NEW i \in 1..Len(Stream)  PROVE All[Len(frame) + i] = Stream[i]
  <2>1. /\ Len(frame) + i \in 1..(Len(frame) + Len(Stream))
        /\ ~(Len(frame) + i <= Len(frame)) /\ (Len(frame) + i) - Len(frame) = i
    BY <1>1
  <2> QED  BY <1>2, <2>1
<1> QED  BY <1>1, <1>2, <1>4, <1>5

LEMMA LineMarked ==
  ASSUME TypeInv, CleanLine, NEW t \in Line
  PROVE  /\ Len(t) \in Nat /\ Len(t) > 1 /\ Paused(t) /\ DamageShows(t)
         /\ ~Server => HeadLen + 1 < Len(t) /\ Len(t) <= HeadLen + MaxTail + 1
         /\ t \in Seq(Byte \cup {Pause}) /\ Len(Marked(t)) = Len(t)
         /\ \A i \in 1..Len(t) : Marked(t)[i].b = t[i] /\ (Marked(t)[i].start <=> i = 1)
<1>1. t \in Seq(Byte \cup {Pause})
  BY SetupTypes DEF TypeInv, Line
<1>2. /\ Paused(t) /\ DamageShows(t) /\ Len(t) > 1
      /\ ~Server => HeadLen + 1 < Len(t) /\ Len(t) <= HeadLen + MaxTail + 1
  BY DEF CleanLine, Paused
<1>3. /\ Len(Marked(t)) = Len(t) /\ Len(t) \in Nat
      /\ \A i \in 1..Len(t) : Marked(t)[i] = [b |-> t[i], start |-> i = 1, whole |-> Whole(t)]
  BY <1>1, MarkedProperties
<1>4. \A i \in 1..Len(t) : Marked(t)[i].b = t[i] /\ (Marked(t)[i].start <=> i = 1)
  <2> SUFFICES ASSUME NEW i \in 1..Len(t)
               PROVE  Marked(t)[i].b = t[i] /\ (Marked(t)[i].start <=> i = 1)
    OBVIOUS
  <2>1. Marked(t)[i] = [b |-> t[i], start |-> i = 1, whole |-> Whole(t)]
    BY <1>3
  <2>2. Marked(t)[i].b = t[i] /\ Marked(t)[i].start = (i = 1)
    BY <2>1
  <2> QED  BY <2>2
<1> QED  BY <1>1, <1>2, <1>3, <1>4

LEMMA Associative ==
  \A a, b, c \in Seq(Token) : (a \o b) \o c = a \o (b \o c)
BY ConcatAssociative

(* A receive changes neither the bytes nor their order.                    *)
LEMMA TakesKeeps ==
  ASSUME TypeInv, NEW n \in 1..Len(buffer), NEW f, Takes(f, n)
  PROVE  /\ f \in Seq(ByteToken) /\ Len(f) = Len(frame) + n /\ f # <<>>
         /\ \A i \in 1..Len(frame) : f[i] = frame[i]
         /\ \A i \in 1..n : f[Len(frame) + i] = buffer[i]
         /\ f \o Stream' = All
         /\ Stream' \in Seq(Token) /\ Len(Stream') = Len(Stream) - n
         /\ \A i \in 1..Len(Stream') : Stream'[i] = Stream[n + i]
<1>1. /\ Stream \in Seq(Token) /\ Len(Stream) = Len(buffer) + Len(wire)
      /\ buffer \in Seq(Token) /\ frame \in Seq(Token) /\ wire \in Seq(Token)
      /\ Len(buffer) \in Nat /\ Len(wire) \in Nat /\ Len(frame) \in Nat
  BY StreamTypes
<1>2. n \in 0..Len(buffer) /\ n \in Nat /\ n >= 1
  BY <1>1
<1>3. /\ f = frame \o First(buffer, n) /\ buffer' = Rest(buffer, n) /\ wire' = wire
  BY DEF Takes
<1>4. /\ f \in Seq(ByteToken) /\ Rest(buffer, n) \in Seq(ByteToken)
      /\ Len(f) = Len(frame) + n /\ Len(Rest(buffer, n)) = Len(buffer) - n
      /\ \A i \in 1..Len(frame) : f[i] = frame[i]
      /\ \A i \in 1..n : f[Len(frame) + i] = buffer[i]
  BY <1>2, <1>3, Taken DEF TypeInv
<1>5. f # <<>>
  BY <1>1, <1>2, <1>4, EmptySeq
<1> DEFINE h == First(buffer, n)
           r == Rest(buffer, n)
<1>6. h \o r = buffer
  <2>1. 1 \in 1..(Len(buffer) + 1) /\ n \in (1 - 1)..Len(buffer) /\ Len(buffer) \in n..Len(buffer)
    BY <1>1, <1>2
  <2>2. SubSeq(buffer, 1, n) \o SubSeq(buffer, n + 1, Len(buffer)) = SubSeq(buffer, 1, Len(buffer))
    BY <1>1, <2>1, ConcatAdjacentSubSeq
  <2> QED  BY <1>1, <2>2, SubSeqFull DEF First, Rest
<1>7. h \in Seq(Token) /\ r \in Seq(Token) /\ Len(h) = n
  <2>1. \A i \in 1..Len(buffer) : buffer[i] \in Token
    BY <1>1, ElementOfSeq
  <2>2. (\A i \in 1..n : buffer[i] \in Token) /\ \A i \in (n + 1)..Len(buffer) : buffer[i] \in Token
    BY <1>1, <1>2, <2>1
  <2> QED  BY <1>1, <1>2, <2>2, SubSeqProperties DEF First, Rest
<1> HIDE DEF h, r
<1>8. Stream = h \o (r \o wire) /\ Stream' = r \o wire
  <2>1. (h \o r) \o wire = h \o (r \o wire)
    <3>1. h \in Seq(Token) /\ r \in Seq(Token) /\ wire \in Seq(Token)
      BY <1>1, <1>7
    <3> QED  BY <3>1, Associative
  <2>2. buffer' = r /\ wire' = wire
    BY <1>3 DEF r
  <2> QED  BY <1>6, <2>1, <2>2 DEF Stream
<1>9. r \o wire \in Seq(Token)
  BY <1>1, <1>7, ConcatProperties
<1>10. f \o Stream' = All
  <2>1. (frame \o h) \o Stream' = frame \o (h \o Stream')
    BY <1>1, <1>7, <1>8, <1>9, Associative
  <2>2. f = frame \o h
    BY <1>3 DEF h
  <2> QED  BY <1>8, <2>1, <2>2 DEF All
<1>11. /\ Len(Stream) = n + Len(Stream') /\ Len(Stream') \in Nat
       /\ \A i \in 1..(n + Len(Stream')) : Stream[i] = IF i <= n THEN h[i] ELSE Stream'[i - n]
  BY <1>7, <1>8, <1>9, ConcatProperties, LenProperties
<1>12. \A i \in 1..Len(Stream') : Stream'[i] = Stream[n + i]
  BY <1>2, <1>11
<1>13. Len(Stream') = Len(Stream) - n /\ Stream' \in Seq(Token)
  BY <1>2, <1>8, <1>9, <1>11
<1> QED  BY <1>4, <1>5, <1>10, <1>12, <1>13

LEMMA Grows ==
  ASSUME TypeInv, CleanLine, Reading, frame # <<>> => frame[1].start,
         NEW n \in 1..Len(buffer), NEW f, Takes(f, n)
  PROVE  /\ f[1].start
         /\ Within(f, Stream') \/ (mode # "stray" /\ Spanning(f, Stream'))
<1>1. /\ f \in Seq(ByteToken) /\ Len(f) = Len(frame) + n /\ f \o Stream' = All
      /\ \A i \in 1..Len(frame) : f[i] = frame[i]
      /\ \A i \in 1..n : f[Len(frame) + i] = buffer[i]
  BY TakesKeeps
<1>2. /\ Len(buffer) \in Nat /\ n \in Nat /\ n >= 1 /\ 1 \in 1..n /\ 1 \in 1..Len(buffer)
      /\ Len(Stream) \in Nat /\ Len(Stream) >= 1 /\ Stream \in Seq(Token)
      /\ Stream[1] = buffer[1] /\ Stream[1].b # Pause
  BY StreamTypes DEF IsByte
<1>3. /\ All \in Seq(Token) /\ Len(All) = Len(frame) + Len(Stream) /\ Len(frame) \in Nat
      /\ \A i \in 1..Len(Stream) : All[Len(frame) + i] = Stream[i]
      /\ All = frame \o Stream
  BY AllTypes DEF All
<1>4. Stream # <<>>
  BY <1>2, EmptySeq
<1>5. CASE frame = <<>>
  <2>1. PICK t \in Line : Stream = Marked(t)
    BY <1>2, <1>4, <1>5 DEF Reading, Fresh, AtStart
  <2>2. Len(frame) = 0
    BY <1>5, EmptySeq
  <2>3. All = Stream
    BY <1>2, <1>3, <1>5, ConcatEmptySeq
  <2>4. f[1] = Stream[1]
    BY <1>1, <1>2, <2>2
  <2>5. Stream[1].start
    BY <1>2, <2>1, LineMarked
  <2> QED  BY <1>1, <2>1, <2>3, <2>4, <2>5 DEF Within
<1>6. CASE frame # <<>>
  <2>1. f[1].start
    <3>1. 1 \in 1..Len(frame)
      BY <1>3, <1>6, EmptySeq DEF TypeInv
    <3> QED  BY <1>1, <1>6, <3>1
  <2>2. CASE Within(frame, Stream)
    BY <1>1, <1>3, <2>1, <2>2 DEF Within
  <2>3. CASE mode # "stray" /\ CutOff(frame, Stream)
    <3>1. PICK t \in Line : Follows(All, 0, t) /\ Len(frame) = Len(t) - 1
      BY <1>3, <2>3 DEF CutOff
    <3>2. PICK u \in Line : Stream = Marked(u)
      BY <1>4, <2>3 DEF CutOff, AtStart
    <3>3. /\ Len(t) \in Nat /\ Len(u) \in Nat /\ Len(Stream) = Len(u)
          /\ \A i \in 1..Len(u) : Stream[i].b = u[i]
      BY <3>2, LineMarked
    <3>4. Follows(All, Len(t) - 1, u)
      <4> SUFFICES ASSUME NEW i \in 1..(Len(u) - 1)
                   PROVE  Len(t) - 1 + i <= Len(All) /\ All[Len(t) - 1 + i].b = u[i]
        BY DEF Follows
      <4>1. i \in 1..Len(Stream) /\ i \in 1..Len(u)
        BY <3>3
      <4>2. All[Len(frame) + i] = Stream[i] /\ Stream[i].b = u[i]
        BY <1>3, <3>3, <4>1
      <4>3. Len(t) - 1 + i <= Len(All)
        BY <1>3, <3>1, <3>3
      <4> QED  BY <3>1, <4>2, <4>3
    <3>5. Len(f) >= Len(t)
      BY <1>1, <1>2, <1>3, <3>1, <3>3
    <3> QED  BY <1>1, <2>1, <2>3, <3>1, <3>4, <3>5 DEF Spanning
  <2>4. CASE mode # "stray" /\ Spanning(frame, Stream)
    <3>1. PICK t \in Line, u \in Line :
            Len(frame) >= Len(t) /\ Follows(All, 0, t) /\ Follows(All, Len(t) - 1, u)
      BY <1>3, <2>4 DEF Spanning
    <3>2. Len(f) >= Len(t)
      BY <1>1, <1>2, <1>3, <3>1, LineMarked
    <3> QED  BY <1>1, <2>1, <2>4, <3>1, <3>2 DEF Spanning
  <2> QED  BY <1>6, <2>2, <2>3, <2>4 DEF Reading
<1> QED  BY <1>5, <1>6

(* Bytes of one transmission never reach its pause; when they are all of   *)
(* its bytes, the pause is all that is left.                               *)
LEMMA PauseLeft ==
  ASSUME TypeInv, CleanLine, NEW f \in Seq(ByteToken), NEW s \in Seq(Token),
         NEW t \in Line, f \o s = Marked(t)
  PROVE  /\ Len(f) \in Nat /\ Len(s) \in Nat /\ Len(t) = Len(f) + Len(s) /\ Len(s) >= 1
         /\ \A i \in 1..Len(f) : f[i].b = t[i]
         /\ Len(s) = 1 => s[1].b = Pause
<1> DEFINE all == f \o s
<1>1. Len(f) \in Nat /\ Len(s) \in Nat
  BY LenProperties
<1>2. /\ Len(all) = Len(f) + Len(s)
      /\ \A i \in 1..(Len(f) + Len(s)) : all[i] = IF i <= Len(f) THEN f[i] ELSE s[i - Len(f)]
  <2>1. f \in Seq(Token)
    BY SeqMonotonic DEF ByteToken
  <2> QED  BY <2>1, ConcatProperties
<1>3. /\ Len(t) \in Nat /\ Len(t) > 1 /\ Len(all) = Len(t)
      /\ \A i \in 1..Len(t) : all[i].b = t[i] /\ (t[i] = Pause <=> i = Len(t))
  BY LineMarked DEF Paused
<1> HIDE DEF all
<1>4. \A i \in 1..Len(f) : all[i] = f[i] /\ f[i].b = t[i] /\ f[i].b # Pause
  <2> SUFFICES ASSUME NEW i \in 1..Len(f)
               PROVE  all[i] = f[i] /\ f[i].b = t[i] /\ f[i].b # Pause
    OBVIOUS
  <2>1. i \in 1..(Len(f) + Len(s)) /\ i <= Len(f) /\ i \in 1..Len(t)
    BY <1>1, <1>2, <1>3
  <2>2. f[i] \in ByteToken
    BY ElementOfSeq
  <2> QED  BY <1>2, <1>3, <2>1, <2>2 DEF ByteToken, IsByte
<1>5. Len(t) \in 1..Len(t) /\ t[Len(t)] = Pause /\ all[Len(t)].b = Pause
  BY <1>3
<1>6. Len(t) \notin 1..Len(f)
  BY <1>4, <1>5
<1>7. Len(t) = Len(f) + Len(s) /\ Len(s) >= 1
  <2>1. \A x, y \in Nat : x + y > 1 /\ x + y \notin 1..x => y >= 1
    OBVIOUS
  <2> QED  BY <1>1, <1>2, <1>3, <1>6, <2>1
<1>8. Len(s) = 1 => all[Len(t)] = s[1]
  BY <1>1, <1>2, <1>7
<1> QED  BY <1>1, <1>4, <1>5, <1>7, <1>8

(* What verifies is a whole transmission: nothing but its pause is left.   *)
LEMMA VerifiedIsWhole ==
  ASSUME TypeInv, CleanLine, NEW f \in Seq(ByteToken), NEW s \in Seq(Token),
         Within(f, s) \/ Spanning(f, s), Bytes(f) \in Adus
  PROVE  Len(s) = 1 /\ s[1].b = Pause
<1> DEFINE a == Bytes(f)
<1>1. Len(a) = Len(f) /\ Len(f) \in Nat /\ \A i \in 1..Len(f) : a[i] = f[i].b
  BY BytesProperties, LenProperties
<1> HIDE DEF a
<1>2. CASE Within(f, s)
  <2>1. PICK t \in Line : f \o s = Marked(t)
    BY <1>2 DEF Within
  <2>2. /\ Len(s) \in Nat /\ Len(t) = Len(f) + Len(s) /\ Len(s) >= 1
        /\ \A i \in 1..Len(f) : f[i].b = t[i]
        /\ Len(s) = 1 => s[1].b = Pause
    BY <2>1, PauseLeft
  <2>3. Len(a) < Len(t) /\ \A i \in 1..Len(a) : a[i] = t[i]
    BY <1>1, <2>2
  <2>4. Len(a) = Len(t) - 1
    BY <2>3, LineMarked DEF DamageShows, a
  <2>5. \A x, y \in Nat : x = x + y - 1 => y = 1
    OBVIOUS
  <2>6. Len(s) = 1
    <3>1. Len(f) = Len(f) + Len(s) - 1
      BY <1>1, <2>2, <2>4
    <3> QED  BY <1>1, <2>2, <2>5, <3>1
  <2> QED  BY <2>2, <2>6
<1>3. CASE Spanning(f, s)
  <2> DEFINE all == f \o s
  <2>1. PICK t \in Line, u \in Line :
          Len(f) >= Len(t) /\ Follows(all, 0, t) /\ Follows(all, Len(t) - 1, u)
    BY <1>3 DEF Spanning
  <2>2. \A i \in 1..Len(f) : all[i].b = a[i]
    <3>1. f \in Seq(Token) /\ Len(s) \in Nat
      BY SeqMonotonic, LenProperties DEF ByteToken
    <3>2. \A i \in 1..(Len(f) + Len(s)) : all[i] = IF i <= Len(f) THEN f[i] ELSE s[i - Len(f)]
      BY <3>1, ConcatProperties
    <3> QED  BY <1>1, <3>1, <3>2
  <2> HIDE DEF all
  <2>3. /\ Len(t) \in Nat /\ Len(t) > 1 /\ Len(u) \in Nat /\ DamageShows(t)
        /\ \A i \in 1..(Len(t) - 1) : all[0 + i].b = t[i]
        /\ \A i \in 1..(Len(u) - 1) : all[Len(t) - 1 + i].b = u[i]
    BY <2>1, LineMarked DEF Follows
  <2>4. Len(a) >= Len(t)
    BY <1>1, <2>1
  <2>5. \A i \in 1..(Len(t) - 1) : a[i] = t[i]
    <3> SUFFICES ASSUME NEW i \in 1..(Len(t) - 1)  PROVE a[i] = t[i]
      OBVIOUS
    <3>1. i \in 1..Len(f) /\ 0 + i = i
      BY <1>1, <2>1, <2>3
    <3> QED  BY <2>2, <2>3, <3>1
  <2>6. \A i \in 1..(Len(u) - 1) : Len(t) - 1 + i <= Len(a) => a[Len(t) - 1 + i] = u[i]
    <3> SUFFICES ASSUME NEW i \in 1..(Len(u) - 1), Len(t) - 1 + i <= Len(a)
                 PROVE  a[Len(t) - 1 + i] = u[i]
      OBVIOUS
    <3>1. Len(t) - 1 + i \in 1..Len(f)
      BY <1>1, <2>3
    <3> QED  BY <2>2, <2>3, <3>1
  <2> QED  BY <2>3, <2>4, <2>5, <2>6 DEF DamageShows, a
<1> QED  BY <1>2, <1>3

-----------------------------------------------------------------------------
(* Every step keeps the boundary                                           *)

Bounded == TypeInv /\ CleanLine /\ (Server \/ Resync) /\ BoundaryOK

(* A silence, or the end of the stream, is a boundary.                     *)
LEMMA SilenceIsFresh ==
  ASSUME Bounded, buffer = <<>>, wire # <<>> => ~IsByte(Head(wire).b)
  PROVE  Fresh(Stream) /\ (wire # <<>> => Len(wire) = 1)
<1>1. /\ Len(Stream) = Len(wire) /\ \A i \in 1..Len(wire) : Stream[i] = wire[i]
      /\ wire \in Seq(Token) /\ Len(wire) \in Nat /\ Stream = wire
  <2>1. Len(buffer) = 0
    BY EmptySeq DEF Bounded
  <2>2. /\ Len(Stream) = Len(buffer) + Len(wire) /\ wire \in Seq(Token) /\ Len(wire) \in Nat
        /\ \A i \in 1..Len(wire) : Stream[Len(buffer) + i] = wire[i]
    BY StreamTypes DEF Bounded
  <2>3. Stream = wire
    BY <2>2, ConcatEmptySeq DEF Stream
  <2> QED  BY <2>1, <2>2, <2>3
<1>2. CASE wire = <<>>
  BY <1>1, <1>2 DEF Fresh, AtStart
<1>3. CASE wire # <<>>
  <2>1. 1 \in 1..Len(wire)
    BY <1>1, <1>3, EmptySeq
  <2>2. wire[1].b = Pause
    BY <1>3 DEF IsByte
  <2>3. Len(Stream) = 1
    BY <1>1, <2>1, <2>2 DEF Bounded, BoundaryOK, StreamOK
  <2> QED  BY <1>1, <2>2, <2>3 DEF Fresh
<1> QED  BY <1>2, <1>3

(* What is left of a line that ends in a pause ends in a pause.            *)
LEMMA TakesStream ==
  ASSUME Bounded, NEW n \in 1..Len(buffer), NEW f, Takes(f, n)
  PROVE  StreamOK'
<1>1. /\ Len(Stream') = Len(Stream) - n /\ \A i \in 1..Len(Stream') : Stream'[i] = Stream[n + i]
  BY TakesKeeps DEF Bounded
<1>2. Len(Stream) \in Nat /\ Len(buffer) \in Nat
  BY StreamTypes, LenProperties DEF Bounded
<1>3. \A i \in 1..Len(Stream) : Stream[i].b = Pause <=> i = Len(Stream)
  BY DEF Bounded, BoundaryOK, StreamOK
<1> SUFFICES ASSUME NEW i \in 1..Len(Stream')
             PROVE  Stream'[i].b = Pause <=> i = Len(Stream')
  BY DEF StreamOK
<1>4. n + i \in 1..Len(Stream) /\ (n + i = Len(Stream) <=> i = Len(Stream'))
  BY <1>1, <1>2
<1> QED  BY <1>1, <1>3, <1>4

LEMMA SameLine ==
  ASSUME setup' = setup
  PROVE  Line' = Line /\ Server' = Server /\ Resync' = Resync
BY DEF Line, Server, Resync

LEMMA ExactBounded ==
  ASSUME Bounded, ReceiveExact
  PROVE  BoundaryOK'
<1>1. /\ TypeInv /\ CleanLine /\ (Server \/ Resync) /\ StreamOK /\ mode = "exact" /\ Reading
      /\ frame # <<>> => frame[1].start
  BY DEF Bounded, BoundaryOK, ReceiveExact
<1>2. PICK n \in 1..Len(buffer) :
           /\ Takes(frame', n)
           /\ LET m == NextMode(Bytes(frame')) IN
              /\ m \in {"gap", "stray"} => Len(frame') = HeadLen
              /\ IF m \in Modes THEN Await(m) ELSE Finish(m, Server /\ m \in {"crc", "frame"})
  BY <1>1, ExactStep
<1> DEFINE m == NextMode(Bytes(frame'))
<1>3. /\ m \in {"gap", "stray"} => Len(frame') = HeadLen
      /\ IF m \in Modes THEN Await(m) ELSE Finish(m, Server /\ m \in {"crc", "frame"})
  BY <1>2
<1>4. /\ frame' \in Seq(ByteToken) /\ frame' # <<>> /\ Stream' \in Seq(Token)
  BY <1>1, <1>2, TakesKeeps
<1>5. frame'[1].start /\ (Within(frame', Stream') \/ Spanning(frame', Stream'))
  BY <1>1, <1>2, Grows
<1>6. StreamOK'
  BY <1>2, TakesStream
<1>7. Line' = Line /\ Server' = Server
  BY <1>2, SameLine DEF Takes
<1>8. m \in {"exact", "stray", "protocol", "gap", "frame", "ok", "crc"} /\ (m = "stray" => ~Server)
      /\ (m = "protocol" => ~Server)
  BY <1>1, Decisions DEF TypeInv
<1>9. (Within(frame', Stream') <=> Within(frame, Stream)')
      /\ (Spanning(frame', Stream') <=> Spanning(frame, Stream)')
  BY <1>7 DEF Within, Spanning
<1>10. CASE m = "ok"
  <2>1. Bytes(frame') \in Adus
    BY <1>10 DEF NextMode, VerifyCrc
  <2>2. Len(Stream') = 1 /\ Stream'[1].b = Pause
    BY <1>1, <1>4, <1>5, <2>1, VerifiedIsWhole
  <2>3. mode' = "idle"
    BY <1>3, <1>10 DEF Modes, Finish
  <2> QED  BY <1>4, <1>5, <1>6, <2>2, <2>3 DEF BoundaryOK, Fresh
<1> HIDE DEF m
<1>11. CASE m \in {"protocol", "frame", "crc"}
  <2>1. result' = m /\ mode' = IF Server /\ m \in {"crc", "frame"} THEN "drain" ELSE "idle"
    BY <1>3, <1>11 DEF Modes, Finish
  <2>2. mode' = "idle" => ~Server /\ MayLeaveBytes(result)'
    BY <1>8, <1>11, <2>1 DEF MayLeaveBytes, Errors
  <2> QED  BY <1>4, <1>5, <1>6, <1>7, <2>1, <2>2 DEF BoundaryOK
<1>12. CASE m \in {"exact", "gap", "stray"}
  <2>1. mode' = m
    BY <1>3, <1>12 DEF Modes, Await
  <2>2. m = "stray" => Within(frame', Stream')
    <3> SUFFICES ASSUME m = "stray", Spanning(frame', Stream')  PROVE FALSE
      BY <1>5
    <3>1. PICK t \in Line : Len(frame') >= Len(t)
      BY DEF Spanning
    <3>2. Len(t) \in Nat /\ HeadLen + 1 < Len(t)
      BY <1>1, <1>8, LineMarked
    <3>3. \A x \in Nat : ~(2 >= x /\ 2 + 1 < x)
      OBVIOUS
    <3> QED  BY <1>3, <3>1, <3>2, <3>3
  <2>3. Reading'
    BY <1>4, <1>5, <1>9, <2>1, <2>2 DEF Reading
  <2> QED  BY <1>4, <1>5, <1>6, <1>12, <2>1, <2>3 DEF BoundaryOK
<1> QED  BY <1>8, <1>10, <1>11, <1>12

LEMMA UntilIdleBounded ==
  ASSUME Bounded, ReceiveUntilIdle
  PROVE  BoundaryOK'
<1>1. /\ TypeInv /\ CleanLine /\ (Server \/ Resync) /\ StreamOK /\ mode \in {"gap", "stray"}
      /\ Reading
      /\ frame # <<>> => frame[1].start
  BY DEF Bounded, BoundaryOK, ReceiveUntilIdle
<1>2. PICK n \in 1..Len(buffer), f \in Seq(ByteToken) :
           /\ Takes(f, n) /\ HeadLen <= Len(f) /\ Len(f) <= HeadLen + MaxTail
           /\ IF Len(f) = HeadLen + MaxTail THEN EndIdle(f) ELSE frame' = f /\ Await(mode)
  BY <1>1, UntilIdleStep
<1>3. f # <<>> /\ Stream' \in Seq(Token) /\ f \o Stream' = All
  BY <1>1, <1>2, TakesKeeps
<1>4. f[1].start /\ (Within(f, Stream') \/ (mode # "stray" /\ Spanning(f, Stream')))
  BY <1>1, <1>2, Grows
<1>5. StreamOK'
  BY <1>2, TakesStream
<1>6. Line' = Line /\ Server' = Server
  BY <1>2, SameLine DEF Takes
<1>7. CASE Len(f) # HeadLen + MaxTail
  <2>1. frame' = f /\ mode' = mode
    BY <1>2, <1>7 DEF Await
  <2>2. (Within(f, Stream') <=> Within(frame, Stream)')
        /\ (Spanning(f, Stream') <=> Spanning(frame, Stream)')
    BY <1>6, <2>1 DEF Within, Spanning
  <2>3. Reading'
    BY <1>3, <1>4, <2>1, <2>2 DEF Reading
  <2> QED  BY <1>1, <1>3, <1>4, <1>5, <2>1, <2>3 DEF BoundaryOK
<1>8. CASE Len(f) = HeadLen + MaxTail /\ mode = "stray"
  <2>1. frame' = <<>> /\ mode' = "exact"
    BY <1>2, <1>8 DEF EndIdle, Await
  <2>2. Len(Stream') = 1 /\ Stream'[1].b = Pause
    <3>1. PICK t \in Line : f \o Stream' = Marked(t)
      BY <1>4, <1>8 DEF Within
    <3>2. ~Server
      BY <1>1, <1>8 DEF TypeInv, ResultOK
    <3>3. Len(t) <= HeadLen + MaxTail + 1
      BY <1>1, <3>2, LineMarked
    <3>4. /\ Len(f) \in Nat /\ Len(Stream') \in Nat /\ Len(t) = Len(f) + Len(Stream')
          /\ Len(Stream') >= 1
          /\ Len(Stream') = 1 => Stream'[1].b = Pause
      BY <1>1, <1>3, <3>1, PauseLeft
    <3>5. \A x, y \in Nat : x + y <= x + 1 /\ y >= 1 => y = 1
      OBVIOUS
    <3> QED  BY <1>8, <3>3, <3>4, <3>5
  <2> QED  BY <1>5, <2>1, <2>2 DEF BoundaryOK, Reading, Fresh
<1>9. CASE Len(f) = HeadLen + MaxTail /\ mode = "gap"
  <2>1. /\ frame' = f /\ result' = GapResult(Bytes(f))
        /\ mode' = IF Server /\ GapResult(Bytes(f)) = "crc" THEN "drain" ELSE "idle"
    BY <1>2, <1>9 DEF EndIdle, Finish
  <2>2. GapResult(Bytes(f)) \in {"ok", "crc"} /\ (GapResult(Bytes(f)) = "ok" => Bytes(f) \in Adus)
    <3>1. Len(Bytes(f)) = Len(f) /\ Len(f) \in Nat /\ MaxTail \in Nat /\ MaxTail >= 8
      BY BytesProperties, LenProperties, FramerAssumption
    <3>2. ~(Len(Bytes(f)) < HeadLen + CrcLen)
      BY <1>9, <3>1
    <3> QED  BY <3>2 DEF GapResult, VerifyCrc
  <2>3. CASE GapResult(Bytes(f)) = "ok"
    <3>1. Len(Stream') = 1 /\ Stream'[1].b = Pause
      BY <1>1, <1>3, <1>4, <2>2, <2>3, VerifiedIsWhole
    <3> QED  BY <1>3, <1>4, <1>5, <2>1, <2>3, <3>1 DEF BoundaryOK, Fresh
  <2>4. CASE GapResult(Bytes(f)) = "crc"
    <3>1. mode' = "idle" => ~Server /\ MayLeaveBytes(result)'
      BY <2>1, <2>4 DEF MayLeaveBytes, Errors
    <3> QED  BY <1>3, <1>4, <1>5, <1>6, <2>1, <3>1 DEF BoundaryOK
  <2> QED  BY <2>2, <2>3, <2>4
<1> QED  BY <1>1, <1>7, <1>8, <1>9

(* A frame that a silence ends, or the stream, leaves nothing behind.      *)
LEMMA EndsFresh ==
  ASSUME Bounded, setup' = setup, Fresh(Stream), Stream' = Stream,
         \/ mode' = "idle" /\ frame' = frame
         \/ mode' = "exact" /\ frame' = <<>>
         \/ mode' = "drain" /\ frame' = frame
  PROVE  BoundaryOK'
<1>1. Line' = Line
  BY SameLine
<1>2. Fresh(Stream)'
  BY <1>1 DEF Fresh, AtStart, Marked
<1>3. StreamOK'
  BY DEF Bounded, BoundaryOK, StreamOK
<1> QED  BY <1>2, <1>3 DEF Bounded, BoundaryOK, Reading

(* The bytes received follow whatever is to come after them.               *)
LEMMA FollowsOn ==
  ASSUME TypeInv, CleanLine, NEW t \in Line, NEW n \in Nat, NEW r \in Seq(Token), NEW s \in Seq(Token),
         Follows(frame \o r, n, t), r = <<>> \/ (Len(r) = 1 /\ r[1].b = Pause)
  PROVE  Follows(frame \o s, n, t)
<1>1. frame \in Seq(Token) /\ Len(frame) \in Nat /\ Len(r) \in Nat /\ Len(s) \in Nat
  BY StreamTypes, LenProperties
<1>2. /\ Len(frame \o r) = Len(frame) + Len(r) /\ Len(frame \o s) = Len(frame) + Len(s)
      /\ \A i \in 1..(Len(frame) + Len(r)) :
           (frame \o r)[i] = IF i <= Len(frame) THEN frame[i] ELSE r[i - Len(frame)]
      /\ \A i \in 1..(Len(frame) + Len(s)) :
           (frame \o s)[i] = IF i <= Len(frame) THEN frame[i] ELSE s[i - Len(frame)]
  BY <1>1, ConcatProperties
<1> SUFFICES ASSUME NEW i \in 1..(Len(t) - 1)
             PROVE  n + i <= Len(frame \o s) /\ (frame \o s)[n + i].b = t[i]
  BY DEF Follows
<1>3. n + i <= Len(frame \o r) /\ (frame \o r)[n + i].b = t[i]
  BY DEF Follows
<1>4. t[i] # Pause /\ i \in Nat /\ i >= 1
  <2>1. Len(t) \in Nat /\ \A j \in 1..Len(t) : t[j] = Pause <=> j = Len(t)
    BY LineMarked DEF Paused
  <2> QED  BY <2>1
<1>5. n + i <= Len(frame)
  <2>1. CASE r = <<>>
    BY <1>1, <1>2, <1>3, <2>1, EmptySeq
  <2>2. CASE Len(r) = 1 /\ r[1].b = Pause
    <3>1. n + i = Len(frame) + 1 => (frame \o r)[n + i] = r[1]
      BY <1>1, <1>2, <2>2
    <3>2. n + i # Len(frame) + 1
      BY <1>3, <1>4, <2>2, <3>1
    <3>3. n + i <= Len(frame) + 1
      BY <1>2, <1>3, <2>2
    <3> QED  BY <1>1, <1>4, <3>2, <3>3
  <2> QED  BY <2>1, <2>2
<1>6. (frame \o s)[n + i] = frame[n + i] /\ (frame \o r)[n + i] = frame[n + i]
  BY <1>1, <1>2, <1>4, <1>5
<1> QED  BY <1>1, <1>2, <1>3, <1>4, <1>5, <1>6

(* A frame that was cut off goes on in what comes next.                    *)
LEMMA ReadingOn ==
  ASSUME TypeInv, CleanLine, Line' = Line, Stream' \in Seq(Token), AtStart(Stream'),
         Stream = <<>> \/ (Len(Stream) = 1 /\ Stream[1].b = Pause),
         frame' = frame, mode' = mode, Reading,
         Within(frame, Stream) => mode # "stray"
  PROVE  Reading'
<1>1. AtStart(Stream)'
  BY DEF AtStart
<1>2. CASE frame = <<>>
  BY <1>1, <1>2 DEF Reading, Fresh
<1>3. CASE frame # <<>> /\ Within(frame, Stream)
  <2>1. PICK t \in Line : frame \o Stream = Marked(t)
    BY <1>3 DEF Within
  <2>2. Stream \in Seq(Token) /\ frame \in Seq(ByteToken)
    BY StreamTypes DEF TypeInv
  <2>3. /\ Len(frame) \in Nat /\ Len(t) = Len(frame) + Len(Stream) /\ Len(Stream) >= 1
        /\ \A i \in 1..Len(frame) : frame[i].b = t[i]
    BY <2>1, <2>2, PauseLeft
  <2>4. Len(Stream) = 1
    BY <2>3, EmptySeq
  <2>5. Follows(frame \o Stream, 0, t) /\ Len(frame) = Len(t) - 1
    <3>1. Len(frame) = Len(t) - 1
      BY <2>3, <2>4
    <3>2. Len(frame \o Stream) = Len(t) /\ Len(t) \in Nat
          /\ \A i \in 1..Len(t) : (frame \o Stream)[i].b = t[i]
      BY <2>1, LineMarked
    <3> QED  BY <3>1, <3>2 DEF Follows
  <2>6. Follows(frame \o Stream', 0, t)
    BY <2>2, <2>5, FollowsOn
  <2>7. CutOff(frame, Stream)'
    BY <1>1, <2>5, <2>6 DEF CutOff
  <2> QED  BY <1>3, <2>7 DEF Reading
<1>4. CASE frame # <<>> /\ mode # "stray" /\ CutOff(frame, Stream)
  <2>1. PICK t \in Line : Follows(frame \o Stream, 0, t) /\ Len(frame) = Len(t) - 1
    BY <1>4 DEF CutOff
  <2>2. Follows(frame \o Stream', 0, t)
    BY <2>1, StreamTypes, FollowsOn
  <2>3. CutOff(frame, Stream)'
    BY <1>1, <2>1, <2>2 DEF CutOff
  <2> QED  BY <1>4, <2>3 DEF Reading
<1>5. CASE frame # <<>> /\ mode # "stray" /\ Spanning(frame, Stream)
  <2>1. PICK t \in Line, u \in Line : /\ Len(frame) >= Len(t) /\ Follows(frame \o Stream, 0, t)
                                      /\ Follows(frame \o Stream, Len(t) - 1, u)
    BY <1>5 DEF Spanning
  <2>2. Len(t) - 1 \in Nat
    BY LineMarked
  <2>3. Follows(frame \o Stream', 0, t) /\ Follows(frame \o Stream', Len(t) - 1, u)
    BY <2>1, <2>2, StreamTypes, FollowsOn
  <2>4. Spanning(frame, Stream)'
    BY <2>1, <2>3 DEF Spanning
  <2> QED  BY <1>5, <2>4 DEF Reading
<1> QED  BY <1>2, <1>3, <1>4, <1>5 DEF Reading

(* A byte that arrives is still to be received.                           *)
LEMMA ArriveKeeps ==
  ASSUME TypeInv, Arrive
  PROVE  Stream' = Stream
<1>1. /\ wire # <<>> /\ wire \in Seq(Token) /\ buffer \in Seq(Token)
      /\ buffer' = Append(buffer, Head(wire)) /\ wire' = Tail(wire)
  BY StreamTypes DEF Arrive
<1>2. Head(wire) \in Token /\ Tail(wire) \in Seq(Token) /\ <<Head(wire)>> \in Seq(Token)
  BY <1>1, HeadTailProperties
<1>3. <<Head(wire)>> \o Tail(wire) = wire
  BY <1>1, <1>2
<1>4. buffer' = buffer \o <<Head(wire)>>
  BY <1>1, <1>2, AppendIsConcat
<1>5. (buffer \o <<Head(wire)>>) \o Tail(wire) = buffer \o (<<Head(wire)>> \o Tail(wire))
  BY <1>1, <1>2, Associative
<1> QED  BY <1>1, <1>3, <1>4, <1>5 DEF Stream

LEMMA BoundaryStep == Bounded /\ [Next]_vars => BoundaryOK'
<1> SUFFICES ASSUME Bounded, [Next]_vars  PROVE BoundaryOK'
  OBVIOUS
<1>1. /\ TypeInv /\ CleanLine /\ (Server \/ Resync) /\ BoundaryOK
      /\ setup' = setup /\ Line' = Line /\ Server' = Server
  BY SetupKept, SameLine DEF Bounded
<1>2. ASSUME Stream' = Stream
      PROVE  /\ StreamOK' /\ (Fresh(Stream) <=> Fresh(Stream)') /\ (AtStart(Stream) <=> AtStart(Stream)')
             /\ frame' = frame /\ (mode' = "stray" => mode = "stray") /\ Reading => Reading'
  BY <1>1, <1>2 DEF StreamOK, BoundaryOK, Fresh, AtStart, Marked, Reading, Within, CutOff, Spanning
<1>3. CASE Start
  <2>1. /\ mode = "idle" /\ frame' = <<>> /\ mode' \in {"exact", "drain"} /\ Stream' = Stream
        /\ mode' = "exact" => Server \/ ~Resync \/ ~MayLeaveBytes(result)
    BY <1>3 DEF Start, Stream
  <2>2. mode' = "exact" => Fresh(Stream)'
    BY <1>1, <1>2, <2>1 DEF BoundaryOK
  <2> QED  BY <1>2, <2>1, <2>2 DEF BoundaryOK, Reading
<1>4. ASSUME mode = "drain", EndDrain, Fresh(Stream), Stream' = Stream  PROVE BoundaryOK'
  <2>1. frame' = frame /\ mode' = IF Server THEN "idle" ELSE "exact"
    BY <1>4 DEF EndDrain
  <2>2. ~Server => frame' = <<>>
    BY <1>1, <1>4, <2>1 DEF TypeInv, ResultOK
  <2> QED  BY <1>1, <1>4, <2>1, <2>2, EndsFresh
<1>5. ASSUME mode \in {"gap", "stray"}, EndIdle(frame), Fresh(Stream), Stream' = Stream
      PROVE  BoundaryOK'
  <2>1. \/ mode' = "exact" /\ frame' = <<>>
        \/ mode' \in {"idle", "drain"} /\ frame' = frame
    BY <1>5 DEF EndIdle, Await, Finish
  <2> QED  BY <1>1, <1>5, <2>1, EndsFresh
<1>6. CASE GapOver
  <2>1. Fresh(Stream) /\ Stream' = Stream
    BY <1>6, SilenceIsFresh DEF GapOver, Stream
  <2>2. CASE mode = "drain"
    BY <1>4, <1>6, <2>1, <2>2 DEF GapOver
  <2>3. CASE mode # "drain"
    BY <1>5, <1>6, <2>1, <2>3 DEF GapOver, WaitsForGap
  <2> QED  BY <2>2, <2>3
<1>7. CASE EndOfStream
  <2>1. Fresh(Stream) /\ Stream' = Stream /\ mode \in {"exact", "gap", "stray", "drain"}
    BY <1>1, <1>7, SilenceIsFresh DEF EndOfStream, Stream, TypeInv, Modes
  <2>2. CASE mode = "drain" /\ Server
    BY <1>4, <1>7, <2>1, <2>2 DEF EndOfStream
  <2>3. CASE mode \in {"gap", "stray"}
    BY <1>5, <1>7, <2>1, <2>3 DEF EndOfStream
  <2>4. CASE mode = "exact" \/ (mode = "drain" /\ ~Server)
    <3>1. mode' = "idle" /\ frame' = frame
      BY <1>7, <2>4 DEF EndOfStream, Finish
    <3> QED  BY <1>1, <2>1, <3>1, EndsFresh
  <2> QED  BY <2>1, <2>2, <2>3, <2>4
<1>8. CASE Expire
  <2>1. ~Server /\ mode' = "idle" /\ result' = "timeout" /\ frame' = frame /\ Stream' = Stream
    BY <1>8 DEF Expire, Finish, Stream
  <2> QED  BY <1>1, <1>2, <2>1 DEF BoundaryOK, MayLeaveBytes
<1>9. CASE ReceiveDrain
  <2>1. /\ mode = "drain" /\ mode' = mode /\ frame' = frame /\ buffer' = <<>> /\ wire' = wire
        /\ buffer # <<>>
    BY <1>9 DEF ReceiveDrain
  <2>2. /\ Len(buffer) \in Nat \ {0} /\ buffer \in Seq(Token) /\ wire \in Seq(Token)
    BY <1>1, <2>1, StreamTypes, EmptySeq
  <2>3. Stream' = wire
    BY <2>1, <2>2, ConcatEmptySeq DEF Stream
  <2>4. StreamOK'
    <3> SUFFICES ASSUME NEW i \in 1..Len(wire)  PROVE wire[i].b = Pause <=> i = Len(wire)
      BY <2>3 DEF StreamOK
    <3>1. /\ Len(Stream) = Len(buffer) + Len(wire) /\ Stream[Len(buffer) + i] = wire[i]
          /\ Len(wire) \in Nat
      BY <1>1, StreamTypes
    <3>2. Len(buffer) + i \in 1..Len(Stream)
      BY <2>2, <3>1
    <3>3. Stream[Len(buffer) + i].b = Pause <=> Len(buffer) + i = Len(Stream)
      BY <1>1, <3>2 DEF BoundaryOK, StreamOK
    <3> QED  BY <2>2, <3>1, <3>3
  <2> QED  BY <1>1, <2>1, <2>4 DEF BoundaryOK
<1>10. CASE Arrive
  <2>1. Stream' = Stream
    BY <1>1, <1>10, ArriveKeeps
  <2>2. UNCHANGED <<mode, frame, result>>
    BY <1>10 DEF Arrive
  <2> QED  BY <1>1, <1>2, <2>1, <2>2 DEF BoundaryOK, MayLeaveBytes
<1>11. CASE CloseLine \/ UNCHANGED vars
  <2>1. UNCHANGED <<mode, frame, result>> /\ Stream' = Stream
    BY <1>11 DEF CloseLine, vars, Stream
  <2> QED  BY <1>1, <1>2, <2>1 DEF BoundaryOK, MayLeaveBytes
<1>12. ASSUME NEW t \in Line, Transmit(t)  PROVE BoundaryOK'
  <2>1. /\ wire = <<>> /\ wire' = Marked(t) /\ UNCHANGED <<buffer, mode, frame, result>>
    BY <1>12 DEF Transmit
  <2>2. /\ buffer \in Seq(Token) /\ Len(buffer) \in Nat /\ Len(Stream) = Len(buffer)
        /\ \A i \in 1..Len(buffer) : Stream[i] = buffer[i] /\ buffer[i].b # Pause
    <3>1. Len(wire) = 0
      BY <2>1, EmptySeq
    <3> QED  BY <1>1, <3>1, StreamTypes DEF IsByte
  <2>3. Len(buffer) \notin 1..Len(buffer)
    BY <1>1, <2>2 DEF BoundaryOK, StreamOK
  <2>4. buffer = <<>>
    BY <2>2, <2>3, EmptySeq
  <2>5. Marked(t) \in Seq(Token) /\ <<>> \in Seq(Token)
    BY <1>1, LineMarked, MarkedProperties, EmptySeq
  <2>6. Stream = <<>> /\ Stream' = Marked(t)
    BY <2>1, <2>4, <2>5, ConcatEmptySeq DEF Stream
  <2>7. AtStart(Stream') /\ Fresh(Stream)'
    BY <1>1, <2>6 DEF AtStart, Fresh
  <2>8. StreamOK'
    <3>1. /\ Len(Marked(t)) = Len(t)
          /\ \A i \in 1..Len(t) : Marked(t)[i].b = t[i] /\ (t[i] = Pause <=> i = Len(t))
      BY <1>1, LineMarked DEF Paused
    <3> QED  BY <2>6, <3>1 DEF StreamOK
  <2>9. ~Within(frame, Stream)
    <3> SUFFICES ASSUME NEW u \in Line, frame \o Stream = Marked(u)  PROVE FALSE
      BY DEF Within
    <3>1. Len(Stream) >= 1
      BY <1>1, <2>5, <2>6, PauseLeft DEF TypeInv
    <3> QED  BY <2>6, <3>1, EmptySeq
  <2>10. mode \in {"exact", "gap", "stray"} => Reading'
    BY <1>1, <2>1, <2>5, <2>6, <2>7, <2>9, ReadingOn DEF BoundaryOK
  <2> QED  BY <1>1, <2>1, <2>7, <2>8, <2>10 DEF BoundaryOK
<1>13. CASE PauseOver
  <2>1. /\ wire # <<>> /\ buffer = <<>> /\ wire' = Tail(wire) /\ ~IsByte(Head(wire).b)
        /\ UNCHANGED <<buffer, mode, frame, result>> /\ ~WaitsForGap
    BY <1>13 DEF PauseOver
  <2>2. Len(wire) = 1 /\ wire \in Seq(Token)
    BY <1>1, <2>1, SilenceIsFresh, StreamTypes
  <2>3. Stream = wire /\ wire[1].b = Pause
    BY <2>1, <2>2, ConcatEmptySeq DEF Stream, IsByte
  <2>4. wire' = <<>> /\ <<>> \in Seq(Token)
    BY <2>1, <2>2, HeadTailProperties, EmptySeq
  <2>5. Stream' = <<>>
    BY <2>1, <2>4, ConcatEmptySeq DEF Stream
  <2>6. AtStart(Stream') /\ Fresh(Stream)' /\ StreamOK'
    BY <2>5, EmptySeq DEF AtStart, Fresh, StreamOK
  <2>7. Within(frame, Stream) => mode # "stray"
    <3> SUFFICES ASSUME mode = "stray", NEW u \in Line, frame \o Stream = Marked(u)  PROVE FALSE
      BY DEF Within
    <3>1. Len(frame) \in Nat /\ Len(u) = Len(frame) + Len(Stream)
      BY <1>1, <2>2, <2>3, PauseLeft DEF TypeInv
    <3>2. HeadLen <= Len(frame) /\ ~(Len(frame) > HeadLen) /\ ~Server
      BY <1>1, <2>1 DEF TypeInv, InTail, ResultOK, WaitsForGap
    <3>3. HeadLen + 1 < Len(u)
      BY <1>1, <3>2, LineMarked
    <3>4. Len(u) = Len(frame) + 1
      BY <2>2, <2>3, <3>1
    <3>5. \A x \in Nat : ~(2 <= x /\ ~(x > 2) /\ 2 + 1 < x + 1)
      OBVIOUS
    <3> QED  BY <3>1, <3>2, <3>3, <3>4, <3>5
  <2>8. mode \in {"exact", "gap", "stray"} => Reading'
    BY <1>1, <2>1, <2>2, <2>3, <2>4, <2>5, <2>6, <2>7, ReadingOn DEF BoundaryOK
  <2> QED  BY <1>1, <2>1, <2>6, <2>8 DEF BoundaryOK
<1> QED  BY <1>1, <1>3, <1>6, <1>7, <1>8, <1>9, <1>10, <1>11, <1>12, <1>13, ExactBounded,
            UntilIdleBounded DEF Next, ReaderStep, LineStep, Line

BoundaryInv == CleanLine /\ (Server \/ Resync) => BoundaryOK

LEMMA BoundaryInvariant == Spec => [](TypeInv /\ BoundaryInv)
<1>1. Init => BoundaryInv
  <2> SUFFICES ASSUME Init  PROVE BoundaryOK
    BY DEF BoundaryInv
  <2>1. buffer = <<>> /\ wire = <<>> /\ frame = <<>> /\ mode = "idle"
    BY DEF Init
  <2>2. Stream = <<>> /\ Len(<<>>) = 0
    BY <2>1, EmptySeq, ConcatEmptySeq DEF Stream
  <2> QED  BY <2>1, <2>2 DEF BoundaryOK, StreamOK, Fresh, AtStart
<1>2. TypeInv /\ BoundaryInv /\ [Next]_vars => (TypeInv /\ BoundaryInv)'
  <2> SUFFICES ASSUME TypeInv, BoundaryInv, [Next]_vars, (CleanLine /\ (Server \/ Resync))'
               PROVE  BoundaryOK'
    BY TypeStep DEF BoundaryInv
  <2>1. setup' = setup /\ Line' = Line /\ Server' = Server /\ Resync' = Resync
    BY SetupKept, SameLine
  <2>2. CleanLine' <=> CleanLine
    BY <2>1 DEF CleanLine, DamageShows
  <2> QED  BY <2>1, <2>2, BoundaryStep DEF BoundaryInv, Bounded
<1> QED  BY <1>1, <1>2, InitTypes, TypeStep, PTL DEF Spec

(* On the line of the protocol, whatever is damaged on it, a server and a  *)
(* client that resynchronises begin to read where a transmission begins.   *)
THEOREM AtBoundary == Spec => [](CleanLine => StartsAtBoundary)
<1>1. TypeInv /\ BoundaryInv => (CleanLine => StartsAtBoundary)
  BY DEF BoundaryInv, BoundaryOK, StartsAtBoundary
<1> QED  BY <1>1, BoundaryInvariant, PTL

(* There, draining another slave's frame takes nothing of the awaited one; *)
(* with a pause within a frame it may (_read_raw_adu).                     *)
THEOREM StraySpared == Spec => [](CleanLine /\ Resync => StraySparesReply)
<1>1. TypeInv /\ BoundaryInv => (CleanLine /\ Resync => StraySparesReply)
  <2> SUFFICES ASSUME TypeInv, CleanLine, BoundaryOK, mode = "stray", NEW i \in 2..Len(frame)
               PROVE  ~frame[i].start
    BY DEF BoundaryInv, StraySparesReply
  <2>1. HeadLen <= Len(frame) /\ Len(frame) \in Nat
    BY StreamTypes DEF TypeInv, InTail
  <2>2. frame # <<>>
    BY <2>1, EmptySeq
  <2>3. PICK t \in Line : All = Marked(t)
    BY <2>2 DEF BoundaryOK, Reading, Within, All
  <2>4. /\ Len(All) = Len(frame) + Len(Stream) /\ Len(Stream) \in Nat
        /\ All[i] = frame[i]
    BY <2>1, AllTypes
  <2>5. i \in 1..Len(t) /\ i # 1
    BY <2>1, <2>3, <2>4, LineMarked
  <2> QED  BY <2>3, <2>4, <2>5, LineMarked
<1> QED  BY <1>1, BoundaryInvariant, PTL
-----------------------------------------------------------------------------
(* Counting the bytes of a transmission                                    *)

LEMMA CountProperties ==
  ASSUME NEW t, NEW k \in Nat
  PROVE  /\ IsFiniteSet({i \in 1..k : IsByte(t[i])}) /\ BytesIn(t, k) \in Nat /\ BytesIn(t, k) <= k
         /\ BytesIn(t, 0) = 0
<1>1. IsFiniteSet(1..k) /\ Cardinality(1..k) = k
  BY FS_Interval
<1>2. {i \in 1..k : IsByte(t[i])} \in SUBSET (1..k)
  OBVIOUS
<1>3. /\ IsFiniteSet({i \in 1..k : IsByte(t[i])})
      /\ Cardinality({i \in 1..k : IsByte(t[i])}) <= Cardinality(1..k)
  BY <1>1, <1>2, FS_Subset
<1>4. BytesIn(t, k) \in Nat
  BY <1>3, FS_CardinalityType DEF BytesIn
<1>5. {i \in 1..0 : IsByte(t[i])} = {}
  OBVIOUS
<1>6. BytesIn(t, 0) = 0
  BY <1>5, FS_EmptySet DEF BytesIn
<1> QED  BY <1>1, <1>3, <1>4, <1>6 DEF BytesIn

LEMMA CountMonotone ==
  ASSUME NEW t, NEW k \in Nat, NEW j \in 0..k
  PROVE  BytesIn(t, j) <= BytesIn(t, k)
<1>1. {i \in 1..j : IsByte(t[i])} \in SUBSET {i \in 1..k : IsByte(t[i])}
  OBVIOUS
<1> QED  BY <1>1, CountProperties, FS_Subset DEF BytesIn

LEMMA PauseNotCounted ==
  ASSUME NEW t, NEW k \in Nat, ~IsByte(t[k + 1])
  PROVE  BytesIn(t, k + 1) = BytesIn(t, k)
<1>1. {i \in 1..(k + 1) : IsByte(t[i])} = {i \in 1..k : IsByte(t[i])}
  OBVIOUS
<1> QED  BY <1>1 DEF BytesIn

LEMMA BytesCounted ==
  ASSUME NEW t, NEW k \in Nat, NEW n \in Nat, \A i \in 1..n : IsByte(t[k + i])
  PROVE  BytesIn(t, k + n) = BytesIn(t, k) + n
<1> DEFINE A == {i \in 1..k : IsByte(t[i])}
           B == (k + 1)..(k + n)
<1>1. {i \in 1..(k + n) : IsByte(t[i])} = A \cup B
  <2>1. ASSUME NEW i \in B  PROVE IsByte(t[i])
    <3>1. i - k \in 1..n /\ k + (i - k) = i
      BY <2>1
    <3> QED  BY <3>1
  <2>2. B \subseteq 1..(k + n)
    OBVIOUS
  <2>3. \A i \in 1..(k + n) : i \in 1..k \/ i \in B
    OBVIOUS
  <2>4. 1..k \subseteq 1..(k + n)
    OBVIOUS
  <2> HIDE DEF B
  <2> QED  BY <2>1, <2>2, <2>3, <2>4
<1>2. IsFiniteSet(A) /\ Cardinality(A) = BytesIn(t, k) /\ BytesIn(t, k) \in Nat
  BY CountProperties DEF BytesIn
<1>3. IsFiniteSet(B) /\ Cardinality(B) = n
  <2>1. k + 1 \in Int /\ k + n \in Int
    OBVIOUS
  <2>2. IsFiniteSet(B) /\ Cardinality(B) = IF k + 1 > k + n THEN 0 ELSE (k + n) - (k + 1) + 1
    BY <2>1, FS_Interval
  <2> HIDE DEF B
  <2> QED  BY <2>2
<1>4. A \cap B = {}
  OBVIOUS
<1> HIDE DEF A, B
<1>5. Cardinality(A \cup B) = Cardinality(A) + Cardinality(B) - Cardinality(A \cap B)
  BY <1>2, <1>3, FS_Union
<1>6. Cardinality(A \cap B) = 0
  BY <1>4, FS_EmptySet
<1>7. BytesIn(t, k + n) = Cardinality(A \cup B)
  BY <1>1 DEF BytesIn
<1>8. \A x, y \in Nat : x + y - 0 = x + y
  OBVIOUS
<1> QED  BY <1>2, <1>3, <1>5, <1>6, <1>7, <1>8

-----------------------------------------------------------------------------
(* Frames that are whole                                                   *)

(* A frame the reader can tell the length of: the tables or the byte count *)
(* say how long it is, or it has room and no pause.                        *)
FitsReader(t, a) ==
  /\ HeadLen <= Len(a)
  /\ Server \/ a[1] = Address =>
       /\ Server \/ a[2] # 0
       /\ IF HasLength(a[2]) THEN ~CountTooLarge(a) /\ Len(a) = Target(a)
          ELSE /\ HeadLen + CrcLen <= Len(a) /\ Len(a) <= HeadLen + MaxTail
               /\ \A i \in (HeadLen + 1)..(Len(t) - 1) : t[i] # Pause

FramesFit ==
  \A t \in Line : /\ Len(t) > 0 /\ t[Len(t)] = Pause
                  /\ \A a \in Adus : Carries(t, a) => FitsReader(t, a)

(* The bytes s begin the frame a.                                          *)
Begins(s, a) == Len(s) <= Len(a) /\ \A i \in 1..Len(s) : s[i] = a[i]

(* Of t, which is still to be received from s, k have been.                *)
Ahead(s, t, k) == Len(s) = Len(t) - k /\ \A i \in 1..Len(s) : s[i] = Marked(t)[k + i]

(* A frame begun with the first byte of an undamaged one is as much of that*)
(* as has been received.                                                   *)
Coming(f, s, t, a, k) ==
  Carries(t, a) /\ Ahead(s, t, k) /\ Len(f) = BytesIn(t, k) /\ \A i \in 1..Len(f) : f[i].b = a[i]

IsWhole(f) == f # <<>> /\ f[1].start /\ f[1].whole

AheadOK  == Stream = <<>> \/ \E t \in Line : \E k \in 0..Len(t) : Ahead(Stream, t, k)
ComingOK == mode \in {"exact", "gap"} /\ IsWhole(frame) =>
              \E t \in Line : \E a \in Adus : \E k \in 0..(Len(t) - 1) : Coming(frame, Stream, t, a, k)
TableOK  == mode = "gap" => NextMode(Bytes(frame)) = "gap"
ErrorOK  == result \in Errors => ~IsWhole(frame)

WholeOK == AheadOK /\ ComingOK /\ TableOK /\ ErrorOK

Fitting == TypeInv /\ FramesFit /\ WholeOK

(* Bytes of a frame that fits are never taken for an error.                *)
LEMMA PrefixAccepted ==
  ASSUME setup \in Setups, NEW t, NEW a \in Adus, FitsReader(t, a), NEW s \in Seq(Byte), Begins(s, a)
  PROVE  /\ NextMode(s) \in {"exact", "stray", "gap", "ok"}
         /\ NextMode(s) = "exact" => Len(s) < Len(a)
         /\ NextMode(s) = "gap" => ~HasLength(a[2]) /\ (Server \/ a[1] = Address)
<1>1. /\ Len(s) \in Nat /\ Len(a) \in Nat /\ a \in Seq(Byte) /\ Server \in BOOLEAN
      /\ Len(s) <= Len(a) /\ HeadLen <= Len(a)
      /\ \A i \in 1..Len(s) : s[i] = a[i]
  BY FramerAssumption, SetupTypes, LenProperties DEF FitsReader, Begins
<1>2. CASE Len(s) < HeadLen
  BY <1>1, <1>2 DEF NextMode
<1>3. CASE Len(s) >= HeadLen
  <2>1. s[1] = a[1] /\ s[2] = a[2] /\ ~(Len(s) < HeadLen) /\ ~(Len(a) < HeadLen)
    BY <1>1, <1>3
  <2>2. CASE ~Server /\ a[1] # Address
    BY <2>1, <2>2 DEF NextMode
  <2>3. CASE (Server \/ a[1] = Address) /\ ~HasLength(a[2])
    BY <2>1, <2>3 DEF NextMode, FitsReader
  <2>4. CASE (Server \/ a[1] = Address) /\ HasLength(a[2])
    <3> DEFINE at == CountAt(a[2])
    <3>1. at \in Nat
      BY <1>1 DEF CountAt, RequestByteCountPrefix
    <3>2. ~CountTooLarge(a) /\ Len(a) = Target(a) /\ (Server \/ a[2] # 0)
      BY <2>4 DEF FitsReader
    <3>3. ~CountTooLarge(s)
      <4> SUFFICES ASSUME at # 0, Len(s) >= at, s[at] > MaxByteCount  PROVE FALSE
        BY <2>1 DEF CountTooLarge
      <4>1. at \in 1..Len(s) /\ Len(a) >= at
        BY <1>1, <3>1
      <4>2. a[at] > MaxByteCount
        BY <1>1, <4>1
      <4> QED  BY <3>2, <4>1, <4>2 DEF CountTooLarge
    <3>4. ~(Len(s) < Target(s)) => Len(s) = Len(a)
      <4> SUFFICES ASSUME ~(Len(s) < Target(s))  PROVE Len(s) = Len(a)
        OBVIOUS
      <4>1. CASE at = 0
        <5>1. Target(s) = FixedLength(a[2]) /\ Target(a) = FixedLength(a[2])
          BY <2>1, <4>1 DEF Target
        <5> QED  BY <1>1, <3>2, <5>1
      <4>2. CASE at # 0
        <5>1. Target(s) = IF Len(s) < at THEN at ELSE at + s[at] + CrcLen
          BY <2>1, <4>2 DEF Target
        <5>2. Target(a) = IF Len(a) < at THEN at ELSE at + a[at] + CrcLen
          BY <2>1, <4>2 DEF Target
        <5>3. ~(Len(s) < at)
          BY <5>1
        <5>4. at \in 1..Len(s) /\ ~(Len(a) < at)
          BY <1>1, <3>1, <4>2, <5>3
        <5>5. Target(s) = Target(a)
          BY <1>1, <5>1, <5>2, <5>3, <5>4
        <5> QED  BY <1>1, <3>2, <5>5
      <4> QED  BY <4>1, <4>2
    <3>5. Len(s) = Len(a) => s = a
      BY <1>1, SeqEqual
    <3>6. CASE Len(s) < Target(s)
      <4>1. NextMode(s) = "exact"
        BY <2>1, <2>4, <3>2, <3>3, <3>6 DEF NextMode
      <4>2. Len(s) # Len(a)
        BY <1>1, <3>2, <3>5, <3>6
      <4> QED  BY <1>1, <4>1, <4>2
    <3>7. CASE ~(Len(s) < Target(s))
      <4>1. s \in Adus
        BY <3>4, <3>5, <3>7
      <4>2. NextMode(s) = "ok"
        BY <2>1, <2>4, <3>2, <3>3, <3>7, <4>1 DEF NextMode, VerifyCrc
      <4> QED  BY <4>2
    <3> QED  BY <3>6, <3>7
  <2> QED  BY <2>2, <2>3, <2>4
<1> QED  BY <1>1, <1>2, <1>3

(* Once all its bytes have been received, the frame is verified.           *)
LEMMA ComingFits ==
  ASSUME setup \in Setups, FramesFit, NEW t \in Line, NEW a \in Adus, NEW k \in 0..(Len(t) - 1),
         NEW s, NEW f \in Seq(ByteToken), Coming(f, s, t, a, k)
  PROVE  /\ FitsReader(t, a) /\ Begins(Bytes(f), a) /\ Bytes(f) \in Seq(Byte)
         /\ Len(Bytes(f)) = Len(f) /\ Len(f) \in Nat /\ Len(a) \in Nat /\ Len(t) \in Nat
         /\ Len(f) <= k
         /\ k + 1 = Len(t) => Len(f) = Len(a)
         /\ Len(f) = Len(a) => Bytes(f) \in Adus
<1>1. /\ Len(t) \in Nat /\ k \in Nat /\ k + 1 <= Len(t) /\ k \in 0..Len(t)
      /\ Len(t) > 0 /\ t[Len(t)] = Pause /\ FitsReader(t, a)
  <2>1. t \in Seq(Byte \cup {Pause})
    BY SetupTypes DEF Line
  <2>2. Len(t) \in Nat
    BY <2>1, LenProperties
  <2> QED  BY <2>2 DEF FramesFit, Coming
<1>2. a \in Seq(Byte) /\ Len(a) \in Nat
  BY FramerAssumption, LenProperties
<1>3. /\ Bytes(f) \in Seq(Byte) /\ Len(Bytes(f)) = Len(f) /\ Len(f) \in Nat
      /\ \A i \in 1..Len(f) : Bytes(f)[i] = f[i].b
  BY BytesProperties, LenProperties
<1>4. /\ Len(f) = BytesIn(t, k) /\ Len(a) = BytesIn(t, Len(t))
      /\ \A i \in 1..Len(f) : f[i].b = a[i]
  BY DEF Coming, Carries
<1>5. BytesIn(t, k) <= BytesIn(t, Len(t))
  BY <1>1, CountMonotone
<1>6. Begins(Bytes(f), a)
  BY <1>3, <1>4, <1>5 DEF Begins
<1>7. Len(f) <= k
  BY <1>1, <1>4, CountProperties
<1>8. ASSUME k + 1 = Len(t)  PROVE Len(f) = Len(a)
  <2>1. BytesIn(t, k + 1) = BytesIn(t, k)
    <3>1. ~IsByte(t[k + 1])
      BY <1>1, <1>8 DEF IsByte
    <3> QED  BY <1>1, <3>1, PauseNotCounted
  <2> QED  BY <1>4, <1>8, <2>1
<1>9. ASSUME Len(f) = Len(a)  PROVE Bytes(f) = a
  BY <1>2, <1>3, <1>4, <1>9, SeqEqual
<1> QED  BY <1>1, <1>2, <1>3, <1>6, <1>7, <1>8, <1>9

(* The bytes ahead, and those that a receive takes.                        *)
LEMMA AheadProperties ==
  ASSUME setup \in Setups, FramesFit, NEW t \in Line, NEW k \in 0..Len(t), NEW s, Ahead(s, t, k)
  PROVE  /\ Len(t) \in Nat /\ Len(t) > 0 /\ t[Len(t)] = Pause /\ k \in Nat /\ k <= Len(t)
         /\ Len(s) = Len(t) - k /\ Len(s) \in Nat
         /\ \A i \in 1..Len(s) : /\ s[i].b = t[k + i]
                                 /\ s[i].start = (k + i = 1)
                                 /\ s[i].whole = Whole(t)
<1>1. t \in Seq(Byte \cup {Pause})
  BY SetupTypes DEF Line
<1>2. /\ Len(t) \in Nat /\ Len(t) > 0 /\ t[Len(t)] = Pause
      /\ \A i \in 1..Len(t) : Marked(t)[i] = [b |-> t[i], start |-> i = 1, whole |-> Whole(t)]
  BY <1>1, MarkedProperties DEF FramesFit
<1>3. k \in Nat /\ k <= Len(t) /\ Len(s) = Len(t) - k /\ Len(s) \in Nat
  BY <1>2 DEF Ahead
<1>4. ASSUME NEW i \in 1..Len(s)
      PROVE  s[i].b = t[k + i] /\ s[i].start = (k + i = 1) /\ s[i].whole = Whole(t)
  <2>1. k + i \in 1..Len(t)
    BY <1>2, <1>3, <1>4
  <2>2. s[i] = [b |-> t[k + i], start |-> k + i = 1, whole |-> Whole(t)]
    BY <1>2, <1>4, <2>1 DEF Ahead
  <2> QED  BY <2>2
<1> QED  BY <1>2, <1>3, <1>4

LEMMA AheadDrop ==
  ASSUME setup \in Setups, FramesFit, NEW t \in Line, NEW k \in 0..Len(t), NEW s, Ahead(s, t, k),
         NEW n \in 0..Len(s), NEW r, Len(r) = Len(s) - n, \A i \in 1..Len(r) : r[i] = s[n + i]
  PROVE  k + n \in 0..Len(t) /\ Ahead(r, t, k + n)
<1>1. /\ Len(t) \in Nat /\ k \in Nat /\ k <= Len(t) /\ Len(s) = Len(t) - k /\ Len(s) \in Nat
  BY AheadProperties
<1>2. n \in Nat /\ n <= Len(s) /\ k + n \in 0..Len(t) /\ Len(r) = Len(t) - (k + n)
  BY <1>1
<1>3. ASSUME NEW i \in 1..Len(r)  PROVE r[i] = Marked(t)[(k + n) + i]
  <2>1. n + i \in 1..Len(s) /\ k + (n + i) = (k + n) + i
    BY <1>1, <1>2, <1>3
  <2> QED  BY <1>3, <2>1 DEF Ahead
<1> QED  BY <1>2, <1>3 DEF Ahead

LEMMA Advance ==
  ASSUME TypeInv, FramesFit, NEW t \in Line, NEW k \in 0..Len(t), Ahead(Stream, t, k),
         NEW n \in 1..Len(buffer), NEW f, Takes(f, n)
  PROVE  /\ k + n \in 0..(Len(t) - 1) /\ Ahead(Stream', t, k + n)
         /\ BytesIn(t, k + n) = BytesIn(t, k) + n
         /\ \A a : Carries(t, a) => \A i \in 1..n : f[Len(frame) + i].b = a[BytesIn(t, k) + i]
<1>1. setup \in Setups
  BY DEF TypeInv
<1>2. /\ Len(t) \in Nat /\ k \in Nat /\ t[Len(t)] = Pause /\ Len(t) > 0
      /\ Len(Stream) = Len(t) - k /\ Len(Stream) \in Nat
      /\ \A i \in 1..Len(Stream) : Stream[i].b = t[k + i]
  BY <1>1, AheadProperties
<1>3. /\ Len(buffer) \in Nat /\ Len(Stream) = Len(buffer) + Len(wire) /\ Len(wire) \in Nat
      /\ \A i \in 1..Len(buffer) : Stream[i] = buffer[i] /\ IsByte(buffer[i].b)
  BY StreamTypes
<1>4. /\ Len(Stream') = Len(Stream) - n /\ \A i \in 1..Len(Stream') : Stream'[i] = Stream[n + i]
      /\ \A i \in 1..n : f[Len(frame) + i] = buffer[i]
  BY TakesKeeps
<1>5. n \in Nat /\ n >= 1 /\ n \in 0..Len(Stream)
  BY <1>2, <1>3
<1>6. Ahead(Stream', t, k + n)
  BY <1>1, <1>4, <1>5, AheadDrop
<1>7. ASSUME NEW i \in 1..n
      PROVE  IsByte(t[k + i]) /\ f[Len(frame) + i].b = t[k + i] /\ k + i \in 1..Len(t) /\ k + i # Len(t)
  <2>1. i \in 1..Len(buffer) /\ i \in 1..Len(Stream)
    BY <1>3, <1>5, <1>7
  <2>2. IsByte(t[k + i]) /\ f[Len(frame) + i].b = t[k + i]
    BY <1>2, <1>3, <1>4, <1>7, <2>1
  <2>3. k + i \in 1..Len(t)
    BY <1>2, <2>1
  <2> QED  BY <1>2, <2>2, <2>3 DEF IsByte
<1>8. k + n \in 0..(Len(t) - 1)
  <2>1. n \in 1..n
    BY <1>5
  <2> QED  BY <1>2, <1>5, <1>7, <2>1
<1>9. \A i \in 0..n : BytesIn(t, k + i) = BytesIn(t, k) + i
  <2> SUFFICES ASSUME NEW i \in 0..n  PROVE BytesIn(t, k + i) = BytesIn(t, k) + i
    OBVIOUS
  <2>1. i \in Nat /\ \A j \in 1..i : IsByte(t[k + j])
    BY <1>5, <1>7
  <2> QED  BY <1>2, <2>1, BytesCounted
<1>10. ASSUME NEW a, Carries(t, a), NEW i \in 1..n
       PROVE  f[Len(frame) + i].b = a[BytesIn(t, k) + i]
  <2>1. IsByte(t[k + i]) /\ f[Len(frame) + i].b = t[k + i] /\ k + i \in 1..Len(t)
    BY <1>7, <1>10
  <2>2. BytesIn(t, k + i) = BytesIn(t, k) + i
    BY <1>5, <1>9
  <2>3. t[k + i] = a[BytesIn(t, k + i)]
    <3>1. DOMAIN t = 1..Len(t)
      BY <1>1, SetupTypes, LenProperties DEF Line
    <3> QED  BY <1>10, <2>1, <3>1 DEF Carries
  <2> QED  BY <2>1, <2>2, <2>3
<1>11. BytesIn(t, k + n) = BytesIn(t, k) + n
  BY <1>5, <1>9
<1> QED  BY <1>6, <1>8, <1>10, <1>11

(* A receive takes the next bytes of the frame that is coming.             *)
LEMMA ComingGrows ==
  ASSUME TypeInv, FramesFit, AheadOK, ComingOK, mode \in {"exact", "gap"},
         NEW n \in 1..Len(buffer), NEW f, Takes(f, n), IsWhole(f)
  PROVE  \E t \in Line : \E a \in Adus : \E k \in 0..(Len(t) - 1) : Coming(f, Stream', t, a, k)
<1>1. setup \in Setups
  BY DEF TypeInv
<1>2. /\ Len(f) = Len(frame) + n /\ n \in Nat /\ n >= 1 /\ Len(frame) \in Nat
      /\ \A i \in 1..Len(frame) : f[i] = frame[i]
      /\ \A i \in 1..n : f[Len(frame) + i] = buffer[i]
  BY TakesKeeps, StreamTypes
<1>3. ASSUME NEW t \in Line, NEW a \in Adus, NEW k \in 0..Len(t), Carries(t, a), Ahead(Stream, t, k),
             Len(frame) = BytesIn(t, k), \A i \in 1..Len(frame) : frame[i].b = a[i]
      PROVE  k + n \in 0..(Len(t) - 1) /\ Coming(f, Stream', t, a, k + n)
  <2>1. /\ k + n \in 0..(Len(t) - 1) /\ Ahead(Stream', t, k + n) /\ BytesIn(t, k + n) = BytesIn(t, k) + n
        /\ \A i \in 1..n : f[Len(frame) + i].b = a[BytesIn(t, k) + i]
    BY <1>3, Advance
  <2>2. ASSUME NEW i \in 1..Len(f)  PROVE f[i].b = a[i]
    <3>1. CASE i \in 1..Len(frame)
      BY <1>2, <1>3, <3>1
    <3>2. CASE i \notin 1..Len(frame)
      <4>1. i - Len(frame) \in 1..n /\ Len(frame) + (i - Len(frame)) = i
        BY <1>2, <2>2, <3>2
      <4> QED  BY <1>3, <2>1, <4>1
    <3> QED  BY <3>1, <3>2
  <2>3. Len(f) = BytesIn(t, k + n)
    BY <1>2, <1>3, <2>1
  <2> QED  BY <1>3, <2>1, <2>2, <2>3 DEF Coming
<1>4. CASE frame = <<>>
  <2>1. /\ Len(buffer) \in Nat /\ 1 \in 1..Len(buffer) /\ Len(frame) = 0
        /\ 1 \in 1..Len(Stream) /\ Stream[1] = buffer[1] /\ f[1] = buffer[1]
    <3>1. Len(frame) = 0
      BY <1>4, EmptySeq
    <3>2. 1 \in 1..Len(buffer) /\ 1 \in 1..n /\ Len(frame) + 1 = 1
      BY <1>2, <3>1
    <3>3. f[1] = buffer[1]
      BY <1>2, <3>2
    <3> QED  BY <3>1, <3>2, <3>3, StreamTypes
  <2>2. Stream # <<>>
    BY <2>1, EmptySeq
  <2>3. PICK t \in Line : \E k \in 0..Len(t) : Ahead(Stream, t, k)
    BY <2>2 DEF AheadOK
  <2>4. PICK k \in 0..Len(t) : Ahead(Stream, t, k)
    BY <2>3
  <2>5. k \in Nat /\ Stream[1].start = (k + 1 = 1) /\ Stream[1].whole = Whole(t)
    BY <1>1, <2>1, <2>4, AheadProperties
  <2>6. k = 0 /\ Whole(t)
    <3>1. f[1].start /\ f[1].whole /\ f[1] = Stream[1]
      BY <2>1 DEF IsWhole
    <3>2. k + 1 = 1 /\ Whole(t)
      BY <2>5, <3>1, Zenon
    <3> QED  BY <2>5, <3>2
  <2>7. PICK a \in Adus : Carries(t, a)
    BY <2>6 DEF Whole
  <2>8. Len(frame) = BytesIn(t, k) /\ \A i \in 1..Len(frame) : frame[i].b = a[i]
    <3>1. BytesIn(t, 0) = 0
      BY CountProperties
    <3> QED  BY <2>1, <2>6, <3>1
  <2> QED  BY <1>3, <2>4, <2>7, <2>8
<1>5. CASE frame # <<>>
  <2>1. IsWhole(frame)
    <3>1. 1 \in 1..Len(frame)
      BY <1>2, <1>5, EmptySeq, StreamTypes
    <3> QED  BY <1>2, <1>5, <3>1 DEF IsWhole
  <2>2. PICK t \in Line, a \in Adus : \E k \in 0..(Len(t) - 1) : Coming(frame, Stream, t, a, k)
    BY <2>1 DEF ComingOK
  <2>3. PICK k \in 0..(Len(t) - 1) : Coming(frame, Stream, t, a, k)
    BY <2>2
  <2>4. k \in 0..Len(t)
    <3>1. Len(t) \in Nat
      BY <1>1, SetupTypes, LenProperties DEF Line
    <3> QED  BY <3>1
  <2> QED  BY <1>3, <2>3, <2>4 DEF Coming
<1> QED  BY <1>4, <1>5

(* A read to the idle gap stays one while bytes are added.                 *)
LEMMA TableStays ==
  ASSUME NEW s, NEW r, NextMode(s) = "gap", ~(Len(r) < HeadLen), r[1] = s[1], r[2] = s[2]
  PROVE  NextMode(r) = "gap"
BY SetupTypes DEF NextMode

(* Read to the idle gap, a whole frame is accepted.                        *)
LEMMA GapAccepts ==
  ASSUME setup \in Setups, FramesFit, NEW t \in Line, NEW a \in Adus, NEW k \in 0..(Len(t) - 1),
         NEW s, NEW f \in Seq(ByteToken), Coming(f, s, t, a, k), NextMode(Bytes(f)) = "gap"
  PROVE  /\ HeadLen + CrcLen <= Len(a) /\ Len(a) <= HeadLen + MaxTail
         /\ \A i \in (HeadLen + 1)..(Len(t) - 1) : t[i] # Pause
         /\ Len(f) = Len(a) => GapResult(Bytes(f)) = "ok"
<1>1. /\ FitsReader(t, a) /\ Begins(Bytes(f), a) /\ Bytes(f) \in Seq(Byte)
      /\ Len(Bytes(f)) = Len(f) /\ Len(f) \in Nat /\ Len(a) \in Nat
      /\ Len(f) = Len(a) => Bytes(f) \in Adus
  BY ComingFits
<1>2. ~HasLength(a[2]) /\ (Server \/ a[1] = Address)
  BY <1>1, PrefixAccepted
<1>3. /\ HeadLen + CrcLen <= Len(a) /\ Len(a) <= HeadLen + MaxTail
      /\ \A i \in (HeadLen + 1)..(Len(t) - 1) : t[i] # Pause
  BY <1>1, <1>2 DEF FitsReader
<1>4. Len(f) = Len(a) => GapResult(Bytes(f)) = "ok"
  BY <1>1, <1>3 DEF GapResult, VerifyCrc
<1> QED  BY <1>3, <1>4

LEMMA TakesAhead ==
  ASSUME TypeInv, FramesFit, AheadOK, NEW n \in 1..Len(buffer), NEW f, Takes(f, n)
  PROVE  AheadOK'
<1>1. setup' = setup /\ Line' = Line
  BY DEF Takes, Line
<1>2. Stream # <<>>
  <2>1. Len(Stream) >= 1
    BY StreamTypes
  <2> QED  BY <2>1, EmptySeq
<1>3. PICK t \in Line : \E k \in 0..Len(t) : Ahead(Stream, t, k)
  BY <1>2 DEF AheadOK
<1>4. PICK k \in 0..Len(t) : Ahead(Stream, t, k)
  BY <1>3
<1>5. k + n \in 0..(Len(t) - 1) /\ Ahead(Stream', t, k + n)
  BY <1>4, Advance
<1>6. k + n \in 0..Len(t)
  <2>1. Len(t) \in Nat
    BY SetupTypes, LenProperties DEF Line, TypeInv
  <2> QED  BY <1>5, <2>1
<1> QED  BY <1>1, <1>5, <1>6 DEF AheadOK

LEMMA ExactWhole ==
  ASSUME Fitting, ReceiveExact
  PROVE  WholeOK'
<1>1. PICK n \in 1..Len(buffer) :
           /\ Takes(frame', n) /\ frame' \in Seq(ByteToken)
           /\ LET m == NextMode(Bytes(frame')) IN
              IF m \in Modes THEN Await(m) ELSE Finish(m, Server /\ m \in {"crc", "frame"})
  BY ExactStep DEF Fitting
<1> DEFINE m == NextMode(Bytes(frame'))
<1>2. IF m \in Modes THEN Await(m) ELSE Finish(m, Server /\ m \in {"crc", "frame"})
  BY <1>1
<1>3. /\ TypeInv /\ FramesFit /\ AheadOK /\ ComingOK /\ setup \in Setups
      /\ mode = "exact" /\ result = "none" /\ setup' = setup /\ Line' = Line
  BY <1>1 DEF Fitting, WholeOK, TypeInv, ReceiveExact, ResultOK, Takes, Line
<1>4. (NextMode(Bytes(frame)))' = m
  BY <1>3, SameDecision
<1>5. ASSUME IsWhole(frame')
      PROVE  /\ \E t \in Line : \E a \in Adus : \E k \in 0..(Len(t) - 1) : Coming(frame', Stream', t, a, k)
             /\ m \in {"exact", "stray", "gap", "ok"}
  <2>1. PICK t \in Line, a \in Adus : \E k \in 0..(Len(t) - 1) : Coming(frame', Stream', t, a, k)
    BY <1>1, <1>3, <1>5, ComingGrows
  <2>2. PICK k \in 0..(Len(t) - 1) : Coming(frame', Stream', t, a, k)
    BY <2>1
  <2>3. FitsReader(t, a) /\ Begins(Bytes(frame'), a) /\ Bytes(frame') \in Seq(Byte)
    BY <1>1, <1>3, <2>2, ComingFits
  <2>4. m \in {"exact", "stray", "gap", "ok"}
    BY <1>3, <2>3, PrefixAccepted
  <2> QED  BY <2>2, <2>4
<1> HIDE DEF m
<1>6. AheadOK'
  BY <1>1, <1>3, TakesAhead
<1>7. ComingOK'
  BY <1>3, <1>5 DEF ComingOK, IsWhole
<1>8. TableOK'
  BY <1>2, <1>4 DEF TableOK, Await, Finish
<1>9. ErrorOK'
  BY <1>2, <1>3, <1>5 DEF ErrorOK, Await, Finish, Modes, Errors, IsWhole
<1> QED  BY <1>6, <1>7, <1>8, <1>9 DEF WholeOK

LEMMA UntilIdleWhole ==
  ASSUME Fitting, ReceiveUntilIdle
  PROVE  WholeOK'
<1>1. PICK n \in 1..Len(buffer), f \in Seq(ByteToken) :
           /\ Takes(f, n) /\ HeadLen <= Len(f) /\ Len(f) <= HeadLen + MaxTail
           /\ IF Len(f) = HeadLen + MaxTail THEN EndIdle(f) ELSE frame' = f /\ Await(mode)
  BY UntilIdleStep DEF Fitting
<1>2. /\ TypeInv /\ FramesFit /\ AheadOK /\ ComingOK /\ setup \in Setups
      /\ mode \in {"gap", "stray"} /\ result = "none" /\ setup' = setup /\ Line' = Line
      /\ mode = "gap" => NextMode(Bytes(frame)) = "gap"
  BY <1>1 DEF Fitting, WholeOK, TableOK, TypeInv, ReceiveUntilIdle, ResultOK, Takes, Line
<1>3. AheadOK'
  BY <1>1, <1>2, TakesAhead
<1>4. CASE mode = "stray"
  <2>1. result' = "none" /\ (frame' = <<>> \/ mode' = "stray") /\ mode' # "gap"
    BY <1>1, <1>2, <1>4 DEF EndIdle, Await
  <2> QED  BY <1>3, <2>1 DEF WholeOK, ComingOK, TableOK, ErrorOK, IsWhole, Errors
<1>5. CASE mode = "gap"
  <2>1. /\ Bytes(f)[1] = Bytes(frame)[1] /\ Bytes(f)[2] = Bytes(frame)[2] /\ Len(Bytes(f)) = Len(f)
        /\ Len(f) \in Nat
    <3>0. Len(frame) \in Nat /\ Len(buffer) \in Nat /\ n \in Nat
      <4>1. Len(frame) \in Nat /\ Len(buffer) \in Nat
        BY <1>2, StreamTypes
      <4> QED  BY <4>1
    <3>1. Len(f) = Len(frame) + n /\ \A i \in 1..Len(frame) : f[i] = frame[i]
      BY <1>1, <1>2, TakesKeeps
    <3>2. HeadLen <= Len(frame) /\ frame \in Seq(ByteToken)
      BY <1>2, <1>5 DEF TypeInv, InTail
    <3>3. /\ Len(Bytes(f)) = Len(f) /\ \A i \in 1..Len(f) : Bytes(f)[i] = f[i].b
          /\ \A i \in 1..Len(frame) : Bytes(frame)[i] = frame[i].b
      BY <3>2, BytesProperties
    <3>4. {1, 2} \subseteq 1..Len(frame) /\ {1, 2} \subseteq 1..Len(f)
      BY <3>0, <3>1, <3>2
    <3> QED  BY <3>0, <3>1, <3>3, <3>4
  <2>2. NextMode(Bytes(f)) = "gap"
    <3>1. ~(Len(Bytes(f)) < HeadLen)
      BY <1>1, <2>1
    <3> QED  BY <1>2, <1>5, <2>1, <3>1, TableStays
  <2>3. ASSUME IsWhole(f)
        PROVE  \E t \in Line : \E a \in Adus : \E k \in 0..(Len(t) - 1) :
                 /\ Coming(f, Stream', t, a, k)
                 /\ Len(f) = HeadLen + MaxTail => GapResult(Bytes(f)) = "ok"
    <3>1. PICK t \in Line, a \in Adus : \E k \in 0..(Len(t) - 1) : Coming(f, Stream', t, a, k)
      BY <1>1, <1>2, <1>5, <2>3, ComingGrows
    <3>2. PICK k \in 0..(Len(t) - 1) : Coming(f, Stream', t, a, k)
      BY <3>1
    <3>3. /\ Len(a) <= HeadLen + MaxTail
          /\ Len(f) = Len(a) => GapResult(Bytes(f)) = "ok"
      BY <1>2, <2>2, <3>2, GapAccepts
    <3>4. Len(a) \in Nat /\ Len(f) <= Len(a)
      BY <1>2, <2>1, <3>2, ComingFits DEF Begins
    <3>5. Len(f) = HeadLen + MaxTail => Len(f) = Len(a)
      BY <2>1, <3>3, <3>4, FramerAssumption
    <3> QED  BY <3>2, <3>3, <3>5
  <2>4. CASE Len(f) = HeadLen + MaxTail
    <3>1. frame' = f /\ result' = GapResult(Bytes(f)) /\ mode' \in {"idle", "drain"}
      BY <1>1, <1>5, <2>4 DEF EndIdle, Finish
    <3> QED  BY <1>3, <2>3, <2>4, <3>1 DEF WholeOK, ComingOK, TableOK, ErrorOK, Errors
  <2>5. CASE Len(f) # HeadLen + MaxTail
    <3>1. frame' = f /\ mode' = "gap" /\ result' = "none"
      BY <1>1, <1>2, <1>5, <2>5 DEF Await
    <3>2. (NextMode(Bytes(frame)))' = "gap"
      BY <1>2, <2>2, <3>1, SameDecision
    <3>3. ComingOK'
      BY <1>2, <2>3, <3>1 DEF ComingOK
    <3> QED  BY <1>3, <3>1, <3>2, <3>3 DEF WholeOK, TableOK, ErrorOK, Errors
  <2> QED  BY <2>4, <2>5
<1> QED  BY <1>2, <1>4, <1>5

(* While a whole frame is coming, something of its transmission is ahead.  *)
LEMMA ComingAhead ==
  ASSUME TypeInv, FramesFit, ComingOK, mode \in {"exact", "gap"}, IsWhole(frame)
  PROVE  /\ Len(Stream) >= 1 /\ Stream # <<>>
         /\ \E t \in Line : \E a \in Adus : \E k \in 0..(Len(t) - 1) :
              /\ Coming(frame, Stream, t, a, k) /\ Len(Stream) = Len(t) - k
              /\ Stream[1].b = t[k + 1]
<1>1. setup \in Setups
  BY DEF TypeInv
<1>2. PICK t \in Line, a \in Adus : \E k \in 0..(Len(t) - 1) : Coming(frame, Stream, t, a, k)
  BY DEF ComingOK
<1>3. PICK k \in 0..(Len(t) - 1) : Coming(frame, Stream, t, a, k)
  BY <1>2
<1>4. Len(t) \in Nat
  BY <1>1, SetupTypes, LenProperties DEF Line
<1>5. k \in 0..Len(t) /\ k + 1 <= Len(t)
  BY <1>4
<1>6. /\ Len(Stream) = Len(t) - k
      /\ \A i \in 1..Len(Stream) : Stream[i].b = t[k + i]
  BY <1>1, <1>3, <1>5, AheadProperties DEF Coming
<1>7. Len(Stream) >= 1 /\ 1 \in 1..Len(Stream)
  BY <1>4, <1>5, <1>6
<1>8. Stream # <<>>
  BY <1>7, EmptySeq
<1> QED  BY <1>3, <1>6, <1>7, <1>8

(* The line is silent after the whole frame only.                          *)
LEMMA GapOverWhole ==
  ASSUME Fitting, GapOver
  PROVE  WholeOK'
<1>1. /\ TypeInv /\ FramesFit /\ AheadOK /\ ComingOK /\ TableOK /\ ErrorOK /\ setup \in Setups
      /\ WaitsForGap /\ buffer = <<>> /\ (wire # <<>> => ~IsByte(Head(wire).b))
      /\ IF mode = "drain" THEN EndDrain ELSE EndIdle(frame)
      /\ UNCHANGED <<setup, wire, buffer, eof>>
  BY DEF Fitting, WholeOK, TypeInv, GapOver
<1>2. Stream' = Stream /\ Line' = Line
  BY <1>1 DEF Stream, Line
<1>3. AheadOK'
  BY <1>1, <1>2 DEF AheadOK
<1>4. CASE mode = "drain"
  <2>1. UNCHANGED <<frame, result>> /\ mode' = IF Server THEN "idle" ELSE "exact"
    BY <1>1, <1>4 DEF EndDrain
  <2>2. ~Server => frame' = <<>>
    BY <1>1, <1>4, <2>1 DEF TypeInv, ResultOK
  <2> QED  BY <1>1, <1>3, <2>1, <2>2 DEF WholeOK, ComingOK, TableOK, ErrorOK, IsWhole
<1>5. CASE mode = "stray"
  <2>1. result' = "none" /\ frame' = <<>> /\ mode' = "exact"
    BY <1>1, <1>5 DEF EndIdle, Await, TypeInv, ResultOK
  <2> QED  BY <1>3, <2>1 DEF WholeOK, ComingOK, TableOK, ErrorOK, IsWhole, Errors
<1>6. CASE mode = "gap"
  <2>1. frame' = frame /\ result' = GapResult(Bytes(frame)) /\ mode' \in {"idle", "drain"}
    BY <1>1, <1>6 DEF EndIdle, Finish
  <2>2. ASSUME IsWhole(frame)  PROVE GapResult(Bytes(frame)) = "ok"
    <3>1. PICK t \in Line, a \in Adus : \E k \in 0..(Len(t) - 1) :
                 /\ Coming(frame, Stream, t, a, k) /\ Stream[1].b = t[k + 1]
      BY <1>1, <1>6, <2>2, ComingAhead
    <3>2. PICK k \in 0..(Len(t) - 1) : Coming(frame, Stream, t, a, k) /\ Stream[1].b = t[k + 1]
      BY <3>1
    <3>3. frame \in Seq(ByteToken) /\ NextMode(Bytes(frame)) = "gap"
      BY <1>1, <1>6 DEF TypeInv, TableOK
    <3>4. /\ \A i \in (HeadLen + 1)..(Len(t) - 1) : t[i] # Pause
          /\ Len(frame) = Len(a) => GapResult(Bytes(frame)) = "ok"
      BY <1>1, <3>2, <3>3, GapAccepts
    <3>5. /\ Len(frame) \in Nat /\ Len(t) \in Nat /\ Len(frame) <= k
          /\ k + 1 = Len(t) => Len(frame) = Len(a)
      BY <1>1, <3>2, <3>3, ComingFits
    <3>6. Stream[1].b = Pause
      <4>1. Len(Stream) >= 1 /\ Stream = wire /\ wire \in Seq(Token)
        <5>1. wire \in Seq(Token)
          BY <1>1, StreamTypes
        <5> QED  BY <1>1, <1>6, <2>2, <5>1, ComingAhead, ConcatEmptySeq DEF Stream
      <4>2. wire # <<>>
        BY <4>1, EmptySeq
      <4> QED  BY <1>1, <4>1, <4>2 DEF IsByte
    <3>7. Len(frame) > HeadLen
      BY <1>1, <1>6 DEF WaitsForGap
    <3>8. k + 1 = Len(t)
      <4>1. k + 1 \notin (HeadLen + 1)..(Len(t) - 1)
        BY <3>2, <3>4, <3>6
      <4>2. k \in Nat /\ k + 1 <= Len(t)
        BY <3>5
      <4>3. \A l \in Nat : 2 < l /\ l <= k => 2 + 1 <= k + 1
        BY <4>2
      <4>4. HeadLen + 1 <= k + 1
        BY <3>5, <3>7, <4>3
      <4> QED  BY <3>5, <4>1, <4>2, <4>4
    <3> QED  BY <3>4, <3>5, <3>8
  <2> QED  BY <1>3, <2>1, <2>2 DEF WholeOK, ComingOK, TableOK, ErrorOK, Errors
<1> QED  BY <1>1, <1>4, <1>5, <1>6 DEF WaitsForGap

(* A pause within the frame is passed over by a read for a number of bytes.*)
LEMMA PauseOverWhole ==
  ASSUME Fitting, PauseOver
  PROVE  WholeOK'
<1>1. /\ TypeInv /\ FramesFit /\ AheadOK /\ ComingOK /\ TableOK /\ ErrorOK /\ setup \in Setups
      /\ wire # <<>> /\ buffer = <<>> /\ ~WaitsForGap /\ wire' = Tail(wire)
      /\ UNCHANGED <<setup, buffer, mode, frame, result, eof>>
  BY DEF Fitting, WholeOK, TypeInv, PauseOver
<1>2. Line' = Line
  BY <1>1 DEF Line
<1>3. /\ Stream = wire /\ Stream' = Tail(wire) /\ wire \in Seq(Token)
      /\ Len(wire) \in Nat /\ Len(wire) >= 1 /\ IsByte(wire[1].b) = FALSE
  <2>1. wire \in Seq(Token) /\ wire # <<>> /\ Len(wire) \in Nat
    BY <1>1, StreamTypes
  <2>2. Tail(wire) \in Seq(Token)
    BY <2>1, HeadTailProperties
  <2>3. Len(wire) >= 1
    BY <2>1, EmptySeq
  <2>4. ~IsByte(wire[1].b)
    BY <2>1 DEF PauseOver
  <2> QED  BY <1>1, <2>1, <2>2, <2>3, <2>4, ConcatEmptySeq DEF Stream
<1>4. Len(Stream') = Len(Stream) - 1 /\ \A i \in 1..Len(Stream') : Stream'[i] = Stream[1 + i]
  <2>1. wire # <<>>
    BY <1>1
  <2>2. Len(Tail(wire)) = Len(wire) - 1 /\ \A i \in 1..Len(Tail(wire)) : Tail(wire)[i] = wire[i + 1]
    BY <1>3, <2>1, HeadTailProperties
  <2>3. \A i \in Nat : i + 1 = 1 + i
    OBVIOUS
  <2>4. ASSUME NEW i \in 1..Len(Tail(wire))  PROVE Tail(wire)[i] = wire[1 + i]
    BY <1>3, <2>2, <2>3
  <2> QED  BY <1>3, <2>2, <2>4
<1>5. ASSUME NEW t \in Line, NEW k \in 0..Len(t), Ahead(Stream, t, k)
      PROVE  k + 1 \in 0..Len(t) /\ Ahead(Stream', t, k + 1) /\ t[k + 1] = Pause
  <2>1. 1 \in 0..Len(Stream) /\ 1 \in 1..Len(Stream)
    BY <1>3
  <2>2. k + 1 \in 0..Len(t) /\ Ahead(Stream', t, k + 1)
    BY <1>1, <1>4, <1>5, <2>1, AheadDrop
  <2>3. Stream[1].b = t[k + 1]
    BY <1>1, <1>5, <2>1, AheadProperties
  <2>4. Stream[1].b = Pause
    BY <1>3 DEF IsByte
  <2> QED  BY <2>2, <2>3, <2>4
<1>6. AheadOK'
  <2>1. Stream # <<>>
    BY <1>1, <1>3
  <2>2. PICK t \in Line : \E k \in 0..Len(t) : Ahead(Stream, t, k)
    BY <1>1, <2>1 DEF AheadOK
  <2>3. PICK k \in 0..Len(t) : Ahead(Stream, t, k)
    BY <2>2
  <2> QED  BY <1>2, <1>5, <2>3 DEF AheadOK
<1>7. ASSUME mode \in {"exact", "gap"}, IsWhole(frame)
      PROVE  \E t \in Line : \E a \in Adus : \E k \in 0..(Len(t) - 1) : Coming(frame, Stream', t, a, k)
  <2>1. PICK t \in Line, a \in Adus : \E k \in 0..(Len(t) - 1) : Coming(frame, Stream, t, a, k)
    BY <1>1, <1>7 DEF ComingOK
  <2>2. PICK k \in 0..(Len(t) - 1) : Coming(frame, Stream, t, a, k)
    BY <2>1
  <2>3. frame \in Seq(ByteToken)
    BY <1>1 DEF TypeInv
  <2>4. /\ FitsReader(t, a) /\ Begins(Bytes(frame), a) /\ Bytes(frame) \in Seq(Byte)
        /\ Len(Bytes(frame)) = Len(frame) /\ Len(frame) \in Nat /\ Len(a) \in Nat /\ Len(t) \in Nat
        /\ k + 1 = Len(t) => Len(frame) = Len(a)
    BY <1>1, <2>2, <2>3, ComingFits
  <2>5. k \in Nat /\ k \in 0..Len(t)
    BY <2>4
  <2>6. k + 1 \in 0..Len(t) /\ Ahead(Stream', t, k + 1) /\ t[k + 1] = Pause
    BY <1>5, <2>2, <2>5 DEF Coming
  <2>7. k + 1 # Len(t)
    <3> SUFFICES ASSUME k + 1 = Len(t)  PROVE FALSE
      OBVIOUS
    <3>1. Len(frame) = Len(a)
      BY <2>4
    <3>2. CASE mode = "exact"
      <4>1. NextMode(Bytes(frame)) = "exact"
        BY <1>1, <3>2 DEF TypeInv, Undecided
      <4> QED  BY <1>1, <2>4, <3>1, <4>1, PrefixAccepted
    <3>3. CASE mode = "gap"
      <4>1. NextMode(Bytes(frame)) = "gap" /\ ~(Len(frame) > HeadLen)
        BY <1>1, <3>3 DEF TableOK, WaitsForGap
      <4>2. HeadLen + CrcLen <= Len(a)
        BY <1>1, <2>2, <2>3, <4>1, GapAccepts
      <4>3. \A l \in Nat : ~(2 + 2 <= l /\ ~(l > 2))
        OBVIOUS
      <4> QED  BY <2>4, <3>1, <4>1, <4>2, <4>3
    <3> QED  BY <1>7, <3>2, <3>3
  <2>8. k + 1 \in 0..(Len(t) - 1)
    BY <2>4, <2>5, <2>6, <2>7
  <2>9. BytesIn(t, k + 1) = BytesIn(t, k)
    <3>1. ~IsByte(t[k + 1])
      BY <2>6 DEF IsByte
    <3> QED  BY <2>5, <3>1, PauseNotCounted
  <2>10. Coming(frame, Stream', t, a, k + 1)
    BY <2>2, <2>6, <2>9 DEF Coming
  <2> QED  BY <2>8, <2>10
<1>8. ComingOK' /\ ErrorOK'
  BY <1>1, <1>2, <1>7 DEF ComingOK, ErrorOK, IsWhole
<1>9. TableOK'
  BY <1>1, SameDecision DEF TableOK
<1> QED  BY <1>6, <1>8, <1>9 DEF WholeOK

(* A transmission begins when the one before it has been received.         *)
LEMMA TransmitWhole ==
  ASSUME Fitting, NEW t \in Line, Transmit(t)
  PROVE  WholeOK'
<1>1. /\ TypeInv /\ FramesFit /\ AheadOK /\ ComingOK /\ TableOK /\ ErrorOK /\ setup \in Setups
      /\ wire = <<>> /\ wire' = Marked(t) /\ UNCHANGED <<setup, buffer, mode, frame, result, eof>>
  BY DEF Fitting, WholeOK, TypeInv, Transmit
<1>2. Line' = Line
  BY <1>1 DEF Line
<1>3. t \in Seq(Byte \cup {Pause}) /\ Marked(t) \in Seq(Token) /\ Len(Marked(t)) = Len(t) /\ Len(t) \in Nat
  BY <1>1, SetupTypes, MarkedProperties DEF Line
<1>4. /\ Len(Stream) = Len(buffer) /\ Len(buffer) \in Nat
      /\ \A i \in 1..Len(buffer) : Stream[i] = buffer[i] /\ IsByte(buffer[i].b)
  <2>1. Len(wire) = 0
    BY <1>1, EmptySeq
  <2> QED  BY <1>1, <2>1, StreamTypes
<1>5. Stream = <<>>
  <2> SUFFICES ASSUME Stream # <<>>  PROVE FALSE
    OBVIOUS
  <2>1. PICK u \in Line : \E k \in 0..Len(u) : Ahead(Stream, u, k)
    BY <1>1 DEF AheadOK
  <2>2. PICK k \in 0..Len(u) : Ahead(Stream, u, k)
    BY <2>1
  <2>3. /\ Len(u) \in Nat /\ u[Len(u)] = Pause /\ k \in Nat /\ Len(Stream) = Len(u) - k
        /\ \A i \in 1..Len(Stream) : Stream[i].b = u[k + i]
    <3>1. /\ Len(u) \in Nat /\ u[Len(u)] = Pause /\ k \in Nat /\ Len(Stream) = Len(u) - k
          /\ \A i \in 1..Len(Stream) : /\ Stream[i].b = u[k + i]
                                       /\ Stream[i].start = (k + i = 1)
                                       /\ Stream[i].whole = Whole(u)
      BY <1>1, <2>2, AheadProperties
    <3> QED  BY <3>1
  <2>4. Len(Stream) \in 1..Len(Stream) /\ k + Len(Stream) = Len(u)
    <3>1. Len(Stream) # 0
      BY <1>1, StreamTypes, EmptySeq
    <3> QED  BY <1>4, <2>3, <3>1
  <2>5. Stream[Len(Stream)].b = Pause
    BY <2>3, <2>4
  <2>6. IsByte(Stream[Len(Stream)].b)
    BY <1>4, <2>4
  <2> QED  BY <2>5, <2>6 DEF IsByte
<1>6. Stream' = Marked(t)
  <2>1. Len(buffer) = 0 /\ buffer \in Seq(Token)
    BY <1>1, <1>4, <1>5, EmptySeq, StreamTypes
  <2>2. buffer = <<>>
    BY <2>1, EmptySeq
  <2> QED  BY <1>1, <1>3, <2>2, ConcatEmptySeq DEF Stream
<1>7. AheadOK'
  <2>1. Ahead(Stream', t, 0) /\ 0 \in 0..Len(t)
    BY <1>3, <1>6 DEF Ahead
  <2> QED  BY <1>2, <2>1 DEF AheadOK
<1>8. ComingOK'
  <2>1. ~(mode \in {"exact", "gap"} /\ IsWhole(frame))
    BY <1>1, <1>5, ComingAhead
  <2> QED  BY <1>1, <2>1 DEF ComingOK, IsWhole
<1>9. ErrorOK' /\ TableOK'
  BY <1>1, SameDecision DEF ErrorOK, TableOK, IsWhole
<1> QED  BY <1>7, <1>8, <1>9 DEF WholeOK

(* The transmissions of the line stay the same, and so does what fits.     *)
LEMMA SameFit ==
  ASSUME setup' = setup
  PROVE  FramesFit' <=> FramesFit
BY DEF FramesFit, FitsReader, Line, Server, Address, HasLength, CountTooLarge, CountAt, Target, FixedLength

LEMMA WholeStep == Fitting /\ [Next]_vars => WholeOK'
<1> SUFFICES ASSUME Fitting, [Next]_vars  PROVE WholeOK'
  OBVIOUS
<1>1. /\ TypeInv /\ FramesFit /\ AheadOK /\ ComingOK /\ TableOK /\ ErrorOK /\ setup \in Setups
      /\ setup' = setup /\ Line' = Line
  BY SetupKept DEF Fitting, WholeOK, TypeInv, Line
<1>2. ASSUME Stream' = Stream  PROVE AheadOK'
  BY <1>1, <1>2 DEF AheadOK
<1>3. ASSUME UNCHANGED <<mode, frame, result>>, Stream' = Stream  PROVE WholeOK'
  BY <1>1, <1>2, <1>3, SameDecision DEF WholeOK, ComingOK, TableOK, ErrorOK, IsWhole
<1>4. CASE Start
  <2>1. frame' = <<>> /\ result' = "none" /\ mode' # "gap" /\ Stream' = Stream
    BY <1>4 DEF Start, Stream
  <2> QED  BY <1>2, <2>1 DEF WholeOK, ComingOK, TableOK, ErrorOK, IsWhole
<1>5. CASE Expire
  <2>1. mode' = "idle" /\ result' = "timeout" /\ Stream' = Stream
    BY <1>5 DEF Expire, Finish, Stream
  <2> QED  BY <1>2, <2>1 DEF WholeOK, ComingOK, TableOK, ErrorOK, Errors
<1>6. CASE EndOfStream
  <2>1. /\ Stream' = Stream /\ mode # "idle"
        /\ mode \in {"exact", "gap"} => ~IsWhole(frame)
    <3>1. Stream = <<>>
      <4>1. wire = <<>> /\ buffer = <<>> /\ wire \in Seq(Token)
        BY <1>1, <1>6, StreamTypes DEF EndOfStream
      <4> QED  BY <4>1, ConcatEmptySeq DEF Stream
    <3> QED  BY <1>1, <1>6, <3>1, ComingAhead DEF EndOfStream, Stream
  <2>2. CASE mode = "exact"
    <3>1. mode' = "idle" /\ frame' = frame
      BY <1>6, <2>2 DEF EndOfStream, Finish
    <3> QED  BY <1>2, <2>1, <2>2, <3>1 DEF WholeOK, ComingOK, TableOK, ErrorOK, IsWhole
  <2>3. CASE mode = "drain"
    <3>1. \/ UNCHANGED <<frame, result>> /\ mode' \in {"idle", "exact"} /\ (mode' = "exact" => ~Server)
          \/ mode' = "idle" /\ result' = "eof" /\ frame' = frame
      BY <1>6, <2>3 DEF EndOfStream, EndDrain, Finish
    <3>2. ~Server => frame = <<>>
      BY <1>1, <2>3 DEF TypeInv, ResultOK
    <3> QED  BY <1>1, <1>2, <2>1, <3>1, <3>2 DEF WholeOK, ComingOK, TableOK, ErrorOK, IsWhole, Errors
  <2>4. CASE mode = "stray"
    <3>1. result' = "none" /\ frame' = <<>> /\ mode' = "exact"
      BY <1>1, <1>6, <2>4 DEF EndOfStream, EndIdle, Await, TypeInv, ResultOK
    <3> QED  BY <1>2, <2>1, <3>1 DEF WholeOK, ComingOK, TableOK, ErrorOK, IsWhole
  <2>5. CASE mode = "gap"
    <3>1. frame' = frame /\ mode' \in {"idle", "drain"}
      BY <1>6, <2>5 DEF EndOfStream, EndIdle, Finish
    <3> QED  BY <1>2, <2>1, <2>5, <3>1 DEF WholeOK, ComingOK, TableOK, ErrorOK, IsWhole
  <2> QED  BY <1>1, <2>1, <2>2, <2>3, <2>4, <2>5 DEF TypeInv, Modes
<1>7. CASE ReceiveDrain
  <2>1. /\ mode = "drain" /\ buffer' = <<>> /\ wire' = wire /\ UNCHANGED <<mode, frame, result>>
    BY <1>7 DEF ReceiveDrain
  <2>2. /\ Len(Stream) = Len(buffer) + Len(wire) /\ wire \in Seq(Token)
        /\ Len(buffer) \in Nat /\ Len(wire) \in Nat
        /\ \A i \in 1..Len(wire) : Stream[Len(buffer) + i] = wire[i]
    BY <1>1, StreamTypes
  <2>3. Stream' = wire
    BY <2>1, <2>2, ConcatEmptySeq DEF Stream
  <2>4. AheadOK'
    <3>1. CASE Stream = <<>>
      <4>1. Len(wire) = 0
        BY <2>2, <3>1, EmptySeq
      <4> QED  BY <2>2, <2>3, <4>1, EmptySeq DEF AheadOK
    <3>2. CASE Stream # <<>>
      <4>1. PICK t \in Line : \E k \in 0..Len(t) : Ahead(Stream, t, k)
        BY <1>1, <3>2 DEF AheadOK
      <4>2. PICK k \in 0..Len(t) : Ahead(Stream, t, k)
        BY <4>1
      <4>3. Len(buffer) \in 0..Len(Stream) /\ Len(wire) = Len(Stream) - Len(buffer)
        BY <2>2
      <4>4. k + Len(buffer) \in 0..Len(t) /\ Ahead(wire, t, k + Len(buffer))
        BY <1>1, <2>2, <4>2, <4>3, AheadDrop
      <4> QED  BY <1>1, <2>3, <4>4 DEF AheadOK
    <3> QED  BY <3>1, <3>2
  <2> QED  BY <1>1, <2>1, <2>4, SameDecision DEF WholeOK, ComingOK, TableOK, ErrorOK, IsWhole
<1>8. CASE Arrive
  <2>1. Stream' = Stream /\ UNCHANGED <<mode, frame, result>>
    BY <1>1, <1>8, ArriveKeeps DEF Arrive
  <2> QED  BY <1>3, <2>1
<1>9. CASE CloseLine \/ UNCHANGED vars
  BY <1>3, <1>9 DEF CloseLine, vars, Stream
<1> QED  BY <1>4, <1>5, <1>6, <1>7, <1>8, <1>9, ExactWhole, UntilIdleWhole, GapOverWhole,
            TransmitWhole, PauseOverWhole DEF Next, ReaderStep, LineStep, Line

WholeInv == FramesFit => WholeOK

(* However it is cut into chunks, and however its length is told, a frame  *)
(* the reader is built for is accepted by a read that begins at its first  *)
(* byte (read_adu, read_request_adu).                                      *)
THEOREM WholeAccepted == Spec => [](FramesFit => WholeFrameAccepted)
<1>1. Init => WholeInv
  <2> SUFFICES ASSUME Init  PROVE WholeOK
    BY DEF WholeInv
  <2>1. buffer = <<>> /\ wire = <<>> /\ frame = <<>> /\ mode = "idle" /\ result = "none"
    BY DEF Init
  <2>2. Stream = <<>>
    BY <2>1, EmptySeq, ConcatEmptySeq DEF Stream
  <2> QED  BY <2>1, <2>2 DEF WholeOK, AheadOK, ComingOK, TableOK, ErrorOK, IsWhole
<1>2. TypeInv /\ WholeInv /\ [Next]_vars => WholeInv'
  <2> SUFFICES ASSUME TypeInv, WholeInv, [Next]_vars, FramesFit'  PROVE WholeOK'
    BY DEF WholeInv
  <2>1. FramesFit
    BY SetupKept, SameFit
  <2> QED  BY <2>1, WholeStep DEF WholeInv, Fitting
<1>3. WholeInv => (FramesFit => WholeFrameAccepted)
  BY DEF WholeInv, WholeOK, ErrorOK, IsWhole, WholeFrameAccepted
<1> QED  BY <1>1, <1>2, <1>3, InitTypes, TypeStep, PTL DEF Spec
=============================================================================
