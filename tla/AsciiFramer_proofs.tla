-------------------------- MODULE AsciiFramer_proofs --------------------------
(***************************************************************************)
(* Proofs about AsciiFramer, for every frame, every line and every damage: *)
(* types, no undamaged frame refused, no damage that costs two frames.     *)
(***************************************************************************)
EXTENDS AsciiFramer, SequenceTheorems, TLAPS

(* The frames of the stations fit the limits of the protocol: pairs of     *)
(* digits, with at least an address, a function code and the LRC.  A       *)
(* station that sends others is refused (read_ascii_frame).                *)
AdusFit == \A a \in Adus : Len(a) % 2 = 0 /\ 2 * MinRawLen <= Len(a) /\ Len(a) <= MaxHexChars

-----------------------------------------------------------------------------
(* Frames on the line                                                      *)

Whole(t) == \E a \in Adus : t = Enclosed(a)

(* All but the first k characters of t are still to be received.           *)
Ahead(t, k) == line = SubSeq(Marked(t), k + 1, Len(t))

LEMMA EnclosedProperties ==
  ASSUME NEW a \in Seq(Hex)
  PROVE  /\ Enclosed(a) \in Seq(Chars) /\ Len(Enclosed(a)) = Len(a) + 3
         /\ Enclosed(a)[1] = Colon
         /\ \A i \in 1..Len(a) : Enclosed(a)[i + 1] = a[i] /\ a[i] \in Hex
         /\ Enclosed(a)[Len(a) + 2] = CR /\ Enclosed(a)[Len(a) + 3] = LF
<1>1. a \in Seq(Chars) /\ Len(a) \in Nat /\ \A i \in 1..Len(a) : a[i] \in Hex
  BY SeqMonotonic, ElementOfSeq, LenProperties DEF Hex, Chars
<1>2. <<Colon>> \in Seq(Chars) /\ Len(<<Colon>>) = 1
  BY DEF Colon, Chars
<1>3. <<CR, LF>> \in Seq(Chars) /\ Len(<<CR, LF>>) = 2
  BY DEF CR, LF, Chars
<1> DEFINE b == <<Colon>> \o a
<1>4. /\ b \in Seq(Chars) /\ Len(b) = Len(a) + 1
      /\ \A i \in 1..Len(b) : b[i] = IF i <= 1 THEN Colon ELSE a[i - 1]
  BY <1>1, <1>2, ConcatProperties
<1> HIDE DEF b
<1>5. /\ b \o <<CR, LF>> \in Seq(Chars) /\ Len(b \o <<CR, LF>>) = Len(a) + 3
      /\ \A i \in 1..(Len(a) + 3) :
           (b \o <<CR, LF>>)[i] = IF i <= Len(b) THEN b[i] ELSE <<CR, LF>>[i - Len(b)]
  BY <1>1, <1>3, <1>4, ConcatProperties
<1>6. Enclosed(a) = b \o <<CR, LF>>
  BY DEF Enclosed, b
<1>7. \A i \in 1..Len(a) : Enclosed(a)[i + 1] = a[i]
  BY <1>1, <1>4, <1>5, <1>6
<1>8. Enclosed(a)[1] = Colon
  BY <1>1, <1>4, <1>5, <1>6
<1>9. Enclosed(a)[Len(a) + 2] = CR /\ Enclosed(a)[Len(a) + 3] = LF
  BY <1>1, <1>4, <1>5, <1>6
<1> QED  BY <1>1, <1>5, <1>6, <1>7, <1>8, <1>9

LEMMA MarkedProperties ==
  ASSUME NEW t \in Seq(Chars)
  PROVE  /\ Marked(t) \in Seq(Token) /\ Len(Marked(t)) = Len(t)
         /\ \A i \in 1..Len(t) : Marked(t)[i] = [c |-> t[i], start |-> i = 1, whole |-> Whole(t)]
<1>1. Len(t) \in Nat /\ DOMAIN t = 1..Len(t) /\ \A i \in 1..Len(t) : t[i] \in Chars
  BY LenProperties, ElementOfSeq
<1>2. Whole(t) \in BOOLEAN
  BY DEF Whole
<1>3. Marked(t) = [i \in 1..Len(t) |-> [c |-> t[i], start |-> i = 1, whole |-> Whole(t)]]
  BY <1>1 DEF Marked, Whole
<1>4. \A i \in 1..Len(t) : [c |-> t[i], start |-> i = 1, whole |-> Whole(t)] \in Token
  BY <1>1, <1>2 DEF Token
<1>5. Marked(t) \in Seq(Token)
  BY <1>1, <1>3, <1>4, IsASeq
<1> QED  BY <1>1, <1>3, <1>5, LenProperties

(* One character received of what is ahead.                                *)
LEMMA ReceiveNext ==
  ASSUME NEW t \in Seq(Chars), NEW k \in 0..Len(t), Ahead(t, k), Receive
  PROVE  /\ k < Len(t)
         /\ last' = [c |-> t[k + 1], start |-> k = 0, whole |-> Whole(t)]
         /\ Ahead(t, k + 1)'
<1> DEFINE m == Marked(t)
<1>1. m \in Seq(Token) /\ Len(m) = Len(t) /\ Len(t) \in Nat
  BY MarkedProperties, LenProperties
<1>2. m' = m
  BY DEF Marked
<1>3. line = SubSeq(m, k + 1, Len(m)) /\ line # <<>> /\ line' = Tail(line) /\ last' = Head(line)
  BY <1>1 DEF Ahead, Receive
<1>4. \A i \in 1..Len(t) : m[i] = [c |-> t[i], start |-> i = 1, whole |-> Whole(t)]
  BY MarkedProperties
<1> HIDE DEF m
<1>5. k < Len(t)
  <2> SUFFICES ASSUME k = Len(t)  PROVE FALSE
    BY <1>1
  <2> QED  BY <1>1, <1>3, SubSeqEmpty
<1>6. k + 1 \in 1..Len(m) /\ Len(m) \in (k + 1)..Len(m)
  BY <1>1, <1>5
<1>7. last' = m[k + 1] /\ line' = SubSeq(m, k + 2, Len(m))
  BY <1>1, <1>3, <1>6, HeadTailOfSubSeq
<1>8. last' = [c |-> t[k + 1], start |-> k = 0, whole |-> Whole(t)]
  BY <1>1, <1>4, <1>6, <1>7
<1> QED  BY <1>1, <1>2, <1>5, <1>7, <1>8 DEF Ahead, m

LEMMA AheadNotEmpty ==
  ASSUME NEW t \in Seq(Chars), NEW k \in 0..Len(t), k < Len(t), Ahead(t, k)
  PROVE  line # <<>>
<1> DEFINE m == Marked(t)
<1>1. m \in Seq(Token) /\ Len(m) = Len(t) /\ Len(t) \in Nat
  BY MarkedProperties, LenProperties
<1>2. \A i \in (k + 1)..Len(t) : m[i] \in Token
  BY <1>1, ElementOfSeq
<1> HIDE DEF m
<1>3. Len(SubSeq(m, k + 1, Len(t))) = Len(t) - k /\ Len(<<>>) = 0
  BY <1>1, <1>2, SubSeqProperties, EmptySeq
<1>4. line = SubSeq(m, k + 1, Len(t))
  BY DEF Ahead, m
<1>5. Len(t) - k # 0
  BY <1>1
<1> QED  BY <1>3, <1>4, <1>5
-----------------------------------------------------------------------------
(* Types                                                                   *)

(* A digit too many ends the read: while it goes on there is none.         *)
FrameFits ==
  /\ mode = "body" => Len(frame) <= MaxHexChars
  /\ mode = "body" => last.c \in Hex \cup {Colon}
  /\ mode = "lf" => last.c = CR

TypeInv == TypeOK /\ FrameFits

LEMMA ReceiveTypes ==
  ASSUME TypeOK, Receive
  PROVE  line' \in Seq(Token) /\ last' \in Token
BY HeadTailProperties DEF TypeOK, Receive

LEMMA TypeStep == TypeInv /\ [Next]_vars => TypeInv'
<1> SUFFICES ASSUME TypeInv, [Next]_vars  PROVE TypeInv'
  OBVIOUS
<1> USE DEF TypeInv, Modes, Results
<1>m. MaxHexChars \in Nat /\ frame \in Seq(Hex) /\ Len(frame) \in Nat
  BY AsciiAssumption, LenProperties DEF TypeOK
<1>1. CASE Start
  <2>1. <<>> \in Seq(Hex) /\ Len(<<>>) = 0 /\ NoToken \in Token
    BY EmptySeq DEF NoToken, Token, Other, Chars
  <2> QED  BY <1>1, <1>m, <2>1 DEF Start, TypeOK, FrameFits
<1>2. CASE Seek
  <2>1. <<>> \in Seq(Hex) /\ Len(<<>>) = 0
    BY EmptySeq
  <2>2. line' \in Seq(Token) /\ last' \in Token /\ UNCHANGED <<server, eof, result>>
    BY <1>2, ReceiveTypes DEF Seek, Receive
  <2>3. CASE last'.c = Colon
    BY <1>2, <1>m, <2>1, <2>2, <2>3 DEF Seek, TypeOK, FrameFits
  <2>4. CASE last'.c # Colon
    BY <1>2, <2>2, <2>4 DEF Seek, TypeOK, FrameFits
  <2> QED  BY <2>3, <2>4
<1>3. CASE ReadBody
  <2>1. line' \in Seq(Token) /\ last' \in Token /\ UNCHANGED <<server, eof, begun>>
    BY <1>3, ReceiveTypes DEF ReadBody, Receive
  <2>2. /\ frame' \in Seq(Hex) /\ Len(frame') <= MaxHexChars + 1
        /\ last'.c \notin Hex => frame' = frame
    BY <1>3, <1>m, AppendProperties DEF ReadBody, FrameFits
  <2>3. CASE last'.c = CR
    BY <1>3, <2>1, <2>2, <2>3 DEF ReadBody, TypeOK, FrameFits
  <2>4. CASE last'.c # CR /\ (Rejects(last'.c) \/ TooLong(frame'))
    BY <1>3, <2>1, <2>2, <2>4 DEF ReadBody, Finish, TypeOK, FrameFits
  <2>5. CASE last'.c # CR /\ ~Rejects(last'.c) /\ ~TooLong(frame')
    <3>1. Len(frame') <= MaxHexChars
      <4>1. Len(frame') \in Nat /\ ~(Len(frame') > MaxHexChars)
        BY <2>2, <2>5, LenProperties DEF TooLong
      <4> QED  BY <1>m, <4>1
    <3>2. last'.c \in Hex
      BY <2>5 DEF Rejects
    <3> QED  BY <1>3, <2>1, <2>2, <2>5, <3>1, <3>2 DEF ReadBody, TypeOK, FrameFits
  <2> QED  BY <2>3, <2>4, <2>5
<1>4. CASE ReadLf
  <2>1. line' \in Seq(Token) /\ last' \in Token /\ UNCHANGED <<server, eof, frame, begun>>
    BY <1>4, ReceiveTypes DEF ReadLf, Receive
  <2>2. mode' \in {"idle", "seek"} /\ result' \in Results
    BY <1>4 DEF ReadLf, Finish, TypeOK
  <2> QED  BY <2>1, <2>2 DEF TypeOK, FrameFits
<1>5. CASE EndOfStream \/ Expire
  <2>1. mode' = "idle" /\ result' \in Results /\ UNCHANGED <<server, line, eof, frame, begun, last>>
    BY <1>5 DEF EndOfStream, Expire, Finish
  <2> QED  BY <2>1 DEF TypeOK, FrameFits
<1>6. CASE CloseLine
  <2>1. <<>> \in Seq(Token)
    BY EmptySeq
  <2> QED  BY <1>6, <2>1 DEF CloseLine, TypeOK, FrameFits
<1>7. ASSUME NEW t \in Transmissions, Transmit(t)  PROVE TypeInv'
  <2>1. Marked(t) \in Seq(Token)
    BY AsciiAssumption, MarkedProperties
  <2> QED  BY <1>7, <2>1 DEF Transmit, TypeOK, FrameFits
<1>8. CASE UNCHANGED vars
  BY <1>8 DEF vars, TypeOK, FrameFits
<1> QED  BY <1>1, <1>2, <1>3, <1>4, <1>5, <1>6, <1>7, <1>8 DEF Next

LEMMA InitTypes == Init => TypeInv
<1> SUFFICES ASSUME Init  PROVE TypeInv
  OBVIOUS
<1>1. <<>> \in Seq(Hex) /\ <<>> \in Seq(Token) /\ Len(<<>>) = 0 /\ NoToken \in Token
  BY EmptySeq DEF NoToken, Token, Other, Chars
<1>2. MaxHexChars \in Nat /\ 0 <= MaxHexChars + 1
  BY AsciiAssumption
<1>3. Len(frame) <= MaxHexChars + 1 /\ frame \in Seq(Hex) /\ line \in Seq(Token)
  BY <1>1, <1>2 DEF Init
<1>4. mode = "idle" /\ result = "none"
  BY DEF Init
<1> QED  BY <1>1, <1>3, <1>4 DEF Init, TypeInv, TypeOK, FrameFits, Modes, Results

(* A station that never sends CR LF cannot make the reader keep more than  *)
(* one digit past the longest frame (_MAX_ASCII_HEX_CHARS).                *)
THEOREM TypeCorrect == Spec => []TypeOK
<1>1. TypeInv => TypeOK
  BY DEF TypeInv
<1> QED  BY <1>1, InitTypes, TypeStep, PTL DEF Spec
-----------------------------------------------------------------------------
(* Frames that are whole                                                   *)

(* The line holds the rest of one transmission.                            *)
LineOK == line = <<>> \/ \E t \in Transmissions : \E k \in 0..Len(t) : Ahead(t, k)

(* The rest of the frame being read is what the line holds, unless the     *)
(* stream ended within it.                                                 *)
Coming(t, k) == Ahead(t, k) \/ (eof /\ line = <<>>)

(* A frame begun with an undamaged one's colon is as much of that frame as *)
(* has been received.                                                      *)
InFrame(a) ==
  \/ /\ mode = "body"
     /\ \E n \in 0..Len(a) : frame = SubSeq(a, 1, n) /\ Coming(Enclosed(a), n + 1)
  \/ mode = "lf" /\ frame = a /\ Coming(Enclosed(a), Len(a) + 2)

WholeOK ==
  /\ mode \in {"body", "lf"} /\ begun.whole => \E a \in Adus : InFrame(a)
  /\ result # "none" => mode = "idle"
  /\ WholeFrameAccepted

LEMMA NextOnLine ==
  ASSUME LineOK, Receive
  PROVE  \E t \in Transmissions : \E k \in 0..Len(t) :
           /\ Ahead(t, k) /\ k < Len(t) /\ Ahead(t, k + 1)'
           /\ last' = [c |-> t[k + 1], start |-> k = 0, whole |-> Whole(t)]
<1>1. line # <<>>
  BY DEF Receive
<1>t. PICK t \in Transmissions : \E k \in 0..Len(t) : Ahead(t, k)
  BY <1>1 DEF LineOK
<1>2. PICK k \in 0..Len(t) : Ahead(t, k)
  BY <1>t
<1>3. t \in Seq(Chars)
  BY AsciiAssumption
<1> QED  BY <1>2, <1>3, ReceiveNext

LEMMA LineStep == LineOK /\ [Next]_vars => LineOK'
<1> SUFFICES ASSUME LineOK, [Next]_vars  PROVE LineOK'
  OBVIOUS
<1>1. CASE Receive
  <2>1. PICK t \in Transmissions : \E k \in 0..Len(t) : k < Len(t) /\ Ahead(t, k + 1)'
    BY <1>1, NextOnLine
  <2>2. PICK k \in 0..Len(t) : k < Len(t) /\ Ahead(t, k + 1)'
    BY <2>1
  <2>3. Len(t) \in Nat /\ k + 1 \in 0..Len(t)
    BY <2>2, AsciiAssumption, LenProperties
  <2> QED  BY <2>2, <2>3 DEF LineOK
<1>2. ASSUME NEW t \in Transmissions, Transmit(t)  PROVE LineOK'
  <2>1. Marked(t) \in Seq(Token) /\ Len(Marked(t)) = Len(t)
    BY AsciiAssumption, MarkedProperties
  <2>2. Marked(t) = SubSeq(Marked(t), 1, Len(t)) /\ 0 \in 0..Len(t)
    BY <2>1, SubSeqFull, LenProperties
  <2>3. Ahead(t, 0)'
    BY <1>2, <2>2 DEF Transmit, Ahead, Marked
  <2> QED  BY <2>2, <2>3 DEF LineOK
<1>3. CASE line' = line \/ line' = <<>>
  BY <1>3 DEF LineOK, Ahead, Marked
<1>4. Receive \/ line' = line \/ line' = <<>> \/ \E t \in Transmissions : Transmit(t)
  BY DEF Next, vars, Start, Seek, ReadBody, ReadLf, EndOfStream, Expire, CloseLine
<1> QED  BY <1>1, <1>2, <1>3, <1>4

(* An undamaged frame's first character is its only colon.                 *)
LEMMA WholeStarts ==
  ASSUME NEW a \in Adus, NEW k \in 0..(Len(a) + 2)
  PROVE  Enclosed(a)[k + 1] = Colon <=> k = 0
<1>1. a \in Seq(Hex) /\ Len(a) \in Nat
  BY AsciiAssumption, LenProperties
<1>2. k = 0 \/ (k \in 1..Len(a) /\ k + 1 \in 2..(Len(a) + 1)) \/ k = Len(a) + 1 \/ k = Len(a) + 2
  BY <1>1
<1>3. Colon \notin Hex /\ Colon # CR /\ Colon # LF
  BY DEF Colon, Hex, CR, LF
<1> QED  BY <1>1, <1>2, <1>3, EnclosedProperties

LEMMA PrefixGrows ==
  ASSUME NEW a \in Seq(Hex), NEW n \in 0..Len(a), n < Len(a)
  PROVE  Append(SubSeq(a, 1, n), a[n + 1]) = SubSeq(a, 1, n + 1)
<1>1. Len(a) \in Nat /\ n + 1 \in 1..Len(a) /\ 1 \in 1..Len(a)
  BY LenProperties
<1>2. \A i \in 1..n : a[i] \in Hex
  BY <1>1, ElementOfSeq
<1>3. SubSeq(a, 1, n) \in Seq(Hex) /\ a[n + 1] \in Hex
  BY <1>1, <1>2, ElementOfSeq, SubSeqProperties
<1>4. SubSeq(a, 1, n + 1) = SubSeq(a, 1, (n + 1) - 1) \o <<a[n + 1]>>
  BY <1>1, SubSeqRecursiveSecond
<1>5. (n + 1) - 1 = n
  BY <1>1
<1> QED  BY <1>3, <1>4, <1>5, AppendIsConcat

LEMMA SeekWhole ==
  ASSUME AdusFit, TypeInv, LineOK, WholeOK, Seek
  PROVE  WholeOK'
<1>1. Receive /\ mode = "seek" /\ result' = result /\ eof' = eof /\ result = "none"
  BY DEF Seek, Receive, WholeOK
<1>2. PICK t \in Transmissions : \E k \in 0..Len(t) :
           /\ Ahead(t, k) /\ k < Len(t) /\ Ahead(t, k + 1)'
           /\ last' = [c |-> t[k + 1], start |-> k = 0, whole |-> Whole(t)]
  BY <1>1, NextOnLine
<1>3. PICK k \in 0..Len(t) :
           /\ Ahead(t, k) /\ k < Len(t) /\ Ahead(t, k + 1)'
           /\ last' = [c |-> t[k + 1], start |-> k = 0, whole |-> Whole(t)]
  BY <1>2
<1>4. CASE last'.c # Colon
  <2>1. UNCHANGED <<mode, frame, begun>>
    BY <1>4 DEF Seek
  <2> QED  BY <1>1, <2>1 DEF WholeOK, WholeFrameAccepted
<1>5. CASE last'.c = Colon
  <2>1. mode' = "body" /\ frame' = <<>> /\ begun' = last'
    BY <1>5 DEF Seek
  <2>2. ASSUME Whole(t)  PROVE \E a \in Adus : InFrame(a)'
    <3>1. PICK a \in Adus : t = Enclosed(a)
      BY <2>2 DEF Whole
    <3>2. a \in Seq(Hex) /\ Len(a) \in Nat /\ Len(t) = Len(a) + 3
      BY <3>1, AsciiAssumption, EnclosedProperties, LenProperties
    <3>3. k = 0
      BY <1>3, <1>5, <3>1, <3>2, WholeStarts
    <3>4. frame' = SubSeq(a, 1, 0) /\ 0 \in 0..Len(a)
      BY <2>1, <3>2, SubSeqEmpty
    <3>5. Ahead(Enclosed(a), 0 + 1)'
      BY <1>3, <3>1, <3>3
    <3> QED  BY <2>1, <3>4, <3>5 DEF InFrame, Coming
  <2>3. begun'.whole = Whole(t)
    BY <1>3, <2>1
  <2> QED  BY <1>1, <2>1, <2>2, <2>3 DEF WholeOK, WholeFrameAccepted
<1> QED  BY <1>4, <1>5

LEMMA BodyWhole ==
  ASSUME AdusFit, TypeInv, WholeOK, ReadBody
  PROVE  WholeOK'
<1>1. /\ Receive /\ mode = "body" /\ begun' = begun /\ eof' = eof /\ result = "none"
      /\ line # <<>>
  BY DEF ReadBody, Receive, WholeOK
<1>2. result' # "none" => mode' = "idle"
  BY <1>1 DEF ReadBody, Finish
<1>3. CASE ~begun.whole
  BY <1>1, <1>2, <1>3 DEF WholeOK, WholeFrameAccepted
<1>4. CASE begun.whole
  <2>1. PICK a \in Adus : InFrame(a)
    BY <1>1, <1>4 DEF WholeOK
  <2>2. PICK n \in 0..Len(a) : frame = SubSeq(a, 1, n) /\ Ahead(Enclosed(a), n + 1)
    BY <1>1, <2>1 DEF InFrame, Coming
  <2> DEFINE t == Enclosed(a)
  <2>3. /\ a \in Seq(Hex) /\ Len(a) \in Nat /\ Len(a) <= MaxHexChars
        /\ t \in Seq(Chars) /\ Len(t) = Len(a) + 3 /\ n + 1 \in 0..Len(t)
        /\ \A i \in 1..Len(a) : t[i + 1] = a[i] /\ a[i] \in Hex
        /\ t[Len(a) + 2] = CR
    BY AsciiAssumption, EnclosedProperties, LenProperties DEF AdusFit
  <2>4. Ahead(t, n + 1)
    BY <2>2
  <2> HIDE DEF t
  <2>5. last'.c = t[n + 2] /\ Ahead(t, n + 2)'
    <3>1. n + 1 + 1 = n + 2
      OBVIOUS
    <3> QED  BY <1>1, <2>3, <2>4, <3>1, ReceiveNext
  <2>6. CASE n = Len(a)
    <3>1. last'.c = CR
      BY <2>3, <2>5, <2>6
    <3>2. mode' = "lf" /\ result' = result /\ frame' = frame
      BY <3>1 DEF ReadBody, CR, Hex
    <3>3. frame = a
      BY <2>2, <2>3, <2>6, SubSeqFull
    <3>4. Ahead(Enclosed(a), Len(a) + 2)'
      BY <2>5, <2>6 DEF t
    <3>5. InFrame(a)'
      BY <3>2, <3>3, <3>4 DEF InFrame, Coming
    <3> QED  BY <1>1, <3>2, <3>5 DEF WholeOK, WholeFrameAccepted
  <2>7. CASE n < Len(a)
    <3>1. n + 1 \in 1..Len(a) /\ n + 1 + 1 = n + 2
      BY <2>3, <2>7
    <3>2. last'.c = a[n + 1] /\ a[n + 1] \in Hex
      BY <2>3, <2>5, <3>1
    <3>3. frame' = Append(frame, a[n + 1])
      BY <3>2 DEF ReadBody
    <3>4. frame' = SubSeq(a, 1, n + 1)
      BY <2>2, <2>3, <2>7, <3>3, PrefixGrows
    <3>5. Len(frame') = n + 1
      <4>1. \A i \in 1..(n + 1) : a[i] \in Hex
        BY <2>3, <3>1
      <4> QED  BY <3>1, <3>4, <4>1, SubSeqProperties
    <3>6. ~TooLong(frame')
      BY <2>3, <3>1, <3>5, AsciiAssumption DEF TooLong
    <3>7. last'.c # CR /\ ~Rejects(last'.c)
      BY <3>2 DEF Rejects, CR, Hex
    <3>8. UNCHANGED <<mode, result>>
      BY <3>6, <3>7 DEF ReadBody
    <3>9. Ahead(Enclosed(a), (n + 1) + 1)'
      BY <2>5, <3>1 DEF t
    <3>10. InFrame(a)'
      BY <1>1, <3>1, <3>4, <3>8, <3>9 DEF InFrame, Coming
    <3> QED  BY <1>1, <3>8, <3>10 DEF WholeOK, WholeFrameAccepted
  <2> QED  BY <2>3, <2>6, <2>7
<1> QED  BY <1>3, <1>4

LEMMA LfWhole ==
  ASSUME AdusFit, TypeInv, WholeOK, ReadLf
  PROVE  WholeOK'
<1>1. /\ Receive /\ mode = "lf" /\ UNCHANGED <<frame, begun, eof>> /\ result = "none"
      /\ mode' \in {"idle", "seek"} /\ line # <<>>
  BY DEF ReadLf, Receive, Finish, WholeOK
<1>2. result' # "none" => mode' = "idle"
  BY <1>1 DEF ReadLf, Finish
<1>3. CASE ~begun.whole
  BY <1>1, <1>2, <1>3 DEF WholeOK, WholeFrameAccepted
<1>4. CASE begun.whole
  <2>1. PICK a \in Adus : InFrame(a)
    BY <1>1, <1>4 DEF WholeOK
  <2>2. frame = a /\ Ahead(Enclosed(a), Len(a) + 2)
    BY <1>1, <2>1 DEF InFrame, Coming
  <2> DEFINE t == Enclosed(a)
  <2>3. /\ a \in Seq(Hex) /\ Len(a) \in Nat /\ Len(a) % 2 = 0 /\ Len(a) >= 2 * MinRawLen
        /\ t \in Seq(Chars) /\ Len(t) = Len(a) + 3 /\ Len(a) + 2 \in 0..Len(t)
        /\ t[Len(a) + 3] = LF
    BY AsciiAssumption, EnclosedProperties, LenProperties DEF AdusFit
  <2>4. last'.c = LF
    <3>1. Ahead(t, Len(a) + 2) /\ Len(a) + 2 + 1 = Len(a) + 3
      BY <2>2, <2>3
    <3> HIDE DEF t
    <3> QED  BY <1>1, <2>3, <3>1, ReceiveNext
  <2>5. ~Unreadable(frame)
    <3>1. \A l \in Nat : l % 2 = 0 /\ l >= 6 => l % 2 # 1 /\ ~(l \div 2 < 3)
      OBVIOUS
    <3> QED  BY <2>2, <2>3, <3>1 DEF Unreadable, RawLen, MinRawLen
  <2>6. result' \in {"none", "ok"}
    BY <1>1, <2>2, <2>4, <2>5 DEF ReadLf, Finish
  <2> QED  BY <1>1, <1>2, <2>6 DEF WholeOK, WholeFrameAccepted
<1> QED  BY <1>3, <1>4

LEMMA WholeStep == AdusFit /\ TypeInv /\ LineOK /\ WholeOK /\ [Next]_vars => WholeOK'
<1> SUFFICES ASSUME AdusFit, TypeInv, LineOK, WholeOK, [Next]_vars  PROVE WholeOK'
  OBVIOUS
<1>1. CASE Start
  BY <1>1 DEF Start, WholeOK, WholeFrameAccepted
<1>2. CASE EndOfStream \/ Expire
  <2>1. /\ UNCHANGED <<line, eof, begun>> /\ mode' = "idle"
        /\ result' = "frame" => eof
        /\ result' # "lrc"
    BY <1>2 DEF EndOfStream, Expire, Finish
  <2> QED  BY <2>1 DEF WholeOK, WholeFrameAccepted
<1>3. CASE CloseLine
  <2>1. eof' = TRUE /\ line' \in {line, <<>>} /\ UNCHANGED <<mode, frame, begun, result>>
    BY <1>3 DEF CloseLine
  <2>2. ASSUME NEW a \in Adus, InFrame(a)  PROVE InFrame(a)'
    <3>1. \A t, k : Coming(t, k) => Coming(t, k)'
      BY <2>1 DEF Coming, Ahead, Marked
    <3> QED  BY <2>1, <2>2, <3>1 DEF InFrame
  <2> QED  BY <2>1, <2>2 DEF WholeOK, WholeFrameAccepted
<1>4. ASSUME NEW t \in Transmissions, Transmit(t)  PROVE WholeOK'
  <2>1. /\ line = <<>> /\ ~eof /\ line' = Marked(t)
        /\ UNCHANGED <<eof, mode, frame, begun, result>>
    BY <1>4 DEF Transmit
  <2>2. ASSUME NEW a \in Adus, InFrame(a)  PROVE FALSE
    <3>1. PICK k \in 0..(Len(a) + 2) : Ahead(Enclosed(a), k)
      <4>1. Len(a) \in Nat
        BY AsciiAssumption, LenProperties
      <4> QED  BY <2>1, <2>2, <4>1 DEF InFrame, Coming
    <3>2. Enclosed(a) \in Seq(Chars) /\ Len(Enclosed(a)) = Len(a) + 3 /\ Len(a) \in Nat
      BY AsciiAssumption, EnclosedProperties, LenProperties
    <3>3. k \in 0..Len(Enclosed(a)) /\ k < Len(Enclosed(a))
      BY <3>2
    <3> QED  BY <2>1, <3>1, <3>2, <3>3, AheadNotEmpty
  <2> QED  BY <2>1, <2>2 DEF WholeOK, WholeFrameAccepted
<1>5. CASE UNCHANGED vars
  BY <1>5 DEF vars, WholeOK, WholeFrameAccepted, InFrame, Coming, Ahead, Marked
<1> QED  BY <1>1, <1>2, <1>3, <1>4, <1>5, SeekWhole, BodyWhole, LfWhole DEF Next

(* Whatever was on the line before it, a frame that arrives undamaged and  *)
(* whose colon is found is returned, or skipped if it is another slave's.  *)
THEOREM WholeAccepted == AdusFit => (Spec => []WholeFrameAccepted)
<1> SUFFICES ASSUME AdusFit  PROVE Spec => []WholeFrameAccepted
  OBVIOUS
<1>1. Init => LineOK /\ WholeOK
  BY DEF Init, WholeOK, LineOK, WholeFrameAccepted
<1>2. TypeInv /\ LineOK /\ WholeOK /\ [Next]_vars => (TypeInv /\ LineOK /\ WholeOK)'
  BY TypeStep, LineStep, WholeStep
<1>3. WholeOK => WholeFrameAccepted
  BY DEF WholeOK
<1> QED  BY <1>1, <1>2, <1>3, InitTypes, PTL DEF Spec

(* A damaged frame costs no other: a colon within a frame ends the read,   *)
(* and the next begins behind it (read_ascii_frame).                       *)
THEOREM OneFrameLost == Spec => DamageCostsOneFrame
<1>1. Init => LineOK
  BY DEF Init, LineOK
<1>2. TypeInv /\ LineOK /\ [Next]_vars => (TypeInv /\ LineOK)'
  BY TypeStep, LineStep
<1>3. TypeInv /\ LineOK /\ [Next]_vars =>
        [last' # last /\ last'.start /\ last'.whole =>
           mode = "seek" \/ (last.c \in Hex \cup {Colon, CR} /\ mode' = "idle")]_vars
  <2> SUFFICES ASSUME TypeInv, LineOK, [Next]_vars, last' # last, last'.start, last'.whole,
                      mode # "seek"
               PROVE  last.c \in Hex \cup {Colon, CR} /\ mode' = "idle"
    OBVIOUS
  <2>1. ReadBody \/ ReadLf
    BY DEF Next, Start, Seek, EndOfStream, Expire, CloseLine, Transmit, vars
  <2>2. Receive
    BY <2>1 DEF ReadBody, ReadLf
  <2>3. PICK t \in Transmissions : \E k \in 0..Len(t) :
           last' = [c |-> t[k + 1], start |-> k = 0, whole |-> Whole(t)]
    BY <2>2, NextOnLine
  <2>4. PICK k \in 0..Len(t) :
           last' = [c |-> t[k + 1], start |-> k = 0, whole |-> Whole(t)]
    BY <2>3
  <2>5. PICK a \in Adus : t = Enclosed(a)
    BY <2>4 DEF Whole
  <2>6. last'.c = Colon
    <3>1. k = 0 /\ last'.c = t[k + 1]
      BY <2>4
    <3>2. a \in Seq(Hex)
      BY AsciiAssumption
    <3> QED  BY <2>5, <3>1, <3>2, EnclosedProperties
  <2>7. Colon \notin Hex /\ Colon # CR /\ Colon # LF
    BY DEF Colon, Hex, CR, LF
  <2>8. CASE ReadBody
    <3>1. last.c \in Hex \cup {Colon}
      BY <2>8 DEF ReadBody, TypeInv, FrameFits
    <3>2. mode' = "idle"
      BY <2>6, <2>7, <2>8 DEF ReadBody, Rejects, Finish
    <3> QED  BY <3>1, <3>2
  <2>9. CASE ReadLf
    BY <2>6, <2>7, <2>9 DEF ReadLf, Finish, TypeInv, FrameFits
  <2> QED  BY <2>1, <2>8, <2>9
<1> QED  BY <1>1, <1>2, <1>3, InitTypes, PTL DEF Spec, DamageCostsOneFrame
=============================================================================
