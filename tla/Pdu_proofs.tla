------------------------------ MODULE Pdu_proofs ------------------------------
(***************************************************************************)
(* Proofs about the codecs of Pdu, for every request and every register:   *)
(* what one side encodes the other decodes, and PDUs are bytes.            *)
(***************************************************************************)
EXTENDS Pdu, SequenceTheorems, WellFoundedInduction, TLAPS

Byte     == 0..255
Register == 0..MaxRegisterValue
Bit      == {0, 1}

-----------------------------------------------------------------------------
(* Sequences                                                               *)

(* A function on 1..n is a sequence of length n.                           *)
LEMMA FunctionIsSeq ==
  ASSUME NEW S, NEW n \in Nat, NEW f \in [1..n -> S]
  PROVE  f \in Seq(S) /\ Len(f) = n /\ DOMAIN f = 1..n
<1>1. f \in Seq(S)
  BY SeqDef
<1> QED  BY <1>1, LenProperties

LEMMA SeqSubset ==
  ASSUME NEW S, NEW T, S \subseteq T
  PROVE  Seq(S) \subseteq Seq(T)
<1> SUFFICES ASSUME NEW x \in Seq(S) PROVE x \in Seq(T)
  OBVIOUS
<1>1. Len(x) \in Nat /\ x \in [1..Len(x) -> S]
  BY LenProperties
<1>2. x \in [1..Len(x) -> T]
  BY <1>1
<1> QED  BY <1>1, <1>2, SeqDef

(* Three elements before a sequence: the head of a request.                *)
LEMMA HeadProperties ==
  ASSUME NEW S, NEW a \in S, NEW b \in S, NEW c \in S, NEW t \in Seq(S)
  PROVE  LET p == <<a>> \o <<b, c>> \o t IN
         /\ p \in Seq(S) /\ Len(p) = 3 + Len(t)
         /\ p[1] = a /\ p[2] = b /\ p[3] = c
         /\ \A i \in 1..Len(t) : p[i + 3] = t[i]
<1> DEFINE h == <<a>> \o <<b, c>>
<1>1. h \in Seq(S) /\ Len(h) = 3 /\ h[1] = a /\ h[2] = b /\ h[3] = c
  <2>1. <<a>> \in Seq(S) /\ <<b, c>> \in Seq(S) /\ Len(<<a>>) = 1 /\ Len(<<b, c>>) = 2
    OBVIOUS
  <2>2. /\ h \in Seq(S) /\ Len(h) = Len(<<a>>) + Len(<<b, c>>)
        /\ \A i \in 1..(Len(<<a>>) + Len(<<b, c>>)) :
             h[i] = IF i <= Len(<<a>>) THEN <<a>>[i] ELSE <<b, c>>[i - Len(<<a>>)]
    BY <2>1, ConcatProperties
  <2> QED  BY <2>1, <2>2
<1> HIDE DEF h
<1>2. Len(t) \in Nat
  BY LenProperties
<1>3. /\ h \o t \in Seq(S) /\ Len(h \o t) = Len(h) + Len(t)
      /\ \A i \in 1..(Len(h) + Len(t)) :
           (h \o t)[i] = IF i <= Len(h) THEN h[i] ELSE t[i - Len(h)]
  BY <1>1, ConcatProperties
<1>4. \A i \in 1..Len(t) : i + 3 \in 1..(3 + Len(t)) /\ ~(i + 3 <= 3) /\ i + 3 - 3 = i
  BY <1>2
<1>5. \A i \in 1..Len(t) : (h \o t)[i + 3] = t[i]
  BY <1>1, <1>3, <1>4
<1>6. 1 \in 1..(3 + Len(t)) /\ 2 \in 1..(3 + Len(t)) /\ 3 \in 1..(3 + Len(t))
  BY <1>2
<1> QED  BY <1>1, <1>3, <1>5, <1>6 DEF h

-----------------------------------------------------------------------------
(* Words                                                                   *)

(* The limits of bytes and registers.                                      *)
LEMMA Bounds ==
  /\ \A x : x \in Byte <=> x \in Int /\ 0 <= x /\ x <= 255
  /\ \A x : x \in Register <=> x \in Int /\ 0 <= x /\ x <= 65535
<1>1. \A x : x \in Byte <=> x \in Int /\ 0 <= x /\ x <= 255
  BY DEF Byte
<1>2. \A x : x \in Register <=> x \in Int /\ 0 <= x /\ x <= MaxRegisterValue
  BY DEF Register
<1>3. MaxRegisterValue = 65535
  BY DEF MaxRegisterValue
<1> QED  BY <1>1, <1>2, <1>3

(* The high and the low byte of a register.                                *)
LEMMA HighLow ==
  ASSUME NEW w \in Register
  PROVE  w \div 256 \in Byte /\ w % 256 \in Byte /\ 256 * (w \div 256) + (w % 256) = w
<1> DEFINE q == w \div 256
           r == w % 256
<1>1. w \in Int /\ 0 <= w /\ w <= 65535
  BY Bounds
<1>2. q \in Int /\ r \in Int /\ w = 256 * q + r /\ 0 <= r /\ r <= 255
  BY <1>1
<1> HIDE DEF q, r
<1>3. 0 <= q /\ q <= 255
  BY <1>1, <1>2
<1>4. q \in Byte /\ r \in Byte
  BY <1>2, <1>3, Bounds
<1> QED  BY <1>2, <1>4 DEF q, r

(* A register is two bytes, high byte first, and two bytes a register.     *)
LEMMA WordProperties ==
  /\ \A w \in Register :
       /\ Word(w) \in Seq(Byte) /\ Len(Word(w)) = 2
       /\ Word(w)[1] \in Byte /\ Word(w)[2] \in Byte
       /\ 256 * Word(w)[1] + Word(w)[2] = w
  /\ \A a \in Byte, b \in Byte : 256 * a + b \in Register
<1>1. \A w \in Register :
        w \div 256 \in Byte /\ w % 256 \in Byte /\ 256 * (w \div 256) + (w % 256) = w
  BY HighLow
<1>2. ASSUME NEW w \in Register
      PROVE  /\ Word(w) \in Seq(Byte) /\ Len(Word(w)) = 2
             /\ Word(w)[1] = w \div 256 /\ Word(w)[2] = w % 256
  BY <1>1 DEF Word
<1>3. ASSUME NEW a \in Byte, NEW b \in Byte
      PROVE  256 * a + b \in Register
  <2>1. a \in Int /\ 0 <= a /\ a <= 255 /\ b \in Int /\ 0 <= b /\ b <= 255
    BY Bounds
  <2>2. 256 * a + b \in Int /\ 0 <= 256 * a + b /\ 256 * a + b <= 65535
    BY <2>1
  <2> QED  BY <2>2, Bounds
<1> QED  BY <1>1, <1>2, <1>3

(* Registers as bytes, and bytes as registers.                             *)
LEMMA PackWordsProperties ==
  ASSUME NEW values \in Seq(Register)
  PROVE  /\ PackWords(values) \in Seq(Byte) /\ Len(PackWords(values)) = 2 * Len(values)
         /\ \A i \in 1..Len(values) :
              /\ PackWords(values)[2 * i - 1] = Word(values[i])[1]
              /\ PackWords(values)[2 * i] = Word(values[i])[2]
<1> DEFINE n == Len(values)
           p == PackWords(values)
<1>1. n \in Nat /\ \A i \in 1..n : values[i] \in Register
  BY LenProperties, ElementOfSeq
<1> HIDE DEF n
<1>2. \A k \in 1..(2 * n) : /\ (k + 1) \div 2 \in 1..n /\ 2 - (k % 2) \in {1, 2}
  BY <1>1
<1>3. p = [k \in 1..(2 * n) |-> Word(values[(k + 1) \div 2])[2 - (k % 2)]]
  BY DEF PackWords, n
<1> HIDE DEF p
<1>4. \A k \in 1..(2 * n) : p[k] \in Byte
  BY <1>1, <1>2, <1>3, WordProperties
<1>5. 2 * n \in Nat
  BY <1>1
<1>6. p \in [1..(2 * n) -> Byte]
  BY <1>3, <1>4
<1>7. p \in Seq(Byte) /\ Len(p) = 2 * n
  BY <1>5, <1>6, FunctionIsSeq
<1>8. \A i \in 1..n : /\ 2 * i - 1 \in 1..(2 * n) /\ 2 * i \in 1..(2 * n)
                      /\ (2 * i - 1 + 1) \div 2 = i /\ (2 * i + 1) \div 2 = i
                      /\ 2 - ((2 * i - 1) % 2) = 1 /\ 2 - ((2 * i) % 2) = 2
  BY <1>1
<1>9. \A i \in 1..n : p[2 * i - 1] = Word(values[i])[1] /\ p[2 * i] = Word(values[i])[2]
  BY <1>3, <1>8
<1> QED  BY <1>7, <1>9 DEF p, n

LEMMA UnpackWordsProperties ==
  ASSUME NEW bytes \in Seq(Byte)
  PROVE  /\ UnpackWords(bytes) \in Seq(Register)
         /\ Len(UnpackWords(bytes)) = Len(bytes) \div 2
         /\ \A i \in 1..(Len(bytes) \div 2) : UnpackWords(bytes)[i] = WordAt(bytes, 2 * i - 1)
<1> DEFINE n == Len(bytes) \div 2
<1>1. Len(bytes) \in Nat /\ \A i \in 1..Len(bytes) : bytes[i] \in Byte
  BY LenProperties, ElementOfSeq
<1>2. n \in Nat /\ \A i \in 1..n : 2 * i - 1 \in 1..Len(bytes) /\ 2 * i - 1 + 1 \in 1..Len(bytes)
  BY <1>1
<1>3. \A i \in 1..n : WordAt(bytes, 2 * i - 1) \in Register
  <2> HIDE DEF n
  <2> SUFFICES ASSUME NEW i \in 1..n
               PROVE  WordAt(bytes, 2 * i - 1) \in Register
    OBVIOUS
  <2> DEFINE a == bytes[2 * i - 1]
             b == bytes[2 * i - 1 + 1]
  <2>1. a \in Byte /\ b \in Byte
    BY <1>1, <1>2
  <2>2. WordAt(bytes, 2 * i - 1) = 256 * a + b
    BY DEF WordAt
  <2> HIDE DEF a, b
  <2> QED  BY <2>1, <2>2, WordProperties
<1>4. UnpackWords(bytes) = [i \in 1..n |-> WordAt(bytes, 2 * i - 1)]
  BY DEF UnpackWords
<1>5. UnpackWords(bytes) \in [1..n -> Register]
  BY <1>3, <1>4
<1>6. \A i \in 1..n : UnpackWords(bytes)[i] = WordAt(bytes, 2 * i - 1)
  BY <1>4
<1> QED  BY <1>2, <1>5, <1>6, FunctionIsSeq

(* A register is its two bytes, the high one first.                        *)
LEMMA WordsLayout ==
  ASSUME NEW values \in Seq(Register)
  PROVE  \A i \in 1..Len(values) :
           256 * PackWords(values)[2 * i - 1] + PackWords(values)[2 * i] = values[i]
<1> DEFINE p == PackWords(values)
<1>1. \A i \in 1..Len(values) : p[2 * i - 1] = Word(values[i])[1] /\ p[2 * i] = Word(values[i])[2]
  BY PackWordsProperties
<1>2. \A i \in 1..Len(values) : values[i] \in Register
  BY LenProperties, ElementOfSeq
<1> HIDE DEF p
<1>3. ASSUME NEW i \in 1..Len(values)
      PROVE  256 * p[2 * i - 1] + p[2 * i] = values[i]
  <2>1. 256 * Word(values[i])[1] + Word(values[i])[2] = values[i]
    BY <1>2, WordProperties
  <2> QED  BY <1>1, <2>1
<1> QED  BY <1>3 DEF p

(* Registers that are packed and unpacked are what they were.              *)
LEMMA WordsRoundTrip ==
  ASSUME NEW values \in Seq(Register)
  PROVE  UnpackWords(PackWords(values)) = values
<1> DEFINE n == Len(values)
           p == PackWords(values)
<1>1. p \in Seq(Byte) /\ Len(p) = 2 * n
      /\ \A i \in 1..n : p[2 * i - 1] = Word(values[i])[1] /\ p[2 * i] = Word(values[i])[2]
  BY PackWordsProperties
<1>2. n \in Nat /\ \A i \in 1..n : values[i] \in Register
  BY LenProperties, ElementOfSeq
<1> HIDE DEF p, n
<1>3. (2 * n) \div 2 = n /\ \A i \in 1..n : 2 * i - 1 + 1 = 2 * i
  BY <1>2
<1>4. \A i \in 1..n : WordAt(p, 2 * i - 1) = values[i]
  <2>1. ASSUME NEW i \in 1..n
        PROVE  WordAt(p, 2 * i - 1) = 256 * Word(values[i])[1] + Word(values[i])[2]
    BY <1>1, <1>3 DEF WordAt
  <2> QED  BY <1>2, <2>1, WordProperties
<1>5. /\ UnpackWords(p) \in Seq(Register) /\ Len(UnpackWords(p)) = n
      /\ \A i \in 1..n : UnpackWords(p)[i] = WordAt(p, 2 * i - 1)
  BY <1>1, <1>3, UnpackWordsProperties
<1>6. Len(values) = n /\ \A i \in 1..n : UnpackWords(p)[i] = values[i]
  BY <1>4, <1>5 DEF n
<1> QED  BY <1>5, <1>6, SeqEqual DEF p

-----------------------------------------------------------------------------
(* Packed bits                                                             *)

(* A byte of eight bits, the lowest first.                                 *)
ByteOf(a, b, c, d, e, f, g, h) ==
  a + 2 * b + 4 * c + 8 * d + 16 * e + 32 * f + 64 * g + 128 * h

(* What the bit in place j of a byte is.                                   *)
BitPlace(byte, j, bit) ==
  /\ j = 0 => bit = (byte \div 1) % 2
  /\ j = 1 => bit = (byte \div 2) % 2
  /\ j = 2 => bit = (byte \div 4) % 2
  /\ j = 3 => bit = (byte \div 8) % 2
  /\ j = 4 => bit = (byte \div 16) % 2
  /\ j = 5 => bit = (byte \div 32) % 2
  /\ j = 6 => bit = (byte \div 64) % 2
  /\ j = 7 => bit = (byte \div 128) % 2

(* Bit i of bytes, by its place.                                           *)
LEMMA BitAtPlace ==
  ASSUME NEW bytes, NEW i \in Nat
  PROVE  BitPlace(bytes[i \div 8 + 1], i % 8, BitAt(bytes, i))
BY DEF BitAt, BitWeight, BitPlace

LEMMA BitInBit ==
  ASSUME NEW bits \in Seq(Bit), NEW k, NEW j
  PROVE  BitIn(bits, k, j) \in Bit
<1>1. 0 \in Bit /\ \A i \in DOMAIN bits : bits[i] \in Bit
  BY ElementOfSeq, LenProperties DEF Bit
<1> QED  BY <1>1 DEF BitIn

(* Bit i of what was packed is bit i, or 0 past the last.                  *)
LEMMA PackBitsProperties ==
  ASSUME NEW bits \in Seq(Bit)
  PROVE  /\ PackBits(bits) \in Seq(Byte) /\ Len(PackBits(bits)) = BitBytes(Len(bits))
         /\ \A i \in 0..(8 * BitBytes(Len(bits)) - 1) :
              BitAt(PackBits(bits), i) = IF i < Len(bits) THEN bits[i + 1] ELSE 0
<1> DEFINE n == BitBytes(Len(bits))
           p == PackBits(bits)
           B(k, j) == BitIn(bits, k, j)
           byte(k) == B(k, 1) + 2 * B(k, 2) + 4 * B(k, 3) + 8 * B(k, 4)
                      + 16 * B(k, 5) + 32 * B(k, 6) + 64 * B(k, 7) + 128 * B(k, 8)
<1>1. n \in Nat /\ Len(bits) \in Nat /\ DOMAIN bits = 1..Len(bits)
  BY LenProperties DEF BitBytes
<1>2. p = [k \in 1..n |-> byte(k)]
  BY DEF PackBits
<1>3. ASSUME NEW k \in 1..n
      PROVE  /\ byte(k) \in Byte
             /\ (byte(k) \div 1) % 2 = B(k, 1) /\ (byte(k) \div 2) % 2 = B(k, 2)
             /\ (byte(k) \div 4) % 2 = B(k, 3) /\ (byte(k) \div 8) % 2 = B(k, 4)
             /\ (byte(k) \div 16) % 2 = B(k, 5) /\ (byte(k) \div 32) % 2 = B(k, 6)
             /\ (byte(k) \div 64) % 2 = B(k, 7) /\ (byte(k) \div 128) % 2 = B(k, 8)
  <2> HIDE DEF B
  <2>1. /\ B(k, 1) \in Bit /\ B(k, 2) \in Bit /\ B(k, 3) \in Bit /\ B(k, 4) \in Bit
        /\ B(k, 5) \in Bit /\ B(k, 6) \in Bit /\ B(k, 7) \in Bit /\ B(k, 8) \in Bit
    BY BitInBit DEF B
  <2> DEFINE a1 == B(k, 1)  a2 == B(k, 2)  a3 == B(k, 3)  a4 == B(k, 4)
             a5 == B(k, 5)  a6 == B(k, 6)  a7 == B(k, 7)  a8 == B(k, 8)
  <2>2. /\ a1 \in Bit /\ a2 \in Bit /\ a3 \in Bit /\ a4 \in Bit
        /\ a5 \in Bit /\ a6 \in Bit /\ a7 \in Bit /\ a8 \in Bit
        /\ byte(k) = ByteOf(a1, a2, a3, a4, a5, a6, a7, a8)
    BY <2>1 DEF ByteOf
  <2> HIDE DEF a1, a2, a3, a4, a5, a6, a7, a8, byte
  <2>3. byte(k) \in Byte
    BY <2>2, Bounds DEF Bit, ByteOf
  <2>4. /\ a1 \in Int /\ 0 <= a1 /\ a1 <= 1 /\ a2 \in Int /\ 0 <= a2 /\ a2 <= 1
        /\ a3 \in Int /\ 0 <= a3 /\ a3 <= 1 /\ a4 \in Int /\ 0 <= a4 /\ a4 <= 1
        /\ a5 \in Int /\ 0 <= a5 /\ a5 <= 1 /\ a6 \in Int /\ 0 <= a6 /\ a6 <= 1
        /\ a7 \in Int /\ 0 <= a7 /\ a7 <= 1 /\ a8 \in Int /\ 0 <= a8 /\ a8 <= 1
        /\ byte(k) = a1 + 2 * a2 + 4 * a3 + 8 * a4 + 16 * a5 + 32 * a6 + 64 * a7 + 128 * a8
    BY <2>2 DEF Bit, ByteOf
  <2>5. (byte(k) \div 1) % 2 = a1 /\ (byte(k) \div 2) % 2 = a2
    BY <2>4
  <2>6. (byte(k) \div 4) % 2 = a3 /\ (byte(k) \div 8) % 2 = a4
    BY <2>4
  <2>7. (byte(k) \div 16) % 2 = a5 /\ (byte(k) \div 32) % 2 = a6
    BY <2>4
  <2>8. (byte(k) \div 64) % 2 = a7 /\ (byte(k) \div 128) % 2 = a8
    BY <2>4
  <2> QED  BY <2>3, <2>5, <2>6, <2>7, <2>8 DEF a1, a2, a3, a4, a5, a6, a7, a8
<1> HIDE DEF byte, p
<1>4. p \in [1..n -> Byte]
  BY <1>2, <1>3
<1>5. p \in Seq(Byte) /\ Len(p) = n
  BY <1>1, <1>4, FunctionIsSeq
<1>6. ASSUME NEW i \in 0..(8 * n - 1)
      PROVE  BitAt(p, i) = IF i < Len(bits) THEN bits[i + 1] ELSE 0
  <2> DEFINE k == i \div 8 + 1
             j == i % 8
  <2>1. i \in Nat /\ k \in 1..n /\ j \in 0..7 /\ 8 * k - 8 + (j + 1) = i + 1
    BY <1>1
  <2>2. p[k] = byte(k)
    BY <1>2, <2>1
  <2> HIDE DEF n, B
  <2>3. BitAt(p, i) = B(k, j + 1)
    <3> HIDE DEF j
    <3>1. BitPlace(p[k], j, BitAt(p, i))
      BY <2>1, BitAtPlace DEF j
    <3> HIDE DEF k
    <3>2. j \in {0, 1, 2, 3, 4, 5, 6, 7}
      BY <2>1
    <3>3. /\ (byte(k) \div 1) % 2 = B(k, 1) /\ (byte(k) \div 2) % 2 = B(k, 2)
          /\ (byte(k) \div 4) % 2 = B(k, 3) /\ (byte(k) \div 8) % 2 = B(k, 4)
          /\ (byte(k) \div 16) % 2 = B(k, 5) /\ (byte(k) \div 32) % 2 = B(k, 6)
          /\ (byte(k) \div 64) % 2 = B(k, 7) /\ (byte(k) \div 128) % 2 = B(k, 8)
      BY <1>3, <2>1
    <3>4. 0 + 1 = 1 /\ 1 + 1 = 2 /\ 2 + 1 = 3 /\ 3 + 1 = 4 /\ 4 + 1 = 5 /\ 5 + 1 = 6
          /\ 6 + 1 = 7 /\ 7 + 1 = 8
      OBVIOUS
    <3> QED  BY <2>2, <3>1, <3>2, <3>3, <3>4 DEF BitPlace
  <2>4. B(k, j + 1) = IF i + 1 \in DOMAIN bits THEN bits[i + 1] ELSE 0
    BY <2>1 DEF B, BitIn
  <2>5. i + 1 \in DOMAIN bits <=> i < Len(bits)
    BY <1>1, <2>1
  <2> QED  BY <2>3, <2>4, <2>5
<1> QED  BY <1>5, <1>6 DEF p

(* Packed bits that are unpacked are what they were.                       *)
LEMMA BitsRoundTrip ==
  ASSUME NEW bits \in Seq(Bit)
  PROVE  UnpackBits(PackBits(bits), Len(bits)) = bits
<1> DEFINE n == Len(bits)
           u == UnpackBits(PackBits(bits), n)
<1>1. n \in Nat /\ \A i \in 1..n : bits[i] \in Bit
  BY LenProperties, ElementOfSeq
<1>2. \A i \in 1..n : i - 1 \in 0..(8 * BitBytes(n) - 1) /\ i - 1 < n /\ i - 1 + 1 = i
  BY <1>1 DEF BitBytes
<1>3. \A i \in 1..n : BitAt(PackBits(bits), i - 1) = bits[i]
  BY <1>2, PackBitsProperties
<1>4. u = [i \in 1..n |-> BitAt(PackBits(bits), i - 1)]
  BY DEF UnpackBits
<1>5. u \in [1..n -> Bit] /\ \A i \in 1..n : u[i] = bits[i]
  BY <1>1, <1>3, <1>4
<1> HIDE DEF u
<1>6. u \in Seq(Bit) /\ Len(u) = n
  BY <1>1, <1>5, FunctionIsSeq
<1> QED  BY <1>5, <1>6, SeqEqual DEF u

(* A bit of bytes, and bits as many as there are bytes for.               *)
LEMMA BitAtBit ==
  ASSUME NEW bytes \in Seq(Byte), NEW i \in 0..(8 * Len(bytes) - 1)
  PROVE  BitAt(bytes, i) \in Bit
<1>1. i \in Nat /\ i \div 8 + 1 \in 1..Len(bytes)
  BY LenProperties
<1>2. bytes[i \div 8 + 1] \in Nat
  <2>1. bytes[i \div 8 + 1] \in Byte
    BY <1>1, ElementOfSeq
  <2>2. \A y \in Byte : y \in Nat
    BY DEF Byte
  <2> QED  BY <2>1, <2>2
<1> DEFINE x == bytes[i \div 8 + 1]
<1>4. BitPlace(x, i % 8, BitAt(bytes, i))
  BY <1>1, BitAtPlace
<1>5. x \in Nat /\ i % 8 \in {0, 1, 2, 3, 4, 5, 6, 7}
  BY <1>1, <1>2
<1> HIDE DEF x
<1>6. /\ (x \div 1) % 2 \in {0, 1} /\ (x \div 2) % 2 \in {0, 1}
      /\ (x \div 4) % 2 \in {0, 1} /\ (x \div 8) % 2 \in {0, 1}
      /\ (x \div 16) % 2 \in {0, 1} /\ (x \div 32) % 2 \in {0, 1}
      /\ (x \div 64) % 2 \in {0, 1} /\ (x \div 128) % 2 \in {0, 1}
  BY <1>5
<1>7. BitAt(bytes, i) \in {0, 1}
  BY <1>4, <1>5, <1>6 DEF BitPlace
<1> QED  BY <1>7 DEF Bit

LEMMA UnpackBitsProperties ==
  ASSUME NEW bytes \in Seq(Byte), NEW count \in Nat, BitBytes(count) <= Len(bytes)
  PROVE  UnpackBits(bytes, count) \in Seq(Bit) /\ Len(UnpackBits(bytes, count)) = count
<1>1. \A i \in 1..count : i - 1 \in 0..(8 * Len(bytes) - 1)
  BY LenProperties DEF BitBytes
<1>2. \A i \in 1..count : BitAt(bytes, i - 1) \in Bit
  BY <1>1, BitAtBit
<1>3. UnpackBits(bytes, count) \in [1..count -> Bit]
  BY <1>2 DEF UnpackBits
<1> QED  BY <1>3, FunctionIsSeq

-----------------------------------------------------------------------------
(* Induction                                                               *)

(* What holds of 0, and of n + 1 if it holds of n, holds of every number.  *)
LEMMA SetInduction ==
  ASSUME NEW S, 0 \in S, \A n \in Nat : n \in S => n + 1 \in S
  PROVE  \A n \in Nat : n \in S
<1> DEFINE R == OpToRel(<, Nat)
           T == {n \in Nat : n \notin S}
<1>1. IsWellFoundedOn(R, Nat)
  BY NatLessThanWellFounded
<1>2. R = {ss \in Nat \X Nat : ss[1] < ss[2]}
  BY DEF OpToRel
<1> HIDE DEF R
<1>3. ASSUME T # {} PROVE FALSE
  <2>1. PICK x \in T : \A y \in T : <<y, x>> \notin R
    BY <1>1, <1>3, WFMin, T \subseteq Nat
  <2>2. x # 0 /\ x - 1 \in Nat
    OBVIOUS
  <2>3. x - 1 \in T
    BY <2>2
  <2>4. <<x - 1, x>> \in R
    BY <2>2, <1>2
  <2> QED  BY <2>1, <2>3, <2>4
<1> QED  BY <1>3

-----------------------------------------------------------------------------
(* Numbers of digits                                                       *)

(* f[k] is the number of the digits from the k-th on.                      *)
DigitsFrom(f, d, base) ==
  f = [k \in 1..(Len(d) + 1) |-> IF k > Len(d) THEN 0 ELSE d[k] + base * f[k + 1]]

(* There is such a function: it is built from the last digit down.         *)
LEMMA DigitsFromExists ==
  ASSUME NEW d \in Seq(Int), NEW base \in Int
  PROVE  \E f \in [1..(Len(d) + 1) -> Int] : DigitsFrom(f, d, base)
<1> DEFINE n == Len(d)
           Upto(m, f) ==
             \A k \in 1..(n + 1) : k >= n + 1 - m =>
               f[k] = IF k > n THEN 0 ELSE d[k] + base * f[k + 1]
           S == {m \in Nat : m <= n => \E f \in [1..(n + 1) -> Int] : Upto(m, f)}
<1>1. n \in Nat /\ \A k \in 1..n : d[k] \in Int
  BY LenProperties, ElementOfSeq
<1> HIDE DEF n
<1>2. 0 \in S
  <2> DEFINE z == [k \in 1..(n + 1) |-> 0]
  <2>1. z \in [1..(n + 1) -> Int] /\ Upto(0, z)
    BY <1>1
  <2> QED  BY <2>1
<1>3. ASSUME NEW m \in Nat, m \in S PROVE m + 1 \in S
  <2> SUFFICES ASSUME m + 1 <= n
               PROVE  \E f \in [1..(n + 1) -> Int] : Upto(m + 1, f)
    OBVIOUS
  <2>1. PICK f \in [1..(n + 1) -> Int] : Upto(m, f)
    BY <1>1, <1>3
  <2> DEFINE j == n - m
             v == d[j] + base * f[j + 1]
             g == [f EXCEPT ![j] = v]
  <2>2. j \in 1..n /\ j + 1 \in 1..(n + 1) /\ d[j] \in Int /\ f[j + 1] \in Int
    BY <1>1
  <2>3. v \in Int
    <3>1. base * f[j + 1] \in Int
      BY <2>2
    <3> QED  BY <2>2, <3>1
  <2> HIDE DEF v
  <2>4. g \in [1..(n + 1) -> Int]
    BY <2>3
  <2>5. ASSUME NEW k \in 1..(n + 1), k >= n + 1 - (m + 1)
        PROVE  g[k] = IF k > n THEN 0 ELSE d[k] + base * g[k + 1]
    <3>1. CASE k = j
      <4>1. g[k] = v /\ g[k + 1] = f[k + 1] /\ ~(k > n)
        BY <1>1, <2>2, <3>1
      <4> HIDE DEF g
      <4> QED  BY <3>1, <4>1, Zenon DEF v
    <3>2. CASE k # j
      <4>1. k >= n + 1 - m /\ k + 1 # j /\ k \in Int /\ j \in Int /\ (~(k > n) => k + 1 \in 1..(n + 1))
        BY <1>1, <2>5, <3>2
      <4>2. g[k] = f[k] /\ (~(k > n) => g[k + 1] = f[k + 1])
        BY <3>2, <4>1
      <4>3. f[k] = IF k > n THEN 0 ELSE d[k] + base * f[k + 1]
        BY <2>1, <4>1
      <4> HIDE DEF g
      <4> QED  BY <4>2, <4>3
    <3> QED  BY <3>1, <3>2
  <2> HIDE DEF g
  <2> QED  BY <2>4, <2>5
<1> HIDE DEF S
<1>4. n \in S
  BY <1>1, <1>2, <1>3, SetInduction
<1>5. PICK f \in [1..(n + 1) -> Int] : Upto(n, f)
  BY <1>1, <1>4 DEF S
<1>6. \A k \in 1..(n + 1) : f[k] = IF k > n THEN 0 ELSE d[k] + base * f[k + 1]
  BY <1>1, <1>5
<1>7. f = [k \in 1..(n + 1) |-> IF k > n THEN 0 ELSE d[k] + base * f[k + 1]]
  BY <1>6
<1>8. DigitsFrom(f, d, base)
  BY <1>7 DEF DigitsFrom, n
<1> QED  BY <1>8 DEF n

(* Such a function has numbers as values, as digits have.                  *)
LEMMA DigitsFromTyped ==
  ASSUME NEW d \in Seq(Int), NEW base \in Int, NEW f, DigitsFrom(f, d, base)
  PROVE  /\ \A k \in 1..(Len(d) + 1) : f[k] \in Int
         /\ \A k \in 1..Len(d) : f[k] = d[k] + base * f[k + 1]
         /\ f[Len(d) + 1] = 0
<1> DEFINE n == Len(d)
           S == {m \in Nat : m <= n => f[n + 1 - m] \in Int}
<1>1. n \in Nat /\ \A k \in 1..n : d[k] \in Int
  BY LenProperties, ElementOfSeq
<1>2. \A k \in 1..(n + 1) : f[k] = IF k > n THEN 0 ELSE d[k] + base * f[k + 1]
  BY DEF DigitsFrom
<1> HIDE DEF n
<1>3. f[n + 1] = 0 /\ \A k \in 1..n : f[k] = d[k] + base * f[k + 1]
  BY <1>1, <1>2
<1>4. 0 \in S
  BY <1>1, <1>3
<1>5. ASSUME NEW m \in Nat, m \in S PROVE m + 1 \in S
  <2> SUFFICES ASSUME m + 1 <= n PROVE f[n + 1 - (m + 1)] \in Int
    OBVIOUS
  <2> DEFINE j == n + 1 - (m + 1)
  <2>1. j \in 1..n /\ j + 1 = n + 1 - m /\ m <= n
    BY <1>1
  <2>2. d[j] \in Int /\ f[j + 1] \in Int
    BY <1>1, <1>5, <2>1
  <2>3. base * f[j + 1] \in Int
    BY <2>2
  <2>4. f[j] = d[j] + base * f[j + 1]
    BY <1>3, <2>1
  <2> HIDE DEF j
  <2>5. f[j] \in Int
    BY <2>2, <2>3, <2>4
  <2> QED  BY <2>5 DEF j
<1> HIDE DEF S
<1>6. \A m \in Nat : m \in S
  BY <1>4, <1>5, SetInduction
<1>7. ASSUME NEW k \in 1..(n + 1) PROVE f[k] \in Int
  <2>1. n + 1 - k \in Nat /\ n + 1 - k <= n /\ n + 1 - (n + 1 - k) = k
    BY <1>1
  <2> QED  BY <1>6, <2>1 DEF S
<1> QED  BY <1>3, <1>7 DEF n

(* A number is the value at its first digit of such a function.            *)
LEMMA NumberDigits ==
  ASSUME NEW d \in Seq(Int), NEW base \in Int
  PROVE  \E f : /\ Number(d, base) = f[1]
                /\ \A k \in 1..(Len(d) + 1) : f[k] \in Int
                /\ \A k \in 1..Len(d) : f[k] = d[k] + base * f[k + 1]
                /\ f[Len(d) + 1] = 0
<1> DEFINE f == CHOOSE f : DigitsFrom(f, d, base)
<1>1. DigitsFrom(f, d, base)
  BY DigitsFromExists
<1>2. Number(d, base) = f[1]
  BY DEF Number, DigitsFrom
<1> HIDE DEF f
<1> QED  BY <1>1, <1>2, DigitsFromTyped

(* Two digits, and eight of them.                                          *)
LEMMA TwoDigits ==
  \A x, y, z, a, b \in Int : x = a + 2 * y /\ y = b + 2 * z => x = a + 2 * b + 4 * z
OBVIOUS

LEMMA EightDigits ==
  \A w, x, y, z, v, a, b, c, d, e, f, g, h \in Int :
    /\ w = a + 2 * b + 4 * x /\ x = c + 2 * d + 4 * y
    /\ y = e + 2 * f + 4 * z /\ z = g + 2 * h + 4 * v
    => w = (a + 2 * b + 4 * c + 8 * d + 16 * e + 32 * f + 64 * g + 128 * h) + 256 * v
OBVIOUS

(* Packed bits, read as one number, are the bits read as one number.       *)
LEMMA PackBitsNumber ==
  ASSUME NEW bits \in Seq(Bit)
  PROVE  Number(PackBits(bits), 256) = Number(bits, 2)
<1> DEFINE p == PackBits(bits)
           n == Len(p)
           l == Len(bits)
           B == [i \in Nat \ {0} |-> IF i \in 1..l THEN bits[i] ELSE 0]
<1>1. /\ n \in Nat /\ l \in Nat /\ n = (l + 7) \div 8 /\ DOMAIN bits = 1..l
      /\ p \in Seq(Byte)
  BY PackBitsProperties, LenProperties DEF BitBytes
<1>2. \A k \in 1..n : p[k] = B[8 * k - 7] + 2 * B[8 * k - 6] + 4 * B[8 * k - 5]
        + 8 * B[8 * k - 4] + 16 * B[8 * k - 3] + 32 * B[8 * k - 2]
        + 64 * B[8 * k - 1] + 128 * B[8 * k]
  <2> SUFFICES ASSUME NEW k \in 1..n
               PROVE  p[k] = B[8 * k - 7] + 2 * B[8 * k - 6] + 4 * B[8 * k - 5]
                             + 8 * B[8 * k - 4] + 16 * B[8 * k - 3] + 32 * B[8 * k - 2]
                             + 64 * B[8 * k - 1] + 128 * B[8 * k]
    OBVIOUS
  <2>1. /\ k \in Int
        /\ 8 * k - 8 + 1 = 8 * k - 7 /\ 8 * k - 8 + 2 = 8 * k - 6 /\ 8 * k - 8 + 3 = 8 * k - 5
        /\ 8 * k - 8 + 4 = 8 * k - 4 /\ 8 * k - 8 + 5 = 8 * k - 3 /\ 8 * k - 8 + 6 = 8 * k - 2
        /\ 8 * k - 8 + 7 = 8 * k - 1 /\ 8 * k - 8 + 8 = 8 * k
    BY <1>1
  <2>2. /\ BitIn(bits, k, 1) = B[8 * k - 7] /\ BitIn(bits, k, 2) = B[8 * k - 6]
        /\ BitIn(bits, k, 3) = B[8 * k - 5] /\ BitIn(bits, k, 4) = B[8 * k - 4]
        /\ BitIn(bits, k, 5) = B[8 * k - 3] /\ BitIn(bits, k, 6) = B[8 * k - 2]
        /\ BitIn(bits, k, 7) = B[8 * k - 1] /\ BitIn(bits, k, 8) = B[8 * k]
    BY <1>1, <2>1 DEF BitIn
  <2>3. k \in 1..BitBytes(Len(bits))
    BY PackBitsProperties
  <2>4. p[k] = BitIn(bits, k, 1) + 2 * BitIn(bits, k, 2) + 4 * BitIn(bits, k, 3)
               + 8 * BitIn(bits, k, 4) + 16 * BitIn(bits, k, 5) + 32 * BitIn(bits, k, 6)
               + 64 * BitIn(bits, k, 7) + 128 * BitIn(bits, k, 8)
    BY <2>3 DEF PackBits
  <2> HIDE DEF p, B
  <2> QED  BY <2>2, <2>4
<1>3. \A i \in Nat \ {0} : B[i] \in Int
  <2>1. \A i \in 1..l : bits[i] \in Int
    BY <1>1, ElementOfSeq DEF Bit
  <2> QED  BY <2>1
<1> HIDE DEF p, l, B
<1>4. bits \in Seq(Int) /\ p \in Seq(Int)
  <2>1. Bit \subseteq Int /\ Byte \subseteq Int
    BY Bounds DEF Bit
  <2> QED  BY <1>1, <2>1, SeqMonotonic
<1>5. PICK f : /\ Number(p, 256) = f[1]
               /\ \A k \in 1..(n + 1) : f[k] \in Int
               /\ \A k \in 1..n : f[k] = p[k] + 256 * f[k + 1]
               /\ f[n + 1] = 0
  <2>1. 256 \in Int
    OBVIOUS
  <2> QED  BY <1>4, <2>1, NumberDigits
<1>6. PICK g : /\ Number(bits, 2) = g[1]
               /\ \A k \in 1..(l + 1) : g[k] \in Int
               /\ \A k \in 1..l : g[k] = bits[k] + 2 * g[k + 1]
               /\ g[l + 1] = 0
  <2>1. 2 \in Int
    OBVIOUS
  <2> QED  BY <1>4, <2>1, NumberDigits DEF l
<1> HIDE DEF n
<1> DEFINE G == [i \in Nat \ {0} |-> IF i \in 1..(l + 1) THEN g[i] ELSE 0]
<1>7. \A i \in Nat \ {0} : G[i] \in Int /\ G[i] = B[i] + 2 * G[i + 1]
  <2> SUFFICES ASSUME NEW i \in Nat \ {0}
               PROVE  G[i] \in Int /\ G[i] = B[i] + 2 * G[i + 1]
    OBVIOUS
  <2>1. CASE i <= l
    <3>1. i \in 1..l /\ i \in 1..(l + 1) /\ i + 1 \in 1..(l + 1)
      BY <1>1, <2>1
    <3>2. G[i] = g[i] /\ G[i + 1] = g[i + 1] /\ B[i] = bits[i]
      BY <3>1 DEF B
    <3>3. g[i] \in Int /\ g[i] = bits[i] + 2 * g[i + 1]
      BY <1>6, <3>1
    <3> HIDE DEF G
    <3> QED  BY <3>2, <3>3, Zenon
  <2>2. CASE i > l
    <3>1. i \notin 1..l /\ i + 1 \notin 1..(l + 1) /\ (i \in 1..(l + 1) => i = l + 1)
      BY <1>1, <2>2
    <3>2. B[i] = 0 /\ G[i + 1] = 0 /\ G[i] = 0
      BY <1>6, <3>1 DEF B
    <3> HIDE DEF G
    <3> QED  BY <3>2
  <2> QED  BY <1>1, <2>1, <2>2
<1> HIDE DEF G
<1>8. \A k \in 1..n : G[8 * k - 7] \in Int /\ G[8 * k + 1] \in Int
                      /\ G[8 * k - 7] = p[k] + 256 * G[8 * k + 1]
  <2> SUFFICES ASSUME NEW k \in 1..n
               PROVE  G[8 * k - 7] \in Int /\ G[8 * k + 1] \in Int
                      /\ G[8 * k - 7] = p[k] + 256 * G[8 * k + 1]
    OBVIOUS
  <2>1. /\ 8 * k - 7 \in Nat \ {0} /\ 8 * k - 6 \in Nat \ {0} /\ 8 * k - 5 \in Nat \ {0}
        /\ 8 * k - 4 \in Nat \ {0} /\ 8 * k - 3 \in Nat \ {0} /\ 8 * k - 2 \in Nat \ {0}
        /\ 8 * k - 1 \in Nat \ {0} /\ 8 * k \in Nat \ {0} /\ 8 * k + 1 \in Nat \ {0}
    BY <1>1
  <2>2. /\ 8 * k - 7 + 1 = 8 * k - 6 /\ 8 * k - 6 + 1 = 8 * k - 5 /\ 8 * k - 5 + 1 = 8 * k - 4
        /\ 8 * k - 4 + 1 = 8 * k - 3 /\ 8 * k - 3 + 1 = 8 * k - 2 /\ 8 * k - 2 + 1 = 8 * k - 1
        /\ 8 * k - 1 + 1 = 8 * k
    BY <1>1
  <2> DEFINE i1 == 8 * k - 7  i2 == 8 * k - 6  i3 == 8 * k - 5  i4 == 8 * k - 4
             i5 == 8 * k - 3  i6 == 8 * k - 2  i7 == 8 * k - 1  i8 == 8 * k  i9 == 8 * k + 1
  <2>3. /\ i1 \in Nat \ {0} /\ i2 \in Nat \ {0} /\ i3 \in Nat \ {0} /\ i4 \in Nat \ {0}
        /\ i5 \in Nat \ {0} /\ i6 \in Nat \ {0} /\ i7 \in Nat \ {0} /\ i8 \in Nat \ {0}
        /\ i9 \in Nat \ {0}
        /\ i1 + 1 = i2 /\ i2 + 1 = i3 /\ i3 + 1 = i4 /\ i4 + 1 = i5 /\ i5 + 1 = i6
        /\ i6 + 1 = i7 /\ i7 + 1 = i8 /\ i8 + 1 = i9
    BY <2>1, <2>2
  <2>4. p[k] = B[i1] + 2 * B[i2] + 4 * B[i3] + 8 * B[i4] + 16 * B[i5] + 32 * B[i6]
               + 64 * B[i7] + 128 * B[i8]
    BY <1>2
  <2> HIDE DEF i1, i2, i3, i4, i5, i6, i7, i8, i9
  <2> DEFINE x1 == G[i1] x2 == G[i2] x3 == G[i3] x4 == G[i4] x5 == G[i5]
             x6 == G[i6] x7 == G[i7] x8 == G[i8] x9 == G[i9]
             b1 == B[i1] b2 == B[i2] b3 == B[i3] b4 == B[i4]
             b5 == B[i5] b6 == B[i6] b7 == B[i7] b8 == B[i8]
  <2>5. /\ x1 = b1 + 2 * x2 /\ x2 = b2 + 2 * x3
        /\ x3 = b3 + 2 * x4 /\ x4 = b4 + 2 * x5
        /\ x5 = b5 + 2 * x6 /\ x6 = b6 + 2 * x7
        /\ x7 = b7 + 2 * x8 /\ x8 = b8 + 2 * x9
    BY <1>7, <2>3
  <2>6. /\ x1 \in Int /\ x2 \in Int /\ x3 \in Int /\ x4 \in Int /\ x5 \in Int
        /\ x6 \in Int /\ x7 \in Int /\ x8 \in Int /\ x9 \in Int
        /\ b1 \in Int /\ b2 \in Int /\ b3 \in Int /\ b4 \in Int
        /\ b5 \in Int /\ b6 \in Int /\ b7 \in Int /\ b8 \in Int
    BY <1>3, <1>7, <2>3
  <2>7. p[k] = b1 + 2 * b2 + 4 * b3 + 8 * b4 + 16 * b5 + 32 * b6 + 64 * b7 + 128 * b8
    BY <2>4
  <2> HIDE DEF x1, x2, x3, x4, x5, x6, x7, x8, x9, b1, b2, b3, b4, b5, b6, b7, b8
  <2>8. x1 = p[k] + 256 * x9
    <3>1. x7 = b7 + 2 * b8 + 4 * x9
      BY <2>5, <2>6
    <3>2. x5 = b5 + 2 * b6 + 4 * x7
      BY <2>5, <2>6
    <3>3. x3 = b3 + 2 * b4 + 4 * x5
      BY <2>5, <2>6
    <3>4. x1 = b1 + 2 * b2 + 4 * x3
      BY <2>5, <2>6
    <3> QED  BY <2>6, <2>7, <3>1, <3>2, <3>3, <3>4
  <2> QED  BY <2>6, <2>8 DEF x1, x9, i1, i9
<1> DEFINE S == {m \in Nat : m <= n => f[n + 1 - m] = G[8 * (n + 1 - m) - 7]}
<1>9. 0 \in S
  <2>1. 8 * (n + 1 - 0) - 7 \in Nat \ {0} /\ 8 * (n + 1 - 0) - 7 >= l + 1 /\ n + 1 - 0 = n + 1
    BY <1>1
  <2>2. G[8 * (n + 1 - 0) - 7] = 0
    BY <1>1, <1>6, <2>1 DEF G
  <2> QED  BY <1>5, <2>1, <2>2
<1>10. ASSUME NEW m \in Nat, m \in S PROVE m + 1 \in S
  <2> SUFFICES ASSUME m + 1 <= n
               PROVE  f[n + 1 - (m + 1)] = G[8 * (n + 1 - (m + 1)) - 7]
    OBVIOUS
  <2> DEFINE k == n + 1 - (m + 1)
  <2>1. k \in 1..n /\ m <= n /\ n + 1 - m = k + 1 /\ 8 * (n + 1 - m) - 7 = 8 * k + 1
    BY <1>1
  <2>2. f[k + 1] = G[8 * k + 1]
    BY <1>10, <2>1
  <2> HIDE DEF k
  <2>3. f[k] = p[k] + 256 * f[k + 1] /\ G[8 * k - 7] = p[k] + 256 * G[8 * k + 1]
    BY <1>5, <1>8, <2>1
  <2>4. f[k] = G[8 * k - 7]
    BY <2>2, <2>3, Zenon
  <2> QED  BY <2>4 DEF k
<1> HIDE DEF S
<1>11. \A m \in Nat : m \in S
  BY <1>9, <1>10, SetInduction
<1>12. f[1] = g[1]
  <2>1. n + 1 - n = 1 /\ n <= n /\ 8 * 1 - 7 = 1 /\ 1 \in 1..(l + 1)
    BY <1>1
  <2>2. f[n + 1 - n] = G[8 * (n + 1 - n) - 7]
    BY <1>1, <1>11, <2>1 DEF S
  <2> QED  BY <2>1, <2>2 DEF G
<1> QED  BY <1>5, <1>6, <1>12 DEF p

-----------------------------------------------------------------------------
(* The data of a request or of a response, for bits and for registers.     *)
Value(fc) == IF OfBits(fc) \/ fc = WriteCoil THEN Bit ELSE Register

(* The function codes, and what they are of.                               *)
LEMMA Codes ==
  /\ \A fc : fc \in ReadBits <=> (fc = 1 \/ fc = 2)
  /\ \A fc : fc \in ReadRegisters <=> (fc = 3 \/ fc = 4)
  /\ \A fc : fc \in Reads <=> (fc = 1 \/ fc = 2 \/ fc = 3 \/ fc = 4)
  /\ \A fc : fc \in WriteMultiple <=> (fc = 15 \/ fc = 16)
  /\ \A fc : fc \in FunctionCodes <=>
       (fc \in Reads \/ fc \in WriteMultiple \/ fc = 5 \/ fc = 6 \/ fc = 8)
  /\ \A fc : OfBits(fc) <=> (fc = 1 \/ fc = 2 \/ fc = 15)
  /\ WriteCoil = 5 /\ WriteRegister = 6 /\ Loopback = 8
  /\ WriteCoils = 15 /\ WriteRegisters = 16
<1>1. /\ \A fc : fc \in ReadBits <=> (fc = 1 \/ fc = 2)
      /\ \A fc : fc \in ReadRegisters <=> (fc = 3 \/ fc = 4)
  BY DEF ReadBits, ReadRegisters
<1>2. \A fc : fc \in Reads <=> (fc = 1 \/ fc = 2 \/ fc = 3 \/ fc = 4)
  BY <1>1 DEF Reads
<1>3. \A fc : fc \in WriteMultiple <=> (fc = 15 \/ fc = 16)
  BY DEF WriteMultiple, WriteCoils, WriteRegisters
<1>4. \A fc : fc \in FunctionCodes <=>
       (fc \in Reads \/ fc \in WriteMultiple \/ fc = 5 \/ fc = 6 \/ fc = 8)
  BY DEF FunctionCodes, WriteCoil, WriteRegister, Loopback
<1>5. \A fc : OfBits(fc) <=> (fc = 1 \/ fc = 2 \/ fc = 15)
  BY <1>1 DEF OfBits, WriteCoils
<1> QED
  BY <1>1, <1>2, <1>3, <1>4, <1>5 DEF WriteCoil, WriteRegister, Loopback, WriteCoils, WriteRegisters

LEMMA PackProperties ==
  ASSUME NEW fc, fc # WriteCoil, NEW values \in Seq(Value(fc))
  PROVE  /\ Pack(fc, values) \in Seq(Byte)
         /\ Len(Pack(fc, values)) = DataBytes(fc, Len(values))
         /\ Unpack(fc, Pack(fc, values), Len(values)) = values
<1>1. CASE OfBits(fc)
  <2>1. values \in Seq(Bit)
    BY <1>1 DEF Value
  <2>2. Pack(fc, values) = PackBits(values) /\ DataBytes(fc, Len(values)) = BitBytes(Len(values))
    BY <1>1 DEF Pack, DataBytes
  <2>3. Unpack(fc, Pack(fc, values), Len(values)) = UnpackBits(PackBits(values), Len(values))
    BY <1>1, <2>2 DEF Unpack
  <2>4. PackBits(values) \in Seq(Byte) /\ Len(PackBits(values)) = BitBytes(Len(values))
    BY <2>1, PackBitsProperties
  <2> QED  BY <2>1, <2>2, <2>3, <2>4, BitsRoundTrip
<1>2. CASE ~OfBits(fc)
  <2>1. values \in Seq(Register)
    BY <1>2 DEF Value
  <2>2. Pack(fc, values) = PackWords(values) /\ DataBytes(fc, Len(values)) = 2 * Len(values)
    BY <1>2 DEF Pack, DataBytes
  <2>3. Unpack(fc, Pack(fc, values), Len(values)) = UnpackWords(PackWords(values))
    BY <1>2, <2>2 DEF Unpack
  <2>4. PackWords(values) \in Seq(Byte) /\ Len(PackWords(values)) = 2 * Len(values)
    BY <2>1, PackWordsProperties
  <2> QED  BY <2>1, <2>2, <2>3, <2>4, WordsRoundTrip
<1> QED  BY <1>1, <1>2

-----------------------------------------------------------------------------
(* Requests                                                                *)

(* The word after the address in a request: a quantity, or the value.      *)
SecondWord(r) ==
  IF r.fc \in Reads \cup WriteMultiple THEN r.count
  ELSE IF r.fc = WriteCoil THEN CoilWord(r.values[1]) ELSE r.values[1]

(* The quantities of the protocol fit a word, and their data a byte.       *)
LEMMA QuantityProperties ==
  ASSUME NEW fc \in Reads \cup WriteMultiple, NEW count, QuantityOK(fc, count)
  PROVE  /\ count \in 1..2000 /\ count \in Register
         /\ DataBytes(fc, count) \in 1..250
<1>1. \/ fc \in {1, 2} /\ MaxQuantity(fc) = MaxReadBits
      \/ fc \in {3, 4} /\ MaxQuantity(fc) = MaxReadRegisters
      \/ fc = 15 /\ MaxQuantity(fc) = MaxWriteCoils
      \/ fc = 16 /\ MaxQuantity(fc) = MaxWriteRegisters
  BY DEF MaxQuantity, Reads, ReadBits, ReadRegisters, WriteMultiple, WriteCoils, WriteRegisters
<1>2. count \in 1..MaxQuantity(fc)
  BY DEF QuantityOK
<1>3. \A n \in Int : 1 <= n /\ n <= 2000 => n \in 1..2000 /\ n \in Register
  BY Bounds
<1>4. \A n \in Int : 1 <= n /\ n <= 250 => n \in 1..250
  OBVIOUS
<1>5. CASE OfBits(fc)
  <2>1. MaxQuantity(fc) \in {MaxReadBits, MaxWriteCoils}
    BY <1>1, <1>5, Codes
  <2>2. /\ MaxReadBits \in Nat /\ MaxReadBits <= 2000
        /\ MaxWriteCoils \in Nat /\ MaxWriteCoils <= 2000
    BY QuantityAssumption
  <2>3. count \in Int /\ 1 <= count /\ count <= 2000
    BY <1>2, <2>1, <2>2
  <2> DEFINE b == (count + 7) \div 8
  <2>4. b \in Int /\ 1 <= b /\ b <= 250
    BY <2>3
  <2>5. DataBytes(fc, count) = b
    BY <1>5 DEF DataBytes, BitBytes
  <2> QED  BY <1>3, <1>4, <2>3, <2>4, <2>5
<1>6. CASE ~OfBits(fc)
  <2>1. MaxQuantity(fc) \in {MaxReadRegisters, MaxWriteRegisters}
    BY <1>1, <1>6, Codes
  <2>2. /\ MaxReadRegisters \in Nat /\ MaxReadRegisters <= 125
        /\ MaxWriteRegisters \in Nat /\ MaxWriteRegisters <= 125
    BY QuantityAssumption
  <2>3. count \in Int /\ 1 <= count /\ count <= 125
    BY <1>2, <2>1, <2>2
  <2>4. 2 * count \in Int /\ 1 <= 2 * count /\ 2 * count <= 250 /\ count <= 2000
    BY <2>3
  <2>5. DataBytes(fc, count) = 2 * count
    BY <1>6 DEF DataBytes
  <2> QED  BY <1>3, <1>4, <2>3, <2>4, <2>5
<1> QED  BY <1>5, <1>6

LEMMA ReadQuantity ==
  \A fc, count : fc \in Reads /\ QuantityOK(fc, count) => DataBytes(fc, count) \in 1..250
<1> SUFFICES ASSUME NEW fc, NEW count, fc \in Reads, QuantityOK(fc, count)
             PROVE  DataBytes(fc, count) \in 1..250
  OBVIOUS
<1> QED  BY QuantityProperties

(* What the values of a request that is sent are.                          *)
LEMMA CalledProperties ==
  ASSUME NEW r, AsCalled(r), Encodable(r)
  PROVE  /\ r.fc \in FunctionCodes /\ r.fc \in 1..16 /\ r.address \in Register
         /\ SecondWord(r) \in Register
         /\ r.values \in Seq(Value(r.fc))
         /\ r.fc \notin Reads => Len(r.values) = r.count
         /\ r.fc \in WriteMultiple => QuantityOK(r.fc, r.count)
<1>9. r.fc \in FunctionCodes
  BY DEF AsCalled
<1>1. r.fc \in {1, 2, 3, 4, 5, 6, 8, 15, 16}
  BY <1>9, Codes
<1>10. r.address \in Register
  <2>1. r.address \in 0..MaxAddress
    BY DEF Encodable
  <2>2. MaxAddress = MaxRegisterValue
    BY DEF MaxAddress, MaxRegisterValue
  <2> QED  BY <2>1, <2>2 DEF Register
<1>2. r.fc \notin Reads => Len(r.values) = r.count
  BY DEF AsCalled, Encodable
<1>3. r.fc \in {6, 8, 16} => r.values \in Seq(Register)
  <2> SUFFICES ASSUME r.fc \in {6, 8, 16} PROVE r.values \in Seq(Register)
    OBVIOUS
  <2>1. r.values \in Seq(Int) /\ \A i \in DOMAIN r.values : r.values[i] \in Register
    BY DEF AsCalled, Encodable, WriteRegister, Loopback, WriteRegisters, WriteCoil, WriteCoils,
           Register
  <2>2. r.values \in [1..Len(r.values) -> Register] /\ Len(r.values) \in Nat
    BY <2>1, LenProperties
  <2> QED  BY <2>2, FunctionIsSeq
<1>4. r.fc \in {5, 15} => r.values \in Seq(Bit)
  BY DEF AsCalled, WriteCoil, WriteCoils, Bit
<1>5. r.fc \in {1, 2, 3, 4} => r.values = <<>>
  BY DEF AsCalled, Reads, ReadBits, ReadRegisters
<1>6. r.values \in Seq(Value(r.fc))
  <2>1. <<>> \in Seq(Value(r.fc))
    BY EmptySeq
  <2> QED
    <3>1. CASE r.fc \in {5, 15}
      BY <1>4, <3>1, Codes DEF Value
    <3>2. CASE r.fc \in {6, 8, 16}
      <4>1. Value(r.fc) = Register
        BY <3>2, Codes DEF Value
      <4> QED  BY <1>3, <3>2, <4>1
    <3>3. CASE r.fc \in {1, 2, 3, 4}
      BY <1>5, <2>1, <3>3
    <3> QED  BY <1>1, <3>1, <3>2, <3>3
<1>7. SecondWord(r) \in Register
  <2>1. CASE r.fc \in Reads \cup WriteMultiple
    BY <2>1, QuantityProperties DEF SecondWord, Encodable
  <2>2. CASE r.fc \notin Reads \cup WriteMultiple
    <3>1. r.fc \in {5, 6, 8}
      BY <1>1, <2>2, Codes
    <3>5. r.count = 1
      BY <3>1, Codes DEF AsCalled
    <3>2. Len(r.values) = 1
      BY <1>2, <2>2, <3>5
    <3>3. r.fc = 5 => r.values[1] \in Bit
      BY <1>4, <3>2, ElementOfSeq
    <3>4. r.fc # 5 => r.values[1] \in Register
      BY <1>3, <3>1, <3>2, ElementOfSeq
    <3>6. r.fc = 5 => CoilWord(r.values[1]) \in Register
      BY <3>3, Bounds DEF CoilWord, CoilOn, CoilOff
    <3> QED
      BY <2>2, <3>4, <3>6, Codes DEF SecondWord
  <2> QED  BY <2>1, <2>2
<1>8. r.fc \in WriteMultiple => QuantityOK(r.fc, r.count)
  BY DEF Encodable
<1>11. r.fc \in 1..16
  BY <1>1
<1> QED
  BY <1>2, <1>6, <1>7, <1>8, <1>9, <1>10, <1>11

(* A request on the line: the function code, the address, a word, and for  *)
(* a write of many values their data.                                      *)
LEMMA RequestProperties ==
  ASSUME NEW r, AsCalled(r), Encodable(r)
  PROVE  LET p == EncodeRequest(r) IN
         /\ p \in Seq(Byte) /\ p[1] = r.fc
         /\ WordAt(p, 2) = r.address /\ WordAt(p, 4) = SecondWord(r)
         /\ r.fc \notin WriteMultiple => Len(p) = 5
         /\ r.fc \in WriteMultiple =>
              /\ Len(p) = 6 + DataBytes(r.fc, r.count) /\ p[6] = DataBytes(r.fc, r.count)
              /\ SubSeq(p, 7, Len(p)) = Pack(r.fc, r.values)
<1> DEFINE p == EncodeRequest(r)
           w == SecondWord(r)
           t == CASE r.fc \in Reads                     -> Word(r.count)
                  [] r.fc = WriteCoil                   -> Word(CoilWord(r.values[1]))
                  [] r.fc \in {WriteRegister, Loopback} -> Word(r.values[1])
                  [] r.fc \in WriteMultiple ->
                       Word(r.count) \o <<DataBytes(r.fc, r.count)>> \o Pack(r.fc, r.values)
           a == r.address
<1>1. /\ r.fc \in FunctionCodes /\ r.fc \in 1..16 /\ a \in Register /\ w \in Register
      /\ r.values \in Seq(Value(r.fc))
      /\ r.fc \notin Reads => Len(r.values) = r.count
      /\ r.fc \in WriteMultiple => QuantityOK(r.fc, r.count)
  BY CalledProperties
<1>2. r.fc \in Byte
  <2>1. \A x \in 1..16 : x \in Byte
    BY DEF Byte
  <2> QED  BY <1>1, <2>1
<1>3. /\ a \div 256 \in Byte /\ a % 256 \in Byte /\ 256 * (a \div 256) + (a % 256) = a
      /\ w \div 256 \in Byte /\ w % 256 \in Byte /\ 256 * (w \div 256) + (w % 256) = w
  <2> QED  BY <1>1, HighLow
<1>4. p = <<r.fc>> \o <<a \div 256, a % 256>> \o t
  BY DEF EncodeRequest, Word
<1>5. ASSUME t \in Seq(Byte)
      PROVE  /\ p \in Seq(Byte) /\ Len(p) = 3 + Len(t) /\ p[1] = r.fc
             /\ WordAt(p, 2) = a
             /\ \A i \in 1..Len(t) : p[i + 3] = t[i]
  <2> HIDE DEF p, t
  <2>1. /\ p \in Seq(Byte) /\ Len(p) = 3 + Len(t)
        /\ p[1] = r.fc /\ p[2] = a \div 256 /\ p[3] = a % 256
        /\ \A i \in 1..Len(t) : p[i + 3] = t[i]
    BY <1>2, <1>3, <1>4, <1>5, HeadProperties
  <2>2. WordAt(p, 2) = 256 * p[2] + p[3]
    BY DEF WordAt
  <2> QED  BY <1>3, <2>1, <2>2
<1>6. CASE r.fc \notin WriteMultiple
  <2>1. t = Word(w)
    BY <1>1, <1>6, Codes DEF SecondWord
  <2>2. t = <<w \div 256, w % 256>>
    BY <2>1 DEF Word
  <2> HIDE DEF t, p
  <2>3. t \in Seq(Byte) /\ Len(t) = 2 /\ t[1] = w \div 256 /\ t[2] = w % 256
    BY <1>3, <2>2
  <2>4. Len(p) = 5 /\ p[1 + 3] = t[1] /\ p[2 + 3] = t[2]
    BY <1>5, <2>3
  <2>5. WordAt(p, 4) = 256 * p[4] + p[5]
    BY DEF WordAt
  <2>6. WordAt(p, 4) = w
    BY <1>3, <2>3, <2>4, <2>5
  <2> HIDE DEF w
  <2> QED  BY <1>5, <1>6, <2>3, <2>4, <2>6 DEF p, w
<1>7. CASE r.fc \in WriteMultiple
  <2> DEFINE n == DataBytes(r.fc, r.count)
             data == Pack(r.fc, r.values)
  <2>1. w = r.count /\ r.fc \in Reads \cup WriteMultiple /\ r.fc # WriteCoil /\ r.fc \notin Reads
    BY <1>7, Codes DEF SecondWord
  <2>2. t = Word(w) \o <<n>> \o data
    BY <1>7, <2>1, Codes
  <2>3. n \in Byte /\ n \in Nat
    <3>1. QuantityOK(r.fc, r.count) /\ r.fc \in Reads \cup WriteMultiple
      BY <1>1, <1>7, <2>1
    <3>2. n \in 1..250
      BY <3>1, QuantityProperties
    <3>3. \A x \in 1..250 : x \in Byte /\ x \in Nat
      BY DEF Byte
    <3> QED  BY <3>2, <3>3
  <2>4. data \in Seq(Byte) /\ Len(data) = n
    BY <1>1, <2>1, PackProperties
  <2> HIDE DEF n, data, t, p
  <2>5. t = <<w \div 256, w % 256>> \o <<n>> \o data
    BY <2>2 DEF Word
  <2>6. /\ t \in Seq(Byte) /\ Len(t) = 3 + n
        /\ t[1] = w \div 256 /\ t[2] = w % 256 /\ t[3] = n
        /\ \A i \in 1..n : t[i + 3] = data[i]
    <3> HIDE DEF w
    <3>1. <<w \div 256, w % 256>> \o <<n>> = <<w \div 256>> \o <<w % 256, n>>
      BY <1>3, <2>3
    <3> QED  BY <1>3, <2>3, <2>4, <2>5, <3>1, HeadProperties
  <2>7. /\ p \in Seq(Byte) /\ Len(p) = 6 + n /\ p[1] = r.fc /\ WordAt(p, 2) = a
        /\ p[1 + 3] = t[1] /\ p[2 + 3] = t[2] /\ p[3 + 3] = t[3]
        /\ \A i \in 1..(3 + n) : p[i + 3] = t[i]
    BY <1>5, <2>3, <2>6
  <2>8. WordAt(p, 4) = 256 * p[4] + p[5]
    BY DEF WordAt
  <2>9. WordAt(p, 4) = w /\ p[6] = n
    BY <1>3, <2>6, <2>7, <2>8
  <2>10. SubSeq(p, 7, Len(p)) = data
    <3>1. \A i \in 7..Len(p) : p[i] \in Byte
      BY <2>3, <2>7, ElementOfSeq
    <3>2. 7 \in Int /\ Len(p) \in Int
      BY <2>3, <2>7
    <3> DEFINE s == SubSeq(p, 7, Len(p))
    <3>3. /\ s \in Seq(Byte) /\ Len(s) = IF 7 <= Len(p) THEN Len(p) - 7 + 1 ELSE 0
          /\ \A i \in 1..(Len(p) - 7 + 1) : s[i] = p[7 + i - 1]
      BY <3>1, <3>2, SubSeqProperties
    <3>4. Len(s) = n /\ \A i \in 1..n : s[i] = p[7 + i - 1]
      BY <2>3, <2>7, <3>3
    <3>5. \A i \in 1..n : i + 3 \in 1..(3 + n) /\ 7 + i - 1 = i + 3 + 3
      BY <2>3
    <3> HIDE DEF s
    <3>6. ASSUME NEW i \in 1..n
          PROVE  s[i] = data[i]
      <4>1. s[i] = p[7 + i - 1] /\ 7 + i - 1 = i + 3 + 3 /\ i + 3 \in 1..(3 + n)
        BY <3>4, <3>5
      <4>2. p[i + 3 + 3] = t[i + 3]
        BY <2>7, <4>1
      <4>3. t[i + 3] = data[i]
        BY <2>6
      <4> QED  BY <4>1, <4>2, <4>3
    <3> QED  BY <2>4, <3>3, <3>4, <3>6, SeqEqual DEF s
  <2> HIDE DEF w
  <2> QED  BY <1>7, <2>7, <2>9, <2>10 DEF p, w, n, data
<1> QED  BY <1>6, <1>7

(* What a request says, without the address of its slave.                  *)
Said(r) == [fc |-> r.fc, address |-> r.address, values |-> r.values, count |-> r.count]

(* A server accepts what the encoders make, and decodes it to what they    *)
(* were called with (encode_*_request and decode_*_request of pdu.py).     *)
THEOREM RequestRoundTrip ==
  ASSUME NEW r, AsCalled(r), Encodable(r)
  PROVE  WellFormedRequest(EncodeRequest(r)) /\ DecodeRequest(EncodeRequest(r)) = Said(r)
<1> DEFINE p == EncodeRequest(r)
           w == SecondWord(r)
           v == CASE p[1] \in Reads -> <<>>
                  [] p[1] = WriteCoil -> <<IF WordAt(p, 4) = CoilOn THEN 1 ELSE 0>>
                  [] p[1] \in {WriteRegister, Loopback} -> <<WordAt(p, 4)>>
                  [] p[1] \in WriteMultiple ->
                       Unpack(p[1], SubSeq(p, 7, Len(p)), WordAt(p, 4))
           k == IF p[1] \in Reads \cup WriteMultiple THEN WordAt(p, 4) ELSE 1
<1>1. /\ p[1] = r.fc /\ WordAt(p, 2) = r.address /\ WordAt(p, 4) = w
      /\ r.fc \notin WriteMultiple => Len(p) = 5
      /\ r.fc \in WriteMultiple =>
           /\ Len(p) = 6 + DataBytes(r.fc, r.count) /\ p[6] = DataBytes(r.fc, r.count)
           /\ SubSeq(p, 7, Len(p)) = Pack(r.fc, r.values)
  BY RequestProperties
<1>2. DecodeRequest(p) = [fc |-> p[1], address |-> WordAt(p, 2), values |-> v, count |-> k]
  BY DEF DecodeRequest
<1>3. /\ r.fc \in FunctionCodes /\ r.values \in Seq(Value(r.fc))
      /\ r.fc \notin Reads => Len(r.values) = r.count
  BY CalledProperties
<1> HIDE DEF p
<1>4. CASE r.fc \in Reads
  <2>1. QuantityOK(r.fc, r.count) /\ r.values = <<>>
    BY <1>4 DEF AsCalled, Encodable
  <2>2. w = r.count /\ r.fc \notin WriteMultiple /\ r.fc # WriteCoil /\ r.fc # Loopback
    BY <1>4, Codes DEF SecondWord
  <2>3. v = <<>> /\ k = r.count
    <3>1. p[1] \in Reads /\ WordAt(p, 4) = r.count
      BY <1>1, <1>4, <2>2
    <3>2. v = <<>>
      BY <3>1, Codes
    <3> QED  BY <3>1, <3>2
  <2> HIDE DEF w, v, k
  <2>4. WellFormedRequest(p)
    BY <1>1, <2>1, <2>2 DEF WellFormedRequest
  <2> QED  BY <1>1, <1>2, <2>1, <2>3, <2>4 DEF Said, p
<1>5. CASE r.fc \in WriteMultiple
  <2>1. w = r.count /\ r.fc \notin Reads /\ r.fc # WriteCoil /\ r.fc # WriteRegister
        /\ r.fc # Loopback
    BY <1>5, Codes DEF SecondWord
  <2>2. v = Unpack(r.fc, Pack(r.fc, r.values), r.count) /\ k = r.count
    BY <1>1, <1>5, <2>1
  <2>3. v = r.values
    BY <1>3, <2>1, <2>2, PackProperties
  <2>4. QuantityOK(r.fc, r.count)
    BY <1>5 DEF Encodable
  <2>5. DataBytes(r.fc, r.count) \in 1..250
    BY <1>5, <2>4, QuantityProperties
  <2>6. 6 + DataBytes(r.fc, r.count) >= 6
    BY <2>5
  <2> HIDE DEF w, v, k
  <2>7. WellFormedRequest(p)
    BY <1>1, <1>5, <2>1, <2>4, <2>6 DEF WellFormedRequest
  <2> QED  BY <1>1, <1>2, <2>2, <2>3, <2>7 DEF Said, p
<1>6. CASE r.fc \notin Reads \cup WriteMultiple
  <2>1. r.fc = WriteCoil \/ r.fc = WriteRegister \/ r.fc = Loopback
    BY <1>3, <1>6, Codes
  <2>2. r.count = 1 /\ r.fc \notin Reads /\ r.fc \notin WriteMultiple
    BY <1>6, <2>1 DEF AsCalled
  <2>3. Len(r.values) = 1
    BY <1>3, <2>2
  <2>4. r.values[1] \in Value(r.fc) /\ r.values = <<r.values[1]>>
    <3>1. r.values[1] \in Value(r.fc)
      BY <1>3, <2>3, ElementOfSeq
    <3>2. <<r.values[1]>> \in Seq(Value(r.fc)) /\ Len(<<r.values[1]>>) = 1
          /\ \A i \in 1..1 : r.values[i] = <<r.values[1]>>[i]
      BY <3>1
    <3> QED  BY <1>3, <2>3, <3>1, <3>2, SeqEqual
  <2>5. k = 1
    BY <1>1, <1>6
  <2>6. v = r.values
    <3>1. CASE r.fc = WriteCoil
      <4>1. r.values[1] = 0 \/ r.values[1] = 1
        BY <2>4, <3>1 DEF Value, Bit
      <4>2. w = CoilWord(r.values[1])
        BY <1>6, <3>1 DEF SecondWord
      <4>3. w = CoilOn <=> r.values[1] = 1
        BY <4>1, <4>2 DEF CoilWord, CoilOn, CoilOff
      <4>4. v = <<IF w = CoilOn THEN 1 ELSE 0>>
        <5>1. p[1] = WriteCoil /\ p[1] \notin Reads /\ WordAt(p, 4) = w
          BY <1>1, <2>2, <3>1
        <5> HIDE DEF w
        <5>2. v = <<IF WordAt(p, 4) = CoilOn THEN 1 ELSE 0>>
          BY <5>1, Codes
        <5> QED  BY <5>1, <5>2
      <4>5. (IF w = CoilOn THEN 1 ELSE 0) = r.values[1]
        BY <4>1, <4>3
      <4> HIDE DEF v, w
      <4> QED  BY <2>4, <4>4, <4>5
    <3>2. CASE r.fc # WriteCoil
      <4>1. w = r.values[1]
        BY <1>6, <3>2 DEF SecondWord
      <4>2. v = <<w>>
        BY <1>1, <2>1, <2>2, <3>2
      <4> HIDE DEF v, w
      <4> QED  BY <2>4, <4>1, <4>2
    <3> QED  BY <3>1, <3>2
  <2>7. r.fc = WriteCoil => w \in {CoilOn, CoilOff}
    BY <1>6 DEF SecondWord, CoilWord
  <2>8. r.fc = Loopback => r.address = 0
    BY DEF AsCalled
  <2>9. QuantityOK(r.fc, w)
    BY <1>6 DEF QuantityOK
  <2> HIDE DEF w, v, k
  <2>10. WellFormedRequest(p)
    BY <1>1, <2>2, <2>7, <2>8, <2>9 DEF WellFormedRequest
  <2> QED  BY <1>1, <1>2, <2>2, <2>5, <2>6, <2>10 DEF Said, p
<1> QED  BY <1>4, <1>5, <1>6

-----------------------------------------------------------------------------
(* Responses                                                               *)

(* The response to a read: the code, the number of bytes, and the data.    *)
LEMMA ReadResponseProperties ==
  ASSUME NEW r, r.fc \in Reads, QuantityOK(r.fc, r.count),
         NEW values \in Seq(Value(r.fc)), Len(values) = r.count
  PROVE  LET p == EncodeResponse(r, values) IN
         /\ p \in Seq(Byte) /\ p[1] = r.fc /\ p[2] = DataBytes(r.fc, r.count)
         /\ Len(p) = 2 + DataBytes(r.fc, r.count) /\ DataBytes(r.fc, r.count) \in 1..250
         /\ SubSeq(p, 3, Len(p)) = Pack(r.fc, values)
<1> DEFINE p == EncodeResponse(r, values)
           n == DataBytes(r.fc, r.count)
           data == Pack(r.fc, values)
           f == r.fc
<1>1. p = <<f, n>> \o data
  BY DEF EncodeResponse
<1>2. n \in 1..250
  BY ReadQuantity, Zenon
<1>3. f \in Byte /\ n \in Byte
  <2>1. \A x \in 1..250 : x \in Byte
    BY DEF Byte
  <2>2. \A x : x \in Reads => x \in 1..250
    BY Codes
  <2> QED  BY <1>2, <2>1, <2>2
<1>4. data \in Seq(Byte) /\ Len(data) = n
  <2>1. r.fc # WriteCoil
    BY Codes
  <2> QED  BY <2>1, PackProperties
<1> HIDE DEF p, n, data, f
<1>5. <<f, n>> \in Seq(Byte) /\ Len(<<f, n>>) = 2
  BY <1>3
<1>6. /\ p \in Seq(Byte) /\ Len(p) = 2 + n
      /\ \A i \in 1..(2 + n) : p[i] = IF i <= 2 THEN <<f, n>>[i] ELSE data[i - 2]
  BY <1>1, <1>4, <1>5, ConcatProperties
<1>7. p[1] = f /\ p[2] = n
  BY <1>2, <1>6
<1>8. SubSeq(p, 3, Len(p)) = data
  <2> DEFINE s == SubSeq(p, 3, Len(p))
  <2>1. \A i \in 3..Len(p) : p[i] \in Byte
    BY <1>2, <1>6, ElementOfSeq
  <2>2. 3 \in Int /\ Len(p) \in Int
    BY <1>2, <1>6
  <2>3. /\ s \in Seq(Byte) /\ Len(s) = IF 3 <= Len(p) THEN Len(p) - 3 + 1 ELSE 0
        /\ \A i \in 1..(Len(p) - 3 + 1) : s[i] = p[3 + i - 1]
    BY <2>1, <2>2, SubSeqProperties
  <2>4. Len(s) = n /\ \A i \in 1..n : s[i] = p[3 + i - 1]
    BY <1>2, <1>6, <2>3
  <2>5. \A i \in 1..n : 3 + i - 1 \in 1..(2 + n) /\ ~(3 + i - 1 <= 2) /\ 3 + i - 1 - 2 = i
    BY <1>2
  <2>6. \A i \in 1..n : s[i] = data[i]
    BY <1>6, <2>4, <2>5
  <2> HIDE DEF s
  <2> QED  BY <1>4, <2>3, <2>4, <2>6, SeqEqual DEF s
<1> QED  BY <1>2, <1>6, <1>7, <1>8 DEF p, n, data, f

(* The response to any other request echoes its address and its word.      *)
LEMMA EchoProperties ==
  ASSUME NEW r, AsCalled(r), Encodable(r), r.fc \notin Reads
  PROVE  LET p == EncodeResponse(r, <<>>) IN
         /\ p \in Seq(Byte) /\ Len(p) = 5 /\ p[1] = r.fc
         /\ WordAt(p, 2) = r.address /\ WordAt(p, 4) = SecondWord(r)
<1>1. CASE r.fc \notin WriteMultiple
  <2>1. EncodeResponse(r, <<>>) = EncodeRequest(r)
    BY <1>1 DEF EncodeResponse
  <2> QED  BY <1>1, <2>1, RequestProperties
<1>2. CASE r.fc \in WriteMultiple
  <2> DEFINE p == EncodeResponse(r, <<>>)
             a == r.address
             w == SecondWord(r)
             t == <<w \div 256, w % 256>>
  <2>1. w = r.count
    BY <1>2 DEF SecondWord
  <2>2. p = <<r.fc>> \o Word(a) \o Word(w)
    BY <1>2, <2>1 DEF EncodeResponse
  <2>3. r.fc \in 1..16 /\ a \in Register /\ w \in Register
    BY CalledProperties
  <2> HIDE DEF a, w, p
  <2>4. /\ a \div 256 \in Byte /\ a % 256 \in Byte /\ 256 * (a \div 256) + (a % 256) = a
        /\ w \div 256 \in Byte /\ w % 256 \in Byte /\ 256 * (w \div 256) + (w % 256) = w
        /\ r.fc \in Byte
    <3>2. \A x \in 1..16 : x \in Byte
      BY DEF Byte
    <3> QED  BY <2>3, <3>2, HighLow
  <2>5. t \in Seq(Byte) /\ Len(t) = 2 /\ t[1] = w \div 256 /\ t[2] = w % 256
    BY <2>4
  <2>6. p = <<r.fc>> \o <<a \div 256, a % 256>> \o t
    BY <2>2 DEF Word
  <2> HIDE DEF t
  <2>7. /\ p \in Seq(Byte) /\ Len(p) = 3 + Len(t)
        /\ p[1] = r.fc /\ p[2] = a \div 256 /\ p[3] = a % 256
        /\ \A i \in 1..Len(t) : p[i + 3] = t[i]
    <3>1. r.fc \in Byte /\ a \div 256 \in Byte /\ a % 256 \in Byte /\ t \in Seq(Byte)
      BY <2>4, <2>5
    <3> QED  BY <2>6, <3>1, HeadProperties
  <2>8. Len(p) = 5 /\ p[1 + 3] = t[1] /\ p[2 + 3] = t[2]
    BY <2>5, <2>7
  <2>9. WordAt(p, 2) = 256 * p[2] + p[3] /\ WordAt(p, 4) = 256 * p[4] + p[5]
    BY DEF WordAt
  <2>10. WordAt(p, 2) = a /\ WordAt(p, 4) = w
    BY <2>4, <2>5, <2>7, <2>8, <2>9
  <2> QED  BY <2>7, <2>8, <2>10 DEF p, a, w
<1> QED  BY <1>1, <1>2

-----------------------------------------------------------------------------
(* What a client makes of a response                                       *)

Kind(r, p) == Interpret(r, p).kind

(* Only an exception response to the function code asked refuses, with the *)
(* kind of its code; only a response with that code gives a value.         *)
LEMMA InterpretKinds ==
  ASSUME NEW r, r.fc \in FunctionCodes, NEW p \in Seq(Byte), p # <<>>
  PROVE  /\ Kind(r, p) = "value" => p[1] = r.fc /\ p[1] < 128
         /\ Kind(r, p) \in {"illegal_function", "illegal_address", "illegal_value"} =>
              p[1] - 128 = r.fc /\ Len(p) >= 2 /\ Kind(r, p) = ExceptionKind(p[2])
         /\ Kind(r, p) \in {"value", "protocol", "unexpected", "index_error", "exception",
                           "illegal_function", "illegal_address", "illegal_value"}
<1> DEFINE f == p[1]
<1>1. f \in Nat
  <2>1. Len(p) \in Nat \ {0}
    BY EmptySeq
  <2>2. f \in Byte
    BY <2>1, ElementOfSeq
  <2>3. \A x \in Byte : x \in Nat
    BY DEF Byte
  <2> QED  BY <2>2, <2>3
<1>2. /\ DecodeReadBits(r, p).kind \in {"value", "protocol", "unexpected"}
      /\ DecodeReadRegisters(r, p).kind \in {"value", "protocol", "unexpected"}
      /\ DecodeEcho(r, p).kind \in {"value", "protocol", "unexpected"}
  BY DEF DecodeReadBits, DecodeReadRegisters, DecodeEcho, Raise, Answer
<1> HIDE DEF f
<1>3. CASE f = 0
  BY <1>3 DEF Interpret, Kind, Raise, f
<1>4. CASE f >= 128
  <2>1. Interpret(r, p) = IF f - 128 # r.fc THEN Raise("unexpected")
                          ELSE IF Len(p) < 2 THEN Raise("index_error")
                          ELSE Raise(ExceptionKind(p[2]))
    BY <1>1, <1>4 DEF Interpret, f
  <2>2. ExceptionKind(p[2]) \in {"illegal_function", "illegal_address", "illegal_value",
                                 "exception"}
    BY DEF ExceptionKind
  <2>3. Len(p) \in Nat
    BY LenProperties
  <2>4. CASE f - 128 # r.fc
    BY <2>1, <2>4 DEF Kind, Raise
  <2>5. CASE f - 128 = r.fc /\ Len(p) < 2
    BY <2>1, <2>5 DEF Kind, Raise
  <2>6. CASE f - 128 = r.fc /\ ~(Len(p) < 2)
    <3>1. Kind(r, p) = ExceptionKind(p[2])
      BY <2>1, <2>6 DEF Kind, Raise
    <3> QED  BY <2>2, <2>3, <2>6, <3>1 DEF f
  <2> QED  BY <2>4, <2>5, <2>6
<1>5. CASE f # 0 /\ f < 128
  <2>1. Interpret(r, p) = IF f # r.fc THEN Raise("unexpected")
                          ELSE IF r.fc \in ReadBits THEN DecodeReadBits(r, p)
                          ELSE IF r.fc \in ReadRegisters THEN DecodeReadRegisters(r, p)
                          ELSE DecodeEcho(r, p)
    BY <1>1, <1>5 DEF Interpret, f
  <2>2. CASE f # r.fc
    BY <2>1, <2>2 DEF Kind, Raise
  <2>3. CASE f = r.fc
    <3>1. Kind(r, p) \in {"value", "protocol", "unexpected"}
      BY <1>2, <2>1, <2>3 DEF Kind
    <3> QED  BY <1>5, <2>3, <3>1 DEF f
  <2> QED  BY <2>2, <2>3
<1> QED  BY <1>1, <1>3, <1>4, <1>5

(* A read returns a value only from a response with as many bytes as it    *)
(* asked for.                                                              *)
LEMMA ReadValue ==
  ASSUME NEW r, r.fc \in Reads, QuantityOK(r.fc, r.count), NEW p \in Seq(Byte), p # <<>>,
         Kind(r, p) = "value"
  PROVE  LET n == DataBytes(r.fc, r.count) IN
         /\ p[1] = r.fc /\ Len(p) = 2 + n /\ p[2] = n
         /\ Interpret(r, p).values = Unpack(r.fc, SubSeq(p, 3, Len(p)), r.count)
<1>1. r.fc \in FunctionCodes
  BY Codes
<1>2. p[1] = r.fc /\ p[1] < 128
  BY <1>1, InterpretKinds
<1>3. p[1] # 0 /\ ~(p[1] >= 128)
  <2>1. \A x : x \in Reads => x # 0 /\ ~(x >= 128)
    BY Codes
  <2> QED  BY <1>2, <2>1
<1>4. Interpret(r, p) = IF r.fc \in ReadBits THEN DecodeReadBits(r, p)
                        ELSE DecodeReadRegisters(r, p)
  <2>1. r.fc \in ReadBits \/ r.fc \in ReadRegisters
    BY Codes
  <2> QED  BY <1>2, <1>3, <2>1 DEF Interpret
<1>5. CASE r.fc \in ReadBits
  <2>1. OfBits(r.fc)
    BY <1>5 DEF OfBits
  <2>2. DataBytes(r.fc, r.count) = BitBytes(r.count)
        /\ Unpack(r.fc, SubSeq(p, 3, Len(p)), r.count) = UnpackBits(SubSeq(p, 3, Len(p)), r.count)
    BY <2>1 DEF DataBytes, Unpack
  <2>3. DecodeReadBits(r, p).kind = "value"
    BY <1>4, <1>5 DEF Kind
  <2>4. /\ p[2] = BitBytes(r.count) /\ Len(p) = 2 + p[2]
        /\ DecodeReadBits(r, p) = Answer(UnpackBits(SubSeq(p, 3, Len(p)), r.count))
    BY <2>3 DEF DecodeReadBits, Raise
  <2> QED  BY <1>2, <1>4, <1>5, <2>2, <2>4 DEF Answer
<1>6. CASE r.fc \notin ReadBits
  <2>1. ~OfBits(r.fc)
    BY <1>6, Codes
  <2>2. DataBytes(r.fc, r.count) = 2 * r.count
        /\ Unpack(r.fc, SubSeq(p, 3, Len(p)), r.count) = UnpackWords(SubSeq(p, 3, Len(p)))
    BY <2>1 DEF DataBytes, Unpack
  <2>3. DecodeReadRegisters(r, p).kind = "value"
    BY <1>4, <1>6 DEF Kind
  <2>4. /\ ~(Len(p) < 2) /\ p[2] % 2 = 0 /\ Len(p) = 2 + p[2] /\ p[2] \div 2 = r.count
        /\ DecodeReadRegisters(r, p) = Answer(UnpackWords(SubSeq(p, 3, Len(p))))
    BY <2>3 DEF DecodeReadRegisters, Raise
  <2>5. p[2] \in Nat
    <3>1. 2 \in 1..Len(p)
      BY <2>4, LenProperties
    <3>2. p[2] \in Byte
      BY <3>1, ElementOfSeq
    <3>3. \A x \in Byte : x \in Nat
      BY DEF Byte
    <3> QED  BY <3>2, <3>3
  <2>6. p[2] = 2 * r.count
    <3>1. \A x \in Nat : x % 2 = 0 => x = 2 * (x \div 2)
      OBVIOUS
    <3> QED  BY <2>4, <2>5, <3>1
  <2> QED  BY <1>2, <1>4, <1>6, <2>2, <2>4, <2>6 DEF Answer
<1> QED  BY <1>5, <1>6

(* Any other request returns only on the echo of its address and its word. *)
LEMMA EchoValue ==
  ASSUME NEW r, r.fc \in FunctionCodes, r.fc \notin Reads, NEW p \in Seq(Byte), p # <<>>,
         Kind(r, p) = "value"
  PROVE  /\ p[1] = r.fc /\ Len(p) = 5
         /\ WordAt(p, 2) = r.address /\ WordAt(p, 4) = SecondWord(r)
         /\ Interpret(r, p).values = IF r.fc = Loopback THEN r.values ELSE <<>>
<1>1. p[1] = r.fc /\ p[1] < 128
  BY InterpretKinds
<1>2. p[1] # 0 /\ ~(p[1] >= 128)
  <2>1. \A x : x \in FunctionCodes => x # 0 /\ ~(x >= 128)
    BY Codes
  <2> QED  BY <1>1, <2>1
<1>3. Interpret(r, p) = DecodeEcho(r, p)
  <2>1. r.fc \notin ReadBits /\ r.fc \notin ReadRegisters
    BY Codes
  <2> QED  BY <1>1, <1>2, <2>1 DEF Interpret
<1>4. DecodeEcho(r, p).kind = "value"
  BY <1>3 DEF Kind
<1>5. /\ Len(p) = 5 /\ WriteEcho(r, p)
      /\ DecodeEcho(r, p) = Answer(IF r.fc = Loopback THEN r.values ELSE <<>>)
  BY <1>4 DEF DecodeEcho, Raise
<1>6. WordAt(p, 2) = r.address /\ WordAt(p, 4) = SecondWord(r)
  BY <1>5 DEF WriteEcho, SecondWord
<1> QED  BY <1>1, <1>3, <1>5, <1>6 DEF Answer
=============================================================================
