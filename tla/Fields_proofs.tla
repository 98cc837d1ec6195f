----------------------------- MODULE Fields_proofs -----------------------------
(***************************************************************************)
(* Proofs about the register decoders and the fields they are used on, for *)
(* every number of values a byte may have, every number, every format.     *)
(***************************************************************************)
EXTENDS Fields, SequenceTheorems, WellFoundedInduction, TLAPS

-----------------------------------------------------------------------------
(* Induction and linear recurrences                                        *)

(* What holds of 0, and of n + 1 if it holds of n, holds of every number.  *)
LEMMA SetInduction ==
  ASSUME NEW S, 0 \in S, \A n \in Nat : n \in S => n + 1 \in S
  PROVE  \A n \in Nat : n \in S
<1> DEFINE R == OpToRel(<, Nat)
           T == {n \in Nat : n \notin S}
<1>1. IsWellFoundedOn(R, Nat)
  BY NatLessThanWellFounded
<1>2. R = {ss \in Nat \X Nat : ss[1] < ss[2]}
  BY DEF OpToRel
<1> HIDE DEF R
<1>3. ASSUME T # {} PROVE FALSE
  <2>1. PICK x \in T : \A y \in T : <<y, x>> \notin R
    BY <1>1, <1>3, WFMin, T \subseteq Nat
  <2>2. x # 0 /\ x - 1 \in Nat
    OBVIOUS
  <2>3. x - 1 \in T
    BY <2>2
  <2>4. <<x - 1, x>> \in R
    BY <2>2, <1>2
  <2> QED  BY <2>1, <2>3, <2>4
<1> QED  BY <1>3

(* f begins with c, and is Base times what it was before, and d, up to n.  *)
Follows(f, c, d, n) == f[0] = c /\ \A k \in 1..n : f[k] = Base * f[k - 1] + d[k]

(* There is a function that follows its recurrence for ever.               *)
LEMMA LinearRecurrence ==
  ASSUME NEW c \in Int, NEW d \in [Nat -> Int]
  PROVE  \E f \in [Nat -> Int] : \A n \in Nat : Follows(f, c, d, n)
<1> DEFINE F == [Nat -> Int]
           Some == {n \in Nat : \E f \in F : Follows(f, c, d, n)}
           One  == {n \in Nat : \A f, g \in F :
                      Follows(f, c, d, n) /\ Follows(g, c, d, n) => f[n] = g[n]}
<1>0. Base \in Nat
  BY DecoderAssumption
<1>1. 0 \in Some
  <2>1. [n \in Nat |-> c] \in F /\ Follows([n \in Nat |-> c], c, d, 0)
    BY DEF Follows
  <2> QED  BY <2>1
<1>2. ASSUME NEW n \in Nat, n \in Some PROVE n + 1 \in Some
  <2>1. PICK f \in F : Follows(f, c, d, n)
    BY <1>2
  <2> DEFINE v == Base * f[n] + d[n + 1]
             g == [f EXCEPT ![n + 1] = v]
  <2>2. v \in Int
    <3>1. Base * f[n] \in Int /\ d[n + 1] \in Int
      BY <1>0
    <3> QED  BY <3>1
  <2>3. g \in F /\ g[n + 1] = v /\ \A k \in Nat : k # n + 1 => g[k] = f[k]
    BY <2>2
  <2>4. g[n] = f[n] /\ g[0] = f[0]
    BY <2>3
  <2> HIDE DEF g
  <2>5. ASSUME NEW k \in 1..(n + 1) PROVE g[k] = Base * g[k - 1] + d[k]
    <3>1. CASE k = n + 1
      <4>1. k - 1 = n
        BY <3>1
      <4> QED  BY <2>3, <2>4, <3>1, <4>1
    <3>2. CASE k # n + 1
      <4>1. k \in 1..n /\ k \in Nat /\ k - 1 \in Nat /\ k - 1 # n + 1
        BY <3>2
      <4>2. g[k] = f[k] /\ g[k - 1] = f[k - 1] /\ f[k] = Base * f[k - 1] + d[k]
        BY <2>1, <2>3, <3>2, <4>1 DEF Follows
      <4> QED  BY <4>2
    <3> QED  BY <3>1, <3>2
  <2>6. Follows(g, c, d, n + 1)
    BY <2>1, <2>4, <2>5 DEF Follows
  <2> QED  BY <2>3, <2>6
<1>3. \A n \in Nat : n \in Some
  <2> HIDE DEF Some
  <2> QED  BY <1>1, <1>2, SetInduction
<1>4. 0 \in One
  BY DEF Follows
<1>5. ASSUME NEW n \in Nat, n \in One PROVE n + 1 \in One
  <2> SUFFICES ASSUME NEW f \in F, NEW g \in F, Follows(f, c, d, n + 1), Follows(g, c, d, n + 1)
               PROVE  f[n + 1] = g[n + 1]
    OBVIOUS
  <2>1. n + 1 \in 1..(n + 1) /\ n + 1 - 1 = n /\ 1..n \subseteq 1..(n + 1)
    OBVIOUS
  <2>2. Follows(f, c, d, n) /\ Follows(g, c, d, n)
    BY <2>1 DEF Follows
  <2>3. f[n] = g[n]
    BY <1>5, <2>2
  <2> QED  BY <2>1, <2>3 DEF Follows
<1>6. \A n \in Nat : n \in One
  <2> HIDE DEF One
  <2> QED  BY <1>4, <1>5, SetInduction
<1> DEFINE at(n) == CHOOSE f \in F : Follows(f, c, d, n)
           h == [n \in Nat |-> at(n)[n]]
<1>7. \A n \in Nat : at(n) \in F /\ Follows(at(n), c, d, n)
  BY <1>3
<1> HIDE DEF at
<1>8. h \in F
  BY <1>7
<1>9. h[0] = c
  BY <1>7 DEF Follows
<1>10. ASSUME NEW k \in Nat, k # 0 PROVE h[k] = Base * h[k - 1] + d[k]
  <2>1. k - 1 \in Nat /\ k \in 1..k /\ 1..(k - 1) \subseteq 1..k
    BY <1>10
  <2>2. Follows(at(k), c, d, k - 1)
    BY <1>7, <2>1 DEF Follows
  <2>3. at(k)[k - 1] = at(k - 1)[k - 1]
    BY <1>6, <1>7, <2>1, <2>2
  <2>4. at(k)[k] = Base * at(k)[k - 1] + d[k]
    BY <1>7, <2>1 DEF Follows
  <2> QED  BY <2>1, <2>3, <2>4
<1> HIDE DEF h
<1>11. \A n \in Nat : Follows(h, c, d, n)
  BY <1>9, <1>10 DEF Follows
<1> QED  BY <1>8, <1>11

-----------------------------------------------------------------------------
(* Sizes and numbers                                                       *)

(* A byte has at least four values, and a multiple of four of them.        *)
LEMMA BaseFacts == Base \in Nat /\ Base \in Nat \ {0} /\ Base \in Int /\ Base > 1 /\ Base % 2 = 0 /\ Base % 4 = 0
BY DecoderAssumption

(* One byte more says Base times as many numbers.                          *)
LEMMA SizeStep ==
  /\ Size[0] = 1
  /\ \A n \in Nat : Size[n] \in Nat \ {0} /\ Size[n + 1] = Base * Size[n]
<1> DEFINE Eq(s) == s = [n \in Nat |-> IF n = 0 THEN 1 ELSE Base * s[n - 1]]
           zero == [n \in Nat |-> 0]
<1>1. \E s : Eq(s)
  <2>1. zero \in [Nat -> Int] /\ \A n \in Nat : zero[n] = 0
    OBVIOUS
  <2> HIDE DEF zero
  <2>2. PICK f \in [Nat -> Int] : \A n \in Nat : Follows(f, 1, zero, n)
    BY <2>1, LinearRecurrence
  <2>3. ASSUME NEW n \in Nat PROVE f[n] = IF n = 0 THEN 1 ELSE Base * f[n - 1]
    <3>1. n # 0 => n \in 1..n /\ n - 1 \in Nat
      OBVIOUS
    <3>2. n # 0 => Base * f[n - 1] \in Int
      BY <3>1, BaseFacts
    <3>3. f[0] = 1 /\ (n # 0 => f[n] = Base * f[n - 1] + 0)
      BY <2>1, <2>2, <3>1 DEF Follows
    <3> QED  BY <3>2, <3>3
  <2> QED  BY <2>3
<1>2. Eq(Size)
  BY <1>1 DEF Size
<1>3. \A n \in Nat : Size[n] = IF n = 0 THEN 1 ELSE Base * Size[n - 1]
  BY <1>2
<1>4. Size[0] = 1 /\ \A n \in Nat : Size[n + 1] = Base * Size[n]
  <2>1. \A n \in Nat : n + 1 \in Nat /\ n + 1 # 0 /\ n + 1 - 1 = n
    OBVIOUS
  <2> QED  BY <1>3, <2>1
<1> DEFINE S == {n \in Nat : Size[n] \in Nat \ {0}}
<1>5. 0 \in S
  BY <1>4
<1>6. ASSUME NEW n \in Nat, n \in S PROVE n + 1 \in S
  <2>1. \A b, s \in Nat \ {0} : b * s \in Nat \ {0}
    OBVIOUS
  <2> QED  BY <1>4, <1>6, <2>1, BaseFacts
<1>7. \A n \in Nat : n \in S
  <2> HIDE DEF S
  <2> QED  BY <1>5, <1>6, SetInduction
<1> QED  BY <1>4, <1>7

(* The number of some bytes is read byte by byte, the most significant first. *)
LEMMA UnsignedStep ==
  ASSUME NEW n \in Nat, NEW bytes \in [1..n -> Byte], Len(bytes) = n
  PROVE  \E u \in [0..n -> Int] : /\ u[0] = 0 /\ Unsigned(bytes) = u[n]
                                  /\ \A k \in 1..n : u[k] = Base * u[k - 1] + bytes[k]
<1> DEFINE Eq(u) == u = [k \in 0..n |-> IF k = 0 THEN 0 ELSE Base * u[k - 1] + bytes[k]]
           d == [k \in Nat |-> IF k \in 1..n THEN bytes[k] ELSE 0]
<1>1. d \in [Nat -> Int] /\ \A k \in 1..n : d[k] = bytes[k]
  BY BaseFacts DEF Byte
<1> HIDE DEF d
<1>2. PICK f \in [Nat -> Int] : \A m \in Nat : Follows(f, 0, d, m)
  <2>1. d \in [Nat -> Int] /\ 0 \in Int
    BY <1>1
  <2>2. \A c \in Int : \E f \in [Nat -> Int] : \A m \in Nat : Follows(f, c, d, m)
    BY <2>1, LinearRecurrence
  <2> QED  BY <2>1, <2>2
<1> DEFINE g == [k \in 0..n |-> f[k]]
<1>3. g \in [0..n -> Int] /\ \A k \in 0..n : g[k] = f[k]
  OBVIOUS
<1> HIDE DEF g
<1>4. ASSUME NEW k \in 0..n PROVE g[k] = IF k = 0 THEN 0 ELSE Base * g[k - 1] + bytes[k]
  <2>1. k # 0 => k \in 1..n /\ k - 1 \in 0..n
    OBVIOUS
  <2> QED  BY <1>1, <1>2, <1>3, <2>1 DEF Follows
<1>5. Eq(g)
  BY <1>3, <1>4
<1> DEFINE u == CHOOSE u : Eq(u)
<1>6. Eq(u) /\ Unsigned(bytes) = u[n]
  BY <1>5 DEF Unsigned
<1> HIDE DEF u
<1>7. u[0] = 0 /\ \A k \in 1..n : u[k] = Base * u[k - 1] + bytes[k]
  <2>1. 0 \in 0..n /\ \A k \in 1..n : k \in 0..n /\ k # 0
    OBVIOUS
  <2>2. \A k \in 0..n : u[k] = IF k = 0 THEN 0 ELSE Base * u[k - 1] + bytes[k]
    BY <1>6
  <2> QED  BY <2>1, <2>2
<1> DEFINE S == {m \in Nat : m <= n => u[m] \in Int}
<1>8. 0 \in S
  BY <1>7
<1>9. ASSUME NEW m \in Nat, m \in S PROVE m + 1 \in S
  <2> SUFFICES ASSUME m + 1 <= n PROVE u[m + 1] \in Int
    OBVIOUS
  <2>1. m + 1 \in 1..n /\ m + 1 - 1 = m /\ u[m] \in Int /\ bytes[m + 1] \in Int
    BY <1>9, BaseFacts DEF Byte
  <2>2. Base * u[m] \in Int
    BY <2>1, BaseFacts
  <2>3. u[m + 1] = Base * u[m] + bytes[m + 1]
    BY <1>7, <2>1
  <2> QED  BY <2>1, <2>2, <2>3
<1>10. \A m \in Nat : m \in S
  <2> HIDE DEF S
  <2> QED  BY <1>8, <1>9, SetInduction
<1>11. u \in [0..n -> Int]
  <2>1. DOMAIN u = 0..n /\ u = [k \in DOMAIN u |-> u[k]]
    BY <1>6
  <2>2. \A k \in 0..n : u[k] \in Int
    BY <1>10
  <2> QED  BY <2>1, <2>2
<1> QED  BY <1>6, <1>7, <1>11

(* Sizes multiply where lengths add.                                       *)
LEMMA SizeSum == \A m, n \in Nat : Size[m + n] = Size[m] * Size[n]
<1> SUFFICES ASSUME NEW m \in Nat PROVE \A n \in Nat : Size[m + n] = Size[m] * Size[n]
  OBVIOUS
<1> DEFINE S == {n \in Nat : Size[m + n] = Size[m] * Size[n]}
<1>1. 0 \in S
  <2>1. m + 0 = m /\ Size[m] * 1 = Size[m]
    BY SizeStep
  <2> QED  BY <2>1, SizeStep
<1>2. ASSUME NEW n \in Nat, n \in S PROVE n + 1 \in S
  <2>1. \A a, b, c \in Int : a * (b * c) = b * (a * c)
    OBVIOUS
  <2>2. m + n \in Nat /\ m + (n + 1) = (m + n) + 1
    OBVIOUS
  <2>3. Size[(m + n) + 1] = Base * Size[m + n] /\ Size[n + 1] = Base * Size[n]
    BY <2>2, SizeStep
  <2>4. Size[m + n] = Size[m] * Size[n]
    BY <1>2
  <2>5. Base * (Size[m] * Size[n]) = Size[m] * (Base * Size[n])
    BY <2>1, SizeStep, BaseFacts
  <2> QED  BY <2>2, <2>3, <2>4, <2>5
<1>3. \A n \in Nat : n \in S
  <2> HIDE DEF S
  <2> QED  BY <1>1, <1>2, SetInduction
<1> QED  BY <1>3

(* A length of at least one byte has an even size.                         *)
LEMMA SizeEven ==
  ASSUME NEW n \in Nat, n # 0
  PROVE  \E half \in Nat \ {0} : Size[n] = 2 * half /\ Size[n] \div 2 = half
<1>1. n - 1 \in Nat /\ n - 1 + 1 = n
  OBVIOUS
<1>2. PICK b \in Nat \ {0} : Base = 2 * b
  <2>1. Base = 2 * (Base \div 2) /\ Base \div 2 \in Nat \ {0}
    BY BaseFacts
  <2> QED  BY <2>1
<1>3. Size[n] = Base * Size[n - 1] /\ Size[n - 1] \in Nat \ {0}
  BY <1>1, SizeStep
<1>4. \A a, s \in Nat \ {0} : a * s \in Nat \ {0} /\ (2 * a) * s = 2 * (a * s) /\ (2 * (a * s)) \div 2 = a * s
  OBVIOUS
<1>5. b * Size[n - 1] \in Nat \ {0} /\ (2 * b) * Size[n - 1] = 2 * (b * Size[n - 1])
      /\ (2 * (b * Size[n - 1])) \div 2 = b * Size[n - 1]
  BY <1>3, <1>4
<1> QED  BY <1>2, <1>3, <1>5

(* Division by a positive number.                                          *)
LEMMA DivMod ==
  ASSUME NEW b \in Nat \ {0}, NEW x \in Int
  PROVE  /\ x \div b \in Int /\ x % b \in Int /\ 0 <= x % b /\ x % b < b
         /\ x = b * (x \div b) + (x % b)
OBVIOUS

LEMMA DivUnique ==
  ASSUME NEW b \in Nat \ {0}, NEW q \in Int, NEW r \in Int, 0 <= r, r < b
  PROVE  (b * q + r) \div b = q /\ (b * q + r) % b = r
OBVIOUS

LEMMA DivDiv ==
  ASSUME NEW a \in Nat \ {0}, NEW b \in Nat \ {0}, NEW x \in Int
  PROVE  (x \div a) \div b = x \div (b * a)
OBVIOUS

LEMMA DivShift ==
  ASSUME NEW b \in Nat \ {0}, NEW q \in Int, NEW x \in Int
  PROVE  (b * q + x) \div b = q + (x \div b) /\ (b * q + x) % b = x % b
<1> DEFINE y == x \div b
           z == x % b
<1>1. y \in Int /\ z \in Int /\ 0 <= z /\ z < b /\ x = b * y + z
  BY DivMod
<1> HIDE DEF y, z
<1>2. b * q + (b * y + z) = b * (q + y) + z /\ q + y \in Int
  BY <1>1
<1>3. (b * (q + y) + z) \div b = q + y /\ (b * (q + y) + z) % b = z
  BY <1>1, <1>2, DivUnique
<1> QED  BY <1>1, <1>2, <1>3 DEF y, z

(* The byte at a place does not depend on what is above it.                *)
LEMMA LowByte ==
  ASSUME NEW n \in Nat, NEW k \in Nat, k < n, NEW v \in Int
  PROVE  ((v % Size[n]) \div Size[k]) % Base = (v \div Size[k]) % Base
<1> DEFINE a == Size[k]
           s == Size[n - k - 1]
           q == v \div Size[n]
           x == v % Size[n]
<1>1. n - k - 1 \in Nat /\ (n - k - 1) + 1 = n - k /\ n - k \in Nat /\ k + (n - k) = n
  OBVIOUS
<1>2. a \in Nat \ {0} /\ s \in Nat \ {0} /\ Size[n] \in Nat \ {0}
  BY <1>1, SizeStep
<1>3. Size[n] = a * (Base * s)
  <2>1. Size[n - k] = Base * s
    BY <1>1, SizeStep
  <2>2. Size[n] = a * Size[n - k]
    BY <1>1, SizeSum
  <2> QED  BY <2>1, <2>2
<1>4. q \in Int /\ x \in Int /\ v = Size[n] * q + x
  BY <1>2, DivMod
<1> HIDE DEF a, s, q, x
<1>5. (a * (Base * s)) * q = a * (Base * (s * q)) /\ s * q \in Int /\ Base * (s * q) \in Int
  <2>1. \A b, c, d, e \in Int : (b * (c * d)) * e = b * (c * (d * e)) /\ d * e \in Int /\ c * (d * e) \in Int
    OBVIOUS
  <2> QED  BY <1>2, <1>4, <2>1, BaseFacts
<1>6. v \div a = Base * (s * q) + (x \div a)
  BY <1>2, <1>3, <1>4, <1>5, DivShift
<1>7. x \div a \in Int
  BY <1>2, <1>4, DivMod
<1>8. (Base * (s * q) + (x \div a)) % Base = (x \div a) % Base
  <2>1. \A t, y \in Int : (Base * t + y) % Base = y % Base
    BY BaseFacts, DivShift
  <2> QED  BY <1>5, <1>7, <2>1
<1> QED  BY <1>6, <1>8 DEF a, x

(* The bytes of a number are bytes, as many as asked for.                  *)
LEMMA IntToBytesTyped ==
  ASSUME NEW v \in Int, NEW n \in Nat
  PROVE  IntToBytes(v, n) \in [1..n -> Byte] /\ Len(IntToBytes(v, n)) = n
<1>1. ASSUME NEW k \in 1..n PROVE ((v % Size[n]) \div Size[n - k]) % Base \in Byte
  <2>1. n - k \in Nat
    OBVIOUS
  <2>2. v % Size[n] \in Int
    BY SizeStep, DivMod
  <2>3. (v % Size[n]) \div Size[n - k] \in Int
    BY <2>1, <2>2, SizeStep, DivMod
  <2>4. \A x \in Int : x % Base \in Int /\ 0 <= x % Base /\ x % Base <= Base - 1
    BY BaseFacts, DivMod
  <2> QED  BY <2>3, <2>4, BaseFacts DEF Byte
<1>2. IntToBytes(v, n) \in [1..n -> Byte]
  BY <1>1 DEF IntToBytes
<1> QED  BY <1>2, LenProperties, SeqDef

(* They say the number, modulo the size of their length.                   *)
LEMMA UnsignedOfInt ==
  ASSUME NEW v \in Int, NEW n \in Nat
  PROVE  Unsigned(IntToBytes(v, n)) = v % Size[n]
<1> DEFINE bytes == IntToBytes(v, n)
           x == v % Size[n]
<1>1. bytes \in [1..n -> Byte] /\ Len(bytes) = n
  BY IntToBytesTyped
<1>2. x \in Int /\ 0 <= x /\ x < Size[n]
  BY SizeStep, DivMod
<1>3. \A k \in 1..n : bytes[k] = (x \div Size[n - k]) % Base
  BY DEF IntToBytes
<1> HIDE DEF bytes, x
<1>4. PICK u \in [0..n -> Int] : /\ u[0] = 0 /\ Unsigned(bytes) = u[n]
                                 /\ \A k \in 1..n : u[k] = Base * u[k - 1] + bytes[k]
  BY <1>1, UnsignedStep
<1> DEFINE S == {k \in Nat : k <= n => u[k] = x \div Size[n - k]}
<1>5. 0 \in S
  <2>1. \A s \in Nat \ {0} : x < s => x \div s = 0
    BY <1>2
  <2>2. n - 0 = n
    OBVIOUS
  <2> QED  BY <1>2, <1>4, <2>1, <2>2, SizeStep
<1>6. ASSUME NEW k \in Nat, k \in S PROVE k + 1 \in S
  <2> SUFFICES ASSUME k + 1 <= n PROVE u[k + 1] = x \div Size[n - (k + 1)]
    OBVIOUS
  <2> DEFINE j == n - (k + 1)
             y == x \div Size[j]
  <2>1. j \in Nat /\ j + 1 = n - k /\ k + 1 \in 1..n /\ k + 1 - 1 = k
    OBVIOUS
  <2>2. y \in Int
    BY <1>2, <2>1, SizeStep, DivMod
  <2>3. u[k] = x \div Size[n - k]
    BY <1>6
  <2>4. Size[n - k] = Base * Size[j]
    BY <2>1, SizeStep
  <2>5. u[k] = y \div Base
    <3>1. Size[j] \in Nat \ {0}
      BY <2>1, SizeStep
    <3>2. (x \div Size[j]) \div Base = x \div (Base * Size[j])
      BY <1>2, <3>1, BaseFacts, DivDiv
    <3> QED  BY <2>3, <2>4, <3>2
  <2>6. u[k + 1] = Base * u[k] + bytes[k + 1] /\ bytes[k + 1] = y % Base
    BY <1>3, <1>4, <2>1
  <2> HIDE DEF y
  <2>7. y = Base * (y \div Base) + (y % Base)
    BY <2>2, BaseFacts, DivMod
  <2> QED  BY <2>5, <2>6, <2>7 DEF y
<1>7. \A k \in Nat : k \in S
  <2> HIDE DEF S
  <2> QED  BY <1>5, <1>6, SetInduction
<1>8. u[n] = x \div Size[0]
  <2>1. n - n = 0 /\ n <= n
    OBVIOUS
  <2> QED  BY <1>7, <2>1
<1>9. x \div 1 = x
  BY <1>2
<1> QED  BY <1>4, <1>8, <1>9, SizeStep DEF x, bytes

(* Bytes say a number below the size of their length, and are its bytes.   *)
LEMMA UnsignedProperties ==
  ASSUME NEW n \in Nat, NEW bytes \in [1..n -> Byte], Len(bytes) = n
  PROVE  /\ Unsigned(bytes) \in Int /\ 0 <= Unsigned(bytes) /\ Unsigned(bytes) < Size[n]
         /\ \A v \in Int : v % Size[n] = Unsigned(bytes) => IntToBytes(v, n) = bytes
<1>1. PICK u \in [0..n -> Int] : /\ u[0] = 0 /\ Unsigned(bytes) = u[n]
                                 /\ \A k \in 1..n : u[k] = Base * u[k - 1] + bytes[k]
  BY UnsignedStep
<1>2. \A k \in 1..n : bytes[k] \in Int /\ 0 <= bytes[k] /\ bytes[k] < Base
  BY BaseFacts DEF Byte
<1> DEFINE S == {k \in Nat : k <= n => 0 <= u[k] /\ u[k] < Size[k]}
<1>3. 0 \in S
  <2>1. u[0] = 0 /\ Size[0] = 1
    BY <1>1, SizeStep
  <2> QED  BY <2>1
<1>4. ASSUME NEW k \in Nat, k \in S PROVE k + 1 \in S
  <2> SUFFICES ASSUME k + 1 <= n PROVE 0 <= u[k + 1] /\ u[k + 1] < Size[k + 1]
    OBVIOUS
  <2>1. k + 1 \in 1..n /\ k + 1 - 1 = k /\ k \in 0..n
    OBVIOUS
  <2>2. u[k + 1] = Base * u[k] + bytes[k + 1] /\ Size[k + 1] = Base * Size[k]
    <3>1. u[k + 1] = Base * u[k + 1 - 1] + bytes[k + 1]
      BY <1>1, <2>1
    <3> QED  BY <2>1, <3>1, SizeStep
  <2>3. 0 <= u[k] /\ u[k] < Size[k] /\ u[k] \in Int /\ Size[k] \in Int
    <3>1. Size[k] \in Nat \ {0}
      BY SizeStep
    <3>2. k <= n /\ u[k] \in Int
      BY <2>1
    <3> QED  BY <1>4, <3>1, <3>2
  <2>4. 0 <= bytes[k + 1] /\ bytes[k + 1] < Base /\ bytes[k + 1] \in Int
    BY <1>2, <2>1
  <2>5. \A b, s, w, d \in Int : 0 <= w /\ w < s /\ 0 <= d /\ d < b =>
          0 <= b * w + d /\ b * w + d < b * s
    <3> SUFFICES ASSUME NEW b \in Int, NEW s \in Int, NEW w \in Int, NEW d \in Int,
                        0 <= w, w < s, 0 <= d, d < b
                 PROVE  0 <= b * w + d /\ b * w + d < b * s
      OBVIOUS
    <3>1. b * w >= 0
      OBVIOUS
    <3>2. b * (w + 1) <= b * s
      OBVIOUS
    <3>3. b * (w + 1) = b * w + b
      OBVIOUS
    <3> QED  BY <3>1, <3>2, <3>3
  <2>6. 0 <= Base * u[k] + bytes[k + 1] /\ Base * u[k] + bytes[k + 1] < Base * Size[k]
    <3> DEFINE s == Size[k]
               w == u[k]
               d == bytes[k + 1]
    <3>1. Base \in Int /\ s \in Int /\ w \in Int /\ d \in Int /\ 0 <= w /\ w < s /\ 0 <= d /\ d < Base
      BY <2>3, <2>4, BaseFacts
    <3> HIDE DEF s, w, d
    <3>2. 0 <= Base * w + d /\ Base * w + d < Base * s
      BY <2>5, <3>1
    <3> QED  BY <3>2 DEF s, w, d
  <2> QED  BY <2>2, <2>6
<1>5. \A k \in Nat : k \in S
  <2> HIDE DEF S
  <2> QED  BY <1>3, <1>4, SetInduction
<1>6. u[n] \in Int /\ 0 <= u[n] /\ u[n] < Size[n]
  BY <1>5
<1> DEFINE T == {j \in Nat : j <= n => u[n] \div Size[j] = u[n - j]}
<1>7. 0 \in T
  <2>1. u[n] \div 1 = u[n] /\ n - 0 = n
    BY <1>6
  <2> QED  BY <2>1, SizeStep
<1>8. ASSUME NEW j \in Nat, j \in T PROVE j + 1 \in T
  <2> SUFFICES ASSUME j + 1 <= n PROVE u[n] \div Size[j + 1] = u[n - (j + 1)]
    OBVIOUS
  <2> DEFINE k == n - j
  <2>1. k \in 1..n /\ k - 1 = n - (j + 1) /\ k - 1 \in 0..n
    OBVIOUS
  <2>2. u[n] \div Size[j] = u[k] /\ Size[j + 1] = Base * Size[j]
    BY <1>8, SizeStep
  <2> HIDE DEF k
  <2>3. u[k] = Base * u[k - 1] + bytes[k] /\ u[k - 1] \in Int
    BY <1>1, <2>1
  <2>4. u[k] \div Base = u[k - 1]
    <3>1. \A q, r \in Int : 0 <= r /\ r < Base => (Base * q + r) \div Base = q
      BY BaseFacts, DivUnique
    <3>2. bytes[k] \in Int /\ 0 <= bytes[k] /\ bytes[k] < Base
      BY <1>2, <2>1
    <3> QED  BY <2>3, <3>1, <3>2
  <2>5. (u[n] \div Size[j]) \div Base = u[n] \div (Base * Size[j])
    <3>1. Size[j] \in Nat \ {0}
      BY SizeStep
    <3> QED  BY <1>6, <3>1, BaseFacts, DivDiv
  <2> QED  BY <2>1, <2>2, <2>4, <2>5
<1>9. \A j \in Nat : j \in T
  <2> HIDE DEF T
  <2> QED  BY <1>7, <1>8, SetInduction
<1>10. ASSUME NEW v \in Int, v % Size[n] = u[n] PROVE IntToBytes(v, n) = bytes
  <2>1. ASSUME NEW k \in 1..n PROVE ((v % Size[n]) \div Size[n - k]) % Base = bytes[k]
    <3>1. n - k \in Nat /\ n - k <= n /\ n - (n - k) = k /\ k - 1 \in 0..n
      OBVIOUS
    <3>2. u[n] \div Size[n - k] = u[k]
      BY <1>9, <3>1
    <3>3. u[k] = Base * u[k - 1] + bytes[k] /\ u[k - 1] \in Int
      BY <1>1, <3>1
    <3>4. u[k] % Base = bytes[k]
      <4>1. \A q, r \in Int : 0 <= r /\ r < Base => (Base * q + r) % Base = r
        BY BaseFacts, DivUnique
      <4>2. bytes[k] \in Int /\ 0 <= bytes[k] /\ bytes[k] < Base
        BY <1>2
      <4> QED  BY <3>3, <4>1, <4>2
    <3> QED  BY <1>10, <3>2, <3>4
  <2> QED  BY <2>1 DEF IntToBytes
<1> QED  BY <1>1, <1>6, <1>10

-----------------------------------------------------------------------------
(* Signed and unsigned numbers                                             *)

(* A number in range is what its bytes are read as.                        *)
LEMMA IntRoundTrip ==
  ASSUME NEW v \in Int, NEW n \in Nat, n # 0, NEW signed \in BOOLEAN, Fits(v, signed, n)
  PROVE  BytesToInt(IntToBytes(v, n), signed) = v
<1>1. PICK half \in Nat \ {0} : Size[n] = 2 * half /\ Size[n] \div 2 = half
  BY SizeEven
<1>2. IF signed THEN -half <= v /\ v < half ELSE 0 <= v /\ v < 2 * half
  BY <1>1 DEF Fits
<1>3. Unsigned(IntToBytes(v, n)) = v % (2 * half) /\ Len(IntToBytes(v, n)) = n
  BY <1>1, UnsignedOfInt, IntToBytesTyped
<1>4. /\ 0 <= v /\ v < 2 * half => v % (2 * half) = v
      /\ -half <= v /\ v < 0 => v % (2 * half) = v + 2 * half
  OBVIOUS
<1>5. IF signed /\ v % (2 * half) >= half THEN (v % (2 * half)) - 2 * half = v ELSE v % (2 * half) = v
  BY <1>2, <1>4
<1> QED  BY <1>1, <1>3, <1>5 DEF BytesToInt

(* Bytes are read as a number in range, whose bytes they are.              *)
LEMMA BytesRoundTrip ==
  ASSUME NEW n \in Nat, n # 0, NEW bytes \in [1..n -> Byte], Len(bytes) = n,
         NEW signed \in BOOLEAN
  PROVE  /\ BytesToInt(bytes, signed) \in Int
         /\ Fits(BytesToInt(bytes, signed), signed, n)
         /\ IntToBytes(BytesToInt(bytes, signed), n) = bytes
<1> DEFINE u == Unsigned(bytes)
           v == BytesToInt(bytes, signed)
<1>1. PICK half \in Nat \ {0} : Size[n] = 2 * half /\ Size[n] \div 2 = half
  BY SizeEven
<1>2. u \in Int /\ 0 <= u /\ u < 2 * half
  BY <1>1, UnsignedProperties
<1>3. v = IF signed /\ u >= half THEN u - 2 * half ELSE u
  BY <1>1 DEF BytesToInt
<1> HIDE DEF u, v
<1>4. v \in Int /\ IF signed THEN -half <= v /\ v < half ELSE 0 <= v /\ v < 2 * half
  BY <1>2, <1>3
<1>5. v % (2 * half) = u
  BY <1>2, <1>3
<1>6. IntToBytes(v, n) = bytes
  BY <1>1, <1>4, <1>5, UnsignedProperties DEF u
<1>7. Fits(v, signed, n)
  BY <1>1, <1>4 DEF Fits
<1> QED  BY <1>4, <1>6, <1>7 DEF v

-----------------------------------------------------------------------------
(* Registers and bytes                                                     *)

(* The place of the i-th word, in order, among m; of the halves of a word. *)
Place(i, m, wordOrder) == IF wordOrder = "high_low" THEN i ELSE m - i + 1
HighAt(i, byteOrder)   == IF byteOrder = "big" THEN 2 * i - 1 ELSE 2 * i
LowAt(i, byteOrder)    == IF byteOrder = "big" THEN 2 * i ELSE 2 * i - 1

(* A function on 1..n is a sequence of length n, and the reverse.          *)
LEMMA FunctionIsSeq ==
  ASSUME NEW S, NEW n \in Nat, NEW f \in [1..n -> S]
  PROVE  f \in Seq(S) /\ Len(f) = n /\ DOMAIN f = 1..n
<1>1. f \in Seq(S)
  BY SeqDef
<1> QED  BY <1>1, LenProperties

LEMMA SeqIsFunction ==
  ASSUME NEW S, NEW s \in Seq(S)
  PROVE  Len(s) \in Nat /\ s \in [1..Len(s) -> S] /\ DOMAIN s = 1..Len(s)
BY LenProperties

(* Places are taken once, and there are no others.                         *)
LEMMA Places ==
  ASSUME NEW m \in Nat, NEW wordOrder, NEW i \in 1..m
  PROVE  /\ Place(i, m, wordOrder) \in 1..m
         /\ Place(Place(i, m, wordOrder), m, wordOrder) = i
BY DEF Place

LEMMA HalfPlaces ==
  ASSUME NEW m \in Nat, NEW byteOrder
  PROVE  /\ \A i \in 1..m : HighAt(i, byteOrder) \in 1..(2 * m) /\ LowAt(i, byteOrder) \in 1..(2 * m)
         /\ \A k \in 1..(2 * m) : \E i \in 1..m : k = HighAt(i, byteOrder) \/ k = LowAt(i, byteOrder)
<1>1. \A i \in 1..m : HighAt(i, byteOrder) \in 1..(2 * m) /\ LowAt(i, byteOrder) \in 1..(2 * m)
  BY DEF HighAt, LowAt
<1>2. ASSUME NEW k \in 1..(2 * m)
      PROVE  \E i \in 1..m : k = HighAt(i, byteOrder) \/ k = LowAt(i, byteOrder)
  <2> DEFINE i == (k + 1) \div 2
  <2>1. i \in 1..m /\ (k = 2 * i - 1 \/ k = 2 * i)
    OBVIOUS
  <2> QED  BY <2>1 DEF HighAt, LowAt
<1> QED  BY <1>1, <1>2

LEMMA OrderedTyped ==
  ASSUME NEW S, NEW m \in Nat, NEW words \in [1..m -> S], NEW wordOrder
  PROVE  Ordered(words, wordOrder) \in [1..m -> S] /\ Len(words) = m
<1>1. Len(words) = m
  BY FunctionIsSeq
<1>2. wordOrder # "high_low" => Ordered(words, wordOrder) = [i \in 1..m |-> words[(m - i) + 1]]
  BY <1>1 DEF Ordered, Reverse
<1>3. \A i \in 1..m : (m - i) + 1 \in 1..m
  OBVIOUS
<1>4. wordOrder = "high_low" => Ordered(words, wordOrder) = words
  BY DEF Ordered
<1> QED  BY <1>1, <1>2, <1>3, <1>4

LEMMA OrderedAt ==
  ASSUME NEW words, NEW wordOrder, NEW m \in Nat, Len(words) = m, NEW i \in 1..m
  PROVE  Ordered(words, wordOrder)[i] = words[Place(i, m, wordOrder)]
<1>1. CASE wordOrder = "high_low"
  BY <1>1 DEF Ordered, Place
<1>2. CASE wordOrder # "high_low"
  <2>1. Ordered(words, wordOrder) = [k \in 1..m |-> words[(m - k) + 1]]
    BY <1>2 DEF Ordered, Reverse
  <2>2. Place(i, m, wordOrder) = (m - i) + 1
    BY <1>2 DEF Place
  <2> QED  BY <2>1, <2>2
<1> QED  BY <1>1, <1>2

LEMMA HalvesAt ==
  ASSUME NEW high, NEW low, NEW byteOrder
  PROVE  /\ Halves(<<high, low>>, byteOrder)[1] = IF byteOrder = "big" THEN high ELSE low
         /\ Halves(<<high, low>>, byteOrder)[2] = IF byteOrder = "big" THEN low ELSE high
<1>1. Reverse(<<high, low>>) = <<low, high>>
  BY DEF Reverse
<1> QED  BY <1>1 DEF Halves

(* A register is two bytes.                                                *)
LEMMA RegisterBytes ==
  /\ \A w \in Register : w \div Base \in Byte /\ w % Base \in Byte /\ Base * (w \div Base) + (w % Base) = w
  /\ \A high, low \in Byte : /\ Base * high + low \in Register
                             /\ (Base * high + low) \div Base = high
                             /\ (Base * high + low) % Base = low
<1>0. /\ \A x : x \in Byte <=> x \in Int /\ 0 <= x /\ x < Base
      /\ \A x : x \in Register <=> x \in Int /\ 0 <= x /\ x < Base * Base
  <2>1. Base * Base \in Int
    BY BaseFacts
  <2> QED  BY <2>1, BaseFacts DEF Byte, Register
<1>1. ASSUME NEW w \in Register
      PROVE  w \div Base \in Byte /\ w % Base \in Byte /\ Base * (w \div Base) + (w % Base) = w
  <2> DEFINE q == w \div Base
             r == w % Base
  <2>1. w \in Int /\ 0 <= w /\ w < Base * Base
    BY <1>0
  <2>2. q \in Int /\ r \in Int /\ 0 <= r /\ r < Base /\ w = Base * q + r
    BY <2>1, BaseFacts, DivMod
  <2> HIDE DEF q, r
  <2>3. \A b \in Nat \ {0}, x, y \in Int : 0 <= y /\ y < b /\ 0 <= b * x + y /\ b * x + y < b * b => 0 <= x /\ x < b
    OBVIOUS
  <2>4. 0 <= q /\ q < Base
    BY <2>1, <2>2, <2>3, BaseFacts
  <2> QED  BY <1>0, <2>2, <2>4 DEF q, r
<1>2. ASSUME NEW high \in Byte, NEW low \in Byte
      PROVE  /\ Base * high + low \in Register
             /\ (Base * high + low) \div Base = high
             /\ (Base * high + low) % Base = low
  <2>1. high \in Int /\ 0 <= high /\ high < Base /\ low \in Int /\ 0 <= low /\ low < Base
    BY <1>0
  <2>2. \A b \in Nat \ {0}, x, y \in Int : 0 <= x /\ x < b /\ 0 <= y /\ y < b =>
          b * x + y \in Int /\ 0 <= b * x + y /\ b * x + y < b * b
    <3> SUFFICES ASSUME NEW b \in Nat \ {0}, NEW x \in Int, NEW y \in Int, 0 <= x, x < b, 0 <= y, y < b
                 PROVE  b * x + y \in Int /\ 0 <= b * x + y /\ b * x + y < b * b
      OBVIOUS
    <3>1. b * x >= 0 /\ b * x \in Int
      OBVIOUS
    <3>2. b * (x + 1) <= b * b
      OBVIOUS
    <3>3. b * (x + 1) = b * x + b
      OBVIOUS
    <3> QED  BY <3>1, <3>2, <3>3
  <2>3. Base * high + low \in Register
    BY <1>0, <2>1, <2>2, BaseFacts
  <2>4. (Base * high + low) \div Base = high /\ (Base * high + low) % Base = low
    BY <2>1, BaseFacts, DivUnique
  <2> QED  BY <2>3, <2>4
<1> QED  BY <1>1, <1>2

(* The bytes of registers, in the orders: _pack_words and _unpack_to_words *)
(* both relate words and bytes this way.                                   *)
Laid(words, bytes, m, wordOrder, byteOrder) ==
  /\ words \in [1..m -> Register] /\ Len(words) = m
  /\ bytes \in [1..(2 * m) -> Byte] /\ Len(bytes) = 2 * m
  /\ \A i \in 1..m : words[Place(i, m, wordOrder)] =
                       Base * bytes[HighAt(i, byteOrder)] + bytes[LowAt(i, byteOrder)]

LEMMA PackBytesLaid ==
  ASSUME NEW m \in Nat, NEW words \in [1..m -> Register], NEW wordOrder, NEW byteOrder
  PROVE  Laid(words, PackBytes(words, wordOrder, byteOrder), m, wordOrder, byteOrder)
<1> DEFINE bytes == PackBytes(words, wordOrder, byteOrder)
           w == Ordered(words, wordOrder)
           pair(x) == Halves(<<x \div Base, x % Base>>, byteOrder)
<1>1. Len(words) = m
  BY FunctionIsSeq
<1>2. bytes = [k \in 1..(2 * m) |-> pair(w[(k + 1) \div 2])[2 - (k % 2)]]
  BY <1>1 DEF PackBytes
<1>3. w \in [1..m -> Register] /\ \A i \in 1..m : w[i] = words[Place(i, m, wordOrder)]
  <2>1. w \in [1..m -> Register]
    BY OrderedTyped
  <2> QED  BY <1>1, <2>1, OrderedAt
<1>4. \A x : /\ pair(x)[1] = IF byteOrder = "big" THEN x \div Base ELSE x % Base
             /\ pair(x)[2] = IF byteOrder = "big" THEN x % Base ELSE x \div Base
  BY HalvesAt
<1> HIDE DEF bytes, w, pair
<1>5. \A i \in 1..m : /\ 2 * i - 1 \in 1..(2 * m) /\ (2 * i - 1 + 1) \div 2 = i /\ 2 - ((2 * i - 1) % 2) = 1
                      /\ 2 * i \in 1..(2 * m) /\ (2 * i + 1) \div 2 = i /\ 2 - ((2 * i) % 2) = 2
  OBVIOUS
<1>6. \A i \in 1..m : bytes[2 * i - 1] = pair(w[i])[1] /\ bytes[2 * i] = pair(w[i])[2]
  BY <1>2, <1>5
<1>7. ASSUME NEW i \in 1..m
      PROVE  /\ words[Place(i, m, wordOrder)] \in Register
             /\ bytes[HighAt(i, byteOrder)] = words[Place(i, m, wordOrder)] \div Base
             /\ bytes[LowAt(i, byteOrder)] = words[Place(i, m, wordOrder)] % Base
  <2>1. w[i] = words[Place(i, m, wordOrder)] /\ words[Place(i, m, wordOrder)] \in Register
    BY <1>3, Places
  <2>2. CASE byteOrder = "big"
    BY <1>4, <1>6, <2>1, <2>2 DEF HighAt, LowAt
  <2>3. CASE byteOrder # "big"
    BY <1>4, <1>6, <2>1, <2>3 DEF HighAt, LowAt
  <2> QED  BY <2>1, <2>2, <2>3
<1>8. bytes \in [1..(2 * m) -> Byte]
  <2>1. ASSUME NEW k \in 1..(2 * m) PROVE bytes[k] \in Byte
    <3>1. PICK i \in 1..m : k = HighAt(i, byteOrder) \/ k = LowAt(i, byteOrder)
      BY HalfPlaces
    <3> QED  BY <1>7, <3>1, RegisterBytes
  <2> QED  BY <1>2, <2>1
<1>9. Len(bytes) = 2 * m
  BY <1>8, FunctionIsSeq
<1>10. \A i \in 1..m : words[Place(i, m, wordOrder)] =
                         Base * bytes[HighAt(i, byteOrder)] + bytes[LowAt(i, byteOrder)]
  BY <1>7, RegisterBytes
<1> QED  BY <1>1, <1>8, <1>9, <1>10 DEF bytes, Laid

LEMMA UnpackToWordsLaid ==
  ASSUME NEW m \in Nat, NEW bytes \in [1..(2 * m) -> Byte], NEW wordOrder, NEW byteOrder
  PROVE  Laid(UnpackToWords(bytes, wordOrder, byteOrder), bytes, m, wordOrder, byteOrder)
<1> DEFINE words == UnpackToWords(bytes, wordOrder, byteOrder)
           pair(i) == Halves(<<bytes[2 * i - 1], bytes[2 * i]>>, byteOrder)
           w == [i \in 1..m |-> Base * pair(i)[1] + pair(i)[2]]
<1>1. Len(bytes) = 2 * m /\ (2 * m) \div 2 = m
  BY FunctionIsSeq
<1>2. words = Ordered(w, wordOrder)
  BY <1>1 DEF UnpackToWords
<1>3. \A i \in 1..m : /\ pair(i)[1] = bytes[HighAt(i, byteOrder)]
                      /\ pair(i)[2] = bytes[LowAt(i, byteOrder)]
  BY HalvesAt DEF HighAt, LowAt
<1> HIDE DEF pair
<1>4. \A i \in 1..m : /\ w[i] = Base * bytes[HighAt(i, byteOrder)] + bytes[LowAt(i, byteOrder)]
                      /\ w[i] \in Register
  <2> SUFFICES ASSUME NEW i \in 1..m
               PROVE  /\ w[i] = Base * bytes[HighAt(i, byteOrder)] + bytes[LowAt(i, byteOrder)]
                      /\ w[i] \in Register
    OBVIOUS
  <2>1. bytes[HighAt(i, byteOrder)] \in Byte /\ bytes[LowAt(i, byteOrder)] \in Byte
    BY HalfPlaces
  <2>2. w[i] = Base * bytes[HighAt(i, byteOrder)] + bytes[LowAt(i, byteOrder)]
    BY <1>3
  <2> HIDE DEF w
  <2> QED  BY <2>1, <2>2, RegisterBytes
<1>5. w \in [1..m -> Register]
  <2>1. DOMAIN w = 1..m /\ w = [i \in DOMAIN w |-> w[i]]
    OBVIOUS
  <2> HIDE DEF w
  <2> QED  BY <1>4, <2>1
<1> HIDE DEF w, words
<1>6. words \in [1..m -> Register] /\ \A i \in 1..m : words[i] = w[Place(i, m, wordOrder)]
  <2>1. words \in [1..m -> Register] /\ Len(w) = m
    BY <1>2, <1>5, OrderedTyped
  <2> QED  BY <1>2, <2>1, OrderedAt
<1>7. \A i \in 1..m : words[Place(i, m, wordOrder)] = w[i]
  BY <1>6, Places
<1>8. Len(words) = m
  BY <1>6, FunctionIsSeq
<1> QED  BY <1>1, <1>4, <1>6, <1>7, <1>8 DEF words, Laid

(* Words have one layout, and a layout one sequence of words.              *)
LEMMA LaidWords ==
  ASSUME NEW m \in Nat, NEW bytes, NEW wordOrder, NEW byteOrder, NEW v, NEW w,
         Laid(v, bytes, m, wordOrder, byteOrder), Laid(w, bytes, m, wordOrder, byteOrder)
  PROVE  v = w
<1>1. v \in [1..m -> Register] /\ w \in [1..m -> Register]
  BY DEF Laid
<1>2. \A i \in 1..m : v[Place(i, m, wordOrder)] = w[Place(i, m, wordOrder)]
  BY DEF Laid
<1>3. \A j \in 1..m : v[j] = w[j]
  BY <1>2, Places
<1> QED  BY <1>1, <1>3

LEMMA LaidBytes ==
  ASSUME NEW m \in Nat, NEW words, NEW wordOrder, NEW byteOrder, NEW a, NEW b,
         Laid(words, a, m, wordOrder, byteOrder), Laid(words, b, m, wordOrder, byteOrder)
  PROVE  a = b
<1>1. a \in [1..(2 * m) -> Byte] /\ b \in [1..(2 * m) -> Byte]
  BY DEF Laid
<1>2. ASSUME NEW i \in 1..m
      PROVE  /\ a[HighAt(i, byteOrder)] = b[HighAt(i, byteOrder)]
             /\ a[LowAt(i, byteOrder)] = b[LowAt(i, byteOrder)]
  <2> DEFINE ah == a[HighAt(i, byteOrder)]
             al == a[LowAt(i, byteOrder)]
             bh == b[HighAt(i, byteOrder)]
             bl == b[LowAt(i, byteOrder)]
  <2>1. ah \in Byte /\ al \in Byte /\ bh \in Byte /\ bl \in Byte
    BY <1>1, HalfPlaces
  <2>2. Base * ah + al = Base * bh + bl
    BY DEF Laid
  <2> HIDE DEF ah, al, bh, bl
  <2>3. ah = bh /\ al = bl
    BY <2>1, <2>2, RegisterBytes
  <2> QED  BY <2>3 DEF ah, al, bh, bl
<1>3. \A k \in 1..(2 * m) : a[k] = b[k]
  BY <1>2, HalfPlaces
<1> QED  BY <1>1, <1>3

(* Each undoes the other, in whatever orders.                              *)
LEMMA WordsRoundTrip ==
  ASSUME NEW m \in Nat, NEW words \in [1..m -> Register], NEW wordOrder, NEW byteOrder
  PROVE  UnpackToWords(PackBytes(words, wordOrder, byteOrder), wordOrder, byteOrder) = words
<1> DEFINE bytes == PackBytes(words, wordOrder, byteOrder)
<1>1. Laid(words, bytes, m, wordOrder, byteOrder)
  BY PackBytesLaid
<1> HIDE DEF bytes
<1>2. bytes \in [1..(2 * m) -> Byte]
  BY <1>1 DEF Laid
<1>3. Laid(UnpackToWords(bytes, wordOrder, byteOrder), bytes, m, wordOrder, byteOrder)
  BY <1>2, UnpackToWordsLaid
<1> QED  BY <1>1, <1>3, LaidWords DEF bytes

LEMMA PackRoundTrip ==
  ASSUME NEW m \in Nat, NEW bytes \in [1..(2 * m) -> Byte], NEW wordOrder, NEW byteOrder
  PROVE  PackBytes(UnpackToWords(bytes, wordOrder, byteOrder), wordOrder, byteOrder) = bytes
<1> DEFINE words == UnpackToWords(bytes, wordOrder, byteOrder)
<1>1. Laid(words, bytes, m, wordOrder, byteOrder)
  BY UnpackToWordsLaid
<1> HIDE DEF words
<1>2. words \in [1..m -> Register]
  BY <1>1 DEF Laid
<1>3. Laid(words, PackBytes(words, wordOrder, byteOrder), m, wordOrder, byteOrder)
  BY <1>2, PackBytesLaid
<1> QED  BY <1>1, <1>3, LaidBytes DEF words

-----------------------------------------------------------------------------
(* Formats, and the device's layout                                        *)

Char == DOMAIN Encoding

(* Types are told apart, and have one, two or four registers.              *)
LEMMA TypeFacts ==
  ASSUME NEW type \in Integer \cup Float
  PROVE  /\ type # "string" /\ (type \in Float <=> type \notin Integer)
         /\ RegistersOf(type) \in {1, 2, 4}
         /\ (type = "float32" => RegistersOf(type) = 2) /\ (type = "float64" => RegistersOf(type) = 4)
         /\ (type \in Float <=> type \in {"float32", "float64"})
BY DEF Integer, Float, RegistersOf

LEMMA FormatFacts ==
  ASSUME NEW f \in Formats
  PROVE  /\ f \in FormatRec /\ f.type \in Integer \cup Float \cup {"string"}
         /\ f.wordOrder \in WordOrders /\ f.byteOrder \in ByteOrders
         /\ f.pad \in Byte /\ f.strip \in BOOLEAN
         /\ FieldRegisters(f) \in Nat \ {0}
         /\ f.type # "string" =>
              /\ f.type \in Integer \cup Float /\ FieldRegisters(f) = RegistersOf(f.type)
              /\ f.byteCount = None /\ f.registerCount \in {None, RegistersOf(f.type)}
         /\ f.type = "string" =>
              \/ /\ f.byteCount = None /\ f.registerCount # None
                 /\ f.registerCount \in Nat \ {0} /\ FieldRegisters(f) = f.registerCount
              \/ /\ f.registerCount = None /\ f.byteCount # None
                 /\ f.byteCount \in Nat \ {0} /\ FieldRegisters(f) = StringRegisters(f.byteCount)
                 /\ 2 * FieldRegisters(f) = f.byteCount + (f.byteCount % 2)
<1>1. f \in FormatRec
  BY FieldAssumption
<1>2. /\ f.type \in Integer \cup Float \cup {"string"}
      /\ f.wordOrder \in WordOrders /\ f.byteOrder \in ByteOrders
      /\ f.pad \in Byte /\ f.strip \in BOOLEAN
  BY <1>1 DEF FormatRec
<1>3. None \notin Nat
  BY DecoderAssumption
<1>4. CASE f.type # "string"
  <2>1. f.type \in Integer \cup Float
    BY <1>2, <1>4
  <2>2. RegistersOf(f.type) \in Nat \ {0}
    BY <2>1, TypeFacts
  <2>3. f.byteCount = None /\ f.registerCount \in {None, RegistersOf(f.type)}
    BY <1>4, FieldAssumption
  <2>4. FieldRegisters(f) = RegistersOf(f.type)
    BY <1>4 DEF FieldRegisters
  <2> QED  BY <1>1, <1>2, <1>4, <2>1, <2>2, <2>3, <2>4
<1>5. CASE f.type = "string"
  <2>1. \/ f.byteCount = None /\ f.registerCount \in Nat \ {0}
        \/ f.registerCount = None /\ f.byteCount \in Nat \ {0}
    BY <1>5, FieldAssumption
  <2>2. CASE f.byteCount = None /\ f.registerCount \in Nat \ {0}
    <3>1. FieldRegisters(f) = f.registerCount /\ f.registerCount # None
      BY <1>3, <1>5, <2>2 DEF FieldRegisters
    <3> QED  BY <1>1, <1>2, <1>5, <2>2, <3>1
  <2>3. CASE f.registerCount = None /\ f.byteCount \in Nat \ {0}
    <3>1. f.byteCount # None /\ FieldRegisters(f) = (f.byteCount \div 2) + (f.byteCount % 2)
      BY <1>3, <1>5, <2>3 DEF FieldRegisters
    <3>2. \A b \in Nat \ {0} : /\ (b \div 2) + (b % 2) = (b + 1) \div 2
                               /\ (b \div 2) + (b % 2) \in Nat \ {0}
                               /\ 2 * ((b \div 2) + (b % 2)) = b + (b % 2)
      OBVIOUS
    <3>3. /\ FieldRegisters(f) = StringRegisters(f.byteCount) /\ FieldRegisters(f) \in Nat \ {0}
          /\ 2 * FieldRegisters(f) = f.byteCount + (f.byteCount % 2)
      BY <2>3, <3>1, <3>2 DEF StringRegisters
    <3> QED  BY <1>1, <1>2, <1>5, <2>3, <3>1, <3>3
  <2> QED  BY <2>1, <2>2, <2>3
<1> QED  BY <1>4, <1>5

(* Formats that differ in their orders only are of one length and one type. *)
LEMMA UnorderedFacts ==
  ASSUME NEW f \in Formats, NEW g \in Formats, Unordered(f) = Unordered(g)
  PROVE  /\ f.type = g.type /\ f.registerCount = g.registerCount /\ f.byteCount = g.byteCount
         /\ f.pad = g.pad /\ f.strip = g.strip
         /\ FieldRegisters(f) = FieldRegisters(g) /\ ValuesOf(f) = ValuesOf(g)
<1>1. f \in FormatRec /\ g \in FormatRec
  BY FormatFacts
<1>2. \A h \in FormatRec :
        /\ Unordered(h).type = h.type /\ Unordered(h).registerCount = h.registerCount
        /\ Unordered(h).byteCount = h.byteCount /\ Unordered(h).pad = h.pad /\ Unordered(h).strip = h.strip
  BY DEF Unordered, FormatRec
<1>3. /\ f.type = g.type /\ f.registerCount = g.registerCount /\ f.byteCount = g.byteCount
      /\ f.pad = g.pad /\ f.strip = g.strip
  BY <1>1, <1>2
<1>4. FieldRegisters(f) = FieldRegisters(g)
  BY <1>3 DEF FieldRegisters
<1>5. ValuesOf(f) = ValuesOf(g)
  BY <1>3 DEF ValuesOf
<1> QED  BY <1>3, <1>4, <1>5

(* What a value of a format is.                                            *)
LEMMA ValueFacts ==
  ASSUME NEW f \in Formats, NEW v \in ValuesOf(f)
  PROVE  /\ f.type \in Integer => v \in Int
         /\ f.type \in Float =>
              \/ v = Huge /\ f.type = "float32"
              \/ v \in [1..(2 * RegistersOf(f.type)) -> Byte] /\ Len(v) = 2 * RegistersOf(f.type)
         /\ f.type = "string" => v \in Seq(Char)
<1>1. CASE f.type \in Integer
  <2>1. f.type # "string" /\ f.type \notin Float
    BY <1>1, TypeFacts
  <2>2. ValuesOf(f) = Int
    BY <1>1, <2>1 DEF ValuesOf, Float
  <2> QED  BY <1>1, <2>1, <2>2
<1>2. CASE f.type = "float32"
  <2>1. f.type # "string" /\ f.type \notin Integer /\ RegistersOf(f.type) = 2
    BY <1>2, TypeFacts DEF Float
  <2>2. v = Huge \/ v \in [1..4 -> Byte]
    BY <1>2, <2>1 DEF ValuesOf
  <2>3. v \in [1..4 -> Byte] => Len(v) = 4
    BY FunctionIsSeq
  <2>4. 2 * RegistersOf(f.type) = 4
    BY <2>1
  <2>5. \/ v = Huge
        \/ v \in [1..(2 * RegistersOf(f.type)) -> Byte] /\ Len(v) = 2 * RegistersOf(f.type)
    BY <2>2, <2>3, <2>4
  <2> QED  BY <1>2, <2>1, <2>5
<1>3. CASE f.type = "float64"
  <2>1. f.type # "string" /\ f.type \notin Integer /\ RegistersOf(f.type) = 4
    BY <1>3, TypeFacts DEF Float
  <2>2. v \in [1..8 -> Byte]
    BY <1>3, <2>1 DEF ValuesOf
  <2>3. 2 * 4 = 8 /\ Len(v) = 8
    BY <2>2, FunctionIsSeq
  <2> QED  BY <1>3, <2>1, <2>2, <2>3
<1>4. CASE f.type = "string"
  <2>1. f.type \notin Integer /\ f.type \notin Float
    BY <1>4, TypeFacts
  <2>2. v \in Seq(Char)
    BY <1>4, <2>1 DEF ValuesOf, Char, Integer
  <2> QED  BY <2>1, <2>2
<1> QED  BY <1>1, <1>2, <1>3, <1>4, FormatFacts DEF Float

(* The bytes of the device's layout, in the order decoding takes them.     *)
DeviceBytes(value, f, spare) ==
  LET n == 2 * FieldRegisters(f) IN
  [k \in 1..n |-> DeviceByte(value, f, spare, IF f.type = "string" THEN k - 1 ELSE n - k)]

StringOrder(f) == IF f.type = "string" THEN "high_low" ELSE f.wordOrder

(* The device's words are those bytes, laid out in its orders.             *)
LEMMA DeviceLaid ==
  ASSUME NEW f \in Formats, NEW value, NEW spare,
         DeviceBytes(value, f, spare) \in [1..(2 * FieldRegisters(f)) -> Byte]
  PROVE  /\ DeviceWords(value, f, spare) =
              UnpackToWords(DeviceBytes(value, f, spare), StringOrder(f), f.byteOrder)
         /\ Laid(DeviceWords(value, f, spare), DeviceBytes(value, f, spare), FieldRegisters(f),
                 StringOrder(f), f.byteOrder)
<1> DEFINE n == FieldRegisters(f)
           w == DeviceWords(value, f, spare)
           d == DeviceBytes(value, f, spare)
           B(k) == DeviceByte(value, f, spare, k)
           place(r) == IF f.type = "string" \/ f.wordOrder = "low_high" THEN r - 1 ELSE n - r
           high == IF (f.type = "string") = (f.byteOrder = "big") THEN 0 ELSE 1
<1>0. n \in Nat /\ f.wordOrder \in WordOrders /\ f.byteOrder \in ByteOrders
  BY FormatFacts
<1>1. w = [r \in 1..n |-> Base * B(2 * place(r) + high) + B(2 * place(r) + (1 - high))]
  BY DEF DeviceWords
<1>2. \A k \in 1..(2 * n) : d[k] = B(IF f.type = "string" THEN k - 1 ELSE 2 * n - k)
  BY DEF DeviceBytes
<1>3. d \in [1..(2 * n) -> Byte] /\ Len(d) = 2 * n
  BY <1>0, FunctionIsSeq
<1> HIDE DEF n, w, d, B
<1>4. ASSUME NEW i \in 1..n
      PROVE  w[Place(i, n, StringOrder(f))] =
               Base * d[HighAt(i, f.byteOrder)] + d[LowAt(i, f.byteOrder)]
  <2> DEFINE r == Place(i, n, StringOrder(f))
             h == HighAt(i, f.byteOrder)
             l == LowAt(i, f.byteOrder)
  <2>1. r \in 1..n /\ h \in 1..(2 * n) /\ l \in 1..(2 * n)
    BY <1>0, Places, HalfPlaces
  <2>2. CASE f.type = "string"
    <3>1. r = i
      BY <2>2 DEF StringOrder, Place
    <3>2. 2 * place(r) + high = h - 1 /\ 2 * place(r) + (1 - high) = l - 1
      BY <1>0, <2>2, <3>1 DEF HighAt, LowAt, ByteOrders
    <3>3. d[h] = B(h - 1) /\ d[l] = B(l - 1)
      BY <1>2, <2>1, <2>2
    <3> HIDE DEF r, h, l, place, high
    <3> QED  BY <1>1, <2>1, <3>2, <3>3 DEF r, h, l
  <2>3. CASE f.type # "string"
    <3>1. place(r) = n - i
      BY <1>0, <2>3 DEF StringOrder, Place, WordOrders
    <3>2. 2 * place(r) + high = 2 * n - h /\ 2 * place(r) + (1 - high) = 2 * n - l
      <4>1. CASE f.byteOrder = "big"
        <5>1. high = 1 /\ h = 2 * i - 1 /\ l = 2 * i
          BY <2>3, <4>1 DEF HighAt, LowAt
        <5> HIDE DEF high, h, l, place, r
        <5> QED  BY <1>0, <3>1, <5>1
      <4>2. CASE f.byteOrder # "big"
        <5>1. high = 0 /\ h = 2 * i /\ l = 2 * i - 1
          BY <2>3, <4>2 DEF HighAt, LowAt
        <5> HIDE DEF high, h, l, place, r
        <5> QED  BY <1>0, <3>1, <5>1
      <4> QED  BY <4>1, <4>2
    <3>3. d[h] = B(2 * n - h) /\ d[l] = B(2 * n - l)
      BY <1>2, <2>1, <2>3
    <3> HIDE DEF r, h, l, place, high
    <3> QED  BY <1>1, <2>1, <3>2, <3>3 DEF r, h, l
  <2> QED  BY <2>2, <2>3
<1>5. w \in [1..n -> Register] /\ Len(w) = n
  <2>1. ASSUME NEW r \in 1..n PROVE w[r] \in Register
    <3> DEFINE i == Place(r, n, StringOrder(f))
    <3>1. i \in 1..n /\ Place(i, n, StringOrder(f)) = r
      BY <1>0, Places
    <3> HIDE DEF i
    <3>2. w[r] = Base * d[HighAt(i, f.byteOrder)] + d[LowAt(i, f.byteOrder)]
      BY <1>4, <3>1
    <3>3. d[HighAt(i, f.byteOrder)] \in Byte /\ d[LowAt(i, f.byteOrder)] \in Byte
      BY <1>0, <1>3, <3>1, HalfPlaces
    <3> QED  BY <3>2, <3>3, RegisterBytes
  <2>2. w = [r \in 1..n |-> w[r]]
    BY <1>1
  <2>3. w \in [1..n -> Register]
    BY <2>1, <2>2
  <2> QED  BY <1>0, <2>3, FunctionIsSeq
<1>6. Laid(w, d, n, StringOrder(f), f.byteOrder)
  BY <1>3, <1>4, <1>5 DEF Laid
<1>7. Laid(UnpackToWords(d, StringOrder(f), f.byteOrder), d, n, StringOrder(f), f.byteOrder)
  BY <1>0, <1>3, UnpackToWordsLaid
<1>8. w = UnpackToWords(d, StringOrder(f), f.byteOrder)
  BY <1>0, <1>6, <1>7, LaidWords
<1> QED  BY <1>6, <1>8 DEF w, d, n

-----------------------------------------------------------------------------
(* Numbers in registers                                                    *)

(* The range of a type, told in two ways.                                  *)
LEMMA FitsHolds ==
  ASSUME NEW f \in Formats, f.type \in Integer, NEW v \in Int
  PROVE  Fits(v, f.type \in Signed, 2 * FieldRegisters(f)) <=> Holds(v, f)
<1> DEFINE n == 2 * FieldRegisters(f)
<1>1. n \in Nat /\ n # 0
  BY FormatFacts
<1> HIDE DEF n
<1>2. PICK half \in Nat \ {0} : Size[n] = 2 * half /\ Size[n] \div 2 = half
  BY <1>1, SizeEven
<1>3. /\ (2 * v) \div (2 * half) \in {0, -1} <=> -half <= v /\ v < half
      /\ v \div (2 * half) = 0 <=> 0 <= v /\ v < 2 * half
  OBVIOUS
<1>4. CASE f.type \in Signed
  <2>1. Holds(v, f) <=> (2 * v) \div Size[n] \in {0, -1}
    BY <1>4 DEF Holds, n, Signed, Integer
  <2>2. Fits(v, TRUE, n) <=> -half <= v /\ v < half
    BY <1>2 DEF Fits
  <2> QED  BY <1>2, <1>3, <1>4, <2>1, <2>2 DEF n
<1>5. CASE f.type \notin Signed
  <2>1. Holds(v, f) <=> v \div Size[n] = 0
    BY <1>5 DEF Holds, n, Signed, Integer
  <2>2. Fits(v, FALSE, n) <=> 0 <= v /\ v < 2 * half
    BY <1>2 DEF Fits
  <2>3. (f.type \in Signed) = FALSE
    BY <1>5
  <2>4. Fits(v, FALSE, n) <=> Holds(v, f)
    BY <1>2, <1>3, <2>1, <2>2
  <2> QED  BY <2>3, <2>4 DEF n
<1> QED  BY <1>4, <1>5

(* The device's bytes of a number it holds are those of the encoding.      *)
LEMMA NumberBytes ==
  ASSUME NEW f \in Formats, f.type # "string", NEW v \in ValuesOf(f), NEW spare,
         ~(f.type = "float32" /\ v = Huge)
  PROVE  /\ DeviceBytes(v, f, spare) \in [1..(2 * FieldRegisters(f)) -> Byte]
         /\ f.type \in Integer => DeviceBytes(v, f, spare) = IntToBytes(v, 2 * FieldRegisters(f))
         /\ f.type \notin Integer => DeviceBytes(v, f, spare) = v
<1> DEFINE n == 2 * FieldRegisters(f)
           d == DeviceBytes(v, f, spare)
<1>1. n \in Nat /\ FieldRegisters(f) = RegistersOf(f.type) /\ f.type \in Integer \cup Float
  BY FormatFacts
<1>2. d = [k \in 1..n |-> DeviceByte(v, f, spare, n - k)]
  BY DEF DeviceBytes
<1>3. CASE f.type \in Integer
  <2>1. v \in Int
    BY <1>3, ValueFacts
  <2>2. ASSUME NEW k \in 1..n
        PROVE  DeviceByte(v, f, spare, n - k) = ((v % Size[n]) \div Size[n - k]) % Base
    <3>1. n - k \in Nat /\ n - k < n
      BY <1>1
    <3>2. DeviceByte(v, f, spare, n - k) = (v \div Size[n - k]) % Base
      BY <1>3 DEF DeviceByte, Float, Integer
    <3> HIDE DEF n
    <3> QED  BY <1>1, <2>1, <3>1, <3>2, LowByte
  <2>3. d = IntToBytes(v, n)
    BY <1>2, <2>2 DEF IntToBytes
  <2>4. IntToBytes(v, n) \in [1..n -> Byte]
    BY <1>1, <2>1, IntToBytesTyped
  <2> QED  BY <1>3, <2>3, <2>4
<1>4. CASE f.type \notin Integer
  <2>1. f.type \in Float
    BY <1>1, <1>4
  <2>2. v \in [1..n -> Byte] /\ Len(v) = n
    BY <1>1, <1>4, <2>1, ValueFacts
  <2>3. ASSUME NEW k \in 1..n PROVE DeviceByte(v, f, spare, n - k) = v[k]
    <3>1. n - (n - k) = k
      BY <1>1
    <3>2. DeviceByte(v, f, spare, n - k) = v[Len(v) - (n - k)]
      BY <1>4, <2>1 DEF DeviceByte
    <3> QED  BY <2>2, <3>1, <3>2
  <2>4. d = v
    BY <1>2, <2>2, <2>3
  <2> QED  BY <1>4, <2>2, <2>4
<1> QED  BY <1>3, <1>4

(* A float is held but for the one too large.                              *)
LEMMA FloatHolds ==
  ASSUME NEW f \in Formats, f.type \in Float, NEW v \in ValuesOf(f)
  PROVE  Holds(v, f) <=> ~(f.type = "float32" /\ v = Huge)
<1>1. CASE f.type = "float32"
  BY <1>1 DEF Holds, Signed, Integer
<1>2. CASE f.type = "float64"
  BY <1>2 DEF Holds, Signed, Integer
<1> QED  BY <1>1, <1>2 DEF Float

(* A float32 is changed once, to another that struct leaves alone; nothing  *)
(* else is.                                                                *)
LEMMA QuietedFacts ==
  ASSUME NEW f \in Formats, NEW v \in ValuesOf(f), Holds(v, f)
  PROVE  /\ Quieted(v, f) \in ValuesOf(f) /\ Holds(Quieted(v, f), f)
         /\ Quieted(Quieted(v, f), f) = Quieted(v, f)
<1>1. CASE f.type = "float32" /\ StructQuiets /\ SignallingNaN(v)
  <2>1. f.type \in Float /\ f.type \notin Integer /\ RegistersOf(f.type) = 2
    BY <1>1, TypeFacts DEF Float
  <2>2. v \in [1..4 -> Byte]
    <3>1. v # Huge
      BY <1>1, <2>1, FloatHolds
    <3>2. ValuesOf(f) = [1..4 -> Byte] \cup {Huge}
      BY <1>1 DEF ValuesOf, Integer
    <3> QED  BY <3>1, <3>2
  <2> DEFINE q == Base \div 4
             w == [v EXCEPT ![2] = @ + q]
  <2>3. q \in Nat \ {0} /\ Base = 4 * q
    BY BaseFacts
  <2>4. 2 * q <= v[2] /\ v[2] < 3 * q
    BY <1>1 DEF SignallingNaN
  <2>5. v[2] \in Int
    BY <2>2 DEF Byte
  <2>6. v[2] + q \in Byte /\ ~(v[2] + q < 3 * q)
    <3> DEFINE x == v[2]
    <3> HIDE DEF q, x
    <3>1. q \in Nat \ {0} /\ x \in Int /\ 2 * q <= x /\ x < 3 * q /\ Base = 4 * q
      BY <2>3, <2>4, <2>5 DEF x
    <3>2. x + q \in 0..(Base - 1) /\ ~(x + q < 3 * q)
      BY <3>1
    <3> QED  BY <3>2 DEF Byte, x
  <2>7. w \in [1..4 -> Byte] /\ w[2] = v[2] + q
    <3> HIDE DEF q
    <3> QED  BY <2>2, <2>6
  <2>8. Quieted(v, f) = w
    BY <1>1 DEF Quieted
  <2>9. ~SignallingNaN(w)
    <3> HIDE DEF w
    <3> QED  BY <2>6, <2>7 DEF SignallingNaN
  <2> HIDE DEF w
  <2>10. Quieted(w, f) = w
    BY <2>9 DEF Quieted
  <2>11. w \in ValuesOf(f) /\ w # Huge
    BY <1>1, <2>7, FieldAssumption DEF ValuesOf, Integer
  <2>12. Holds(w, f)
    BY <2>1, <2>11, FloatHolds
  <2> QED  BY <2>8, <2>10, <2>11, <2>12
<1>2. CASE ~(f.type = "float32" /\ StructQuiets /\ SignallingNaN(v))
  <2>1. Quieted(v, f) = v
    BY <1>2 DEF Quieted
  <2> QED  BY <2>1
<1> QED  BY <1>1, <1>2

LEMMA OthersUnchanged ==
  ASSUME NEW f, NEW v, f.type # "float32"
  PROVE  Quieted(v, f) = v
BY DEF Quieted

(* A number is encoded to the device's layout of it, or refused.           *)
LEMMA NumberEncoded ==
  ASSUME NEW f \in Formats, f.type # "string", NEW v \in ValuesOf(f), NEW spare
  PROVE  /\ Holds(v, f) => Encode(v, f) = Value(DeviceWords(Quieted(v, f), f, spare))
         /\ ~Holds(v, f) => Encode(v, f) \in {Raise("configuration"), Raise("overflow")}
<1> DEFINE n == 2 * FieldRegisters(f)
           d == DeviceBytes(v, f, spare)
<1>1. /\ f.type \in Integer \cup Float /\ FieldRegisters(f) = RegistersOf(f.type)
      /\ f.byteCount = None /\ f.registerCount \in {None, RegistersOf(f.type)}
  BY FormatFacts
<1>2. Encode(v, f) = EncodeNumber(v, f)
  BY <1>1 DEF Encode
<1>3. StringOrder(f) = f.wordOrder
  BY DEF StringOrder
<1>4. CASE f.type \in Integer
  <2>1. v \in Int
    BY <1>4, ValueFacts
  <2>2. d \in [1..n -> Byte] /\ d = IntToBytes(v, n)
    <3>1. f.type # "float32"
      BY <1>4 DEF Integer
    <3> QED  BY <1>4, <3>1, NumberBytes
  <2>3. DeviceWords(v, f, spare) = UnpackToWords(IntToBytes(v, n), f.wordOrder, f.byteOrder)
    BY <1>3, <2>2, DeviceLaid
  <2>4. Fits(v, f.type \in Signed, n) <=> Holds(v, f)
    BY <1>4, <2>1, FitsHolds
  <2>5. EncodeNumber(v, f) = IF Fits(v, f.type \in Signed, n)
                             THEN Value(UnpackToWords(IntToBytes(v, n), f.wordOrder, f.byteOrder))
                             ELSE Raise("configuration")
    BY <1>1, <1>4 DEF EncodeNumber, Integer, Float
  <2>6. Quieted(v, f) = v
    <3>1. f.type # "float32"
      BY <1>4 DEF Integer
    <3> QED  BY <3>1, OthersUnchanged
  <2> QED  BY <1>2, <2>3, <2>4, <2>5, <2>6
<1>5. CASE f.type \notin Integer
  <2>1. f.type \in Float
    BY <1>1, <1>5
  <2>2. Holds(v, f) <=> ~(f.type = "float32" /\ v = Huge)
    BY <2>1, FloatHolds
  <2>3. EncodeNumber(v, f) = IF f.type = "float32" /\ v = Huge THEN Raise("overflow")
                             ELSE Value(UnpackToWords(Quieted(v, f), f.wordOrder, f.byteOrder))
    BY <1>5, <2>1 DEF EncodeNumber
  <2>4. ASSUME Holds(v, f)
        PROVE  DeviceWords(Quieted(v, f), f, spare) =
                 UnpackToWords(Quieted(v, f), f.wordOrder, f.byteOrder)
    <3> DEFINE w == Quieted(v, f)
               e == DeviceBytes(w, f, spare)
    <3>1. w \in ValuesOf(f) /\ Holds(w, f)
      BY <2>4, QuietedFacts
    <3> HIDE DEF w
    <3>2. ~(f.type = "float32" /\ w = Huge)
      BY <2>1, <3>1, FloatHolds
    <3>3. e \in [1..n -> Byte] /\ e = w
      BY <1>5, <3>1, <3>2, NumberBytes
    <3> QED  BY <1>3, <3>3, DeviceLaid DEF w
  <2> QED  BY <1>2, <2>2, <2>3, <2>4
<1> QED  BY <1>4, <1>5

(* decode on registers, for a number.                                      *)
LEMMA DecodeNumberOf ==
  ASSUME NEW f \in Formats, f.type # "string",
         NEW words \in [1..FieldRegisters(f) -> Register]
  PROVE  Decode(words, f) =
           Value(IF f.type \in Integer
                 THEN BytesToInt(PackBytes(words, f.wordOrder, f.byteOrder), f.type \in Signed)
                 ELSE Quieted(PackBytes(words, f.wordOrder, f.byteOrder), f))
<1>1. FieldRegisters(f) \in Nat /\ FieldRegisters(f) = RegistersOf(f.type) /\ f.type \in Integer \cup Float
  BY FormatFacts
<1>2. Len(words) = RegistersOf(f.type) /\ DOMAIN words = 1..RegistersOf(f.type)
  BY <1>1, FunctionIsSeq
<1>3. ~(Len(words) # RegistersOf(f.type) \/ \E i \in DOMAIN words : words[i] \notin Register)
  BY <1>1, <1>2
<1>4. f.type \in Float <=> f.type \notin Integer
  BY <1>1, TypeFacts
<1>5. Decode(words, f) = DecodeNumber(words, f)
  BY DEF Decode
<1>6. DecodeNumber(words, f) =
        Value(IF f.type \in Float THEN Quieted(PackBytes(words, f.wordOrder, f.byteOrder), f)
              ELSE BytesToInt(PackBytes(words, f.wordOrder, f.byteOrder), f.type \in Signed))
  BY <1>3, Zenon DEF DecodeNumber
<1> QED  BY <1>4, <1>5, <1>6, Zenon

(* What the device stored is decoded to the value it stored, as struct has *)
(* it.                                                                     *)
LEMMA NumberRoundTrip ==
  ASSUME NEW f \in Formats, f.type # "string", NEW v \in ValuesOf(f), NEW spare, Holds(v, f)
  PROVE  Decode(DeviceWords(v, f, spare), f) = Value(Quieted(v, f))
<1> DEFINE m == FieldRegisters(f)
           n == 2 * m
           d == DeviceBytes(v, f, spare)
           words == DeviceWords(v, f, spare)
<1>1. m \in Nat /\ n \in Nat /\ n # 0 /\ m = RegistersOf(f.type) /\ f.type \in Integer \cup Float
  BY FormatFacts
<1>2. ~(f.type = "float32" /\ v = Huge)
  <2>1. CASE f.type = "float32"
    <3>1. f.type \in Float
      BY <2>1 DEF Float
    <3> QED  BY <3>1, FloatHolds
  <2> QED  BY <2>1
<1>3. /\ d \in [1..n -> Byte]
      /\ f.type \in Integer => d = IntToBytes(v, n)
      /\ f.type \notin Integer => d = v
  BY <1>2, NumberBytes
<1>4. Laid(words, d, m, f.wordOrder, f.byteOrder)
  <2>1. StringOrder(f) = f.wordOrder
    BY DEF StringOrder
  <2> QED  BY <1>3, <2>1, DeviceLaid
<1> HIDE DEF d, words
<1>5. words \in [1..m -> Register]
  BY <1>4 DEF Laid
<1>6. PackBytes(words, f.wordOrder, f.byteOrder) = d
  <2>1. Laid(words, PackBytes(words, f.wordOrder, f.byteOrder), m, f.wordOrder, f.byteOrder)
    BY <1>1, <1>5, PackBytesLaid
  <2> QED  BY <1>1, <1>4, <2>1, LaidBytes
<1>7. Decode(words, f) =
        Value(IF f.type \in Integer THEN BytesToInt(d, f.type \in Signed) ELSE Quieted(d, f))
  BY <1>5, <1>6, DecodeNumberOf
<1>8. f.type \in Integer => BytesToInt(d, f.type \in Signed) = v
  <2> SUFFICES ASSUME f.type \in Integer PROVE BytesToInt(d, f.type \in Signed) = v
    OBVIOUS
  <2>1. v \in Int
    BY ValueFacts
  <2>2. Fits(v, f.type \in Signed, n)
    BY <2>1, FitsHolds
  <2>3. (f.type \in Signed) \in BOOLEAN
    OBVIOUS
  <2>4. BytesToInt(IntToBytes(v, n), f.type \in Signed) = v
    BY <1>1, <2>1, <2>2, <2>3, IntRoundTrip
  <2> QED  BY <1>3, <2>4
<1>9. f.type \in Integer => Quieted(v, f) = v
  <2>1. f.type \in Integer => f.type # "float32"
    BY DEF Integer
  <2> QED  BY <2>1, OthersUnchanged
<1> QED  BY <1>3, <1>7, <1>8, <1>9, Zenon DEF words

(* Whatever registers hold is decoded to a number, one that fits, and its   *)
(* encoding decodes to it: the same registers, but where struct changes it. *)
LEMMA NumberDecoded ==
  ASSUME NEW f \in Formats, f.type # "string",
         NEW words \in [1..FieldRegisters(f) -> Register]
  PROVE  /\ Decode(words, f) = Value(Decode(words, f).value)
         /\ Decode(words, f).value \in ValuesOf(f)
         /\ \E w \in [1..FieldRegisters(f) -> Register] :
              /\ Encode(Decode(words, f).value, f) = Value(w)
              /\ Decode(w, f) = Decode(words, f)
              /\ w = words \/ Changing(words, f)
<1> DEFINE m == FieldRegisters(f)
           n == 2 * m
           bytes == PackBytes(words, f.wordOrder, f.byteOrder)
           v == IF f.type \in Integer THEN BytesToInt(bytes, f.type \in Signed) ELSE bytes
           q == Quieted(v, f)
           w == DeviceWords(q, f, 0)
<1>1. m \in Nat /\ n \in Nat /\ n # 0 /\ m = RegistersOf(f.type) /\ f.type \in Integer \cup Float
  BY FormatFacts
<1>2. Laid(words, bytes, m, f.wordOrder, f.byteOrder)
  BY <1>1, PackBytesLaid
<1>3. bytes \in [1..n -> Byte] /\ Len(bytes) = n
  BY <1>2 DEF Laid
<1>4. UnpackToWords(bytes, f.wordOrder, f.byteOrder) = words
  BY <1>1, WordsRoundTrip
<1>5. Decode(words, f) = Value(q)
  <2>1. f.type \in Integer => q = v
    <3>1. f.type \in Integer => f.type # "float32"
      BY DEF Integer
    <3> QED  BY <3>1, OthersUnchanged
  <2>2. Decode(words, f) = Value(IF f.type \in Integer THEN BytesToInt(bytes, f.type \in Signed)
                                 ELSE Quieted(bytes, f))
    BY DecodeNumberOf
  <2> HIDE DEF bytes
  <2>3. CASE f.type \in Integer
    BY <2>1, <2>2, <2>3, Zenon
  <2>4. CASE f.type \notin Integer
    BY <2>2, <2>4, Zenon
  <2> QED  BY <2>3, <2>4
<1>6. ~Changing(words, f) => q = v
  <2>1. CASE f.type = "float32"
    <3>1. v = bytes
      BY <2>1 DEF Integer
    <3>2. ~Changing(words, f) => ~(StructQuiets /\ SignallingNaN(bytes))
      BY <2>1 DEF Changing
    <3> HIDE DEF bytes, v
    <3> QED  BY <3>1, <3>2 DEF Quieted
  <2>2. CASE f.type # "float32"
    BY <2>2, OthersUnchanged
  <2> QED  BY <2>1, <2>2
<1> HIDE DEF bytes
<1>7. /\ v \in ValuesOf(f) /\ Holds(v, f)
      /\ DeviceBytes(v, f, 0) = bytes
  <2>1. CASE f.type \in Integer
    <3> DEFINE x == BytesToInt(bytes, f.type \in Signed)
    <3>1. x \in Int /\ Fits(x, f.type \in Signed, n) /\ IntToBytes(x, n) = bytes
      <4>1. (f.type \in Signed) \in BOOLEAN
        OBVIOUS
      <4> DEFINE signed == f.type \in Signed
      <4> HIDE DEF signed, n
      <4>2. signed \in BOOLEAN
        BY <4>1 DEF signed
      <4>3. /\ BytesToInt(bytes, signed) \in Int /\ Fits(BytesToInt(bytes, signed), signed, n)
            /\ IntToBytes(BytesToInt(bytes, signed), n) = bytes
        BY <1>1, <1>3, <4>2, BytesRoundTrip
      <4> QED  BY <4>3 DEF signed
    <3>2. v = x
      BY <2>1
    <3> HIDE DEF x, v
    <3>3. x \in ValuesOf(f)
      BY <2>1, <3>1 DEF ValuesOf, Integer
    <3>4. Holds(x, f)
      BY <2>1, <3>1, FitsHolds
    <3>5. f.type # "float32"
      BY <2>1 DEF Integer
    <3>6. DeviceBytes(x, f, 0) = IntToBytes(x, n)
      BY <2>1, <3>3, <3>5, NumberBytes
    <3> QED  BY <3>1, <3>2, <3>3, <3>4, <3>6
  <2>2. CASE f.type \notin Integer
    <3>1. f.type \in Float
      BY <1>1, <2>2
    <3>2. v = bytes
      BY <2>2
    <3>3. bytes \in ValuesOf(f) /\ ~(f.type = "float32" /\ bytes = Huge)
      <4>1. CASE f.type = "float32"
        <5>1. n = 4
          BY <1>1, <4>1, TypeFacts
        <5>2. bytes \in [1..4 -> Byte] /\ bytes # Huge
          BY <1>3, <5>1, FieldAssumption
        <5>3. ValuesOf(f) = [1..4 -> Byte] \cup {Huge}
          BY <4>1 DEF ValuesOf, Integer
        <5> QED  BY <5>2, <5>3
      <4>2. CASE f.type = "float64"
        <5>1. n = 8
          BY <1>1, <4>2, TypeFacts
        <5>2. bytes \in [1..8 -> Byte]
          BY <1>3, <5>1
        <5>3. ValuesOf(f) = [1..8 -> Byte]
          BY <4>2 DEF ValuesOf, Integer
        <5> QED  BY <4>2, <5>2, <5>3
      <4> QED  BY <3>1, <4>1, <4>2 DEF Float
    <3> HIDE DEF v
    <3>4. Holds(bytes, f)
      BY <3>1, <3>3, FloatHolds
    <3>5. DeviceBytes(bytes, f, 0) = bytes
      BY <2>2, <3>3, NumberBytes
    <3> QED  BY <3>2, <3>3, <3>4, <3>5
  <2> QED  BY <2>1, <2>2
<1> HIDE DEF v
<1>8. DeviceWords(v, f, 0) = words
  <2>1. StringOrder(f) = f.wordOrder
    BY DEF StringOrder
  <2>2. DeviceBytes(v, f, 0) \in [1..n -> Byte]
    BY <1>3, <1>7
  <2>3. DeviceWords(v, f, 0) = UnpackToWords(bytes, f.wordOrder, f.byteOrder)
    BY <1>7, <2>1, <2>2, DeviceLaid
  <2> QED  BY <1>4, <2>3
<1>9. q \in ValuesOf(f) /\ Holds(q, f) /\ Quieted(q, f) = q
  BY <1>7, QuietedFacts
<1> HIDE DEF q
<1>10. Encode(q, f) = Value(w) /\ Decode(w, f) = Value(q)
  BY <1>9, NumberEncoded, NumberRoundTrip
<1>11. w \in [1..m -> Register]
  <2>1. f.type = "float32" => f.type \in Float
    BY DEF Float
  <2>2. ~(f.type = "float32" /\ q = Huge)
    BY <1>9, <2>1, FloatHolds
  <2>3. DeviceBytes(q, f, 0) \in [1..n -> Byte]
    BY <1>9, <2>2, NumberBytes
  <2>4. Laid(w, DeviceBytes(q, f, 0), m, StringOrder(f), f.byteOrder)
    BY <2>3, DeviceLaid
  <2> QED  BY <2>4 DEF Laid
<1>12. w = words \/ Changing(words, f)
  BY <1>6, <1>8
<1> HIDE DEF w
<1>13. Value(q).value = q
  BY DEF Value
<1> QED  BY <1>5, <1>9, <1>10, <1>11, <1>12, <1>13

-----------------------------------------------------------------------------
(* Texts and bytes                                                         *)

(* A character has at least one byte, and no character begins another.     *)
LEMMA EncodingFacts ==
  /\ \A c \in Char : Encoding[c] \in Seq(Byte) /\ Len(Encoding[c]) \in Nat \ {0}
  /\ \A c, d \in Char : IsPrefix(Encoding[c], Encoding[d]) => c = d
  /\ \A c \in Char : c # Nul => Encoding[c][Len(Encoding[c])] # 0
  /\ Nul \in Char /\ Encoding[Nul] = <<0>>
<1>1. \A t \in Seq(Byte) : t # <<>> => Len(t) \in Nat \ {0}
  BY EmptySeq, LenProperties
<1>2. \A c \in Char : Encoding[c] \in Seq(Byte) /\ Encoding[c] # <<>>
  BY DecoderAssumption DEF Char, Byte
<1>3. /\ \A c, d \in Char : IsPrefix(Encoding[c], Encoding[d]) => c = d
      /\ \A c \in Char : c # Nul => Encoding[c][Len(Encoding[c])] # 0
      /\ Nul \in Char /\ Encoding[Nul] = <<0>>
  BY DecoderAssumption DEF Char
<1> QED  BY <1>1, <1>2, <1>3

(* A prefix, element by element.                                           *)
LEMMA PrefixAt ==
  ASSUME NEW S, NEW s \in Seq(S), NEW t \in Seq(S)
  PROVE  IsPrefix(s, t) <=> Len(s) <= Len(t) /\ \A j \in 1..Len(s) : s[j] = t[j]
<1> DEFINE n == Len(s)
<1>1. n \in Nat /\ Len(t) \in Nat /\ s \in [1..n -> S] /\ t \in [1..Len(t) -> S]
  BY LenProperties
<1>2. SubSeq(s, 1, n) = s
  BY SubSeqFull
<1>3. ASSUME n <= Len(t)
      PROVE  /\ SubSeq(t, 1, n) \in [1..n -> S]
             /\ \A j \in 1..n : SubSeq(t, 1, n)[j] = t[j]
  <2>1. \A i \in 1..n : t[i] \in S
    BY <1>1, <1>3
  <2>2. /\ SubSeq(t, 1, n) \in Seq(S)
        /\ Len(SubSeq(t, 1, n)) = IF 1 <= n THEN n - 1 + 1 ELSE 0
        /\ \A i \in 1..(n - 1 + 1) : SubSeq(t, 1, n)[i] = t[1 + i - 1]
    BY <1>1, <2>1, SubSeqProperties
  <2>3. n - 1 + 1 = n /\ (IF 1 <= n THEN n - 1 + 1 ELSE 0) = n /\ \A i \in 1..n : 1 + i - 1 = i
    BY <1>1
  <2>4. Len(SubSeq(t, 1, n)) = n
    BY <2>2, <2>3
  <2>5. SubSeq(t, 1, n) \in [1..n -> S]
    BY <2>2, <2>4, LenProperties
  <2> QED  BY <2>2, <2>3, <2>5
<1>4. n <= Len(t) => (SubSeq(t, 1, n) = s <=> \A j \in 1..n : s[j] = t[j])
  <2> HIDE DEF n
  <2> QED  BY <1>1, <1>3
<1>5. IsPrefix(s, t) <=> n <= Len(t) /\ SubSeq(s, 1, n) = SubSeq(t, 1, n)
  BY DEF IsPrefix
<1> QED  BY <1>2, <1>4, <1>5

(* text is spelled in bytes, with at[k] bytes for its first k characters.  *)
Spelled(bytes, text, at) ==
  /\ at \in [0..Len(text) -> Nat] /\ at[0] = 0 /\ at[Len(text)] = Len(bytes)
  /\ \A k \in 1..Len(text) :
       /\ at[k] = at[k - 1] + Len(Encoding[text[k]])
       /\ \A j \in 1..Len(Encoding[text[k]]) : bytes[at[k - 1] + j] = Encoding[text[k]][j]

(* Sequences are put together from the first on.                           *)
LEMMA FlattenExists ==
  ASSUME NEW m \in Nat, m # 0, NEW seqs \in [1..m -> Seq(Byte)]
  PROVE  \E F \in [1..m -> Seq(Byte)] :
           /\ FlattenSeq(seqs) = F[m]
           /\ F[1] = seqs[1]
           /\ \A i \in 1..m : i # 1 => F[i] = F[i - 1] \o seqs[i]
<1> DEFINE Rec(F, i) == IF i = 1 THEN seqs[i] ELSE F[i - 1] \o seqs[i]
           Eq(F) == F = [i \in 1..m |-> Rec(F, i)]
           Good(k) == \E F \in [1..m -> Seq(Byte)] : \A i \in 1..k : F[i] = Rec(F, i)
           Some == {k \in Nat : k <= m => Good(k)}
<1>1. 0 \in Some
  <2>1. seqs \in [1..m -> Seq(Byte)] /\ 1..0 = {}
    OBVIOUS
  <2> QED  BY <2>1
<1>2. ASSUME NEW k \in Nat, k \in Some PROVE k + 1 \in Some
  <2> SUFFICES ASSUME k + 1 <= m PROVE Good(k + 1)
    <3> HIDE DEF Good
    <3> QED  OBVIOUS
  <2>0. Good(k)
    <3> HIDE DEF Good
    <3> QED  BY <1>2
  <2>1. PICK F \in [1..m -> Seq(Byte)] : \A i \in 1..k : F[i] = Rec(F, i)
    BY <2>0
  <2> DEFINE v == Rec(F, k + 1)
             G == [F EXCEPT ![k + 1] = v]
  <2>2. v \in Seq(Byte)
    <3>1. CASE k = 0
      <4>1. v = seqs[1] /\ 1 \in 1..m
        BY <3>1
      <4> QED  BY <4>1
    <3>2. CASE k # 0
      <4>1. k + 1 # 1 /\ k + 1 - 1 = k /\ k \in 1..m /\ k + 1 \in 1..m
        BY <3>2
      <4>2. v = F[k] \o seqs[k + 1]
        BY <4>1
      <4>3. F[k] \in Seq(Byte) /\ seqs[k + 1] \in Seq(Byte)
        BY <4>1
      <4> HIDE DEF v
      <4> QED  BY <4>2, <4>3, ConcatProperties
    <3> QED  BY <3>1, <3>2
  <2> HIDE DEF v
  <2>3. G \in [1..m -> Seq(Byte)] /\ G[k + 1] = v /\ \A i \in 1..m : i # k + 1 => G[i] = F[i]
    BY <2>2
  <2> HIDE DEF G
  <2>4. ASSUME NEW i \in 1..(k + 1) PROVE G[i] = Rec(G, i)
    <3>1. i # 1 => i - 1 \in 1..m /\ i - 1 # k + 1
      OBVIOUS
    <3>2. Rec(G, i) = Rec(F, i)
      BY <2>3, <3>1
    <3>3. i # k + 1 => i \in 1..k /\ i \in 1..m
      OBVIOUS
    <3> HIDE DEF Rec
    <3> QED  BY <2>1, <2>3, <3>2, <3>3 DEF v
  <2> QED  BY <2>3, <2>4
<1>3. m \in Some
  <2> HIDE DEF Some
  <2> QED  BY <1>1, <1>2, SetInduction
<1>4. Good(m)
  <2> HIDE DEF Good
  <2> QED  BY <1>3
<1>5. PICK F \in [1..m -> Seq(Byte)] : \A i \in 1..m : F[i] = Rec(F, i)
  BY <1>4
<1>5a. Eq(F)
  <2> HIDE DEF Rec
  <2> QED  BY <1>5
<1> DEFINE H == CHOOSE H : Eq(H)
<1>6. Eq(H)
  <2> HIDE DEF Eq
  <2> QED  BY <1>5a
<1>7. FlattenSeq(seqs) = H[m]
  <2>1. Len(seqs) = m
    BY FunctionIsSeq
  <2> QED  BY <2>1 DEF FlattenSeq
<1> HIDE DEF H
<1>8. \A i \in 1..m : H[i] = Rec(H, i)
  BY <1>6
<1>9. H[1] = seqs[1] /\ \A i \in 1..m : i # 1 => H[i] = H[i - 1] \o seqs[i]
  <2>1. 1 \in 1..m
    OBVIOUS
  <2> QED  BY <1>8, <2>1
<1> DEFINE T == {k \in Nat : k + 1 <= m => H[k + 1] \in Seq(Byte)}
<1>10. 0 \in T
  BY <1>9
<1>11. ASSUME NEW k \in Nat, k \in T PROVE k + 1 \in T
  <2> SUFFICES ASSUME k + 1 + 1 <= m PROVE H[k + 1 + 1] \in Seq(Byte)
    OBVIOUS
  <2> DEFINE i == k + 1 + 1
  <2>1. i \in 1..m /\ i # 1 /\ i - 1 = k + 1 /\ k + 1 <= m
    OBVIOUS
  <2>2. H[k + 1] \in Seq(Byte) /\ seqs[i] \in Seq(Byte)
    BY <1>11, <2>1
  <2> HIDE DEF i
  <2>3. H[i] = H[k + 1] \o seqs[i]
    BY <1>9, <2>1
  <2>4. H[i] \in Seq(Byte)
    BY <2>2, <2>3, ConcatProperties
  <2> QED  BY <2>4 DEF i
<1>12. \A k \in Nat : k \in T
  <2> HIDE DEF T
  <2> QED  BY <1>10, <1>11, SetInduction
<1>13. ASSUME NEW i \in 1..m PROVE H[i] \in Seq(Byte)
  <2>1. i - 1 \in Nat /\ i - 1 + 1 = i /\ i <= m
    OBVIOUS
  <2> QED  BY <1>12, <2>1
<1>14. H \in [1..m -> Seq(Byte)]
  <2>1. H = [i \in 1..m |-> H[i]]
    BY <1>6
  <2> QED  BY <1>13, <2>1
<1> QED  BY <1>7, <1>9, <1>14

(* The bytes of a text spell it.                                           *)
LEMMA TextSpelled ==
  ASSUME NEW text \in Seq(Char)
  PROVE  TextToBytes(text) \in Seq(Byte) /\ \E at : Spelled(TextToBytes(text), text, at)
<1> DEFINE m == Len(text)
           seqs == [i \in DOMAIN text |-> Encoding[text[i]]]
           bytes == TextToBytes(text)
<1>1. m \in Nat /\ DOMAIN text = 1..m /\ \A i \in 1..m : text[i] \in Char
  BY LenProperties, ElementOfSeq
<1>2. seqs \in [1..m -> Seq(Byte)] /\ \A i \in 1..m : seqs[i] = Encoding[text[i]]
  BY <1>1, EncodingFacts
<1>3. bytes = FlattenSeq(seqs)
  BY DEF TextToBytes
<1> HIDE DEF m, seqs, bytes
<1>4. CASE m = 0
  <2>1. seqs \in Seq(Seq(Byte)) /\ Len(seqs) = 0
    BY <1>1, <1>2, <1>4, FunctionIsSeq
  <2>2. bytes = <<>>
    BY <1>3, <2>1, EmptySeq DEF FlattenSeq
  <2> DEFINE at == [k \in 0..0 |-> 0]
  <2>3. at \in [0..m -> Nat] /\ at[0] = 0 /\ at[m] = 0 /\ Len(bytes) = 0 /\ 1..m = {}
    BY <1>4, <2>2
  <2> HIDE DEF at
  <2>4. Spelled(bytes, text, at)
    BY <2>3 DEF Spelled, m
  <2> QED  BY <2>2, <2>4, EmptySeq DEF bytes
<1>5. CASE m # 0
  <2>1. PICK F \in [1..m -> Seq(Byte)] :
           /\ bytes = F[m] /\ F[1] = seqs[1]
           /\ \A i \in 1..m : i # 1 => F[i] = F[i - 1] \o seqs[i]
    BY <1>1, <1>2, <1>3, <1>5, FlattenExists
  <2> DEFINE at == [k \in 0..m |-> IF k = 0 THEN 0 ELSE Len(F[k])]
  <2>2. /\ at \in [0..m -> Nat] /\ at[0] = 0 /\ at[m] = Len(bytes)
        /\ \A k \in 1..m : at[k] = Len(F[k])
    <3>1. \A k \in 1..m : Len(F[k]) \in Nat
      BY LenProperties
    <3>2. m \in 1..m /\ \A k \in 0..m : k # 0 => k \in 1..m
      BY <1>1, <1>5
    <3> QED  BY <1>1, <1>5, <2>1, <3>1, <3>2
  <2> HIDE DEF at
  <2>3. ASSUME NEW k \in 1..m
        PROVE  /\ at[k] = at[k - 1] + Len(seqs[k])
               /\ \A p \in 1..at[k - 1] : k # 1 => F[k][p] = F[k - 1][p]
               /\ \A j \in 1..Len(seqs[k]) : at[k - 1] + j \in 1..at[k] /\ F[k][at[k - 1] + j] = seqs[k][j]
    <3>1. seqs[k] \in Seq(Byte) /\ Len(seqs[k]) \in Nat
      BY <1>2, LenProperties
    <3>2. CASE k = 1
      <4>1. k - 1 = 0 /\ at[k - 1] = 0 /\ at[k] = Len(seqs[k]) /\ F[k] = seqs[k]
        BY <2>1, <2>2, <3>2
      <4>2. \A x \in Nat : 0 + x = x /\ \A j \in 1..x : 0 + j = j
        OBVIOUS
      <4> QED  BY <3>1, <3>2, <4>1, <4>2
    <3>3. CASE k # 1
      <4>1. k - 1 \in 1..m
        BY <1>1, <3>3
      <4>2. F[k - 1] \in Seq(Byte) /\ F[k] = F[k - 1] \o seqs[k] /\ at[k - 1] = Len(F[k - 1])
        BY <2>1, <2>2, <3>3, <4>1
      <4> DEFINE a == F[k - 1]
                 b == seqs[k]
      <4>3. a \in Seq(Byte) /\ b \in Seq(Byte) /\ Len(a) \in Nat /\ Len(b) \in Nat
        BY <3>1, <4>2, LenProperties
      <4> HIDE DEF a, b
      <4>4. /\ Len(a \o b) = Len(a) + Len(b)
            /\ \A i \in 1..(Len(a) + Len(b)) : (a \o b)[i] = IF i <= Len(a) THEN a[i] ELSE b[i - Len(a)]
        BY <4>3, ConcatProperties
      <4>5. /\ \A p \in 1..Len(a) : p \in 1..(Len(a) + Len(b)) /\ p <= Len(a)
            /\ \A j \in 1..Len(b) : /\ Len(a) + j \in 1..(Len(a) + Len(b)) /\ ~(Len(a) + j <= Len(a))
                                    /\ (Len(a) + j) - Len(a) = j
        BY <4>3
      <4>6. /\ \A p \in 1..Len(a) : (a \o b)[p] = a[p]
            /\ \A j \in 1..Len(b) : (a \o b)[Len(a) + j] = b[j]
        BY <4>4, <4>5
      <4>7. at[k] = Len(a) + Len(b) /\ at[k - 1] = Len(a) /\ F[k] = a \o b
        BY <2>2, <4>2, <4>4 DEF a, b
      <4> QED  BY <4>5, <4>6, <4>7 DEF a, b
    <3> QED  BY <3>2, <3>3
  <2> DEFINE T == {d \in Nat : \A k \in 1..m : k + d <= m =>
                     at[k] <= at[k + d] /\ \A p \in 1..at[k] : F[k + d][p] = F[k][p]}
  <2>4. 0 \in T
    <3>1. \A k \in 1..m : k + 0 = k /\ at[k] \in Nat
      BY <1>1, <2>2
    <3> QED  BY <3>1
  <2>5. ASSUME NEW d \in Nat, d \in T PROVE d + 1 \in T
    <3> SUFFICES ASSUME NEW k \in 1..m, k + (d + 1) <= m
                 PROVE  at[k] <= at[k + (d + 1)] /\ \A p \in 1..at[k] : F[k + (d + 1)][p] = F[k][p]
      OBVIOUS
    <3> DEFINE i == k + (d + 1)
    <3>1. i \in 1..m /\ i # 1 /\ i - 1 = k + d /\ k + d <= m /\ k + d \in 1..m
      BY <1>1
    <3> HIDE DEF i
    <3>2. at[k] <= at[i - 1] /\ \A p \in 1..at[k] : F[i - 1][p] = F[k][p]
      BY <2>5, <3>1
    <3>3. at[i] = at[i - 1] + Len(seqs[i]) /\ \A p \in 1..at[i - 1] : F[i][p] = F[i - 1][p]
      BY <2>3, <3>1
    <3>4. at[k] \in Nat /\ at[i] \in Nat /\ at[i - 1] \in Nat /\ Len(seqs[i]) \in Nat
      <4>1. seqs[i] \in Seq(Byte)
        BY <1>2, <3>1
      <4>2. at[k] \in Nat /\ at[i] \in Nat /\ at[i - 1] \in Nat
        BY <1>1, <2>2, <3>1
      <4> QED  BY <4>1, <4>2, LenProperties
    <3>5. at[k] <= at[i] /\ \A p \in 1..at[k] : p \in 1..at[i - 1]
      BY <3>2, <3>3, <3>4
    <3>6. at[k] <= at[i] /\ \A p \in 1..at[k] : F[i][p] = F[k][p]
      BY <3>2, <3>3, <3>5
    <3> QED  BY <3>6 DEF i
  <2>6. \A d \in Nat : d \in T
    <3> HIDE DEF T
    <3> QED  BY <2>4, <2>5, SetInduction
  <2>7. ASSUME NEW k \in 1..m
        PROVE  /\ at[k] = at[k - 1] + Len(Encoding[text[k]])
               /\ \A j \in 1..Len(Encoding[text[k]]) : bytes[at[k - 1] + j] = Encoding[text[k]][j]
    <3>1. m - k \in Nat /\ k + (m - k) = m /\ k + (m - k) <= m
      BY <1>1
    <3>2. \A p \in 1..at[k] : F[m][p] = F[k][p]
      BY <2>6, <3>1
    <3>3. /\ at[k] = at[k - 1] + Len(seqs[k])
          /\ \A j \in 1..Len(seqs[k]) : at[k - 1] + j \in 1..at[k] /\ F[k][at[k - 1] + j] = seqs[k][j]
      BY <2>3
    <3>4. \A j \in 1..Len(seqs[k]) : F[m][at[k - 1] + j] = seqs[k][j]
      BY <3>2, <3>3
    <3>5. seqs[k] = Encoding[text[k]] /\ bytes = F[m]
      BY <1>2, <2>1
    <3> QED  BY <3>3, <3>4, <3>5
  <2>8. Spelled(bytes, text, at)
    BY <2>2, <2>7 DEF Spelled, m
  <2>9. bytes \in Seq(Byte)
    BY <1>1, <1>5, <2>1
  <2> QED  BY <2>8, <2>9 DEF bytes
<1> QED  BY <1>4, <1>5

(* Places grow with the characters, by one at least.                       *)
LEMMA SpelledPlaces ==
  ASSUME NEW text \in Seq(Char), NEW bytes \in Seq(Byte), NEW at, Spelled(bytes, text, at)
  PROVE  /\ Len(text) \in Nat /\ Len(bytes) \in Nat
         /\ \A k \in 0..Len(text) : at[k] \in Nat /\ at[k] <= Len(bytes)
         /\ \A k \in 1..Len(text) : /\ text[k] \in Char /\ Len(Encoding[text[k]]) \in Nat \ {0}
                                    /\ k - 1 \in 0..Len(text) /\ at[k] > at[k - 1]
         /\ \A k \in 0..Len(text) : \A i \in 0..k : at[k] - at[i] >= k - i
<1> DEFINE m == Len(text)
<1>1. m \in Nat /\ Len(bytes) \in Nat /\ \A k \in 1..m : text[k] \in Char
  BY LenProperties, ElementOfSeq
<1> HIDE DEF m
<1>2. /\ \A k \in 0..m : at[k] \in Nat
      /\ at[m] = Len(bytes)
      /\ \A k \in 1..m : at[k] = at[k - 1] + Len(Encoding[text[k]])
  BY DEF Spelled, m
<1>3. \A k \in 1..m : Len(Encoding[text[k]]) \in Nat \ {0}
  BY <1>1, EncodingFacts
<1>4. \A k \in 1..m : k - 1 \in 0..m /\ k \in 0..m
  BY <1>1
<1>5. \A k \in 1..m : at[k] > at[k - 1]
  <2> TAKE k \in 1..m
  <2> DEFINE h == k - 1
             l == Len(Encoding[text[k]])
  <2>1. /\ at[h] \in Nat /\ at[k] \in Nat /\ l \in Nat \ {0} /\ at[k] = at[h] + l
    BY <1>2, <1>3, <1>4
  <2> HIDE DEF h, l
  <2>2. at[k] > at[h]
    BY <2>1
  <2> QED  BY <2>2 DEF h
<1> DEFINE T == {d \in Nat : \A i \in 0..m : i + d <= m => at[i + d] - at[i] >= d}
<1>6. 0 \in T
  <2>1. \A i \in 0..m : i + 0 = i
    BY <1>1
  <2> QED  BY <1>2, <2>1
<1>7. ASSUME NEW d \in Nat, d \in T PROVE d + 1 \in T
  <2> SUFFICES ASSUME NEW i \in 0..m, i + (d + 1) <= m PROVE at[i + (d + 1)] - at[i] >= d + 1
    OBVIOUS
  <2> DEFINE k == i + (d + 1)
  <2>1. k \in 1..m /\ k - 1 = i + d /\ i + d <= m /\ k \in 0..m /\ k - 1 \in 0..m
    BY <1>1
  <2> HIDE DEF k
  <2>2. at[k - 1] - at[i] >= d
    BY <1>7, <2>1
  <2>3. at[k] > at[k - 1] /\ at[k] \in Nat /\ at[k - 1] \in Nat /\ at[i] \in Nat
    BY <1>2, <1>5, <2>1
  <2>4. at[k] - at[i] >= d + 1
    BY <2>2, <2>3
  <2> QED  BY <2>4 DEF k
<1>8. \A d \in Nat : d \in T
  <2> HIDE DEF T
  <2> QED  BY <1>6, <1>7, SetInduction
<1>9. \A k \in 0..m : \A i \in 0..k : at[k] - at[i] >= k - i
  <2> SUFFICES ASSUME NEW k \in 0..m, NEW i \in 0..k PROVE at[k] - at[i] >= k - i
    OBVIOUS
  <2>1. k - i \in Nat /\ i + (k - i) = k /\ i \in 0..m
    BY <1>1
  <2> QED  BY <1>8, <2>1
<1>10. \A k \in 0..m : at[k] <= Len(bytes)
  <2> SUFFICES ASSUME NEW k \in 0..m PROVE at[k] <= Len(bytes)
    OBVIOUS
  <2>1. k \in 0..m /\ m \in 0..m /\ m - k >= 0
    BY <1>1
  <2>2. at[m] - at[k] >= m - k
    BY <1>9, <2>1
  <2> QED  BY <1>1, <1>2, <2>1, <2>2
<1> QED  BY <1>1, <1>2, <1>3, <1>4, <1>5, <1>9, <1>10 DEF m

(* Every byte is in some character.                                        *)
LEMMA SpelledCovers ==
  ASSUME NEW text \in Seq(Char), NEW bytes \in Seq(Byte), NEW at, Spelled(bytes, text, at)
  PROVE  \A p \in 1..Len(bytes) : \E k \in 1..Len(text) : at[k - 1] < p /\ p <= at[k]
<1> DEFINE m == Len(text)
<1>1. /\ m \in Nat /\ Len(bytes) \in Nat
      /\ \A k \in 0..m : at[k] \in Nat
      /\ at[0] = 0 /\ at[m] = Len(bytes)
  BY SpelledPlaces DEF Spelled
<1> HIDE DEF m
<1> DEFINE In(k, p) == \E i \in 1..k : at[i - 1] < p /\ p <= at[i]
           T == {k \in Nat : k <= m => \A p \in 1..at[k] : In(k, p)}
<1>2. 0 \in T
  BY <1>1
<1>3. ASSUME NEW k \in Nat, k \in T PROVE k + 1 \in T
  <2> SUFFICES ASSUME k + 1 <= m, NEW p \in 1..at[k + 1] PROVE In(k + 1, p)
    <3> HIDE DEF In
    <3> QED  OBVIOUS
  <2>1. at[k] \in Nat /\ at[k + 1] \in Nat /\ k + 1 \in 1..(k + 1) /\ k + 1 - 1 = k
        /\ 1..k \subseteq 1..(k + 1)
    BY <1>1
  <2>2. CASE p <= at[k]
    <3>1. In(k, p)
      <4>1. p \in 1..at[k] /\ k <= m
        BY <1>1, <2>1, <2>2
      <4> HIDE DEF In
      <4> QED  BY <1>3, <4>1
    <3> QED  BY <2>1, <3>1
  <2>3. CASE ~(p <= at[k])
    BY <2>1, <2>3
  <2> QED  BY <2>2, <2>3
<1>4. m \in T
  <2> HIDE DEF T
  <2> QED  BY <1>1, <1>2, <1>3, SetInduction
<1> QED  BY <1>1, <1>4 DEF m

(* A text is spelled in one way.                                           *)
LEMMA SpelledUnique ==
  ASSUME NEW text \in Seq(Char), NEW a \in Seq(Byte), NEW b \in Seq(Byte), NEW at, NEW bt,
         Spelled(a, text, at), Spelled(b, text, bt)
  PROVE  a = b /\ \A k \in 0..Len(text) : at[k] = bt[k]
<1> DEFINE m == Len(text)
<1>1. /\ m \in Nat /\ at[0] = 0 /\ bt[0] = 0 /\ at[m] = Len(a) /\ bt[m] = Len(b)
      /\ \A k \in 1..m : /\ at[k] = at[k - 1] + Len(Encoding[text[k]])
                         /\ bt[k] = bt[k - 1] + Len(Encoding[text[k]])
  BY SpelledPlaces DEF Spelled
<1>2. \A k \in 1..m : \A j \in 1..Len(Encoding[text[k]]) :
        a[at[k - 1] + j] = Encoding[text[k]][j] /\ b[bt[k - 1] + j] = Encoding[text[k]][j]
  BY DEF Spelled
<1>3. /\ \A k \in 0..m : at[k] \in Nat
      /\ \A k \in 1..m : k - 1 \in 0..m /\ Len(Encoding[text[k]]) \in Nat
  BY SpelledPlaces
<1>4. \A p \in 1..Len(a) : \E k \in 1..m : at[k - 1] < p /\ p <= at[k]
  BY SpelledCovers
<1> HIDE DEF m
<1> DEFINE T == {k \in Nat : k <= m => at[k] = bt[k]}
<1>5. 0 \in T
  BY <1>1
<1>6. ASSUME NEW k \in Nat, k \in T PROVE k + 1 \in T
  <2> SUFFICES ASSUME k + 1 <= m PROVE at[k + 1] = bt[k + 1]
    OBVIOUS
  <2> DEFINE i == k + 1
  <2>1. i \in 1..m /\ i - 1 = k /\ at[k] = bt[k]
    BY <1>1, <1>6
  <2> HIDE DEF i
  <2>2. at[i] = bt[i]
    BY <1>1, <2>1
  <2> QED  BY <2>2 DEF i
<1>7. \A k \in Nat : k \in T
  <2> HIDE DEF T
  <2> QED  BY <1>5, <1>6, SetInduction
<1>8. \A k \in 0..m : at[k] = bt[k]
  BY <1>1, <1>7
<1>9. Len(a) = Len(b)
  BY <1>1, <1>8
<1>10. ASSUME NEW p \in 1..Len(a) PROVE a[p] = b[p]
  <2>1. PICK k \in 1..m : at[k - 1] < p /\ p <= at[k]
    BY <1>4
  <2> DEFINE j == p - at[k - 1]
  <2>2. at[k - 1] \in Nat /\ at[k] \in Nat /\ Len(Encoding[text[k]]) \in Nat /\ p \in Int
    BY <1>1, <1>3
  <2>3. at[k] = at[k - 1] + Len(Encoding[text[k]])
    BY <1>1
  <2>4. j \in 1..Len(Encoding[text[k]]) /\ at[k - 1] + j = p
    <3> DEFINE g == at[k - 1]
               h == at[k]
               l == Len(Encoding[text[k]])
    <3>1. g \in Nat /\ h \in Nat /\ l \in Nat /\ p \in Int /\ h = g + l /\ g < p /\ p <= h /\ j = p - g
      BY <2>1, <2>2, <2>3
    <3> HIDE DEF g, h, l, j
    <3>2. j \in 1..l /\ g + j = p
      BY <3>1
    <3> QED  BY <3>2 DEF g, l
  <2>5. bt[k - 1] = at[k - 1]
    BY <1>3, <1>8
  <2> HIDE DEF j
  <2> QED  BY <1>2, <2>4, <2>5
<1>11. a \in [1..Len(a) -> Byte] /\ b \in [1..Len(b) -> Byte]
  BY LenProperties
<1>12. a = b
  BY <1>9, <1>10, <1>11
<1> QED  BY <1>8, <1>12 DEF m

(* The characters that the bytes from the i-th on may begin with, and the  *)
(* texts they decode to, from those that follow.                           *)
Begins(bytes, i) == {c \in Char : IsPrefix(Encoding[c], SubSeq(bytes, i, Len(bytes)))}
After(T, i, c) == {<<c>> \o text : text \in T[i + Len(Encoding[c])]}
TextsFrom(T, bytes, i) ==
  IF i > Len(bytes) THEN {<<>>} ELSE UNION {After(T, i, c) : c \in Begins(bytes, i)}

(* The bytes from the i-th on.                                             *)
LEMMA RestAt ==
  ASSUME NEW bytes \in Seq(Byte), NEW i \in 1..(Len(bytes) + 1)
  PROVE  LET rest == SubSeq(bytes, i, Len(bytes)) IN
         /\ rest \in Seq(Byte) /\ Len(rest) = Len(bytes) - i + 1
         /\ \A j \in 1..Len(rest) : rest[j] = bytes[i + j - 1]
<1> DEFINE n == Len(bytes)
           rest == SubSeq(bytes, i, n)
<1>1. n \in Nat /\ bytes \in [1..n -> Byte] /\ i \in Int
  BY LenProperties
<1> HIDE DEF n
<1>2. \A k \in i..n : bytes[k] \in Byte
  BY <1>1
<1>3. /\ rest \in Seq(Byte)
      /\ Len(rest) = IF i <= n THEN n - i + 1 ELSE 0
      /\ \A j \in 1..(n - i + 1) : rest[j] = bytes[i + j - 1]
  BY <1>1, <1>2, SubSeqProperties
<1>4. (IF i <= n THEN n - i + 1 ELSE 0) = n - i + 1
  BY <1>1 DEF n
<1> QED  BY <1>3, <1>4 DEF n

LEMMA BeginsWithin ==
  ASSUME NEW bytes \in Seq(Byte), NEW i \in 1..(Len(bytes) + 1), NEW c \in Begins(bytes, i)
  PROVE  i + Len(Encoding[c]) \in (i + 1)..(Len(bytes) + 1)
<1> DEFINE n == Len(bytes)
           rest == SubSeq(bytes, i, n)
<1>1. rest \in Seq(Byte) /\ Len(rest) = n - i + 1 /\ n \in Nat
  BY RestAt, LenProperties
<1>2. c \in Char /\ IsPrefix(Encoding[c], rest)
  BY DEF Begins
<1>3. Encoding[c] \in Seq(Byte) /\ Len(Encoding[c]) \in Nat \ {0}
  BY <1>2, EncodingFacts
<1> HIDE DEF rest
<1>4. Len(Encoding[c]) <= Len(rest)
  BY <1>1, <1>2, <1>3, PrefixAt
<1> QED  BY <1>1, <1>3, <1>4

LEMMA TextsFromRest ==
  ASSUME NEW bytes \in Seq(Byte), NEW i \in 1..(Len(bytes) + 1), NEW T, NEW U,
         \A k \in (i + 1)..(Len(bytes) + 1) : T[k] = U[k]
  PROVE  TextsFrom(T, bytes, i) = TextsFrom(U, bytes, i)
<1>1. \A c \in Begins(bytes, i) : i + Len(Encoding[c]) \in (i + 1)..(Len(bytes) + 1)
  BY BeginsWithin
<1>2. \A c \in Begins(bytes, i) : After(T, i, c) = After(U, i, c)
  BY <1>1 DEF After
<1>3. {After(T, i, c) : c \in Begins(bytes, i)} = {After(U, i, c) : c \in Begins(bytes, i)}
  BY <1>2
<1> QED  BY <1>3 DEF TextsFrom

(* Decoding is the first of such texts.                                    *)
LEMMA TextsExist ==
  ASSUME NEW bytes \in Seq(Byte)
  PROVE  \E T : /\ BytesToText(bytes) = IF T[1] = {} THEN Raise("unicode")
                                        ELSE Value(CHOOSE text \in T[1] : TRUE)
                /\ \A i \in 1..(Len(bytes) + 1) : T[i] = TextsFrom(T, bytes, i)
<1> DEFINE n == Len(bytes)
           Eq(T) == T = [i \in 1..(n + 1) |-> TextsFrom(T, bytes, i)]
           Good(k) == \E T : /\ T = [i \in 1..(n + 1) |-> T[i]]
                             /\ \A i \in 1..(n + 1) : i > n + 1 - k => T[i] = TextsFrom(T, bytes, i)
           S == {k \in Nat : k <= n + 1 => Good(k)}
<1>1. n \in Nat
  BY LenProperties
<1>2. 0 \in S
  <2> DEFINE T == [i \in 1..(n + 1) |-> {}]
  <2>1. T = [i \in 1..(n + 1) |-> T[i]] /\ \A i \in 1..(n + 1) : ~(i > n + 1 - 0)
    BY <1>1
  <2> HIDE DEF T
  <2>2. Good(0)
    BY <2>1
  <2> HIDE DEF Good
  <2> QED  BY <2>2
<1>3. ASSUME NEW k \in Nat, k \in S PROVE k + 1 \in S
  <2> SUFFICES ASSUME k + 1 <= n + 1 PROVE Good(k + 1)
    <3> HIDE DEF Good
    <3> QED  OBVIOUS
  <2>1. Good(k)
    <3>1. k <= n + 1
      BY <1>1
    <3> HIDE DEF Good
    <3> QED  BY <1>3, <3>1
  <2>2. PICK T : /\ T = [i \in 1..(n + 1) |-> T[i]]
                 /\ \A i \in 1..(n + 1) : i > n + 1 - k => T[i] = TextsFrom(T, bytes, i)
    BY <2>1
  <2> DEFINE j == n + 1 - k
             U == [i \in 1..(n + 1) |-> IF i = j THEN TextsFrom(T, bytes, j) ELSE T[i]]
  <2>3. j \in 1..(n + 1)
    BY <1>1
  <2>4. /\ U = [i \in 1..(n + 1) |-> U[i]]
        /\ U[j] = TextsFrom(T, bytes, j)
        /\ \A i \in 1..(n + 1) : i # j => U[i] = T[i]
    BY <2>3
  <2> HIDE DEF U
  <2>5. ASSUME NEW i \in 1..(n + 1), i > n + 1 - (k + 1) PROVE U[i] = TextsFrom(U, bytes, i)
    <3>1. i >= j /\ \A l \in (i + 1)..(n + 1) : l \in 1..(n + 1) /\ l # j
      BY <1>1, <2>5
    <3>2. \A l \in (i + 1)..(n + 1) : T[l] = U[l]
      BY <2>4, <3>1
    <3>3. TextsFrom(T, bytes, i) = TextsFrom(U, bytes, i)
      BY <3>2, TextsFromRest
    <3>4. CASE i = j
      BY <2>4, <3>3, <3>4
    <3>5. CASE i # j
      <4>1. i > n + 1 - k
        BY <1>1, <3>1, <3>5
      <4> QED  BY <2>2, <2>4, <3>3, <3>5, <4>1
    <3> QED  BY <3>4, <3>5
  <2> QED  BY <2>4, <2>5
<1>4. Good(n + 1)
  <2>1. \A k \in Nat : k \in S
    <3> HIDE DEF S
    <3> QED  BY <1>2, <1>3, SetInduction
  <2>2. n + 1 \in S /\ n + 1 <= n + 1
    <3>1. n + 1 \in Nat /\ n + 1 <= n + 1
      BY <1>1
    <3> HIDE DEF S
    <3> QED  BY <2>1, <3>1
  <2> HIDE DEF Good
  <2> QED  BY <2>2
<1>5. PICK T : /\ T = [i \in 1..(n + 1) |-> T[i]]
               /\ \A i \in 1..(n + 1) : i > n + 1 - (n + 1) => T[i] = TextsFrom(T, bytes, i)
  BY <1>4
<1>6. Eq(T)
  <2>1. \A i \in 1..(n + 1) : i > n + 1 - (n + 1)
    BY <1>1
  <2>2. \A i \in 1..(n + 1) : T[i] = TextsFrom(T, bytes, i)
    BY <1>5, <2>1
  <2> QED  BY <1>5, <2>2
<1> DEFINE H == CHOOSE H : Eq(H)
<1>7. Eq(H)
  <2> HIDE DEF Eq
  <2> QED  BY <1>6
<1>8. BytesToText(bytes) = IF H[1] = {} THEN Raise("unicode") ELSE Value(CHOOSE text \in H[1] : TRUE)
  BY DEF BytesToText, TextsFrom, Begins, After, Char
<1> HIDE DEF H
<1>9. \A i \in 1..(n + 1) : H[i] = TextsFrom(H, bytes, i)
  BY <1>7
<1> QED  BY <1>8, <1>9

(* What is decoded is a text.                                              *)
LEMMA DecodedTyped ==
  ASSUME NEW bytes \in Seq(Byte)
  PROVE  \/ BytesToText(bytes) = Raise("unicode")
         \/ \E text \in Seq(Char) : BytesToText(bytes) = Value(text)
<1>1. PICK T : /\ BytesToText(bytes) = IF T[1] = {} THEN Raise("unicode")
                                       ELSE Value(CHOOSE text \in T[1] : TRUE)
               /\ \A i \in 1..(Len(bytes) + 1) : T[i] = TextsFrom(T, bytes, i)
  BY TextsExist
<1> DEFINE n == Len(bytes)
           S == {k \in Nat : \A i \in 1..(n + 1) : i >= n + 1 - k => T[i] \subseteq Seq(Char)}
<1>2. n \in Nat
  BY LenProperties
<1> HIDE DEF n
<1>3. 0 \in S
  <2>1. ASSUME NEW i \in 1..(n + 1), i >= n + 1 - 0 PROVE T[i] \subseteq Seq(Char)
    <3>1. i > n
      BY <1>2, <2>1
    <3>2. T[i] = {<<>>}
      BY <1>1, <3>1 DEF TextsFrom, n
    <3> QED  BY <3>2, EmptySeq
  <2> QED  BY <2>1
<1>4. ASSUME NEW k \in Nat, k \in S PROVE k + 1 \in S
  <2> SUFFICES ASSUME NEW i \in 1..(n + 1), i >= n + 1 - (k + 1) PROVE T[i] \subseteq Seq(Char)
    OBVIOUS
  <2>1. T[i] = TextsFrom(T, bytes, i)
    BY <1>1 DEF n
  <2>2. CASE i > n
    <3>1. T[i] = {<<>>}
      BY <2>1, <2>2 DEF TextsFrom, n
    <3> QED  BY <3>1, EmptySeq
  <2>3. CASE ~(i > n)
    <3>1. T[i] = UNION {After(T, i, c) : c \in Begins(bytes, i)}
      BY <2>1, <2>3 DEF TextsFrom, n
    <3>2. ASSUME NEW c \in Begins(bytes, i) PROVE After(T, i, c) \subseteq Seq(Char)
      <4> DEFINE j == i + Len(Encoding[c])
      <4>1. j \in (i + 1)..(n + 1)
        BY BeginsWithin DEF n
      <4>2. j \in 1..(n + 1) /\ j >= n + 1 - k
        BY <1>2, <4>1
      <4> HIDE DEF j
      <4>3. T[j] \subseteq Seq(Char)
        BY <1>4, <4>2
      <4>4. ASSUME NEW text \in T[j] PROVE <<c>> \o text \in Seq(Char)
        <5>1. c \in Char
          BY DEF Begins
        <5>2. <<c>> \in Seq(Char) /\ text \in Seq(Char)
          BY <4>3, <5>1
        <5> QED  BY <5>2, ConcatProperties
      <4> QED  BY <4>4 DEF After, j
    <3> QED  BY <3>1, <3>2
  <2> QED  BY <2>2, <2>3
<1>5. \A k \in Nat : k \in S
  <2> HIDE DEF S
  <2> QED  BY <1>3, <1>4, SetInduction
<1>6. T[1] \subseteq Seq(Char)
  <2>1. 1 \in 1..(n + 1) /\ 1 >= n + 1 - n
    BY <1>2
  <2>2. n \in S
    BY <1>2, <1>5
  <2> QED  BY <2>1, <2>2
<1>7. CASE T[1] = {}
  BY <1>1, <1>7
<1>8. CASE T[1] # {}
  <2>1. (CHOOSE text \in T[1] : TRUE) \in T[1]
    BY <1>8
  <2>2. BytesToText(bytes) = Value(CHOOSE text \in T[1] : TRUE)
    BY <1>1, <1>8
  <2> QED  BY <1>6, <2>1, <2>2
<1> QED  BY <1>7, <1>8

(* The bytes that spell a text are decoded to it: no character begins      *)
(* another, so there is no other way to take them.                         *)
LEMMA SpelledDecodes ==
  ASSUME NEW text \in Seq(Char), NEW bytes \in Seq(Byte), NEW at, Spelled(bytes, text, at)
  PROVE  BytesToText(bytes) = Value(text)
<1>1. PICK T : /\ BytesToText(bytes) = IF T[1] = {} THEN Raise("unicode")
                                       ELSE Value(CHOOSE t \in T[1] : TRUE)
               /\ \A i \in 1..(Len(bytes) + 1) : T[i] = TextsFrom(T, bytes, i)
  BY TextsExist
<1> DEFINE m == Len(text)
           n == Len(bytes)
<1>2. /\ m \in Nat /\ n \in Nat
      /\ \A k \in 0..m : at[k] \in Nat /\ at[k] <= n
      /\ \A k \in 1..m : /\ text[k] \in Char /\ Len(Encoding[text[k]]) \in Nat \ {0}
                         /\ k - 1 \in 0..m /\ at[k] > at[k - 1]
  BY SpelledPlaces
<1>3. /\ at[0] = 0 /\ at[m] = n
      /\ \A k \in 1..m :
           /\ at[k] = at[k - 1] + Len(Encoding[text[k]])
           /\ \A j \in 1..Len(Encoding[text[k]]) : bytes[at[k - 1] + j] = Encoding[text[k]][j]
  BY DEF Spelled
<1> DEFINE S == {d \in Nat : d <= m => T[at[m - d] + 1] = {SubSeq(text, m - d + 1, m)}}
<1>4. 0 \in S
  <2>1. m - 0 = m /\ m - 0 + 1 = m + 1 /\ m < m + 1 /\ n + 1 \in 1..(n + 1) /\ n + 1 > n
    BY <1>2
  <2>2. T[n + 1] = {<<>>}
    BY <1>1, <2>1 DEF TextsFrom
  <2>3. SubSeq(text, m + 1, m) = <<>>
    BY <1>2, <2>1, SubSeqEmpty
  <2> QED  BY <1>3, <2>1, <2>2, <2>3
<1>5. ASSUME NEW d \in Nat, d \in S PROVE d + 1 \in S
  <2> DEFINE k == m - d
             i == at[k - 1] + 1
             e == Encoding[text[k]]
             rest == SubSeq(bytes, i, n)
             Goal == T[at[m - (d + 1)] + 1] = {SubSeq(text, m - (d + 1) + 1, m)}
  <2> SUFFICES ASSUME d + 1 <= m PROVE Goal
    <3>1. d + 1 \in Nat
      OBVIOUS
    <3> HIDE DEF Goal
    <3> QED  BY <3>1 DEF Goal
  <2>1. k \in 1..m /\ m - (d + 1) = k - 1 /\ m - (d + 1) + 1 = k /\ d <= m /\ m \in k..m /\ k - 1 \in 0..m
    BY <1>2
  <2>2. T[at[k] + 1] = {SubSeq(text, k + 1, m)}
    BY <1>5, <2>1
  <2> HIDE DEF k
  <2>3. text[k] \in Char /\ e \in Seq(Byte) /\ Len(e) \in Nat \ {0}
    BY <1>2, <2>1, EncodingFacts
  <2>4. at[k - 1] \in Nat /\ at[k] \in Nat /\ at[k] <= n /\ at[k] = at[k - 1] + Len(e)
    <3>1. k \in 0..m /\ k - 1 \in 0..m
      BY <1>2, <2>1
    <3> QED  BY <1>2, <1>3, <2>1, <3>1
  <2>5. i \in 1..(n + 1) /\ ~(i > n) /\ i + Len(e) = at[k] + 1
    <3> DEFINE p == at[k - 1]
               q == at[k]
               l == Len(e)
    <3>1. p \in Nat /\ q \in Nat /\ q <= n /\ q = p + l /\ l \in Nat \ {0} /\ n \in Nat
      BY <1>2, <2>3, <2>4
    <3> HIDE DEF p, q, l, n
    <3>2. p + 1 \in 1..(n + 1) /\ ~(p + 1 > n) /\ (p + 1) + l = q + 1
      BY <3>1
    <3> QED  BY <3>2 DEF p, q, l
  <2>6. /\ rest \in Seq(Byte) /\ Len(rest) = n - i + 1
        /\ \A j \in 1..Len(rest) : rest[j] = bytes[i + j - 1]
    BY <2>5, RestAt
  <2> HIDE DEF rest
  <2>7. IsPrefix(e, rest)
    <3> DEFINE p == at[k - 1]
               l == Len(e)
    <3>1. p \in Nat /\ l \in Nat /\ p + l <= n /\ n \in Nat /\ Len(rest) = n - (p + 1) + 1
      BY <1>2, <2>3, <2>4, <2>6
    <3>2. l <= Len(rest) /\ \A j \in 1..l : j \in 1..Len(rest) /\ (p + 1) + j - 1 = p + j
      <4> HIDE DEF p, l, n
      <4> QED  BY <3>1
    <3>3. \A j \in 1..l : bytes[p + j] = e[j]
      BY <1>3, <2>1
    <3>4. \A j \in 1..Len(rest) : rest[j] = bytes[(p + 1) + j - 1]
      BY <2>6
    <3>5. \A j \in 1..l : rest[j] = e[j]
      <4> HIDE DEF p, l, e
      <4> QED  BY <3>2, <3>3, <3>4
    <3> HIDE DEF e
    <3> QED  BY <2>3, <2>6, <3>2, <3>5, PrefixAt DEF l
  <2>8. Begins(bytes, i) = {text[k]}
    <3>1. text[k] \in Begins(bytes, i)
      BY <2>3, <2>7 DEF Begins, rest
    <3>2. ASSUME NEW c \in Begins(bytes, i) PROVE c = text[k]
      <4> DEFINE f == Encoding[c]
      <4>1. c \in Char /\ IsPrefix(f, rest) /\ f \in Seq(Byte) /\ Len(f) \in Nat
        BY EncodingFacts DEF Begins, rest
      <4>2. /\ Len(f) <= Len(rest) /\ \A j \in 1..Len(f) : f[j] = rest[j]
            /\ Len(e) <= Len(rest) /\ \A j \in 1..Len(e) : e[j] = rest[j]
        <5> HIDE DEF f, e
        <5> QED  BY <2>3, <2>6, <2>7, <4>1, PrefixAt
      <4>3. CASE Len(f) <= Len(e)
        <5>1. \A j \in 1..Len(f) : f[j] = e[j]
          BY <2>3, <4>1, <4>2, <4>3
        <5>2. IsPrefix(f, e)
          <6> HIDE DEF f, e
          <6> QED  BY <2>3, <4>1, <4>3, <5>1, PrefixAt
        <5> QED  BY <2>3, <4>1, <5>2, EncodingFacts
      <4>4. CASE Len(e) <= Len(f)
        <5>1. \A j \in 1..Len(e) : e[j] = f[j]
          BY <2>3, <4>1, <4>2, <4>4
        <5>2. IsPrefix(e, f)
          <6> HIDE DEF f, e
          <6> QED  BY <2>3, <4>1, <4>4, <5>1, PrefixAt
        <5> QED  BY <2>3, <4>1, <5>2, EncodingFacts
      <4> QED  BY <2>3, <4>1, <4>3, <4>4
    <3> QED  BY <3>1, <3>2
  <2>9. T[i] = After(T, i, text[k])
    <3>1. T[i] = UNION {After(T, i, c) : c \in Begins(bytes, i)}
      BY <1>1, <2>5 DEF TextsFrom
    <3> QED  BY <2>8, <3>1
  <2>10. After(T, i, text[k]) = {<<text[k]>> \o SubSeq(text, k + 1, m)}
    <3>1. T[i + Len(Encoding[text[k]])] = {SubSeq(text, k + 1, m)}
      BY <2>2, <2>5
    <3> HIDE DEF i
    <3> QED  BY <3>1 DEF After
  <2>11. SubSeq(text, k, m) = <<text[k]>> \o SubSeq(text, k + 1, m)
    BY <2>1, SubSeqRecursiveFirst
  <2>12. T[i] = {SubSeq(text, k, m)}
    BY <2>9, <2>10, <2>11
  <2> QED  BY <2>1, <2>12
<1>6. \A d \in Nat : d \in S
  <2> HIDE DEF S
  <2> QED  BY <1>4, <1>5, SetInduction
<1>7. T[1] = {text}
  <2>1. m \in S /\ m - m = 0 /\ 0 + 1 = 1 /\ m <= m
    <3>1. m - m = 0 /\ 0 + 1 = 1 /\ m <= m
      BY <1>2
    <3> HIDE DEF S
    <3>2. m \in S
      BY <1>2, <1>6
    <3> QED  BY <3>1, <3>2
  <2>2. T[at[m - m] + 1] = {SubSeq(text, m - m + 1, m)}
    BY <2>1
  <2>3. T[1] = {SubSeq(text, 1, m)}
    BY <1>3, <2>1, <2>2
  <2> QED  BY <2>3, SubSeqFull
<1>8. T[1] # {} /\ (CHOOSE t \in T[1] : TRUE) = text
  BY <1>7
<1> QED  BY <1>1, <1>8

-----------------------------------------------------------------------------
(* Stripping and cutting                                                   *)

(* The first n elements of a sequence.                                     *)
LEMMA FirstOf ==
  ASSUME NEW S, NEW s \in Seq(S), NEW n \in 0..Len(s)
  PROVE  /\ SubSeq(s, 1, n) \in Seq(S) /\ Len(SubSeq(s, 1, n)) = n
         /\ SubSeq(s, 1, n) \in [1..n -> S]
         /\ \A i \in 1..n : SubSeq(s, 1, n)[i] = s[i]
<1>1. Len(s) \in Nat /\ s \in [1..Len(s) -> S] /\ n \in Int
  BY LenProperties
<1>2. \A i \in 1..n : s[i] \in S
  BY <1>1
<1>3. /\ SubSeq(s, 1, n) \in Seq(S)
      /\ Len(SubSeq(s, 1, n)) = IF 1 <= n THEN n - 1 + 1 ELSE 0
      /\ \A i \in 1..(n - 1 + 1) : SubSeq(s, 1, n)[i] = s[1 + i - 1]
  BY <1>1, <1>2, SubSeqProperties
<1>4. n - 1 + 1 = n /\ (IF 1 <= n THEN n - 1 + 1 ELSE 0) = n /\ \A i \in 1..n : 1 + i - 1 = i
  BY <1>1
<1>5. Len(SubSeq(s, 1, n)) = n
  BY <1>3, <1>4
<1>6. SubSeq(s, 1, n) \in [1..n -> S]
  BY <1>3, <1>5, LenProperties
<1> QED  BY <1>3, <1>4, <1>5, <1>6

(* Among numbers up to n one is the greatest.                              *)
LEMMA GreatestExists ==
  ASSUME NEW n \in Nat, NEW A \in SUBSET (1..n), A # {}
  PROVE  \E i \in A : \A j \in A : j <= i
<1> DEFINE S == {k \in Nat : \A B \in SUBSET (1..k) : B # {} => \E i \in B : \A j \in B : j <= i}
<1>1. 0 \in S
  <2>1. 1..0 = {}
    OBVIOUS
  <2> QED  BY <2>1
<1>2. ASSUME NEW k \in Nat, k \in S PROVE k + 1 \in S
  <2> SUFFICES ASSUME NEW B \in SUBSET (1..(k + 1)), B # {} PROVE \E i \in B : \A j \in B : j <= i
    OBVIOUS
  <2>1. CASE k + 1 \in B
    BY <2>1
  <2>2. CASE k + 1 \notin B
    <3>1. B \in SUBSET (1..k)
      BY <2>2
    <3> QED  BY <1>2, <3>1
  <2> QED  BY <2>1, <2>2
<1>3. n \in S
  <2> HIDE DEF S
  <2> QED  BY <1>1, <1>2, SetInduction
<1> QED  BY <1>3

(* n elements are left of s once every x at its end is gone.               *)
Stripped(s, x, n) ==
  /\ n \in 0..Len(s)
  /\ n # 0 => s[n] # x
  /\ \A i \in 1..Len(s) : i > n => s[i] = x

LEMMA StripExists ==
  ASSUME NEW S, NEW s \in Seq(S), NEW x
  PROVE  \E n \in Nat : Stripped(s, x, n)
<1> DEFINE kept == {i \in 1..Len(s) : s[i] # x}
<1>1. Len(s) \in Nat
  BY LenProperties
<1>2. CASE kept = {}
  <2>1. Stripped(s, x, 0)
    BY <1>1, <1>2 DEF Stripped
  <2> QED  BY <2>1
<1>3. CASE kept # {}
  <2>1. PICK n \in kept : \A j \in kept : j <= n
    BY <1>1, <1>3, GreatestExists
  <2>2. Stripped(s, x, n)
    BY <1>1, <2>1 DEF Stripped
  <2> QED  BY <1>1, <2>1, <2>2
<1> QED  BY <1>2, <1>3

LEMMA StripIs ==
  ASSUME NEW S, NEW s \in Seq(S), NEW x, NEW n \in Nat, Stripped(s, x, n)
  PROVE  StripRight(s, x) = SubSeq(s, 1, n)
<1> DEFINE kept == {i \in DOMAIN s : s[i] # x}
           max  == CHOOSE i \in kept : \A j \in kept : j <= i
<1>1. Len(s) \in Nat /\ DOMAIN s = 1..Len(s)
  BY LenProperties
<1>2. n \in 0..Len(s) /\ (n # 0 => s[n] # x) /\ \A i \in 1..Len(s) : i > n => s[i] = x
  BY DEF Stripped
<1>3. CASE n = 0
  <2>1. kept = {}
    BY <1>1, <1>2, <1>3
  <2>2. SubSeq(s, 1, 0) = <<>>
    BY SubSeqEmpty
  <2> QED  BY <1>3, <2>1, <2>2 DEF StripRight
<1>4. CASE n # 0
  <2>1. n \in kept /\ \A j \in kept : j <= n
    BY <1>1, <1>2, <1>4
  <2>2. max \in kept /\ \A j \in kept : j <= max
    <3> HIDE DEF kept
    <3> QED  BY <2>1
  <2>3. max \in Int /\ n \in Int
    BY <1>1, <2>2
  <2>4. max = n
    <3>1. max <= n /\ n <= max
      BY <2>1, <2>2
    <3> HIDE DEF max
    <3> QED  BY <2>3, <3>1
  <2>5. StripRight(s, x) = SubSeq(s, 1, max)
    BY <2>1 DEF StripRight
  <2> QED  BY <2>4, <2>5
<1> QED  BY <1>3, <1>4

(* The first characters of a text are spelled by its first bytes.          *)
LEMMA SpelledFirst ==
  ASSUME NEW text \in Seq(Char), NEW bytes \in Seq(Byte), NEW at, Spelled(bytes, text, at),
         NEW n \in 0..Len(text)
  PROVE  /\ SubSeq(text, 1, n) \in Seq(Char) /\ SubSeq(bytes, 1, at[n]) \in Seq(Byte)
         /\ \E bt : Spelled(SubSeq(bytes, 1, at[n]), SubSeq(text, 1, n), bt)
<1> DEFINE m == Len(text)
           t == SubSeq(text, 1, n)
           b == SubSeq(bytes, 1, at[n])
           bt == [k \in 0..n |-> at[k]]
<1>1. /\ m \in Nat /\ Len(bytes) \in Nat
      /\ \A k \in 0..m : at[k] \in Nat /\ at[k] <= Len(bytes)
      /\ \A k \in 0..m : \A i \in 0..k : at[k] - at[i] >= k - i
  BY SpelledPlaces
<1>2. /\ at[0] = 0
      /\ \A k \in 1..m :
           /\ at[k] = at[k - 1] + Len(Encoding[text[k]])
           /\ \A j \in 1..Len(Encoding[text[k]]) : bytes[at[k - 1] + j] = Encoding[text[k]][j]
      /\ \A k \in 1..m : Len(Encoding[text[k]]) \in Nat
  BY SpelledPlaces DEF Spelled
<1>3. t \in Seq(Char) /\ Len(t) = n /\ \A i \in 1..n : t[i] = text[i]
  BY FirstOf
<1>4. at[n] \in 0..Len(bytes)
  BY <1>1
<1>5. b \in Seq(Byte) /\ Len(b) = at[n] /\ \A i \in 1..at[n] : b[i] = bytes[i]
  BY <1>4, FirstOf
<1> HIDE DEF t, b, m
<1>6. /\ bt \in [0..n -> Nat] /\ \A k \in 0..n : bt[k] = at[k]
      /\ \A k \in 1..n : /\ k \in 1..m /\ k - 1 \in 0..n /\ k \in 0..n /\ k \in 0..m
                         /\ k - 1 \in 0..m /\ n - k >= 0
      /\ 0 \in 0..n /\ n \in 0..n /\ n \in 0..m /\ n \in Nat
  <2>1. n \in Nat /\ n <= m
    BY <1>1 DEF m
  <2> QED  BY <1>1, <2>1
<1> HIDE DEF bt
<1>7. ASSUME NEW k \in 1..n
      PROVE  /\ bt[k] = bt[k - 1] + Len(Encoding[t[k]])
             /\ \A j \in 1..Len(Encoding[t[k]]) : b[bt[k - 1] + j] = Encoding[t[k]][j]
  <2> DEFINE l == Len(Encoding[text[k]])
             p == at[k - 1]
  <2>1. t[k] = text[k] /\ bt[k] = at[k] /\ bt[k - 1] = p
    BY <1>3, <1>6
  <2>2. at[k] = p + l /\ l \in Nat /\ at[k] \in Nat /\ p \in Nat /\ at[n] \in Nat
    <3>1. k \in 1..m /\ k - 1 \in 0..m /\ k \in 0..m /\ n \in 0..m
      BY <1>6
    <3> QED  BY <1>1, <1>2, <3>1
  <2>3. at[k] <= at[n]
    <3>1. n \in 0..m /\ k \in 0..n /\ n - k >= 0 /\ n \in Nat /\ k \in Int
      BY <1>6
    <3>2. at[n] - at[k] >= n - k
      BY <1>1, <3>1
    <3> HIDE DEF p
    <3> QED  BY <2>2, <3>1, <3>2
  <2>4. \A j \in 1..l : bytes[p + j] = Encoding[text[k]][j]
    BY <1>2, <1>6
  <2> HIDE DEF l, p
  <2>5. \A j \in 1..l : p + j \in 1..at[n]
    BY <2>2, <2>3
  <2>6. \A j \in 1..l : b[p + j] = Encoding[text[k]][j]
    BY <1>5, <2>4, <2>5
  <2> QED  BY <2>1, <2>2, <2>6 DEF l
<1>8. Spelled(b, t, bt)
  <2>1. bt \in [0..Len(t) -> Nat] /\ bt[0] = 0 /\ bt[Len(t)] = Len(b)
    BY <1>2, <1>3, <1>5, <1>6
  <2>2. \A k \in 1..Len(t) : /\ bt[k] = bt[k - 1] + Len(Encoding[t[k]])
                             /\ \A j \in 1..Len(Encoding[t[k]]) : b[bt[k - 1] + j] = Encoding[t[k]][j]
    BY <1>3, <1>7
  <2> QED  BY <2>1, <2>2 DEF Spelled
<1> QED  BY <1>3, <1>5, <1>8 DEF t, b

(* Stripping the bytes 0 of a text strips its characters Nul.              *)
LEMMA StripDecodes ==
  ASSUME NEW text \in Seq(Char), NEW bytes \in Seq(Byte), NEW at, Spelled(bytes, text, at)
  PROVE  BytesToText(StripRight(bytes, 0)) = Value(StripRight(text, Nul))
<1> DEFINE m == Len(text)
<1>1. PICK n \in Nat : Stripped(text, Nul, n)
  BY StripExists
<1>2. /\ m \in Nat /\ Len(bytes) \in Nat
      /\ \A k \in 0..m : at[k] \in Nat /\ at[k] <= Len(bytes)
      /\ \A k \in 1..m : /\ text[k] \in Char /\ Len(Encoding[text[k]]) \in Nat \ {0}
                         /\ k - 1 \in 0..m /\ at[k] > at[k - 1]
      /\ \A k \in 0..m : \A i \in 0..k : at[k] - at[i] >= k - i
  BY SpelledPlaces
<1>3. /\ at[0] = 0
      /\ \A k \in 1..m :
           /\ at[k] = at[k - 1] + Len(Encoding[text[k]])
           /\ \A j \in 1..Len(Encoding[text[k]]) : bytes[at[k - 1] + j] = Encoding[text[k]][j]
  BY DEF Spelled
<1>4. n \in 0..m /\ (n # 0 => text[n] # Nul) /\ \A k \in 1..m : k > n => text[k] = Nul
  BY <1>1 DEF Stripped
<1> DEFINE q == at[n]
<1>5. q \in Nat /\ q \in 0..Len(bytes)
  BY <1>2, <1>4
<1>6. q # 0 => bytes[q] # 0
  <2> SUFFICES ASSUME q # 0 PROVE bytes[q] # 0
    OBVIOUS
  <2>1. n # 0 /\ n \in 1..m
    BY <1>3, <1>4
  <2> DEFINE l == Len(Encoding[text[n]])
  <2>2. l \in Nat \ {0} /\ q = at[n - 1] + l /\ l \in 1..l
    BY <1>2, <1>3, <2>1
  <2>3. bytes[q] = Encoding[text[n]][l]
    BY <1>3, <2>1, <2>2
  <2>4. Encoding[text[n]][l] # 0
    BY <1>2, <1>4, <2>1, EncodingFacts
  <2> QED  BY <2>3, <2>4
<1>7. ASSUME NEW p \in 1..Len(bytes), p > q PROVE bytes[p] = 0
  <2>1. PICK k \in 1..m : at[k - 1] < p /\ p <= at[k]
    BY SpelledCovers
  <2>2. k > n
    <3> SUFFICES ASSUME k <= n PROVE FALSE
      BY <1>2, <1>4
    <3>1. n \in 0..m /\ k \in 0..n /\ n - k >= 0
      BY <1>2, <1>4
    <3>2. at[n] - at[k] >= n - k
      BY <1>2, <3>1
    <3>3. at[k] \in Nat /\ at[n] \in Nat /\ p \in Int /\ n \in Int /\ k \in Int
      <4>1. k \in 0..m
        BY <1>2
      <4> QED  BY <1>2, <3>1, <4>1
    <3>4. p > at[n] /\ p <= at[k]
      BY <1>7, <2>1
    <3> QED  BY <3>1, <3>2, <3>3, <3>4
  <2>3. text[k] = Nul /\ Encoding[text[k]] = <<0>> /\ Len(<<0>>) = 1 /\ <<0>>[1] = 0
    BY <1>4, <2>2, EncodingFacts
  <2>4. at[k] = at[k - 1] + 1 /\ bytes[at[k - 1] + 1] = 0
    <3>1. /\ at[k] = at[k - 1] + Len(<<0>>)
          /\ \A j \in 1..Len(<<0>>) : bytes[at[k - 1] + j] = <<0>>[j]
      BY <1>3, <2>3, Zenon
    <3>2. 1 \in 1..1
      OBVIOUS
    <3> QED  BY <2>3, <3>1, <3>2
  <2>5. p = at[k - 1] + 1
    <3>1. at[k - 1] \in Nat /\ p \in Int
      BY <1>2
    <3> QED  BY <2>1, <2>4, <3>1
  <2> QED  BY <2>4, <2>5
<1>8. Stripped(bytes, 0, q)
  BY <1>5, <1>6, <1>7 DEF Stripped
<1>9. StripRight(bytes, 0) = SubSeq(bytes, 1, q) /\ StripRight(text, Nul) = SubSeq(text, 1, n)
  BY <1>1, <1>5, <1>8, StripIs
<1>10. /\ SubSeq(text, 1, n) \in Seq(Char) /\ SubSeq(bytes, 1, q) \in Seq(Byte)
       /\ \E bt : Spelled(SubSeq(bytes, 1, q), SubSeq(text, 1, n), bt)
  BY <1>4, SpelledFirst
<1> QED  BY <1>9, <1>10, SpelledDecodes

-----------------------------------------------------------------------------
(* Strings in registers                                                    *)

(* The bytes a field has for its string.                                   *)
Room(f) == IF f.byteCount = None THEN 2 * f.registerCount ELSE f.byteCount

LEMMA RoomFacts ==
  ASSUME NEW f \in Formats, f.type = "string"
  PROVE  /\ Room(f) \in Nat \ {0} /\ 2 * FieldRegisters(f) \in Nat
         /\ Room(f) <= 2 * FieldRegisters(f)
         /\ f.byteCount = None => Room(f) = 2 * FieldRegisters(f)
         /\ f.byteCount # None => f.byteCount = Room(f)
         /\ SpareByte(f) = {} => Room(f) = 2 * FieldRegisters(f)
<1>1. CASE f.byteCount = None
  BY <1>1, FormatFacts DEF Room
<1>2. CASE f.byteCount # None
  <2>1. /\ Room(f) = f.byteCount /\ f.byteCount \in Nat \ {0} /\ FieldRegisters(f) \in Nat \ {0}
        /\ 2 * FieldRegisters(f) = f.byteCount + (f.byteCount % 2)
    BY <1>2, FormatFacts DEF Room
  <2> DEFINE b == f.byteCount
             r == FieldRegisters(f)
  <2>2. b \in Nat \ {0} /\ r \in Nat /\ 2 * r = b + (b % 2)
    BY <2>1
  <2>3. SpareByte(f) = b .. (2 * r - 1)
    BY <1>2 DEF SpareByte
  <2> HIDE DEF b, r
  <2>4. 2 * r \in Nat /\ b <= 2 * r /\ (b .. (2 * r - 1) = {} => b = 2 * r)
    <3>1. b % 2 \in {0, 1} /\ 2 * r \in Nat
      BY <2>2
    <3>2. b # 2 * r => b \in b .. (2 * r - 1)
      BY <2>2, <3>1
    <3> QED  BY <2>2, <3>1, <3>2
  <2> QED  BY <1>2, <2>1, <2>3, <2>4 DEF b, r
<1> QED  BY <1>1, <1>2

(* The device's bytes of a string: the text's, the padding, the spare one. *)
LEMMA StringBytes ==
  ASSUME NEW f \in Formats, f.type = "string", NEW text \in Seq(Char), NEW spare \in Byte,
         Holds(text, f)
  PROVE  /\ Len(TextToBytes(text)) \in Nat /\ Len(TextToBytes(text)) <= Room(f)
         /\ DeviceBytes(text, f, spare) \in [1..(2 * FieldRegisters(f)) -> Byte]
         /\ DeviceBytes(text, f, spare) \in Seq(Byte)
         /\ Len(DeviceBytes(text, f, spare)) = 2 * FieldRegisters(f)
         /\ \A k \in 1..(2 * FieldRegisters(f)) :
              DeviceBytes(text, f, spare)[k] =
                IF k <= Len(TextToBytes(text)) THEN TextToBytes(text)[k]
                ELSE IF k > Room(f) THEN spare ELSE f.pad
<1> DEFINE raw == TextToBytes(text)
           n == 2 * FieldRegisters(f)
           d == DeviceBytes(text, f, spare)
<1>1. raw \in Seq(Byte) /\ Len(raw) \in Nat /\ \A k \in 1..Len(raw) : raw[k] \in Byte
  BY TextSpelled, LenProperties, ElementOfSeq
<1>2. Len(raw) <= Room(f)
  BY DEF Holds, Room, Signed, Integer
<1>3. /\ Room(f) \in Nat \ {0} /\ n \in Nat /\ Room(f) <= n
      /\ f.byteCount = None => Room(f) = n
      /\ f.byteCount # None => f.byteCount = Room(f)
  BY RoomFacts
<1>4. \A k \in 1..n : d[k] = DeviceByte(text, f, spare, k - 1)
  BY DEF DeviceBytes
<1>5. DOMAIN d = 1..n /\ d = [k \in 1..n |-> d[k]]
  BY DEF DeviceBytes
<1>6. \A k : DeviceByte(text, f, spare, k) =
               IF k < Len(raw) THEN raw[k + 1]
               ELSE IF f.byteCount # None /\ k >= f.byteCount THEN spare ELSE f.pad
  BY DEF DeviceByte, Integer, Float
<1> HIDE DEF raw, n, d
<1>7. ASSUME NEW k \in 1..n
      PROVE  d[k] = IF k <= Len(raw) THEN raw[k] ELSE IF k > Room(f) THEN spare ELSE f.pad
  <2>1. d[k] = IF k - 1 < Len(raw) THEN raw[k - 1 + 1]
               ELSE IF f.byteCount # None /\ k - 1 >= f.byteCount THEN spare ELSE f.pad
    BY <1>4, <1>6
  <2>2. (k - 1 < Len(raw) <=> k <= Len(raw)) /\ k - 1 + 1 = k
    BY <1>1, <1>3
  <2>3. (f.byteCount # None /\ k - 1 >= f.byteCount) <=> k > Room(f)
    <3>1. CASE f.byteCount = None
      <4>1. k <= Room(f) /\ ~(k > Room(f))
        BY <1>3, <3>1
      <4> QED  BY <3>1, <4>1
    <3>2. CASE f.byteCount # None
      <4>1. k - 1 >= Room(f) <=> k > Room(f)
        BY <1>3
      <4> QED  BY <1>3, <3>2, <4>1
    <3> QED  BY <3>1, <3>2
  <2> QED  BY <2>1, <2>2, <2>3, Zenon
<1>8. f.pad \in Byte
  BY FormatFacts
<1>9. ASSUME NEW k \in 1..n PROVE d[k] \in Byte
  <2>1. k <= Len(raw) => raw[k] \in Byte
    BY <1>1, <1>3
  <2> QED  BY <1>7, <1>8, <2>1
<1>10. d \in [1..n -> Byte]
  BY <1>5, <1>9
<1>11. d \in Seq(Byte) /\ Len(d) = n
  BY <1>3, <1>10, FunctionIsSeq
<1> QED  BY <1>1, <1>2, <1>7, <1>10, <1>11 DEF raw, n, d

(* A string is encoded to the device's layout of it, or refused.           *)
LEMMA StringEncoded ==
  ASSUME NEW f \in Formats, f.type = "string", NEW text \in Seq(Char)
  PROVE  /\ Holds(text, f) => Encode(text, f) = Value(DeviceWords(text, f, f.pad))
         /\ ~Holds(text, f) => Encode(text, f) = Raise("configuration")
<1> DEFINE raw == TextToBytes(text)
           count == IF f.byteCount = None THEN f.registerCount ELSE StringRegisters(f.byteCount)
           padded == [i \in 1..(2 * count) |-> IF i <= Len(raw) THEN raw[i] ELSE f.pad]
<1>1. count = FieldRegisters(f) /\ ~((f.registerCount = None) = (f.byteCount = None))
  BY FormatFacts
<1>2. Room(f) \in Nat \ {0} /\ ~(Room(f) < 1)
  BY RoomFacts
<1>3. Len(raw) \in Nat
  BY TextSpelled, LenProperties
<1>4. Holds(text, f) <=> ~(Len(raw) > Room(f))
  <2>1. Holds(text, f) <=> Len(raw) <= Room(f)
    BY DEF Holds, Room, Signed, Integer
  <2>2. Len(raw) <= Room(f) <=> ~(Len(raw) > Room(f))
    <3> HIDE DEF raw
    <3> QED  BY <1>2, <1>3
  <2> QED  BY <2>1, <2>2
<1>5. Encode(text, f) = EncodeString(text, f)
  BY DEF Encode
<1>6. EncodeString(text, f) =
        IF \/ (f.registerCount = None) = (f.byteCount = None)
           \/ Room(f) < 1 \/ Len(raw) > Room(f)
        THEN Raise("configuration")
        ELSE Value(UnpackToWords(padded, "high_low", f.byteOrder))
  BY DEF EncodeString, Room
<1>7. ASSUME Holds(text, f) PROVE Encode(text, f) = Value(DeviceWords(text, f, f.pad))
  <2> DEFINE d == DeviceBytes(text, f, f.pad)
  <2>1. f.pad \in Byte
    BY FormatFacts
  <2>2. /\ d \in [1..(2 * FieldRegisters(f)) -> Byte]
        /\ \A k \in 1..(2 * FieldRegisters(f)) :
             d[k] = IF k <= Len(raw) THEN raw[k] ELSE IF k > Room(f) THEN f.pad ELSE f.pad
    BY <1>7, <2>1, StringBytes
  <2>3. padded = d
    <3>1. DOMAIN padded = 1..(2 * FieldRegisters(f)) /\ DOMAIN d = 1..(2 * FieldRegisters(f))
      BY <1>1, <2>2
    <3>2. padded = [i \in 1..(2 * FieldRegisters(f)) |-> IF i <= Len(raw) THEN raw[i] ELSE f.pad]
      BY <1>1
    <3> HIDE DEF padded, d, raw
    <3>3. \A i \in 1..(2 * FieldRegisters(f)) : d[i] = IF i <= Len(raw) THEN raw[i] ELSE f.pad
      BY <2>2
    <3> QED  BY <2>2, <3>2, <3>3
  <2>4. StringOrder(f) = "high_low"
    BY DEF StringOrder
  <2>5. DeviceWords(text, f, f.pad) = UnpackToWords(d, "high_low", f.byteOrder)
    BY <2>2, <2>4, DeviceLaid
  <2> HIDE DEF padded, d, raw
  <2> QED  BY <1>1, <1>2, <1>4, <1>5, <1>6, <1>7, <2>3, <2>5
<1> HIDE DEF padded, raw
<1>8. ASSUME ~Holds(text, f) PROVE Encode(text, f) = Raise("configuration")
  BY <1>4, <1>5, <1>6, <1>8
<1> QED  BY <1>7, <1>8

-----------------------------------------------------------------------------
(* The text of a whole field                                               *)

(* The character of one byte, if there is one.                             *)
CharOf(b) == CHOOSE c \in DOMAIN Encoding : Encoding[c] = <<b>>
IsText(b) == \E c \in DOMAIN Encoding : Encoding[c] = <<b>>

LEMMA CharOfFacts ==
  ASSUME NEW b, IsText(b)
  PROVE  CharOf(b) \in Char /\ Encoding[CharOf(b)] = <<b>>
BY DEF CharOf, IsText, Char

(* A text, the padding behind it, and the spare byte, as characters.       *)
Whole(text, f, spare) ==
  LET l == Len(TextToBytes(text)) IN
  [k \in 1..(Len(text) + (2 * FieldRegisters(f) - l)) |->
     IF k <= Len(text) THEN text[k]
     ELSE IF l + (k - Len(text)) > Room(f) THEN CharOf(spare) ELSE CharOf(f.pad)]

LEMMA WholeSpelled ==
  ASSUME NEW f \in Formats, f.type = "string", NEW text \in Seq(Char), NEW spare \in Byte,
         Holds(text, f), IsText(f.pad), IsText(spare)
  PROVE  /\ Whole(text, f, spare) \in Seq(Char)
         /\ Len(Whole(text, f, spare)) = Len(text) + (2 * FieldRegisters(f) - Len(TextToBytes(text)))
         /\ \E at : Spelled(DeviceBytes(text, f, spare), Whole(text, f, spare), at)
<1> DEFINE m == Len(text)
           l == Len(TextToBytes(text))
           n == 2 * FieldRegisters(f)
           q == m + (n - l)
           d == DeviceBytes(text, f, spare)
           raw == TextToBytes(text)
           w == Whole(text, f, spare)
           room == Room(f)
<1>1. m \in Nat /\ \A k \in 1..m : text[k] \in Char
  BY LenProperties, ElementOfSeq
<1>2. /\ l \in Nat /\ l <= room /\ d \in Seq(Byte) /\ Len(d) = n
      /\ \A k \in 1..n : d[k] = IF k <= l THEN raw[k] ELSE IF k > room THEN spare ELSE f.pad
  BY StringBytes
<1>3. room \in Nat /\ n \in Nat /\ room <= n
  BY RoomFacts
<1>4. PICK at : Spelled(raw, text, at)
  BY TextSpelled
<1>5. /\ \A k \in 0..m : at[k] \in Nat /\ at[k] <= l
      /\ at[0] = 0 /\ at[m] = l
      /\ \A k \in 1..m :
           /\ at[k] = at[k - 1] + Len(Encoding[text[k]])
           /\ \A j \in 1..Len(Encoding[text[k]]) : raw[at[k - 1] + j] = Encoding[text[k]][j]
      /\ \A k \in 1..m : Len(Encoding[text[k]]) \in Nat
  <2>1. raw \in Seq(Byte)
    BY TextSpelled
  <2>2. /\ at[0] = 0 /\ at[m] = l
        /\ \A k \in 1..m :
             /\ at[k] = at[k - 1] + Len(Encoding[text[k]])
             /\ \A j \in 1..Len(Encoding[text[k]]) : raw[at[k - 1] + j] = Encoding[text[k]][j]
    BY <1>4 DEF Spelled
  <2>3. /\ \A k \in 0..m : at[k] \in Nat /\ at[k] <= l
        /\ \A k \in 1..m : Len(Encoding[text[k]]) \in Nat
    <3> HIDE DEF raw
    <3>1. /\ \A k \in 0..Len(text) : at[k] \in Nat /\ at[k] <= Len(raw)
          /\ \A k \in 1..Len(text) : Len(Encoding[text[k]]) \in Nat \ {0}
      BY <1>4, <2>1, SpelledPlaces
    <3> QED  BY <3>1 DEF raw
  <2> HIDE DEF m, l, raw
  <2> QED  BY <2>2, <2>3
<1>6. w = [k \in 1..q |-> IF k <= m THEN text[k]
                          ELSE IF l + (k - m) > room THEN CharOf(spare) ELSE CharOf(f.pad)]
  BY DEF Whole
<1> DEFINE bt == [k \in 0..q |-> IF k <= m THEN at[k] ELSE l + (k - m)]
<1>7. /\ CharOf(spare) \in Char /\ Encoding[CharOf(spare)] = <<spare>>
      /\ CharOf(f.pad) \in Char /\ Encoding[CharOf(f.pad)] = <<f.pad>>
  BY CharOfFacts
<1> HIDE DEF m, l, n, d, raw, w, room
<1>8. q \in Nat /\ m <= q
  BY <1>1, <1>2, <1>3
<1>9. w \in [1..q -> Char]
  <2>1. \A k \in 1..q : k <= m => k \in 1..m
    BY <1>1, <1>8
  <2> QED  BY <1>1, <1>6, <1>7, <2>1
<1>10. w \in Seq(Char) /\ Len(w) = q
  BY <1>8, <1>9, FunctionIsSeq
<1>11. /\ bt \in [0..q -> Nat] /\ bt[0] = 0 /\ bt[q] = n
       /\ \A k \in 0..q : bt[k] = IF k <= m THEN at[k] ELSE l + (k - m)
  <2>1. \A k \in 0..q : /\ k <= m => k \in 0..m
                        /\ ~(k <= m) => l + (k - m) \in Nat
    BY <1>1, <1>2, <1>8
  <2>2. bt \in [0..q -> Nat]
    BY <1>5, <2>1
  <2>3. 0 \in 0..q /\ q \in 0..q /\ 0 <= m
    BY <1>1, <1>8
  <2>4. bt[q] = n
    <3>1. CASE q <= m
      <4>1. q = m /\ l = n
        BY <1>1, <1>2, <1>3, <1>8, <3>1
      <4> QED  BY <1>5, <2>3, <3>1, <4>1
    <3>2. CASE ~(q <= m)
      <4>1. l + (q - m) = n
        BY <1>1, <1>2, <1>3, <1>8
      <4> QED  BY <2>3, <3>2, <4>1
    <3> QED  BY <3>1, <3>2
  <2> QED  BY <1>5, <2>2, <2>3, <2>4
<1> HIDE DEF bt
<1>12. ASSUME NEW k \in 1..q
       PROVE  /\ bt[k] = bt[k - 1] + Len(Encoding[w[k]])
              /\ \A j \in 1..Len(Encoding[w[k]]) : d[bt[k - 1] + j] = Encoding[w[k]][j]
  <2>1. k \in 0..q /\ k - 1 \in 0..q /\ k \in Int
    BY <1>8
  <2>2. CASE k <= m
    <3>1. k \in 1..m /\ k - 1 <= m /\ k - 1 \in 0..m /\ k \in 0..m
      BY <1>1, <2>1, <2>2
    <3>2. w[k] = text[k] /\ bt[k] = at[k] /\ bt[k - 1] = at[k - 1]
      BY <1>6, <1>11, <2>1, <2>2, <3>1
    <3> DEFINE e == Len(Encoding[text[k]])
               p == at[k - 1]
    <3>3. /\ at[k] = p + e /\ p \in Nat /\ e \in Nat /\ at[k] <= l /\ at[k] \in Nat
          /\ \A j \in 1..e : raw[p + j] = Encoding[text[k]][j]
      BY <1>5, <3>1
    <3> HIDE DEF e, p
    <3>4. \A j \in 1..e : p + j \in 1..n /\ p + j <= l
      BY <1>2, <1>3, <3>3
    <3>5. \A j \in 1..e : d[p + j] = Encoding[text[k]][j]
      BY <1>2, <3>3, <3>4
    <3> QED  BY <3>2, <3>3, <3>5 DEF e, p
  <2>3. CASE ~(k <= m)
    <3> DEFINE p == l + (k - m)
    <3>1. bt[k] = p /\ bt[k - 1] = p - 1
      <4>1. bt[k] = p
        BY <1>11, <2>1, <2>3
      <4>2. CASE k - 1 <= m
        <5>1. k - 1 = m /\ p - 1 = l /\ m <= m
          BY <1>1, <1>2, <2>1, <2>3, <4>2
        <5>2. bt[k - 1] = at[k - 1]
          BY <1>11, <2>1, <4>2
        <5> QED  BY <1>5, <4>1, <5>1, <5>2
      <4>3. CASE ~(k - 1 <= m)
        <5>1. bt[k - 1] = l + ((k - 1) - m)
          BY <1>11, <2>1, <4>3
        <5>2. l + ((k - 1) - m) = p - 1
          BY <1>1, <1>2, <2>1
        <5> QED  BY <4>1, <5>1, <5>2
      <4> QED  BY <4>2, <4>3
    <3>2. p \in Int /\ p \in 1..n /\ ~(p <= l) /\ p - 1 + 1 = p
      BY <1>1, <1>2, <1>3, <2>1, <2>3
    <3>3. w[k] = IF p > room THEN CharOf(spare) ELSE CharOf(f.pad)
      BY <1>6, <2>3
    <3>4. d[p] = IF p > room THEN spare ELSE f.pad
      BY <1>2, <3>2
    <3> HIDE DEF p
    <3>5. Encoding[w[k]] = <<d[p]>>
      BY <1>7, <3>3, <3>4
    <3>6. Len(<<d[p]>>) = 1 /\ <<d[p]>>[1] = d[p] /\ \A j \in 1..1 : j = 1
      OBVIOUS
    <3>7. bt[k] = bt[k - 1] + 1 /\ bt[k - 1] + 1 = p
      BY <3>1, <3>2
    <3> QED  BY <3>5, <3>6, <3>7
  <2> QED  BY <2>2, <2>3
<1>13. Spelled(d, w, bt)
  BY <1>2, <1>10, <1>11, <1>12 DEF Spelled
<1> QED  BY <1>10, <1>13 DEF m, l, n, d, raw, w

-----------------------------------------------------------------------------
(* Reading strings                                                         *)

(* Unpacking the device's words gives its bytes.                           *)
LEMMA DeviceUnpacks ==
  ASSUME NEW f \in Formats, NEW value, NEW spare,
         DeviceBytes(value, f, spare) \in [1..(2 * FieldRegisters(f)) -> Byte]
  PROVE  /\ DeviceWords(value, f, spare) \in [1..FieldRegisters(f) -> Register]
         /\ PackBytes(DeviceWords(value, f, spare), StringOrder(f), f.byteOrder) =
              DeviceBytes(value, f, spare)
<1> DEFINE m == FieldRegisters(f)
           d == DeviceBytes(value, f, spare)
           w == DeviceWords(value, f, spare)
<1>1. m \in Nat
  BY FormatFacts
<1>2. Laid(w, d, m, StringOrder(f), f.byteOrder)
  BY DeviceLaid
<1> HIDE DEF w, d, m
<1>3. w \in [1..m -> Register]
  BY <1>2 DEF Laid
<1>4. Laid(w, PackBytes(w, StringOrder(f), f.byteOrder), m, StringOrder(f), f.byteOrder)
  BY <1>1, <1>3, PackBytesLaid
<1>5. PackBytes(w, StringOrder(f), f.byteOrder) = d
  BY <1>1, <1>2, <1>4, LaidBytes
<1> QED  BY <1>3, <1>5 DEF w, d, m

LEMMA StripTyped ==
  ASSUME NEW S, NEW s \in Seq(S), NEW x
  PROVE  StripRight(s, x) \in Seq(S)
<1>1. PICK n \in Nat : Stripped(s, x, n)
  BY StripExists
<1>2. n \in 0..Len(s)
  BY <1>1 DEF Stripped
<1>3. SubSeq(s, 1, n) \in Seq(S)
  BY <1>2, FirstOf
<1> QED  BY <1>1, <1>3, StripIs

(* Registers are decoded to a text or not at all.                          *)
LEMMA DecodeStringTyped ==
  ASSUME NEW m \in Nat, NEW words \in [1..m -> Register], NEW byteOrder, NEW strip \in BOOLEAN
  PROVE  \/ DecodeString(words, byteOrder, strip) = Raise("unicode")
         \/ \E text \in Seq(Char) : DecodeString(words, byteOrder, strip) = Value(text)
<1> DEFINE raw == PackBytes(words, "high_low", byteOrder)
           bytes == IF strip THEN StripRight(raw, 0) ELSE raw
<1>1. Laid(words, raw, m, "high_low", byteOrder)
  BY PackBytesLaid
<1> HIDE DEF raw
<1>2. raw \in [1..(2 * m) -> Byte] /\ 2 * m \in Nat
  BY <1>1 DEF Laid
<1>3. raw \in Seq(Byte)
  BY <1>2, FunctionIsSeq
<1>4. bytes \in Seq(Byte)
  BY <1>3, StripTyped
<1>5. ~(\E i \in DOMAIN words : words[i] \notin Register)
  OBVIOUS
<1>6. DecodeString(words, byteOrder, strip) = BytesToText(bytes)
  BY <1>5 DEF DecodeString, raw
<1> HIDE DEF bytes
<1> QED  BY <1>4, <1>6, DecodedTyped

(* What the device stored is decoded to the whole field's text.            *)
LEMMA StringDecodes ==
  ASSUME NEW f \in Formats, f.type = "string", NEW text \in Seq(Char), NEW spare \in Byte,
         Holds(text, f), IsText(f.pad), IsText(spare)
  PROVE  /\ DecodeString(DeviceWords(text, f, spare), f.byteOrder, FALSE) =
              Value(Whole(text, f, spare))
         /\ DecodeString(DeviceWords(text, f, spare), f.byteOrder, TRUE) =
              Value(StripRight(Whole(text, f, spare), Nul))
<1> DEFINE w == DeviceWords(text, f, spare)
           d == DeviceBytes(text, f, spare)
           t == Whole(text, f, spare)
<1>1. d \in [1..(2 * FieldRegisters(f)) -> Byte] /\ d \in Seq(Byte)
  BY StringBytes
<1>2. w \in [1..FieldRegisters(f) -> Register] /\ PackBytes(w, "high_low", f.byteOrder) = d
  BY <1>1, DeviceUnpacks DEF StringOrder
<1>3. ~(\E i \in DOMAIN w : w[i] \notin Register)
  <2> HIDE DEF w
  <2> QED  BY <1>2
<1>4. t \in Seq(Char) /\ \E at : Spelled(d, t, at)
  BY WholeSpelled
<1> HIDE DEF w, d, t
<1>5. DecodeString(w, f.byteOrder, FALSE) = BytesToText(d)
  BY <1>2, <1>3 DEF DecodeString
<1>6. DecodeString(w, f.byteOrder, TRUE) = BytesToText(StripRight(d, 0))
  BY <1>2, <1>3 DEF DecodeString
<1>7. BytesToText(d) = Value(t)
  BY <1>1, <1>4, SpelledDecodes
<1>8. BytesToText(StripRight(d, 0)) = Value(StripRight(t, Nul))
  BY <1>1, <1>4, StripDecodes
<1> QED  BY <1>5, <1>6, <1>7, <1>8 DEF w, t

(* The text of a field that is read, as ReadsText says it, and as the code *)
(* cuts it from what is decoded.                                           *)
FieldText(text, f) ==
  LET whole == Padded(text, f) IN
  IF f.byteCount # None /\ f.byteCount < Len(whole) THEN SubSeq(whole, 1, f.byteCount) ELSE whole
CutText(whole, f) ==
  IF f.byteCount = None \/ f.byteCount > Len(whole) THEN whole ELSE SubSeq(whole, 1, f.byteCount)

(* The padded text is the whole one where the spare byte is padding.       *)
LEMMA PaddedWhole ==
  ASSUME NEW f \in Formats, f.type = "string", NEW text \in Seq(Char), Holds(text, f), IsText(f.pad)
  PROVE  Padded(text, f) = Whole(text, f, f.pad)
<1> DEFINE m == Len(text)
           r == 2 * FieldRegisters(f) - Len(TextToBytes(text))
           c == CharOf(f.pad)
           pads == [i \in 1..r |-> c]
           w == Whole(text, f, f.pad)
<1>1. f.pad \in Byte /\ m \in Nat /\ \A k \in 1..m : text[k] \in Char
  BY FormatFacts, LenProperties, ElementOfSeq
<1>2. r \in Nat
  <2>1. /\ Len(TextToBytes(text)) \in Nat /\ Len(TextToBytes(text)) <= Room(f)
        /\ Room(f) \in Nat /\ 2 * FieldRegisters(f) \in Nat /\ Room(f) <= 2 * FieldRegisters(f)
    BY <1>1, StringBytes, RoomFacts
  <2> DEFINE l == Len(TextToBytes(text))
             n == 2 * FieldRegisters(f)
  <2>2. l \in Nat /\ n \in Nat /\ l <= n
    BY <2>1
  <2> HIDE DEF l, n
  <2>3. n - l \in Nat
    BY <2>2
  <2> QED  BY <2>3 DEF l, n
<1>3. c \in Char
  BY CharOfFacts
<1> HIDE DEF c
<1>4. pads \in Seq(Char) /\ Len(pads) = r
  <2> HIDE DEF r
  <2>1. pads \in [1..r -> Char]
    BY <1>3
  <2> HIDE DEF pads
  <2> QED  BY <1>2, <2>1, FunctionIsSeq
<1>5. Padded(text, f) = text \o pads
  BY DEF Padded, c, CharOf
<1>6. w = [k \in 1..(m + r) |-> IF k <= m THEN text[k] ELSE c]
  BY DEF Whole, c
<1>7. \A k \in 1..r : pads[k] = c
  OBVIOUS
<1> HIDE DEF r, pads, w
<1>8. /\ text \o pads \in Seq(Char) /\ Len(text \o pads) = m + r
      /\ \A k \in 1..(m + r) : (text \o pads)[k] = IF k <= m THEN text[k] ELSE pads[k - m]
  BY <1>4, ConcatProperties
<1>9. \A k \in 1..(m + r) : ~(k <= m) => k - m \in 1..r
  BY <1>1, <1>2
<1>10. \A k \in 1..(m + r) : (text \o pads)[k] = IF k <= m THEN text[k] ELSE c
  BY <1>7, <1>8, <1>9
<1>11. text \o pads \in [1..(m + r) -> Char]
  BY <1>8, LenProperties
<1>12. text \o pads = w
  <2> DEFINE x == text \o pads
  <2>1. x = [k \in 1..(m + r) |-> x[k]]
    BY <1>11
  <2> HIDE DEF x
  <2> QED  BY <1>6, <1>10, <2>1 DEF x
<1> QED  BY <1>5, <1>12 DEF w

(* A text of characters of one byte has as many of the one as of the other. *)
LEMMA OneByteEach ==
  ASSUME NEW text \in Seq(Char), \A i \in DOMAIN text : Len(Encoding[text[i]]) = 1
  PROVE  Len(TextToBytes(text)) = Len(text)
<1> DEFINE m == Len(text)
           raw == TextToBytes(text)
<1>1. raw \in Seq(Byte) /\ m \in Nat /\ DOMAIN text = 1..m
  BY TextSpelled, LenProperties
<1>2. PICK at : Spelled(raw, text, at)
  BY TextSpelled
<1>3. at[0] = 0 /\ at[m] = Len(raw) /\ \A k \in 1..m : at[k] = at[k - 1] + 1
  BY <1>1, <1>2 DEF Spelled
<1> HIDE DEF m, raw
<1> DEFINE S == {k \in Nat : k <= m => at[k] = k}
<1>4. 0 \in S
  BY <1>3
<1>5. ASSUME NEW k \in Nat, k \in S PROVE k + 1 \in S
  <2> SUFFICES ASSUME k + 1 <= m PROVE at[k + 1] = k + 1
    OBVIOUS
  <2> DEFINE i == k + 1
  <2>1. i \in 1..m /\ i - 1 = k /\ at[k] = k
    BY <1>1, <1>5
  <2> HIDE DEF i
  <2>2. at[i] = k + 1
    BY <1>3, <2>1
  <2> QED  BY <2>2 DEF i
<1>6. m \in S
  <2> HIDE DEF S
  <2> QED  BY <1>1, <1>4, <1>5, SetInduction
<1> QED  BY <1>1, <1>3, <1>6 DEF m, raw

(* The characters the code cuts from what it decoded are the field's own,  *)
(* if the cut is exact.                                                    *)
LEMMA CutTextOf ==
  ASSUME NEW f \in Formats, f.type = "string", NEW text \in Seq(Char), NEW spare \in Byte,
         Holds(text, f), IsText(f.pad), IsText(spare), CutIsExact(text, f)
  PROVE  CutText(Whole(text, f, spare), f) = FieldText(text, f)
<1> DEFINE m == Len(text)
           l == Len(TextToBytes(text))
           n == 2 * FieldRegisters(f)
           q == m + (n - l)
           w == Whole(text, f, spare)
           p == Whole(text, f, f.pad)
           b == f.byteCount
           room == Room(f)
<1>0. f.pad \in Byte
  BY FormatFacts
<1>1. w \in Seq(Char) /\ Len(w) = q /\ p \in Seq(Char) /\ Len(p) = q
  BY <1>0, WholeSpelled
<1>2. Padded(text, f) = p
  BY PaddedWhole
<1>3. /\ w = [k \in 1..q |-> IF k <= m THEN text[k] ELSE IF l + (k - m) > room THEN CharOf(spare) ELSE CharOf(f.pad)]
      /\ p = [k \in 1..q |-> IF k <= m THEN text[k] ELSE IF l + (k - m) > room THEN CharOf(f.pad) ELSE CharOf(f.pad)]
  BY DEF Whole
<1>4. l \in Nat /\ l <= room /\ m \in Nat
  BY <1>0, StringBytes, LenProperties
<1>5. /\ room \in Nat /\ n \in Nat /\ room <= n
      /\ (b = None => room = n) /\ (b # None => b = room) /\ (SpareByte(f) = {} => room = n)
  BY RoomFacts
<1>6. m <= l
  <2>1. TextToBytes(text) \in Seq(Byte)
    BY TextSpelled
  <2>2. PICK at : Spelled(TextToBytes(text), text, at)
    BY TextSpelled
  <2>3. at[0] = 0 /\ at[m] = l /\ m \in 0..m /\ 0 \in 0..m
    BY <1>4, <2>2 DEF Spelled
  <2>4. at[m] - at[0] >= m - 0
    BY <2>1, <2>2, <2>3, SpelledPlaces
  <2> HIDE DEF m, l
  <2> QED  BY <1>4, <2>3, <2>4
<1>7. FieldText(text, f) = IF b # None /\ b < Len(p) THEN SubSeq(p, 1, b) ELSE p
  BY <1>2 DEF FieldText
<1>8. CutText(w, f) = IF b = None \/ b > Len(w) THEN w ELSE SubSeq(w, 1, b)
  BY DEF CutText
<1>9. SpareByte(f) = {} \/ l = m
  BY OneByteEach DEF CutIsExact
<1> HIDE DEF m, l, n, w, p, b, room
<1>11. q \in Nat /\ q <= n /\ m <= q
  BY <1>4, <1>5, <1>6
<1>12. SubSeq(p, 1, q) = p /\ SubSeq(w, 1, q) = w
  BY <1>1, SubSeqFull
<1>13. ASSUME room = n PROVE CutText(w, f) = FieldText(text, f)
  <2>1. \A k \in 1..q : ~(l + (k - m) > room)
    BY <1>4, <1>5, <1>11, <1>13
  <2>2. w = p
    BY <1>3, <2>1
  <2>3. CASE b = None
    BY <1>7, <1>8, <2>2, <2>3
  <2>4. CASE b # None
    <3>1. b = n /\ b \in Nat
      BY <1>5, <1>13, <2>4
    <3>2. CASE b > q
      <4>1. ~(b < q)
        BY <1>11, <3>1, <3>2
      <4> QED  BY <1>1, <1>7, <1>8, <2>2, <3>2, <4>1
    <3>3. CASE ~(b > q)
      <4>1. b = q /\ ~(b < q)
        BY <1>11, <3>1, <3>3
      <4> QED  BY <1>1, <1>7, <1>8, <1>12, <2>2, <2>4, <3>3, <4>1
    <3> QED  BY <3>2, <3>3
  <2> QED  BY <2>3, <2>4
<1>14. ASSUME room # n PROVE CutText(w, f) = FieldText(text, f)
  <2>1. b # None /\ b = room /\ l = m /\ q = n
    BY <1>4, <1>5, <1>9, <1>14
  <2>2. b \in Nat /\ b < q /\ ~(b > q) /\ b \in 0..q
    BY <1>5, <1>11, <1>14, <2>1
  <2> DEFINE x == SubSeq(w, 1, b)
             y == SubSeq(p, 1, b)
  <2>3. /\ x \in [1..b -> Char] /\ y \in [1..b -> Char]
        /\ \A i \in 1..b : x[i] = w[i] /\ y[i] = p[i]
    BY <1>1, <2>2, FirstOf
  <2>4. ASSUME NEW i \in 1..b PROVE w[i] = p[i]
    <3>1. i \in 1..q
      BY <1>11, <2>2
    <3>2. l + (i - m) = i /\ ~(i > room)
      BY <1>4, <2>1, <2>2
    <3> QED  BY <1>3, <3>1, <3>2
  <2> HIDE DEF x, y
  <2>5. \A i \in 1..b : x[i] = y[i]
    BY <2>3, <2>4
  <2>6. x = [i \in 1..b |-> x[i]] /\ y = [i \in 1..b |-> y[i]]
    BY <2>3
  <2>7. x = y
    BY <2>5, <2>6
  <2> QED  BY <1>1, <1>7, <1>8, <2>1, <2>2, <2>7 DEF x, y
<1> QED  BY <1>13, <1>14 DEF w

(* A text has no more characters than bytes; a field without a spare byte  *)
(* is decoded to the text that is read from it.                            *)
LEMMA WholeUncut ==
  ASSUME NEW f \in Formats, f.type = "string", NEW text \in Seq(Char), NEW spare \in Byte,
         Holds(text, f), IsText(f.pad), IsText(spare), SpareByte(f) = {}
  PROVE  CutText(Whole(text, f, spare), f) = Whole(text, f, spare)
<1> DEFINE m == Len(text)
           l == Len(TextToBytes(text))
           n == 2 * FieldRegisters(f)
           w == Whole(text, f, spare)
           b == f.byteCount
<1>1. w \in Seq(Char) /\ Len(w) = m + (n - l)
  BY WholeSpelled
<1>2. l \in Nat /\ l <= Room(f) /\ m \in Nat
  BY StringBytes, LenProperties
<1>3. n \in Nat /\ Room(f) = n /\ (b # None => b = n)
  BY RoomFacts
<1>4. m <= l
  <2>1. TextToBytes(text) \in Seq(Byte)
    BY TextSpelled
  <2>2. PICK at : Spelled(TextToBytes(text), text, at)
    BY TextSpelled
  <2>3. at[0] = 0 /\ at[m] = l /\ m \in 0..m /\ 0 \in 0..m
    BY <1>2, <2>2 DEF Spelled
  <2>4. at[m] - at[0] >= m - 0
    BY <2>1, <2>2, <2>3, SpelledPlaces
  <2> HIDE DEF m, l
  <2> QED  BY <1>2, <2>3, <2>4
<1>5. CutText(w, f) = IF b = None \/ b > Len(w) THEN w ELSE SubSeq(w, 1, b)
  BY DEF CutText
<1> HIDE DEF m, l, n, w
<1>6. ASSUME b # None, ~(b > Len(w)) PROVE b = Len(w)
  <2> DEFINE q == Len(w)
  <2>1. q = m + (n - l) /\ b = n /\ ~(b > q)
    BY <1>1, <1>3, <1>6
  <2> HIDE DEF q, b
  <2>2. b = q
    BY <1>2, <1>3, <1>4, <2>1
  <2> QED  BY <2>2 DEF q
<1>7. SubSeq(w, 1, Len(w)) = w
  BY <1>1, SubSeqFull
<1> HIDE DEF b
<1> QED  BY <1>5, <1>6, <1>7 DEF w

-----------------------------------------------------------------------------
(* The registers of the field and those next to it                         *)

Middle(m)   == SubSeq(m, 2, Len(m) - 1)
Cells(m, n) == m \in [1..(n + 2) -> Register] /\ m[1] = Guard /\ m[n + 2] = Guard
Over(m, words) == [i \in DOMAIN m |-> IF i - 1 \in DOMAIN words THEN words[i - 1] ELSE m[i]]

LEMMA GuardIsRegister == Guard \in Register
<1>1. Base \in Nat /\ Base >= 2
  BY BaseFacts
<1>2. Base * Base >= Base + 2
  <2>1. (Base - 2) * Base >= 0 /\ Base * Base = (Base - 2) * Base + 2 * Base
    BY <1>1
  <2> QED  BY <1>1, <2>1
<1>3. Base * Base \in Int
  BY <1>1
<1> QED  BY <1>1, <1>2, <1>3 DEF Guard, Register

LEMMA MiddleIs ==
  ASSUME NEW n \in Nat, NEW m \in [1..(n + 2) -> Register]
  PROVE  /\ Len(m) = n + 2 /\ DOMAIN m = 1..(n + 2)
         /\ Middle(m) = [i \in 1..n |-> m[i + 1]] /\ Middle(m) \in [1..n -> Register]
<1>1. m \in Seq(Register) /\ Len(m) = n + 2 /\ DOMAIN m = 1..(n + 2)
  BY FunctionIsSeq
<1>2. Middle(m) = [i \in 1..n |-> m[i + 1]]
  <2>1. Len(m) - 1 = n + 1 /\ (n + 1) - 2 + 1 = n /\ \A i \in 1..n : 2 + i - 1 = i + 1
    BY <1>1
  <2> DEFINE e == Len(m) - 1
  <2>2. Middle(m) = [i \in 1..(e - 2 + 1) |-> m[(i + 2) - 1]]
    BY DEF Middle, SubSeq
  <2>3. e - 2 + 1 = n
    BY <1>1
  <2>4. \A i \in 1..n : (i + 2) - 1 = i + 1
    OBVIOUS
  <2> QED  BY <2>2, <2>3, <2>4
<1>3. \A i \in 1..n : m[i + 1] \in Register
  <2>1. \A i \in 1..n : i + 1 \in 1..(n + 2)
    OBVIOUS
  <2> QED  BY <2>1
<1> QED  BY <1>1, <1>2, <1>3

(* What the device stores lies between the guards.                         *)
LEMMA StoredCells ==
  ASSUME NEW n \in Nat, NEW words \in [1..n -> Register]
  PROVE  /\ Cells(<<Guard>> \o words \o <<Guard>>, n)
         /\ Middle(<<Guard>> \o words \o <<Guard>>) = words
<1> DEFINE g == <<Guard>>
           x == g \o words
           m == x \o g
<1>1. /\ words \in Seq(Register) /\ Len(words) = n
      /\ g \in Seq(Register) /\ Len(g) = 1 /\ g[1] = Guard
  BY FunctionIsSeq, GuardIsRegister
<1> HIDE DEF g
<1>2. /\ x \in Seq(Register) /\ Len(x) = 1 + n
      /\ \A i \in 1..(1 + n) : x[i] = IF i <= 1 THEN g[i] ELSE words[i - 1]
  <2>1. /\ x \in Seq(Register) /\ Len(x) = Len(g) + Len(words)
        /\ \A i \in 1..(Len(g) + Len(words)) :
             x[i] = IF i <= Len(g) THEN g[i] ELSE words[i - Len(g)]
    BY <1>1, ConcatProperties
  <2> HIDE DEF x
  <2> QED  BY <1>1, <2>1
<1> HIDE DEF x
<1>3. /\ m \in Seq(Register) /\ Len(m) = (1 + n) + 1
      /\ \A i \in 1..((1 + n) + 1) : m[i] = IF i <= 1 + n THEN x[i] ELSE g[i - (1 + n)]
  <2>1. /\ m \in Seq(Register) /\ Len(m) = Len(x) + Len(g)
        /\ \A i \in 1..(Len(x) + Len(g)) : m[i] = IF i <= Len(x) THEN x[i] ELSE g[i - Len(x)]
    BY <1>1, <1>2, ConcatProperties
  <2> HIDE DEF m
  <2> QED  BY <1>1, <1>2, <2>1
<1> HIDE DEF m
<1>4. m \in [1..(n + 2) -> Register]
  <2>1. (1 + n) + 1 = n + 2
    OBVIOUS
  <2> QED  BY <1>3, <2>1, LenProperties
<1>5. m[1] = Guard
  <2>1. 1 \in 1..((1 + n) + 1) /\ 1 \in 1..(1 + n) /\ 1 <= 1 + n /\ 1 <= 1
    OBVIOUS
  <2>2. m[1] = x[1] /\ x[1] = g[1]
    BY <1>2, <1>3, <2>1
  <2> QED  BY <1>1, <2>2
<1>6. m[n + 2] = Guard
  <2>1. n + 2 \in 1..((1 + n) + 1) /\ ~(n + 2 <= 1 + n) /\ (n + 2) - (1 + n) = 1
    OBVIOUS
  <2>2. m[n + 2] = g[(n + 2) - (1 + n)]
    BY <1>3, <2>1
  <2> QED  BY <1>1, <2>1, <2>2
<1>7. \A i \in 1..n : m[i + 1] = words[i]
  <2> TAKE i \in 1..n
  <2> DEFINE k == i + 1
  <2>1. k \in 1..((1 + n) + 1) /\ k \in 1..(1 + n) /\ k <= 1 + n /\ ~(k <= 1) /\ k - 1 = i
    OBVIOUS
  <2> HIDE DEF k
  <2>2. m[k] = x[k] /\ x[k] = words[k - 1]
    BY <1>2, <1>3, <2>1
  <2> QED  BY <2>1, <2>2 DEF k
<1>8. Middle(m) = [i \in 1..n |-> m[i + 1]]
  BY <1>4, MiddleIs
<1>9. Middle(m) = words
  <2>1. words = [i \in 1..n |-> words[i]]
    OBVIOUS
  <2> QED  BY <1>7, <1>8, <2>1
<1> QED  BY <1>4, <1>5, <1>6, <1>9 DEF Cells, m, x, g

(* What a call writes is the field, and the field only.                    *)
LEMMA WrittenCells ==
  ASSUME NEW n \in Nat, NEW m, Cells(m, n), NEW words \in [1..n -> Register]
  PROVE  /\ Cells(Over(m, words), n) /\ Middle(Over(m, words)) = words
         /\ Middle(m) = words => Over(m, words) = m
<1>1. m \in [1..(n + 2) -> Register] /\ m[1] = Guard /\ m[n + 2] = Guard
  BY DEF Cells
<1> DEFINE o == Over(m, words)
<1>2. o = [i \in 1..(n + 2) |-> IF i - 1 \in 1..n THEN words[i - 1] ELSE m[i]]
  BY <1>1 DEF Over
<1>3. o \in [1..(n + 2) -> Register]
  BY <1>1, <1>2
<1>4. o[1] = Guard
  <2>1. 1 \in 1..(n + 2) /\ ~(1 - 1 \in 1..n)
    OBVIOUS
  <2> QED  BY <1>1, <1>2, <2>1
<1>5. o[n + 2] = Guard
  <2>1. n + 2 \in 1..(n + 2) /\ ~((n + 2) - 1 \in 1..n)
    OBVIOUS
  <2> QED  BY <1>1, <1>2, <2>1
<1>6. \A i \in 1..n : o[i + 1] = words[i]
  <2> TAKE i \in 1..n
  <2> DEFINE k == i + 1
  <2>1. k \in 1..(n + 2) /\ k - 1 = i
    OBVIOUS
  <2> HIDE DEF k, o
  <2>2. o[k] = words[k - 1]
    BY <1>2, <2>1
  <2> QED  BY <2>1, <2>2 DEF k
<1> HIDE DEF o
<1>7. Middle(o) = [i \in 1..n |-> o[i + 1]]
  BY <1>3, MiddleIs
<1>8. words = [i \in 1..n |-> words[i]]
  OBVIOUS
<1>9. Middle(o) = words
  BY <1>6, <1>7, <1>8
<1>10. ASSUME Middle(m) = words PROVE o = m
  <2>1. Middle(m) = [i \in 1..n |-> m[i + 1]]
    BY <1>1, MiddleIs
  <2>2. \A i \in 1..n : words[i] = m[i + 1]
    BY <1>10, <2>1
  <2>3. \A i \in 1..(n + 2) : o[i] = m[i]
    <3> TAKE i \in 1..(n + 2)
    <3>1. CASE i - 1 \in 1..n
      <4>1. words[i - 1] = m[(i - 1) + 1] /\ (i - 1) + 1 = i
        BY <2>2, <3>1
      <4> QED  BY <1>2, <3>1, <4>1
    <3>2. CASE ~(i - 1 \in 1..n)
      BY <1>2, <3>2
    <3> QED  BY <3>1, <3>2
  <2>4. m = [i \in 1..(n + 2) |-> m[i]] /\ o = [i \in 1..(n + 2) |-> o[i]]
    BY <1>1, <1>3
  <2> QED  BY <2>3, <2>4
<1> QED  BY <1>3, <1>4, <1>5, <1>9, <1>10 DEF Cells, o

-----------------------------------------------------------------------------
(* What the calls return                                                   *)

(* A value that fits is laid out in registers.                             *)
LEMMA WordsTyped ==
  ASSUME NEW f \in Formats, NEW value \in ValuesOf(f), NEW spare \in Byte, Holds(value, f)
  PROVE  DeviceWords(value, f, spare) \in [1..FieldRegisters(f) -> Register]
<1>1. CASE f.type = "string"
  <2>1. value \in Seq(Char)
    BY <1>1, ValueFacts
  <2>2. DeviceBytes(value, f, spare) \in [1..(2 * FieldRegisters(f)) -> Byte]
    BY <1>1, <2>1, StringBytes
  <2> QED  BY <2>2, DeviceUnpacks
<1>2. CASE f.type # "string"
  <2>1. ~(f.type = "float32" /\ value = Huge)
    <3>1. f.type = "float32" => f.type \in Float
      BY DEF Float
    <3> QED  BY <3>1, FloatHolds
  <2>2. DeviceBytes(value, f, spare) \in [1..(2 * FieldRegisters(f)) -> Byte]
    BY <1>2, <2>1, NumberBytes
  <2> QED  BY <2>2, DeviceUnpacks
<1> QED  BY <1>1, <1>2

(* encode gives the device's layout of what fits, and refuses the rest.    *)
LEMMA Encoded ==
  ASSUME NEW f \in Formats, NEW value \in ValuesOf(f)
  PROVE  /\ Holds(value, f) =>
              /\ Encode(value, f) = Value(DeviceWords(Quieted(value, f), f, f.pad))
              /\ DeviceWords(Quieted(value, f), f, f.pad) \in [1..FieldRegisters(f) -> Register]
         /\ ~Holds(value, f) => Encode(value, f) \in {Raise("configuration"), Raise("overflow")}
<1>1. f.pad \in Byte
  BY FormatFacts
<1>2. Holds(value, f) =>
        DeviceWords(Quieted(value, f), f, f.pad) \in [1..FieldRegisters(f) -> Register]
  <2>1. Holds(value, f) => Quieted(value, f) \in ValuesOf(f) /\ Holds(Quieted(value, f), f)
    BY QuietedFacts
  <2> QED  BY <1>1, <2>1, WordsTyped
<1>3. CASE f.type = "string"
  <2>1. value \in Seq(Char)
    BY <1>3, ValueFacts
  <2>2. Quieted(value, f) = value
    BY <1>3, OthersUnchanged
  <2> QED  BY <1>2, <1>3, <2>1, <2>2, StringEncoded
<1>4. CASE f.type # "string"
  BY <1>2, <1>4, NumberEncoded
<1> QED  BY <1>3, <1>4

(* The registers of the field, and what the host makes of them.            *)
FieldTyped == Field \in [1..FieldRegisters(host) -> Register]
Got == IF host.type = "string" THEN ReadString ELSE Decode(Field, host)

OutKinds == {"value", "configuration", "unicode", "overflow"}

LEMMA OutFacts ==
  /\ \A v : Value(v).kind = "value" /\ Value(v).value = v
  /\ \A k : Raise(k).kind = k
  /\ \A op, out : /\ Read(op, out).op = op /\ Read(op, out).kind = out.kind
                  /\ Read(op, out).value = out.value
  /\ \A op, out, asked : /\ Wrote(op, out, asked).op = op /\ Wrote(op, out, asked).kind = out.kind
                         /\ Wrote(op, out, asked).asked = asked
  /\ NoCall.op = "none" /\ NoCall.kind = "value"
BY DEF Value, Raise, Read, Wrote, NoCall

(* read_string by the cut of what it decodes.                              *)
LEMMA ReadStringIs ==
  ASSUME host \in Formats, host.type = "string"
  PROVE  LET out == DecodeString(Field, host.byteOrder, FALSE)
             cut == CutText(out.value, host)
         IN ReadString = IF out.kind # "value" THEN out
                         ELSE Value(IF host.strip THEN StripRight(cut, Nul) ELSE cut)
<1>1. ~((host.registerCount = None) = (host.byteCount = None))
  BY FormatFacts
<1> QED  BY <1>1 DEF ReadString, CutText

LEMMA CutTextTyped ==
  ASSUME NEW f \in Formats, f.type = "string", NEW text \in Seq(Char)
  PROVE  CutText(text, f) \in Seq(Char)
<1>1. f.byteCount # None => f.byteCount \in Nat
  BY RoomFacts
<1>2. Len(text) \in Nat
  BY LenProperties
<1>3. CASE f.byteCount = None \/ f.byteCount > Len(text)
  BY <1>3 DEF CutText
<1>4. CASE ~(f.byteCount = None \/ f.byteCount > Len(text))
  <2> DEFINE b == f.byteCount
             l == Len(text)
  <2>1. b \in Nat /\ l \in Nat /\ ~(b > l)
    BY <1>1, <1>2, <1>4
  <2> HIDE DEF b, l
  <2>2. b \in 0..l
    BY <2>1
  <2>3. SubSeq(text, 1, b) \in Seq(Char)
    BY <2>2, FirstOf DEF l
  <2> QED  BY <1>4, <2>3 DEF CutText, b
<1> QED  BY <1>3, <1>4

(* A string that is read is a text, or it is not read.                     *)
LEMMA ReadStringTyped ==
  ASSUME host \in Formats, host.type = "string", FieldTyped
  PROVE  \/ ReadString = Raise("unicode")
         \/ \E text \in Seq(Char) : ReadString = Value(text)
<1> DEFINE out == DecodeString(Field, host.byteOrder, FALSE)
           cut == CutText(out.value, host)
<1>1. FieldRegisters(host) \in Nat
  BY FormatFacts
<1>2. out = Raise("unicode") \/ \E text \in Seq(Char) : out = Value(text)
  BY <1>1, DecodeStringTyped DEF FieldTyped
<1>3. ReadString = IF out.kind # "value" THEN out
                   ELSE Value(IF host.strip THEN StripRight(cut, Nul) ELSE cut)
  BY ReadStringIs
<1> HIDE DEF out
<1>4. CASE out = Raise("unicode")
  BY <1>3, <1>4, OutFacts
<1>5. ASSUME NEW text \in Seq(Char), out = Value(text)
      PROVE  \E t \in Seq(Char) : ReadString = Value(t)
  <2>1. out.kind = "value" /\ out.value = text
    BY <1>5, OutFacts
  <2>2. cut \in Seq(Char)
    BY <2>1, CutTextTyped
  <2> HIDE DEF cut
  <2>3. StripRight(cut, Nul) \in Seq(Char)
    BY <2>2, StripTyped
  <2>4. ReadString = Value(IF host.strip THEN StripRight(cut, Nul) ELSE cut)
    BY <1>3, <2>1
  <2> QED  BY <2>2, <2>3, <2>4
<1> QED  BY <1>2, <1>4, <1>5

(* The registers a number is written back to: they say the number still,   *)
(* and are the ones it was read from, but where struct changes it.         *)
WritesBack(v) ==
  \E w \in [1..FieldRegisters(host) -> Register] :
    /\ Encode(v, host) = Value(w)
    /\ Decode(w, host) = Decode(Field, host)
    /\ w = Field \/ Changing(Field, host)

(* What a call returns is a value of the format, or it names what it lacks. *)
LEMMA GotTyped ==
  ASSUME host \in Formats, FieldTyped
  PROVE  /\ Got.kind \in OutKinds /\ (Got.kind = "value" => Got.value \in ValuesOf(host))
         /\ Decode(Field, host).kind \in OutKinds
         /\ Decode(Field, host).kind = "value" => Decode(Field, host).value \in ValuesOf(host)
         /\ host.type # "string" =>
              /\ Got = Decode(Field, host) /\ Got.kind = "value"
              /\ WritesBack(Got.value)
<1>1. CASE host.type = "string"
  <2> DEFINE d == DecodeString(Field, host.byteOrder, host.strip)
             g == ReadString
  <2>1. host.strip \in BOOLEAN /\ FieldRegisters(host) \in Nat
    BY FormatFacts
  <2>2. d = Raise("unicode") \/ \E text \in Seq(Char) : d = Value(text)
    BY <2>1, DecodeStringTyped DEF FieldTyped
  <2>3. g = Raise("unicode") \/ \E text \in Seq(Char) : g = Value(text)
    BY <1>1, ReadStringTyped
  <2>4. ValuesOf(host) = Seq(Char)
    BY <1>1 DEF ValuesOf, Char, Integer
  <2>5. Got = g /\ Decode(Field, host) = d
    BY <1>1 DEF Got, Decode
  <2> HIDE DEF d, g
  <2>6. d.kind \in OutKinds /\ (d.kind = "value" => d.value \in Seq(Char))
    BY <2>2, OutFacts DEF OutKinds
  <2>7. g.kind \in OutKinds /\ (g.kind = "value" => g.value \in Seq(Char))
    BY <2>3, OutFacts DEF OutKinds
  <2> QED  BY <1>1, <2>4, <2>5, <2>6, <2>7
<1>2. CASE host.type # "string"
  <2> DEFINE d == Decode(Field, host)
  <2>1. Got = d
    BY <1>2 DEF Got
  <2>2. d = Value(d.value) /\ d.value \in ValuesOf(host) /\ WritesBack(d.value)
    BY <1>2, NumberDecoded DEF FieldTyped, WritesBack
  <2> HIDE DEF d
  <2>3. d.kind = "value"
    BY <2>2, OutFacts
  <2>4. d.kind \in OutKinds
    BY <2>3 DEF OutKinds
  <2> QED  BY <2>1, <2>2, <2>3, <2>4 DEF d
<1> QED  BY <1>1, <1>2

(* A string the device stored is read as the field's text, and decoded as  *)
(* it where no byte is to spare.                                           *)
Shown(text, f) == IF f.strip THEN StripRight(FieldText(text, f), Nul) ELSE FieldText(text, f)

LEMMA StringShown ==
  ASSUME host \in Formats, host.type = "string", NEW text \in Seq(Char), NEW spare \in Byte,
         Holds(text, host), IsText(host.pad), IsText(spare), CutIsExact(text, host),
         Field = DeviceWords(text, host, spare)
  PROVE  /\ ReadString = Value(Shown(text, host))
         /\ SpareByte(host) = {} => Decode(Field, host) = Value(Shown(text, host))
<1> DEFINE w == Whole(text, host, spare)
           out == DecodeString(Field, host.byteOrder, FALSE)
           t == FieldText(text, host)
<1>1. /\ out = Value(w)
      /\ DecodeString(Field, host.byteOrder, TRUE) = Value(StripRight(w, Nul))
  BY StringDecodes
<1>2. CutText(w, host) = t
  BY CutTextOf
<1>3. SpareByte(host) = {} => CutText(w, host) = w
  BY WholeUncut
<1>4. ReadString = IF out.kind # "value" THEN out
                   ELSE Value(IF host.strip THEN StripRight(CutText(out.value, host), Nul)
                              ELSE CutText(out.value, host))
  BY ReadStringIs
<1>5. Decode(Field, host) = DecodeString(Field, host.byteOrder, host.strip) /\ host.strip \in BOOLEAN
  BY FormatFacts DEF Decode
<1> HIDE DEF w, out, t
<1>6. out.kind = "value" /\ out.value = w
  BY <1>1, OutFacts
<1>7. ReadString = Value(IF host.strip THEN StripRight(t, Nul) ELSE t)
  BY <1>2, <1>4, <1>6
<1>8. ASSUME SpareByte(host) = {} PROVE Decode(Field, host) = Value(IF host.strip THEN StripRight(t, Nul) ELSE t)
  <2>1. w = t
    BY <1>2, <1>3, <1>8
  <2>2. CASE host.strip = TRUE
    BY <1>1, <1>5, <2>1, <2>2
  <2>3. CASE host.strip = FALSE
    BY <1>1, <1>5, <2>1, <2>3 DEF out
  <2> QED  BY <1>5, <2>2, <2>3
<1> QED  BY <1>7, <1>8 DEF Shown, t

-----------------------------------------------------------------------------
(* The invariant: what is in the registers, and what the last call made of *)
(* them.                                                                   *)

Wide == FieldRegisters(device)

Formed ==
  /\ device \in Formats /\ host \in Formats /\ Unordered(host) = Unordered(device)
  /\ Cells(mem, Wide)
  /\ held = None \/ held \in ValuesOf(device)

Called ==
  /\ last.op \in {"none", "read", "decode", "write", "write_back"} /\ last.kind \in OutKinds
  /\ last.op = "read" => last = Read("read", Got)
  /\ last.op = "decode" => last = Read("decode", Decode(Field, host))

(* The last value stored is what the field's registers say, as struct has  *)
(* it if a call stored it.                                                 *)
Stored ==
  (host = device /\ held # None) =>
    /\ Holds(held, device)
    /\ \E spare \in Spares \cup {device.pad}, v \in {held, Quieted(held, device)} :
         Field = DeviceWords(v, device, spare)

Written ==
  (host = device /\ last.op \in {"write", "write_back"} /\ last.kind = "value") =>
    Field = DeviceWords(Quieted(last.asked, device), device, device.pad)

Inv == Formed /\ Called /\ Stored /\ Written /\ RefusedOnlyIfUnfit

LEMMA FieldIs == Field = Middle(mem)
BY DEF Field, Middle

LEMMA FormedFacts ==
  ASSUME Formed
  PROVE  /\ Wide \in Nat /\ FieldRegisters(host) = Wide /\ FieldTyped
         /\ ValuesOf(host) = ValuesOf(device) /\ host.type = device.type
         /\ \A spare \in Spares \cup {device.pad} : spare \in Byte
<1>1. device \in Formats /\ host \in Formats /\ Unordered(host) = Unordered(device)
  BY DEF Formed
<1>2. FieldRegisters(host) = Wide /\ ValuesOf(host) = ValuesOf(device) /\ host.type = device.type
  BY <1>1, UnorderedFacts DEF Wide
<1>3. Wide \in Nat
  BY <1>1, FormatFacts DEF Wide
<1>4. mem \in [1..(Wide + 2) -> Register]
  BY DEF Formed, Cells
<1>5. Middle(mem) \in [1..Wide -> Register]
  BY <1>3, <1>4, MiddleIs
<1>6. \A spare \in Spares \cup {device.pad} : spare \in Byte
  BY <1>1, FormatFacts, FieldAssumption
<1> QED  BY <1>2, <1>3, <1>5, <1>6, FieldIs DEF FieldTyped

(* What a call has read is a value, and a number it has read can be written *)
(* back.                                                                   *)
LEMMA ReadBack ==
  ASSUME Formed, Called, last.op \in {"read", "decode"}, last.kind = "value"
  PROVE  /\ last.value \in ValuesOf(host)
         /\ host.type # "string" => WritesBack(last.value)
<1>1. host \in Formats /\ FieldTyped
  BY FormedFacts DEF Formed
<1> DEFINE g == Got
           d == Decode(Field, host)
<1>2. /\ g.kind = "value" => g.value \in ValuesOf(host)
      /\ d.kind = "value" => d.value \in ValuesOf(host)
      /\ host.type # "string" => g = d /\ WritesBack(g.value)
  BY <1>1, GotTyped
<1>3. last = Read("read", g) \/ last = Read("decode", d)
  BY DEF Called
<1> HIDE DEF g, d
<1>4. \/ last.value = g.value /\ last.kind = g.kind
      \/ last.value = d.value /\ last.kind = d.kind
  <2>1. CASE last = Read("read", g)
    BY <2>1, OutFacts
  <2>2. CASE last = Read("decode", d)
    BY <2>2, OutFacts
  <2> QED  BY <1>3, <2>1, <2>2
<1> QED  BY <1>2, <1>4

LEMMA Initially == Init => Inv
<1> SUFFICES ASSUME Init PROVE Inv
  OBVIOUS
<1> DEFINE zeros == [i \in 1..Wide |-> 0]
<1>1. /\ device \in Formats /\ host \in Formats /\ Unordered(host) = Unordered(device)
      /\ mem = <<Guard>> \o zeros \o <<Guard>> /\ held = None /\ last = NoCall
  BY DEF Init, Wide
<1>2. Wide \in Nat
  BY <1>1, FormatFacts DEF Wide
<1>3. zeros \in [1..Wide -> Register]
  <2>1. 0 \in Register
    <3>1. Base \in Nat /\ Base > 1
      BY BaseFacts
    <3>2. Base * Base > 0 /\ Base * Base \in Int
      BY <3>1
    <3> QED  BY <3>2 DEF Register
  <2> QED  BY <2>1
<1>4. Cells(mem, Wide)
  <2> HIDE DEF zeros
  <2> QED  BY <1>1, <1>2, <1>3, StoredCells
<1>5. Formed
  BY <1>1, <1>4 DEF Formed
<1>6. last.op = "none" /\ last.kind = "value"
  BY <1>1, OutFacts
<1>7. Called
  BY <1>6 DEF Called, OutKinds
<1>8. Stored /\ Written /\ RefusedOnlyIfUnfit
  BY <1>1, <1>6 DEF Stored, Written, RefusedOnlyIfUnfit
<1> QED  BY <1>5, <1>7, <1>8 DEF Inv

(* A write_* call: the field is written as the device has it, or nothing   *)
(* is.                                                                     *)
LEMMA WriteKeeps ==
  ASSUME Inv, NEW op \in {"write", "write_back"}, NEW value \in ValuesOf(host), Write(op, value)
  PROVE  Inv'
<1> DEFINE out == Encode(value, host)
           words == DeviceWords(Quieted(value, host), host, host.pad)
<1>1. device' = device /\ host' = host /\ last' = Wrote(op, out, value)
  BY DEF Write
<1>2. /\ Formed /\ Stored /\ Cells(mem, Wide)
      /\ device \in Formats /\ host \in Formats /\ Unordered(host) = Unordered(device)
      /\ held = None \/ held \in ValuesOf(device)
  BY DEF Inv, Formed
<1>3. /\ Wide \in Nat /\ FieldRegisters(host) = Wide /\ ValuesOf(host) = ValuesOf(device)
      /\ Wide' = Wide
  BY <1>1, <1>2, FormedFacts DEF Wide, Inv
<1>4. /\ Holds(value, host) => out = Value(words) /\ words \in [1..Wide -> Register]
      /\ ~Holds(value, host) => out \in {Raise("configuration"), Raise("overflow")}
  BY <1>2, <1>3, Encoded, FormatFacts DEF Inv, Formed
<1> HIDE DEF words, out
<1>5. /\ Holds(value, host) => out.kind = "value" /\ out.value = words
      /\ ~Holds(value, host) => out.kind \in {"configuration", "overflow"}
  BY <1>4, OutFacts
<1>6. last'.op = op /\ last'.kind = out.kind /\ last'.asked = value
  BY <1>1, OutFacts
<1>7. Called' /\ RefusedOnlyIfUnfit'
  <2>1. last'.kind \in OutKinds
    BY <1>5, <1>6 DEF OutKinds
  <2>2. Called'
    BY <1>6, <2>1 DEF Called, OutKinds
  <2>3. last'.kind = "value" <=> Holds(value, host)
    BY <1>5, <1>6
  <2>4. RefusedOnlyIfUnfit'
    BY <1>1, <1>6, <2>3 DEF RefusedOnlyIfUnfit
  <2> QED  BY <2>2, <2>4
<1>8. CASE Holds(value, host)
  <2>1. mem' = Over(mem, words) /\ held' = value
    BY <1>5, <1>8 DEF Write, Over, out
  <2>2. Cells(mem', Wide) /\ Middle(mem') = words
    <3>1. Cells(Over(mem, words), Wide) /\ Middle(Over(mem, words)) = words
      BY <1>2, <1>3, <1>4, <1>8, WrittenCells
    <3> QED  BY <2>1, <3>1
  <2>3. Formed'
    <3>1. Cells(mem', Wide')
      BY <1>3, <2>2
    <3>2. held' \in ValuesOf(device')
      BY <1>1, <1>3, <2>1
    <3> QED  BY <1>1, <1>2, <3>1, <3>2 DEF Formed
  <2>4. Field' = words
    BY <2>2, FieldIs DEF Field, Middle
  <2>5. host = device => words = DeviceWords(Quieted(value, device), device, device.pad)
    BY DEF words
  <2>6. Written'
    BY <1>1, <1>6, <2>4, <2>5 DEF Written
  <2>7. Stored'
    BY <1>1, <1>8, <2>1, <2>4, <2>5 DEF Stored
  <2> QED  BY <1>7, <2>3, <2>6, <2>7 DEF Inv
<1>9. CASE ~Holds(value, host)
  <2>1. mem' = mem /\ held' = held
    BY <1>5, <1>9 DEF Write, out
  <2>2. Formed'
    <3>1. Cells(mem', Wide')
      BY <1>2, <1>3, <2>1
    <3> QED  BY <1>1, <1>2, <2>1, <3>1 DEF Formed
  <2>3. Field' = Field
    BY <2>1 DEF Field
  <2>4. Stored'
    BY <1>1, <1>2, <2>1, <2>3 DEF Stored
  <2>5. Written'
    BY <1>5, <1>6, <1>9 DEF Written
  <2> QED  BY <1>7, <2>2, <2>4, <2>5 DEF Inv
<1> QED  BY <1>8, <1>9

(* A read_* call or decode: the registers are left as they are.            *)
LEMMA ReadKeeps ==
  ASSUME Inv, UNCHANGED <<device, host, mem, held>>,
         \/ last' = Read("read", Got)
         \/ last' = Read("decode", Decode(Field, host))
  PROVE  Inv'
<1>1. Formed /\ Stored /\ host \in Formats /\ FieldTyped
  BY FormedFacts DEF Inv, Formed
<1>2. Formed' /\ Stored' /\ Got' = Got /\ Decode(Field, host)' = Decode(Field, host)
  BY <1>1 DEF Formed, Stored, Field, Got, ReadString, Wide
<1>3. Got.kind \in OutKinds /\ Decode(Field, host).kind \in OutKinds
  BY <1>1, GotTyped
<1>4. /\ last'.op \in {"read", "decode"} /\ last'.kind \in OutKinds
      /\ last'.op = "read" => last' = Read("read", Got)
      /\ last'.op = "decode" => last' = Read("decode", Decode(Field, host))
  <2> DEFINE g == Got
             d == Decode(Field, host)
  <2> HIDE DEF g, d
  <2>1. CASE last' = Read("read", g)
    BY <1>3, <2>1, OutFacts DEF g
  <2>2. CASE last' = Read("decode", d)
    BY <1>3, <2>2, OutFacts DEF d
  <2> QED  BY <2>1, <2>2 DEF g, d
<1>5. Called'
  BY <1>2, <1>4 DEF Called
<1>6. Written' /\ RefusedOnlyIfUnfit'
  BY <1>4 DEF Written, RefusedOnlyIfUnfit
<1> QED  BY <1>2, <1>5, <1>6 DEF Inv

LEMMA DeviceStoresKeeps ==
  ASSUME Inv, DeviceStores
  PROVE  Inv'
<1>1. PICK value \in Values(device), spare \in Spares :
        /\ Holds(value, device)
        /\ mem' = <<Guard>> \o DeviceWords(value, device, spare) \o <<Guard>>
        /\ held' = value /\ last' = NoCall /\ UNCHANGED <<device, host>>
  BY DEF DeviceStores
<1>2. Formed /\ device \in Formats
  BY DEF Inv, Formed
<1>3. value \in ValuesOf(device) /\ spare \in Byte
  BY <1>1, <1>2, FieldAssumption
<1>4. Wide \in Nat /\ Wide' = Wide
  BY <1>1, <1>2, FormedFacts DEF Wide
<1> DEFINE words == DeviceWords(value, device, spare)
<1>5. words \in [1..Wide -> Register]
  BY <1>1, <1>2, <1>3, WordsTyped DEF Wide
<1>6. Cells(mem', Wide) /\ Middle(mem') = words
  <2>1. mem' = <<Guard>> \o words \o <<Guard>>
    BY <1>1
  <2> HIDE DEF words
  <2> QED  BY <1>4, <1>5, <2>1, StoredCells
<1>7. Formed'
  BY <1>1, <1>2, <1>3, <1>4, <1>6 DEF Formed
<1>8. Field' = words
  BY <1>6 DEF Field, Middle
<1>9. Stored'
  BY <1>1, <1>8 DEF Stored
<1>10. last'.op = "none" /\ last'.kind = "value"
  BY <1>1, OutFacts
<1>11. Called' /\ Written' /\ RefusedOnlyIfUnfit'
  BY <1>10 DEF Called, Written, RefusedOnlyIfUnfit, OutKinds
<1> QED  BY <1>7, <1>9, <1>11 DEF Inv

LEMMA StepsKeep ==
  ASSUME Inv, [Next]_vars
  PROVE  Inv'
<1>1. Formed /\ Called /\ host \in Formats /\ FieldTyped
  BY FormedFacts DEF Inv, Formed
<1>2. CASE HostWrites
  <2>1. PICK value \in Values(host) : Write("write", value)
    BY <1>2 DEF HostWrites
  <2>2. value \in ValuesOf(host)
    BY <1>1, FieldAssumption
  <2> QED  BY <2>1, <2>2, WriteKeeps
<1>3. CASE HostWritesBack
  <2>1. last.op \in {"read", "decode"} /\ last.kind = "value" /\ Write("write_back", last.value)
    BY <1>3 DEF HostWritesBack
  <2>2. last.value \in ValuesOf(host)
    BY <1>1, <2>1, ReadBack
  <2> QED  BY <2>1, <2>2, WriteKeeps
<1>4. CASE HostDecodes
  BY <1>4, ReadKeeps DEF HostDecodes
<1>5. CASE HostReads
  BY <1>5, ReadKeeps DEF HostReads, Got
<1>6. CASE DeviceStores
  BY <1>6, DeviceStoresKeeps
<1>7. CASE UNCHANGED vars
  BY <1>7 DEF vars, Inv, Formed, Called, Stored, Written, RefusedOnlyIfUnfit, Wide, Field, Got, ReadString
<1> QED  BY <1>2, <1>3, <1>4, <1>5, <1>6, <1>7 DEF Next

(* The bytes that may stand behind a text are characters of their own: what *)
(* they are read as is a text again.                                       *)
SingleByteText == \A b \in Spares \cup {f.pad : f \in Formats} : IsText(b)

LEMMA ShownIs ==
  ASSUME NEW text, NEW f
  PROVE  ReadsText(text, f) <=> last.value = Shown(text, f)
BY DEF ReadsText, Shown, FieldText

LEMMA Agreement ==
  ASSUME Inv, SingleByteText
  PROVE  HostAndDeviceAgree
<1> SUFFICES ASSUME host = device, held # None
             PROVE  /\ last.op \in {"write", "write_back"} /\ last.kind = "value" =>
                         Field = DeviceWords(Quieted(last.asked, device), device, device.pad)
                    /\ (last.op = "read" \/ (last.op = "decode" /\ SpareByte(device) = {})) =>
                         IF device.type # "string"
                         THEN last.kind = "value" /\ last.value = Quieted(held, device)
                         ELSE CutIsExact(held, device) => (last.kind = "value" /\ ReadsText(held, device))
  BY DEF HostAndDeviceAgree
<1>1. /\ Formed /\ device \in Formats /\ held \in ValuesOf(device)
      /\ Holds(held, device) /\ FieldTyped
  BY FormedFacts DEF Inv, Formed, Stored
<1>2. PICK spare \in Spares \cup {device.pad}, v \in {held, Quieted(held, device)} :
        Field = DeviceWords(v, device, spare)
  BY DEF Inv, Stored
<1>3. spare \in Byte /\ IsText(spare) /\ IsText(device.pad)
  BY <1>1, FormedFacts DEF SingleByteText
<1>4. /\ last.op = "read" => last = Read("read", Got)
      /\ last.op = "decode" => last = Read("decode", Decode(Field, host))
  BY DEF Inv, Called
<1>5. last.op \in {"write", "write_back"} /\ last.kind = "value" =>
        Field = DeviceWords(Quieted(last.asked, device), device, device.pad)
  BY DEF Inv, Written
<1>6. ASSUME device.type # "string", last.op \in {"read", "decode"}
      PROVE  last.kind = "value" /\ last.value = Quieted(held, device)
  <2> DEFINE q == Quieted(held, device)
  <2>0. q \in ValuesOf(device) /\ Holds(q, device) /\ Quieted(q, device) = q
    BY <1>1, QuietedFacts
  <2> HIDE DEF q
  <2>1. Decode(Field, host) = Value(q)
    <3>1. CASE v = held
      BY <1>1, <1>2, <1>6, <3>1, NumberRoundTrip DEF q
    <3>2. CASE v = q
      BY <1>1, <1>2, <1>6, <2>0, <3>2, NumberRoundTrip
    <3> QED  BY <3>1, <3>2 DEF q
  <2>2. Got = Decode(Field, host)
    BY <1>6 DEF Got
  <2>3. last = Read("read", Value(q)) \/ last = Read("decode", Value(q))
    BY <1>4, <1>6, <2>1, <2>2
  <2> QED  BY <2>3, OutFacts DEF q
<1>7. ASSUME device.type = "string", CutIsExact(held, device),
             last.op = "read" \/ (last.op = "decode" /\ SpareByte(device) = {})
      PROVE  last.kind = "value" /\ ReadsText(held, device)
  <2>1. held \in Seq(Char)
    BY <1>1, <1>7, ValueFacts
  <2>2. Field = DeviceWords(held, device, spare)
    BY <1>2, <1>7, OthersUnchanged
  <2>3. /\ ReadString = Value(Shown(held, device))
        /\ SpareByte(device) = {} => Decode(Field, host) = Value(Shown(held, device))
    BY <1>1, <1>3, <1>7, <2>1, <2>2, StringShown
  <2>4. Got = ReadString
    BY <1>7 DEF Got
  <2> DEFINE t == Shown(held, device)
  <2>5. last = Read("read", Value(t)) \/ last = Read("decode", Value(t))
    BY <1>4, <1>7, <2>3, <2>4
  <2> HIDE DEF t
  <2>6. last.kind = "value" /\ last.value = t
    BY <2>5, OutFacts
  <2> QED  BY <2>6, ShownIs DEF t
<1> QED  BY <1>5, <1>6, <1>7

LEMMA InvHolds == Spec => []Inv
<1>1. Init => Inv
  BY Initially
<1>2. Inv /\ [Next]_vars => Inv'
  BY StepsKeep
<1> QED  BY <1>1, <1>2, PTL DEF Spec

-----------------------------------------------------------------------------
(* Theorems                                                                *)

(* Registers stay registers whatever is written to them, and a call ends in *)
(* a value or in one of the errors the decoders raise.                     *)
THEOREM TypesKept == Spec => []TypeOK
<1>1. Inv => TypeOK
  <2> SUFFICES ASSUME Inv PROVE TypeOK
    OBVIOUS
  <2>1. /\ device \in Formats /\ host \in Formats /\ mem \in [1..(Wide + 2) -> Register]
        /\ last.op \in {"none", "read", "decode", "write", "write_back"} /\ last.kind \in OutKinds
    BY DEF Inv, Formed, Called, Cells
  <2>2. Wide \in Nat
    BY FormedFacts DEF Inv
  <2>3. Len(mem) = Wide + 2 /\ DOMAIN mem = 1..(Wide + 2)
    BY <2>1, <2>2, MiddleIs
  <2> QED  BY <2>1, <2>3 DEF TypeOK, OutKinds, Wide
<1> QED  BY <1>1, InvHolds, PTL

(* No call and no store of the device changes the registers on either side *)
(* of the field, whatever its type, length and orders.                     *)
THEOREM NeighboursKept == Spec => []NeighboursSpared
<1>1. Inv => NeighboursSpared
  <2> SUFFICES ASSUME Inv PROVE NeighboursSpared
    OBVIOUS
  <2>1. Cells(mem, Wide) /\ Wide \in Nat
    BY FormedFacts DEF Inv, Formed
  <2>2. Len(mem) = Wide + 2
    BY <2>1, MiddleIs DEF Cells
  <2> QED  BY <2>1, <2>2 DEF NeighboursSpared, Cells
<1> QED  BY <1>1, InvHolds, PTL

(* encode refuses exactly the values the field cannot hold: the bounds of   *)
(* every integer type, signed or not, and the length of a string in bytes. *)
THEOREM RefusalsAreRight == Spec => []RefusedOnlyIfUnfit
<1>1. Inv => RefusedOnlyIfUnfit
  BY DEF Inv
<1> QED  BY <1>1, InvHolds, PTL

(* A number read with any orders, even the wrong ones, is written back, and *)
(* the registers then say that number still.  They are the same registers,  *)
(* bit for bit, for every integer type and float64, and for a float32       *)
(* unless the host read a signalling NaN and struct made it a quiet one.    *)
THEOREM WriteBackKeepsNumber == Spec => WriteBackKeepsMemory
<1>1. ASSUME Inv, [Next]_vars, last'.op = "write_back", device.type # "string", vars' # vars
      PROVE  /\ last'.kind = "value"
             /\ Decode(Field, host)' = Decode(Field, host)
             /\ mem' = mem \/ Changing(Field, host)
  <2>1. Formed /\ Called /\ host.type # "string" /\ Wide \in Nat /\ Field \in [1..Wide -> Register]
    BY <1>1, FormedFacts DEF Inv, FieldTyped
  <2>2. HostWritesBack
    <3>1. ~HostWrites
      <4>1. \A value : Write("write", value) => last'.op = "write"
        BY OutFacts DEF Write
      <4> QED  BY <1>1, <4>1 DEF HostWrites
    <3>2. ~HostDecodes
      BY <1>1, OutFacts DEF HostDecodes
    <3>3. ~HostReads
      BY <1>1, OutFacts DEF HostReads
    <3>4. ~DeviceStores
      BY <1>1, OutFacts DEF DeviceStores
    <3> QED  BY <1>1, <3>1, <3>2, <3>3, <3>4 DEF Next
  <2>3. last.op \in {"read", "decode"} /\ last.kind = "value" /\ Write("write_back", last.value)
    BY <2>2 DEF HostWritesBack
  <2>4. PICK w \in [1..FieldRegisters(host) -> Register] :
          /\ Encode(last.value, host) = Value(w)
          /\ Decode(w, host) = Decode(Field, host)
          /\ w = Field \/ Changing(Field, host)
    <3>1. WritesBack(last.value)
      BY <2>1, <2>3, ReadBack
    <3> QED  BY <3>1 DEF WritesBack
  <2> DEFINE out == Encode(last.value, host)
  <2> HIDE DEF out
  <2>5. out.kind = "value" /\ out.value = w
    BY <2>4, OutFacts DEF out
  <2>6. mem' = Over(mem, w) /\ last' = Wrote("write_back", out, last.value) /\ host' = host
    BY <2>3, <2>5 DEF Write, Over, out
  <2>7. last'.kind = "value"
    BY <2>5, <2>6, OutFacts
  <2>8. Cells(mem, Wide) /\ Middle(mem) = Field /\ FieldRegisters(host) = Wide
    BY <2>1, FieldIs, FormedFacts DEF Formed
  <2>9. Middle(Over(mem, w)) = w /\ (Field = w => Over(mem, w) = mem)
    BY <2>1, <2>4, <2>8, WrittenCells
  <2>10. Field' = w
    BY <2>6, <2>9 DEF Field, Middle
  <2>11. Decode(Field, host)' = Decode(w, host)
    BY <2>6, <2>10
  <2> QED  BY <2>4, <2>6, <2>7, <2>9, <2>11
<1>2. Inv /\ [Next]_vars =>
        [(last'.op = "write_back" /\ device.type # "string") =>
           /\ last'.kind = "value"
           /\ Decode(Field, host)' = Decode(Field, host)
           /\ mem' = mem \/ Changing(Field, host)]_vars
  BY <1>1
<1> QED  BY <1>2, InvHolds, PTL DEF Spec, WriteBackKeepsMemory

(* A host that knows the device's orders reads what the device stored and   *)
(* stores what the device looks for: every integer type, floats (but that   *)
(* struct may make a signalling NaN of a float32 a quiet one), and texts of *)
(* every encoding that is prefix-free, cut, padded and stripped.  The       *)
(* hypothesis says that padding and spare bytes decode at all.              *)
THEOREM HostReadsTheDevice ==
  ASSUME SingleByteText
  PROVE  Spec => []HostAndDeviceAgree
<1>1. Inv => HostAndDeviceAgree
  BY Agreement
<1> QED  BY <1>1, InvHolds, PTL
=============================================================================
