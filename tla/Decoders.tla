------------------------------- MODULE Decoders -------------------------------
(***************************************************************************)
(* anymodbus.decoders: numbers and strings in registers.                   *)
(*                                                                         *)
(* A byte is below Base, 256 in the code: with a small Base the numbers of *)
(* eight bytes stay within TLC's integers.  A float is the sequence of the *)
(* bytes that struct gives it; struct itself is external, and what it does *)
(* with a signalling NaN is a parameter.  A format names the type of a     *)
(* field, its orders, and for a string its length, padding and stripping.  *)
(***************************************************************************)
EXTENDS Integers, SequencesExt

CONSTANTS
  Base,     \* how many values a byte has
  Encoding, \* character -> its bytes
  Nul,      \* the character of the byte 0
  Huge,     \* a number too large for a float32
  StructQuiets, \* struct makes a float32's signalling NaN a quiet one
  None      \* a count that is not given, a value there is not

ASSUME DecoderAssumption ==
  /\ Base \in Nat \ {0} /\ Base % 4 = 0
  /\ \A c \in DOMAIN Encoding : Encoding[c] \in Seq(0..(Base - 1)) /\ Encoding[c] # <<>>
  /\ \A c, d \in DOMAIN Encoding : c # d => ~IsPrefix(Encoding[c], Encoding[d])
  /\ \A c \in DOMAIN Encoding \ {Nul} : Encoding[c][Len(Encoding[c])] # 0
  /\ Nul \in DOMAIN Encoding /\ Encoding[Nul] = <<0>>
  /\ None \notin Int
  /\ StructQuiets \in BOOLEAN

WordOrders == {"high_low", "low_high"}
ByteOrders == {"big", "little"}
Integer    == {"int16", "uint16", "int32", "uint32", "int64", "uint64"}
Float      == {"float32", "float64"}
Signed     == {"int16", "int32", "int64"}

(* register_count_for, for the types other than string.                     *)
RegistersOf(type) ==
  CASE type \in {"int16", "uint16"}            -> 1
    [] type \in {"int32", "uint32", "float32"} -> 2
    [] type \in {"int64", "uint64", "float64"} -> 4

Value(v)    == [kind |-> "value", value |-> v]
Raise(kind) == [kind |-> kind, value |-> None]

-----------------------------------------------------------------------------
(* Registers and bytes                                                     *)

Byte     == 0..(Base - 1)
Register == 0..(Base * Base - 1)

HalvesUnswapped(pair, byteOrder) == pair
Halves(pair, byteOrder) == IF byteOrder = "big" THEN pair ELSE Reverse(pair)
Ordered(words, wordOrder) == IF wordOrder = "high_low" THEN words ELSE Reverse(words)

(* _pack_words.                                                             *)
PackBytes(words, wordOrder, byteOrder) ==
  LET ordered == Ordered(words, wordOrder)
      pair(w) == Halves(<<w \div Base, w % Base>>, byteOrder)
  IN [k \in 1..(2 * Len(words)) |-> pair(ordered[(k + 1) \div 2])[2 - (k % 2)]]

(* _unpack_to_words.                                                        *)
UnpackToWords(bytes, wordOrder, byteOrder) ==
  LET pair(i) == Halves(<<bytes[2 * i - 1], bytes[2 * i]>>, byteOrder) IN
  Ordered([i \in 1..(Len(bytes) \div 2) |-> Base * pair(i)[1] + pair(i)[2]], wordOrder)

-----------------------------------------------------------------------------
(* Numbers                                                                 *)

(* How many numbers n bytes can say.                                        *)
Size[n \in Nat] == IF n = 0 THEN 1 ELSE Base * Size[n - 1]

FitsLoosely(value, signed, n) ==
  LET half == Size[n] \div 2 IN
  IF signed THEN -half <= value /\ value <= half ELSE 0 <= value /\ value <= Size[n]

(* _check_int_range.                                                        *)
Fits(value, signed, n) ==
  LET half == Size[n] \div 2 IN
  IF signed THEN -half <= value /\ value < half ELSE 0 <= value /\ value < Size[n]

IntToBytesUnmasked(value, n) == [k \in 1..n |-> (value % Size[n]) \div Size[n - k]]
IntToBytes(value, n) == [k \in 1..n |-> ((value % Size[n]) \div Size[n - k]) % Base]

Unsigned(bytes) ==
  LET Upto[k \in 0..Len(bytes)] == IF k = 0 THEN 0 ELSE Base * Upto[k - 1] + bytes[k]
  IN Upto[Len(bytes)]

BytesToIntStrict(bytes, signed) ==
  LET u == Unsigned(bytes)
      size == Size[Len(bytes)]
  IN IF signed /\ u > size \div 2 THEN u - size ELSE u

BytesToInt(bytes, signed) ==
  LET u == Unsigned(bytes)
      size == Size[Len(bytes)]
  IN IF signed /\ u >= size \div 2 THEN u - size ELSE u

(* The exponent's bits set, the fraction's first not, and another of them.  *)
SignallingNaN(bytes) ==
  LET quarter == Base \div 4 IN
  /\ bytes[1] \in {2 * quarter - 1, 4 * quarter - 1}
  /\ 2 * quarter <= bytes[2] /\ bytes[2] < 3 * quarter
  /\ bytes[2] # 2 * quarter \/ bytes[3] # 0 \/ bytes[4] # 0

(* struct.pack and struct.unpack of a float32, which a Python float is not: *)
(* converted from or to a C double, a signalling NaN has that first bit set *)
(* by the hardware, unless struct sees to it (CPython 3.14).                *)
Quieted(value, f) ==
  IF f.type = "float32" /\ StructQuiets /\ SignallingNaN(value)
  THEN [value EXCEPT ![2] = @ + Base \div 4]
  ELSE value

EncodeNumber(value, f) ==
  LET n == 2 * RegistersOf(f.type)
      words(bytes) == Value(UnpackToWords(bytes, f.wordOrder, f.byteOrder))
  IN
  CASE f.type \in Integer -> IF Fits(value, f.type \in Signed, n) THEN words(IntToBytes(value, n))
                             ELSE Raise("configuration")
    [] f.type \in Float   -> IF f.type = "float32" /\ value = Huge THEN Raise("overflow")
                             ELSE words(Quieted(value, f))

DecodeNumber(words, f) ==
  LET bytes == PackBytes(words, f.wordOrder, f.byteOrder) IN
  IF Len(words) # RegistersOf(f.type) \/ \E i \in DOMAIN words : words[i] \notin Register
  THEN Raise("configuration")
  ELSE Value(IF f.type \in Float THEN Quieted(bytes, f) ELSE BytesToInt(bytes, f.type \in Signed))

-----------------------------------------------------------------------------
(* Strings                                                                 *)

TextToBytes(text) == FlattenSeq([i \in DOMAIN text |-> Encoding[text[i]]])

(* The texts the bytes from the i-th on decode to: one, or none.            *)
BytesToText(bytes) ==
  LET Texts[i \in 1..(Len(bytes) + 1)] ==
        IF i > Len(bytes) THEN {<<>>}
        ELSE UNION {{<<c>> \o text : text \in Texts[i + Len(Encoding[c])]} :
                    c \in {c \in DOMAIN Encoding :
                             IsPrefix(Encoding[c], SubSeq(bytes, i, Len(bytes)))}}
  IN IF Texts[1] = {} THEN Raise("unicode") ELSE Value(CHOOSE text \in Texts[1] : TRUE)

StripRight(s, x) ==
  LET kept == {i \in DOMAIN s : s[i] # x} IN
  IF kept = {} THEN <<>> ELSE SubSeq(s, 1, CHOOSE i \in kept : \A j \in kept : j <= i)

DecodeString(words, byteOrder, strip) ==
  LET raw == PackBytes(words, "high_low", byteOrder) IN
  IF \E i \in DOMAIN words : words[i] \notin Register THEN Raise("configuration")
  ELSE BytesToText(IF strip THEN StripRight(raw, 0) ELSE raw)

StringRegistersOver(byteCount) == byteCount \div 2 + 1
StringRegisters(byteCount) == (byteCount + 1) \div 2

(* encode_string.  Padding goes on to the end of the last register.         *)
EncodeString(text, f) ==
  LET raw    == TextToBytes(text)
      target == IF f.byteCount = None THEN 2 * f.registerCount ELSE f.byteCount
      count  == IF f.byteCount = None THEN f.registerCount ELSE StringRegisters(f.byteCount)
      padded == [i \in 1..(2 * count) |-> IF i <= Len(raw) THEN raw[i] ELSE f.pad]
  IN IF \/ (f.registerCount = None) = (f.byteCount = None)
        \/ target < 1
        \/ Len(raw) > target
     THEN Raise("configuration")
     ELSE Value(UnpackToWords(padded, "high_low", f.byteOrder))

-----------------------------------------------------------------------------
(* encode and decode                                                       *)

Encode(value, f) ==
  CASE f.type = "string" -> EncodeString(value, f)
    [] f.type # "string" /\ (f.registerCount \notin {None, RegistersOf(f.type)}
                             \/ f.byteCount # None) -> Raise("configuration")
    [] OTHER -> EncodeNumber(value, f)

Decode(words, f) ==
  IF f.type = "string" THEN DecodeString(words, f.byteOrder, f.strip) ELSE DecodeNumber(words, f)
=============================================================================
