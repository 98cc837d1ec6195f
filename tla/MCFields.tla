------------------------------- MODULE MCFields -------------------------------
(* Fields of every type for TLC, in bytes of four values.                  *)
EXTENDS Fields

CONSTANTS a, e

MCEncoding == (Nul :> <<0>>) @@ (a :> <<1>>) @@ (e :> <<2, 3>>)

Number(type, wordOrder, byteOrder) ==
  [type |-> type, wordOrder |-> wordOrder, byteOrder |-> byteOrder,
   registerCount |-> None, byteCount |-> None, pad |-> 0, strip |-> TRUE]

Text(registerCount, byteCount, byteOrder, pad, strip) ==
  [type |-> "string", wordOrder |-> "high_low", byteOrder |-> byteOrder,
   registerCount |-> registerCount, byteCount |-> byteCount, pad |-> pad, strip |-> strip]

Lengths == {<<2, None>>, <<None, 3>>, <<None, 4>>}

MCFormats ==
  {Number(t, w, b) : t \in Integer \cup Float, w \in WordOrders, b \in ByteOrders} \cup
  {Text(n[1], n[2], b, pad, strip) :
     n \in Lengths, b \in ByteOrders, pad \in {0, 1}, strip \in BOOLEAN}

(* Both ends of a number's range and past them, and one whose bytes differ. *)
MCValues(f) ==
  LET n == 2 * FieldRegisters(f)
      size == Base^n
      ascending == [i \in 1..n |-> i % Base]
  IN
  CASE f.type \in Signed ->
         {-(size \div 2) - 1, -(size \div 2), -1, 0, 27 % size, size \div 2 - 1, size \div 2}
    [] f.type \in Integer \ Signed -> {-1, 0, 27, size \div 2, size - 1, size}
    [] f.type = "float32" -> {ascending, Reverse(ascending), Huge}
    [] f.type = "float64" -> {ascending, Reverse(ascending)}
    [] f.type = "string"  -> {<<>>, <<a>>, <<a, a, a>>, <<a, Nul>>, <<e>>, <<e, a>>, <<e, e>>,
                              <<a, e, a, a>>}
=============================================================================
