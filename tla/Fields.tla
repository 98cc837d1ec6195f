-------------------------------- MODULE Fields --------------------------------
(***************************************************************************)
(* One field in a device's registers, with a register on either side: a    *)
(* host reads and writes it with the typed calls of a slave handle, the    *)
(* device stores in it by its own layout.                                  *)
(***************************************************************************)
EXTENDS Decoders

CONSTANTS
  Formats,   \* the formats a device and its host may have for the field
  Values(_), \* format -> values to store and to write
  Spares     \* bytes a device leaves behind a string of an odd length

VARIABLES
  device, \* the device's format
  host,   \* the host's format: the device's but for the orders
  mem,    \* the registers: the one before, the field's, the one after
  held,   \* the value last stored by the device, or by a call of the host; or None
  last    \* the host's last call, until the device stores: [op, kind, value]

vars == <<device, host, mem, held, last>>

Guard == Base + 1

FormatRec ==
  [type : Integer \cup Float \cup {"string"}, wordOrder : WordOrders, byteOrder : ByteOrders,
   registerCount : Nat \cup {None}, byteCount : Nat \cup {None}, pad : Byte, strip : BOOLEAN]

ValuesOf(f) ==
  CASE f.type \in Integer -> Int
    [] f.type = "float32"  -> [1..4 -> Byte] \cup {Huge}
    [] f.type = "float64"  -> [1..8 -> Byte]
    [] f.type = "string"   -> Seq(DOMAIN Encoding)

ASSUME FieldAssumption ==
  /\ Formats \subseteq FormatRec
  /\ \A f \in Formats :
       /\ Values(f) \subseteq ValuesOf(f)
       /\ f.type = "string" => \/ f.byteCount = None /\ f.registerCount \in Nat \ {0}
                               \/ f.registerCount = None /\ f.byteCount \in Nat \ {0}
       /\ f.type # "string" => f.byteCount = None /\ f.registerCount \in {None, RegistersOf(f.type)}
  /\ Spares \subseteq Byte
  /\ Huge \notin [1..4 -> Byte]

FieldRegisters(f) ==
  IF f.type # "string" THEN RegistersOf(f.type)
  ELSE IF f.byteCount = None THEN f.registerCount ELSE (f.byteCount \div 2) + (f.byteCount % 2)

Field == SubSeq(mem, 2, Len(mem) - 1)

-----------------------------------------------------------------------------
(* The device's layout, place by place.  Byte k of a number counts from the *)
(* least significant, byte k of a string from its first; both from 0.       *)

DeviceByte(value, f, spare, k) ==
  CASE f.type \in Integer -> (value \div Size[k]) % Base
    [] f.type \in Float   -> value[Len(value) - k]
    [] f.type = "string"  ->
         LET raw == TextToBytes(value) IN
         IF k < Len(raw) THEN raw[k + 1]
         ELSE IF f.byteCount # None /\ k >= f.byteCount THEN spare ELSE f.pad

DeviceWords(value, f, spare) ==
  LET n == FieldRegisters(f)
      place(r) == IF f.type = "string" \/ f.wordOrder = "low_high" THEN r - 1 ELSE n - r
      byte(r, half) == DeviceByte(value, f, spare, 2 * place(r) + half)
      high == IF (f.type = "string") = (f.byteOrder = "big") THEN 0 ELSE 1
  IN [r \in 1..n |-> Base * byte(r, high) + byte(r, 1 - high)]

(* What a device can hold in a field.                                       *)
Holds(value, f) ==
  LET size == Size[2 * FieldRegisters(f)] IN
  CASE f.type \in Signed           -> (2 * value) \div size \in {0, -1}
    [] f.type \in Integer \ Signed -> value \div size = 0
    [] f.type = "float32"          -> value # Huge
    [] f.type = "float64"          -> TRUE
    [] f.type = "string" ->
         Len(TextToBytes(value)) <= IF f.byteCount = None THEN 2 * f.registerCount ELSE f.byteCount

-----------------------------------------------------------------------------
NoCall == [op |-> "none", kind |-> "value", value |-> None, asked |-> None]
Read(op, out) == [NoCall EXCEPT !.op = op, !.kind = out.kind, !.value = out.value]
Wrote(op, out, asked) == [NoCall EXCEPT !.op = op, !.kind = out.kind, !.asked = asked]

(* The typed write_* calls: encode, then write_registers.                   *)
Write(op, value) ==
  LET out == Encode(value, host) IN
  IF out.kind = "value"
  THEN /\ mem' = [i \in DOMAIN mem |-> IF i - 1 \in DOMAIN out.value THEN out.value[i - 1]
                                       ELSE mem[i]]
       /\ held' = value
       /\ last' = Wrote(op, out, value)
       /\ UNCHANGED <<device, host>>
  ELSE /\ last' = Wrote(op, out, value)
       /\ UNCHANGED <<device, host, mem, held>>

HostWrites == \E value \in Values(host) : Write("write", value)

HostWritesBack ==
  /\ last.op \in {"read", "decode"} /\ last.kind = "value"
  /\ Write("write_back", last.value)

(* decode on registers that were read.                                      *)
HostDecodes ==
  /\ last' = Read("decode", Decode(Field, host))
  /\ UNCHANGED <<device, host, mem, held>>

(* Slave.read_string: the bytes are decoded, then the text is cut to        *)
(* byte_count characters, then stripped.                                    *)
ReadString ==
  LET out  == DecodeString(Field, host.byteOrder, FALSE)
      cut  == IF host.byteCount = None \/ host.byteCount > Len(out.value) THEN out.value
              ELSE SubSeq(out.value, 1, host.byteCount)
  IN IF (host.registerCount = None) = (host.byteCount = None) THEN Raise("configuration")
     ELSE IF out.kind # "value" THEN out
     ELSE Value(IF host.strip THEN StripRight(cut, Nul) ELSE cut)

(* The typed read_* calls.                                                  *)
HostReads ==
  /\ last' = Read("read", IF host.type = "string" THEN ReadString ELSE Decode(Field, host))
  /\ UNCHANGED <<device, host, mem, held>>

DeviceStores ==
  \E value \in Values(device), spare \in Spares :
    /\ Holds(value, device)
    /\ mem' = <<Guard>> \o DeviceWords(value, device, spare) \o <<Guard>>
    /\ held' = value
    /\ last' = NoCall
    /\ UNCHANGED <<device, host>>

Unordered(f) == [f EXCEPT !.wordOrder = "high_low", !.byteOrder = "big"]

Init ==
  /\ device \in Formats
  /\ host \in {f \in Formats : Unordered(f) = Unordered(device)}
  /\ mem = <<Guard>> \o [i \in 1..FieldRegisters(device) |-> 0] \o <<Guard>>
  /\ held = None
  /\ last = NoCall

Next == HostWrites \/ HostWritesBack \/ HostDecodes \/ HostReads \/ DeviceStores

Spec == Init /\ [][Next]_vars

-----------------------------------------------------------------------------
(* Properties                                                              *)

(* Registers stay registers, and the host is in a state it can be in.      *)
TypeOK ==
  /\ device \in Formats /\ host \in Formats
  /\ Len(mem) = FieldRegisters(device) + 2
  /\ \A i \in DOMAIN mem : mem[i] \in Register
  /\ last.op \in {"none", "read", "decode", "write", "write_back"}
  /\ last.kind \in {"value", "configuration", "unicode", "overflow"}

(* The byte of the last register behind a string of an odd length.          *)
SpareByte(f) == IF f.byteCount = None THEN {} ELSE f.byteCount .. 2 * FieldRegisters(f) - 1

(* A text of characters of one byte each, or a field without a spare byte:  *)
(* elsewhere Slave.read_string cuts characters, though its docstring says   *)
(* that the text is "truncated to byte_count bytes".                        *)
CutIsExact(text, f) ==
  \/ SpareByte(f) = {}
  \/ \A i \in DOMAIN text : Len(Encoding[text[i]]) = 1

Padded(text, f) == text \o [i \in 1..(2 * FieldRegisters(f) - Len(TextToBytes(text))) |->
                              CHOOSE c \in DOMAIN Encoding : Encoding[c] = <<f.pad>>]

ReadsText(text, f) ==
  LET whole == Padded(text, f)
      field == IF f.byteCount # None /\ f.byteCount < Len(whole)
               THEN SubSeq(whole, 1, f.byteCount) ELSE whole
  IN last.value = IF f.strip THEN StripRight(field, Nul) ELSE field

(* A host that knows the device's orders reads what the device stored, and  *)
(* stores what it wrote where the device looks for it, but that a float32's *)
(* signalling NaN may come and go as a quiet one: read_float, read_int32,   *)
(* read_string and the write_* calls, and encode and decode.                *)
HostAndDeviceAgree ==
  (host = device /\ held # None) =>
    /\ last.op \in {"write", "write_back"} /\ last.kind = "value" =>
         Field = DeviceWords(Quieted(last.asked, device), device, device.pad)
    /\ (last.op = "read" \/ (last.op = "decode" /\ SpareByte(device) = {})) =>
         IF device.type # "string"
         THEN last.kind = "value" /\ last.value = Quieted(held, device)
         ELSE CutIsExact(held, device) => (last.kind = "value" /\ ReadsText(held, device))

(* encode refuses a value exactly when the device could not hold it: the    *)
(* ranges of signed and unsigned numbers, the length of a string.           *)
RefusedOnlyIfUnfit ==
  last.op = "write" => (last.kind = "value" <=> Holds(last.asked, host))

(* With these orders the registers say a float32 that struct changes.       *)
Changing(words, f) ==
  /\ f.type = "float32" /\ StructQuiets
  /\ SignallingNaN(PackBytes(words, f.wordOrder, f.byteOrder))

(* Whatever orders the host assumes, right or wrong, a number it has read   *)
(* it can write back.  What it then reads is that number again, and the     *)
(* registers are what they were: all of them for integers and float64, and  *)
(* for a float32 unless the host read a signalling NaN that struct changes, *)
(* which the registers of an ordinary number say in a wrong order (encode   *)
(* and decode).                                                             *)
WriteBackKeepsMemory ==
  [][(last'.op = "write_back" /\ device.type # "string") =>
       /\ last'.kind = "value"
       /\ Decode(Field, host)' = Decode(Field, host)
       /\ mem' = mem \/ Changing(Field, host)]_vars

(* No call touches the registers next to the field.                        *)
NeighboursSpared == mem[1] = Guard /\ mem[Len(mem)] = Guard
=============================================================================
