--------------------------------- MODULE Pdu ---------------------------------
(***************************************************************************)
(* anymodbus.pdu: requests and responses as bytes, without address and     *)
(* checksum.  A request is a record: address is the sub-function for FC 8, *)
(* bits are 0 and 1, values is empty for a read.                           *)
(***************************************************************************)
EXTENDS Integers, Sequences

CONSTANTS
  MaxReadBits,      \* _MAX_READ_BITS
  MaxReadRegisters, \* _MAX_READ_REGISTERS
  MaxWriteCoils,    \* _MAX_WRITE_COILS
  MaxWriteRegisters \* _MAX_WRITE_REGISTERS

ASSUME QuantityAssumption ==
  /\ MaxReadBits \in 1..2000     /\ MaxWriteCoils \in 1..1968
  /\ MaxReadRegisters \in 1..125 /\ MaxWriteRegisters \in 1..123

MaxAddress == 65535
MaxRegisterValue == 65535
CoilOn  == 65280
CoilOff == 0

ReadBits       == {1, 2}
ReadRegisters  == {3, 4}
Reads          == ReadBits \cup ReadRegisters
WriteCoil      == 5
WriteRegister  == 6
Loopback       == 8
WriteCoils     == 15
WriteRegisters == 16
WriteMultiple  == {WriteCoils, WriteRegisters}
FunctionCodes  == Reads \cup WriteMultiple \cup {WriteCoil, WriteRegister, Loopback}

OfBits(fc) == fc \in ReadBits \cup {WriteCoils}

MaxQuantity(fc) ==
  CASE fc \in ReadBits       -> MaxReadBits
    [] fc \in ReadRegisters  -> MaxReadRegisters
    [] fc = WriteCoils       -> MaxWriteCoils
    [] fc = WriteRegisters   -> MaxWriteRegisters

-----------------------------------------------------------------------------
(* Words and packed bits                                                   *)

Word(w) == <<w \div 256, w % 256>>
WordAt(pdu, i) == 256 * pdu[i] + pdu[i + 1]

PackWords(values) ==
  [k \in 1..(2 * Len(values)) |-> Word(values[(k + 1) \div 2])[2 - (k % 2)]]
UnpackWords(bytes) == [i \in 1..(Len(bytes) \div 2) |-> WordAt(bytes, 2 * i - 1)]

BitBytes(count) == (count + 7) \div 8

(* Bit i of packed bits, from 0: bit i % 8 of its byte, the lowest first.   *)
BitWeight == <<1, 2, 4, 8, 16, 32, 64, 128>>
BitAt(bytes, i) == (bytes[i \div 8 + 1] \div BitWeight[(i % 8) + 1]) % 2

(* The bit in place j of byte k; a last byte is filled up with zeros.       *)
BitIn(bits, k, j) == IF 8 * k - 8 + j \in DOMAIN bits THEN bits[8 * k - 8 + j] ELSE 0

PackBitsMsbFirst(bits) ==
  [k \in 1..BitBytes(Len(bits)) |->
     128 * BitIn(bits, k, 1) + 64 * BitIn(bits, k, 2) + 32 * BitIn(bits, k, 3)
     + 16 * BitIn(bits, k, 4) + 8 * BitIn(bits, k, 5) + 4 * BitIn(bits, k, 6)
     + 2 * BitIn(bits, k, 7) + BitIn(bits, k, 8)]

PackBits(bits) ==
  [k \in 1..BitBytes(Len(bits)) |->
     BitIn(bits, k, 1) + 2 * BitIn(bits, k, 2) + 4 * BitIn(bits, k, 3)
     + 8 * BitIn(bits, k, 4) + 16 * BitIn(bits, k, 5) + 32 * BitIn(bits, k, 6)
     + 64 * BitIn(bits, k, 7) + 128 * BitIn(bits, k, 8)]
UnpackBits(bytes, count) == [i \in 1..count |-> BitAt(bytes, i - 1)]

(* The number that digits say, the lowest first, for the properties.        *)
Number(digits, base) ==
  LET From[k \in 1..(Len(digits) + 1)] ==
        IF k > Len(digits) THEN 0 ELSE digits[k] + base * From[k + 1]
  IN From[1]

Pack(fc, values) == IF OfBits(fc) THEN PackBits(values) ELSE PackWords(values)
Unpack(fc, bytes, count) ==
  IF OfBits(fc) THEN UnpackBits(bytes, count) ELSE UnpackWords(bytes)
DataBytesAsQuantity(fc, count) == IF OfBits(fc) THEN BitBytes(count) ELSE count
DataBytes(fc, count) == IF OfBits(fc) THEN BitBytes(count) ELSE 2 * count

-----------------------------------------------------------------------------
(* Requests                                                                *)

QuantityOK(fc, count) == fc \in Reads \cup WriteMultiple => count \in 1..MaxQuantity(fc)

(* What the encoders are called with: a request for as many values as there *)
(* are, and for one where the function code has one.  encode_diagnostic_    *)
(* loopback_request takes no sub-function.                                  *)
AsCalled(r) ==
  /\ r.fc \in FunctionCodes /\ r.address \in Int /\ r.count \in Nat
  /\ r.values \in Seq(IF r.fc \in {WriteCoil, WriteCoils} THEN {0, 1} ELSE Int)
  /\ r.fc \in Reads => r.values = <<>>
  /\ r.fc \notin Reads \cup {Loopback} => Len(r.values) = r.count
  /\ r.fc \in {WriteCoil, WriteRegister, Loopback} => r.count = 1
  /\ r.fc = Loopback => r.address = 0

(* What the encoders accept; otherwise they raise ConfigurationError.      *)
Encodable(r) ==
  /\ r.address \in 0..MaxAddress
  /\ QuantityOK(r.fc, r.count)
  /\ r.fc \in {WriteRegister, Loopback, WriteRegisters} =>
       \A i \in DOMAIN r.values : r.values[i] \in 0..MaxRegisterValue
  /\ r.fc = Loopback => Len(r.values) = 1

CoilWord(bit) == IF bit = 1 THEN CoilOn ELSE CoilOff

EncodeRequest(r) ==
  <<r.fc>> \o Word(r.address) \o
  CASE r.fc \in Reads                     -> Word(r.count)
    [] r.fc = WriteCoil                   -> Word(CoilWord(r.values[1]))
    [] r.fc \in {WriteRegister, Loopback} -> Word(r.values[1])
    [] r.fc \in WriteMultiple ->
         Word(r.count) \o <<DataBytes(r.fc, r.count)>> \o Pack(r.fc, r.values)

(* Whether a server's decoder accepts a request of a known function code;  *)
(* otherwise it raises ProtocolError.                                      *)
WellFormedRequest(pdu) ==
  IF pdu[1] \in WriteMultiple
  THEN /\ Len(pdu) >= 6
       /\ QuantityOK(pdu[1], WordAt(pdu, 4))
       /\ pdu[6] = DataBytes(pdu[1], WordAt(pdu, 4))
       /\ Len(pdu) = 6 + pdu[6]
  ELSE /\ Len(pdu) = 5
       /\ QuantityOK(pdu[1], WordAt(pdu, 4))
       /\ pdu[1] = WriteCoil => WordAt(pdu, 4) \in {CoilOn, CoilOff}
       /\ pdu[1] = Loopback  => WordAt(pdu, 2) = 0

DecodeRequest(pdu) ==
  LET fc == pdu[1]
      values == CASE fc \in Reads -> <<>>
                  [] fc = WriteCoil -> <<IF WordAt(pdu, 4) = CoilOn THEN 1 ELSE 0>>
                  [] fc \in {WriteRegister, Loopback} -> <<WordAt(pdu, 4)>>
                  [] fc \in WriteMultiple ->
                       Unpack(fc, SubSeq(pdu, 7, Len(pdu)), WordAt(pdu, 4))
  IN [fc |-> fc, address |-> WordAt(pdu, 2), values |-> values,
      count |-> IF fc \in Reads \cup WriteMultiple THEN WordAt(pdu, 4) ELSE 1]

-----------------------------------------------------------------------------
(* Responses                                                               *)

EncodeResponse(r, values) ==
  IF r.fc \in Reads
  THEN <<r.fc, DataBytes(r.fc, r.count)>> \o Pack(r.fc, values)
  ELSE IF r.fc \in WriteMultiple THEN <<r.fc>> \o Word(r.address) \o Word(r.count)
  ELSE EncodeRequest(r)

ExceptionResponse(fc, code) == <<fc + 128, code>>

Answer(values) == [kind |-> "value", values |-> values]
Raise(kind)    == [kind |-> kind, values |-> <<>>]

(* code_to_exception; the other named codes are treated alike.             *)
ExceptionKind(code) ==
  CASE code = 1 -> "illegal_function"
    [] code = 2 -> "illegal_address"
    [] code = 3 -> "illegal_value"
    [] OTHER    -> "exception"

DecodeReadBits(r, pdu) ==
  CASE Len(pdu) < 2                 -> Raise("protocol")
    [] pdu[2] # BitBytes(r.count)   -> Raise("unexpected")
    [] Len(pdu) # 2 + pdu[2]        -> Raise("protocol")
    [] OTHER -> Answer(UnpackBits(SubSeq(pdu, 3, Len(pdu)), r.count))

DecodeReadRegisters(r, pdu) ==
  IF Len(pdu) < 2 THEN Raise("protocol")
  ELSE IF pdu[2] = 0 \/ pdu[2] % 2 # 0 \/ Len(pdu) # 2 + pdu[2] THEN Raise("protocol")
  ELSE IF pdu[2] \div 2 # r.count THEN Raise("unexpected")
  ELSE Answer(UnpackWords(SubSeq(pdu, 3, Len(pdu))))

(* The value a write's response echoes, checked by its decoder.            *)
EchoOK(fc, word) ==
  CASE fc = WriteCoil      -> word \in {CoilOn, CoilOff}
    [] fc \in WriteMultiple -> QuantityOK(fc, word)
    [] OTHER                -> TRUE

WriteEchoUnchecked(r, pdu) == TRUE

(* Slave._check_write_echo, and the loopback's check.                      *)
WriteEcho(r, pdu) ==
  LET asked == IF r.fc \in WriteMultiple THEN r.count
               ELSE IF r.fc = WriteCoil THEN CoilWord(r.values[1]) ELSE r.values[1]
  IN WordAt(pdu, 2) = r.address /\ WordAt(pdu, 4) = asked

DecodeEcho(r, pdu) ==
  IF Len(pdu) # 5 \/ (r.fc = Loopback /\ Len(pdu) = 5 /\ WordAt(pdu, 2) # 0)
  THEN Raise("protocol")
  ELSE IF ~EchoOK(r.fc, WordAt(pdu, 4)) THEN Raise("protocol")
  ELSE IF ~WriteEcho(r, pdu) THEN Raise("unexpected")
  ELSE Answer(IF r.fc = Loopback THEN r.values ELSE <<>>)

(* interpret_response_pdu, then the decoder of the request.  A bare         *)
(* function code with the exception bit is an IndexError there.            *)
Interpret(r, pdu) ==
  IF pdu[1] = 0 THEN Raise("protocol")
  ELSE IF pdu[1] >= 128
       THEN IF pdu[1] - 128 # r.fc THEN Raise("unexpected")
            ELSE IF Len(pdu) < 2 THEN Raise("index_error")
            ELSE Raise(ExceptionKind(pdu[2]))
  ELSE IF pdu[1] # r.fc THEN Raise("unexpected")
  ELSE IF r.fc \in ReadBits THEN DecodeReadBits(r, pdu)
  ELSE IF r.fc \in ReadRegisters THEN DecodeReadRegisters(r, pdu)
  ELSE DecodeEcho(r, pdu)
=============================================================================
