-------------------------- MODULE SlaveClient_proofs --------------------------
(***************************************************************************)
(* Proofs about SlaveClient, for any slaves, devices, calls, fault plans   *)
(* and probes: types, faults that strike once, verdicts that are true and  *)
(* backed, and the memory that the calls read and write.                   *)
(***************************************************************************)
EXTENDS SlaveClient, Pdu_proofs, FiniteSetTheorems

(* A sequence of bytes that is not empty.                                  *)
PduBytes == Seq(Byte) \ {<<>>}

RequestRec == [to : 0..247, pdu : PduBytes, intact : BOOLEAN]
ReplyRec   == [from : Int, pdu : PduBytes, intact : BOOLEAN]
OpRec == [phase : {"idle", "called", "done"}, call : AllCalls \cup ProbeCalls \cup {NoCall},
          kind : Kinds, values : Seq(Int), effect : {"none", "exact", "other"}, seen : Seq(Int)]
SenderRec == [by : Callers \cup {NoCaller}, call : AllCalls \cup ProbeCalls \cup {NoCall},
              live : BOOLEAN]
ProbeRec == [to : Slaves, walk : DOMAIN Walk, verdicts : Seq(Verdicts),
             told : SUBSET (Reads \X Kinds)]
CapsRec == [Reads \cup {WriteCoil, WriteRegister, WriteCoils, WriteRegisters} -> Verdicts]

BankOK(b, d) ==
  /\ b \in [coils : Seq(Byte), discrete : Seq(Byte), holding : Seq(Register),
            input : Seq(Register)]
  /\ Len(b.coils) = BitBytes(d.coils) /\ Len(b.discrete) = BitBytes(d.discrete)
  /\ Len(b.holding) = d.holding /\ Len(b.input) = d.input

TypeInv ==
  /\ DOMAIN bank = Slaves /\ \A s \in Slaves : BankOK(bank[s], Device[s])
  /\ [team |-> team, plan |-> plan] \in Setups
  /\ emitted \in [Slaves -> 0..IndexMax]
  /\ fired \in [Slaves -> [drop : 0..2, corrupt : 0..2]]
  /\ request \in RequestRec \cup {NoFrame} /\ reply \in ReplyRec \cup {NoFrame}
  /\ op \in [Callers -> OpRec]
  /\ \A c \in Callers : op[c].phase = "called" => op[c].call # NoCall
  /\ owner \in Callers \cup {NoCaller}
  /\ stage \in {"sending", "waiting"} /\ attempt \in 0..Retries
  /\ sender \in SenderRec
  /\ probe \in [Callers -> ProbeRec \cup {NoProbe}]
  /\ \A c \in Callers : probe[c] # NoProbe => Len(probe[c].verdicts) < Len(ProbeFcs)
  /\ caps \in [Callers -> [Slaves -> CapsRec \cup {NoProbe}]]

(* A fault that has struck lies behind: the count of responses only grows. *)
StruckOnce(n, at, count) == n <= 1 /\ (count <= at => n = 0)
FaultsOnce ==
  \A s \in Slaves :
    /\ StruckOnce(fired[s].drop, plan[s].drop, emitted[s])
    /\ StruckOnce(fired[s].corrupt, plan[s].corrupt, emitted[s])

-----------------------------------------------------------------------------
(* The lock and the line                                                   *)

Foreign(f) == \E c \in Callers : \E m \in Malformed[c] : f.to = m.to /\ f.pdu = m.pdu

(* What a reply says of a call: what it returns was allowed, and if it     *)
(* refuses, that is what the slave would do.                               *)
Outcome(r, f) == Interpret(r, f.pdu)
AnswerOK(r, f) ==
  /\ Outcome(r, f).kind = "value" => Permission(r.to, r) = "ok"
  /\ Outcome(r, f).kind \in Memory!Refusals => Permission(r.to, r) = Outcome(r, f).kind

LockOK ==
  /\ owner = NoCaller => stage = "sending" /\ attempt = 0 /\ ~sender.live
  /\ owner # NoCaller => op[owner].phase = "called" /\ Encodable(op[owner].call)
  /\ sender.live => owner # NoCaller /\ sender.by = owner /\ sender.call = op[owner].call
  /\ sender.live => sender.call # NoCall
  /\ sender.call = NoCall => sender = NoSender

LineOK ==
  /\ request = NoFrame => sender = NoSender
  /\ sender.call # NoCall => /\ request.to = sender.call.to
                             /\ request.pdu = EncodeRequest(sender.call)
                             /\ Encodable(sender.call)
  /\ request # NoFrame /\ sender.call = NoCall => Foreign(request)
  /\ stage = "waiting" /\ request # NoFrame => sender.live /\ reply = NoFrame
  /\ stage = "waiting" /\ reply # NoFrame =>
       op[owner].call.to \in Slaves /\ AnswerOK(op[owner].call, reply)

-----------------------------------------------------------------------------
(* Probes                                                                  *)

Asking(p) == Len(p.verdicts) + 1

(* A verdict on a function code, by what was told of it.                   *)
ToldOf(fc, verdict, told) ==
  /\ verdict = "supported" <=> <<fc, "value">> \in told
  /\ verdict = "unsupported" <=> <<fc, "illegal_function">> \in told
  /\ verdict = "unknown" => <<fc, "illegal_address">> \in told

(* What a slave's device makes of a verdict.                               *)
TrueOf(s, fc, verdict) ==
  /\ verdict = "supported" => fc \notin Device[s].disabled
  /\ verdict = "unsupported" => fc \in Device[s].disabled

KindTrue(s, fc, kind) ==
  /\ kind = "value" => fc \notin Device[s].disabled
  /\ kind = "illegal_function" => fc \in Device[s].disabled

(* What has been told, and the verdicts made of it; of the function code   *)
(* that is asked for, only that an address was refused.                    *)
PastOK(p) ==
  /\ \A j \in DOMAIN p.verdicts :
       ToldOf(j, p.verdicts[j], p.told) /\ TrueOf(p.to, j, p.verdicts[j])
  /\ \A t \in p.told :
       /\ t[2] \in {"value", "illegal_function", "illegal_address"}
       /\ t[1] <= Asking(p)
       /\ t[1] = Asking(p) => t[2] = "illegal_address"

ProbeOK(c) ==
  LET p == probe[c] IN
  /\ op[c].phase \in {"called", "done"}
  /\ op[c].phase = "called" => op[c].call = ProbeCall(p.to, Asking(p), p.walk)
  /\ op[c].phase = "done" => KindTrue(p.to, Asking(p), op[c].kind)
  /\ PastOK(p)

ProbesOK == \A c \in Callers : probe[c] # NoProbe => ProbeOK(c)

-----------------------------------------------------------------------------
(* Effects                                                                 *)

NoWriteRepeated == IdempotentOnly \/ Retries = 0
OneOverride == \A s \in Slaves : ~({"clamps", "distorts"} \subseteq Device[s].handle)

Reading == Reads \cup {Loopback}

(* Only the call that holds the lock has had an effect.                    *)
OwnEffects ==
  \A c \in Callers :
    /\ op[c].phase = "called" /\ op[c].effect # "none" =>
         owner = c /\ Memory!Targets(op[c].call) # {}
    /\ op[c].phase = "called" /\ op[c].call.to = 0 => op[c].seen = <<>>

(* A write is sent once.                                                   *)
WritesOnce ==
  owner # NoCaller /\ op[owner].call.fc \notin Reading =>
    /\ sender.live => op[owner].effect = "none"
    /\ stage = "sending" => attempt = 0 /\ ~sender.live /\ op[owner].effect = "none"

(* A reply that gives a value tells of an effect as asked, and what it saw.*)
RepliesTell ==
  stage = "waiting" /\ reply # NoFrame =>
    LET o == op[owner] IN
    Outcome(o.call, reply).kind = "value" =>
      o.effect = "exact" /\ Outcome(o.call, reply).values = o.seen

EffectOK == OwnEffects /\ WritesOnce /\ RepliesTell

-----------------------------------------------------------------------------
(* What a device makes of a request                                        *)

(* An address is a number from 0.                                          *)
LEMMA AddressNatural == \A x \in 0..MaxAddress : x \in Nat
<1>1. MaxAddress \in Nat
  BY DEF MaxAddress
<1> QED  BY <1>1

(* Calls are as the encoders are called, and go to slaves or to all.       *)
LEMMA CallsAsCalled ==
  ASSUME NEW r \in AllCalls \cup ProbeCalls
  PROVE  /\ AsCalled(r) /\ r.to \in 0..247
         /\ r.to = 0 => r.fc \notin Reading
         /\ r \in ProbeCalls => r.to \in Slaves /\ r.fc \in Reads
<1>1. CASE r \in AllCalls
  <2>1. AsCalled(r) /\ r.to \in 0..247 /\ (r.to = 0 => r.fc \notin Reading)
    BY <1>1, ClientAssumption DEF Reading, CallRec
  <2>2. r \in ProbeCalls => r.to \in Slaves /\ r.fc \in Reads
    BY DEF ProbeCalls
  <2> QED  BY <2>1, <2>2
<1>2. CASE r \in ProbeCalls
  <2>1. /\ r.to \in Slaves /\ r.fc \in Reads /\ r.count = 1 /\ r.values = <<>>
        /\ r.address \in {Walk[i] : i \in DOMAIN Walk}
    BY <1>2 DEF ProbeCalls
  <2>2. r.address \in Int
    <3>1. \A i \in DOMAIN Walk : Walk[i] \in 0..MaxAddress
      BY ClientAssumption, LenProperties, ElementOfSeq
    <3>2. \A x \in 0..MaxAddress : x \in Int
      BY AddressNatural
    <3> QED  BY <2>1, <3>1, <3>2
  <2>3. r.to \in 0..247 /\ r.to # 0
    <3>1. \A x \in 1..247 : x \in 0..247 /\ x # 0
      OBVIOUS
    <3> QED  BY <2>1, <3>1, ServerAssumption
  <2>4. r.fc \in FunctionCodes /\ r.fc # WriteCoil /\ r.fc # WriteRegister /\ r.fc # Loopback
        /\ r.fc # WriteCoils
    BY <2>1, Codes
  <2>5. r.values \in Seq(IF r.fc \in {WriteCoil, WriteCoils} THEN {0, 1} ELSE Int)
    BY <2>1, EmptySeq
  <2>6. AsCalled(r)
    BY <2>1, <2>2, <2>4, <2>5 DEF AsCalled
  <2> QED  BY <2>1, <2>3, <2>6
<1> QED  BY <1>1, <1>2

(* A device refuses an encoded request exactly as the call deserves.       *)
LEMMA RefusalOfRequest ==
  ASSUME NEW s \in Slaves, NEW r, AsCalled(r), Encodable(r)
  PROVE  LET k == Permission(s, r)
             c == Refusal(s, EncodeRequest(r)) IN
         \/ k = "ok" /\ c = 0
         \/ k = "illegal_function" /\ c = 1
         \/ k = "illegal_address" /\ c = 2
         \/ k = "illegal_value" /\ c = 3
<1> DEFINE p == EncodeRequest(r)
           d == DecodeRequest(p)
<1>1. p[1] = r.fc /\ WordAt(p, 2) = r.address
  BY RequestProperties
<1>2. WellFormedRequest(p) /\ d = Said(r)
  BY RequestRoundTrip
<1>3. d.count = r.count /\ d.address = r.address
  BY <1>2 DEF Said
<1>4. r.fc \in FunctionCodes /\ (r.fc = Loopback => r.address = 0)
  BY DEF AsCalled
<1> HIDE DEF p, d
<1> DEFINE unknown == r.fc \in Device[s].disabled
           outside == \/ r.address + r.count > Device[s][BankOf(r.fc)]
                      \/ "from_one" \in Device[s].handle /\ r.address = 0
<1>5. Refusal(s, p) = IF unknown THEN 1
                      ELSE IF r.fc = Loopback THEN 0
                      ELSE IF r.count > Limit(s, r.fc) THEN 3
                      ELSE IF outside THEN 2 ELSE 0
  BY <1>1, <1>2, <1>3, <1>4 DEF Refusal, d
<1>6. Permission(s, r) = IF unknown THEN "illegal_function"
                         ELSE IF r.fc = Loopback THEN "ok"
                         ELSE IF r.count > Limit(s, r.fc) THEN "illegal_value"
                         ELSE IF outside THEN "illegal_address" ELSE "ok"
  BY DEF Permission
<1> HIDE DEF unknown, outside
<1> QED  BY <1>5, <1>6 DEF p

(* A request that no encoder makes is refused, and changes nothing.        *)
LEMMA ForeignRefused ==
  ASSUME NEW s \in Slaves, NEW f \in RequestRec, Foreign(f)
  PROVE  /\ Refusal(s, f.pdu) \in {1, 3} /\ Handled(s, f.pdu) = bank[s]
         /\ f.pdu[1] \in Byte
<1>1. PICK c \in Callers : \E m \in Malformed[c] : f.to = m.to /\ f.pdu = m.pdu
  BY DEF Foreign
<1>2. PICK m \in Malformed[c] : f.pdu = m.pdu
  BY <1>1
<1>3. m.pdu \in Seq(Byte) /\ m.pdu # <<>> /\ (m.pdu[1] \in FunctionCodes => ~WellFormedRequest(m.pdu))
  BY ClientAssumption DEF Byte
<1>4. m.pdu[1] \in Byte
  <2>1. Len(m.pdu) \in Nat \ {0}
    BY <1>3, EmptySeq
  <2>2. 1 \in 1..Len(m.pdu)
    BY <2>1
  <2> QED  BY <1>3, <2>2, ElementOfSeq
<1>5. Refusal(s, m.pdu) \in {1, 3}
  BY <1>3 DEF Refusal
<1>6. Handled(s, m.pdu) = bank[s]
  BY <1>5 DEF Handled
<1> QED  BY <1>2, <1>4, <1>5, <1>6

-----------------------------------------------------------------------------
(* Register banks                                                          *)

(* Coils written in a bank, and the others as they were.                   *)
LEMMA SetCoilsProperties ==
  ASSUME NEW bytes \in Seq(Byte), NEW a \in Int, NEW bits \in Seq(Bit)
  PROVE  LET q == SetCoils(bytes, a, bits) IN
         /\ q \in Seq(Byte) /\ Len(q) = Len(bytes)
         /\ \A i \in 1..(8 * Len(bytes)) :
              BitAt(q, i - 1) = IF i - a \in DOMAIN bits THEN bits[i - a] ELSE BitAt(bytes, i - 1)
<1> DEFINE n == Len(bytes)
           v == [i \in 1..(8 * n) |->
                   IF i - a \in DOMAIN bits THEN bits[i - a] ELSE BitAt(bytes, i - 1)]
<1>1. n \in Nat /\ 8 * n \in Nat
  BY LenProperties
<1>2. \A i \in 1..(8 * n) : v[i] \in Bit
  <2> SUFFICES ASSUME NEW i \in 1..(8 * n)
               PROVE  (IF i - a \in DOMAIN bits THEN bits[i - a] ELSE BitAt(bytes, i - 1)) \in Bit
    OBVIOUS
  <2>1. i - a \in DOMAIN bits => bits[i - a] \in Bit
    BY LenProperties, ElementOfSeq
  <2>2. i - 1 \in 0..(8 * n - 1)
    BY <1>1
  <2>3. BitAt(bytes, i - 1) \in Bit
    BY <2>2, BitAtBit
  <2> QED  BY <2>1, <2>3
<1>3. v \in [1..(8 * n) -> Bit]
  BY <1>2
<1>4. SetCoils(bytes, a, bits) = PackBits(v)
  BY DEF SetCoils
<1>5. \A i \in 1..(8 * n) :
        v[i] = IF i - a \in DOMAIN bits THEN bits[i - a] ELSE BitAt(bytes, i - 1)
  OBVIOUS
<1> HIDE DEF v
<1>6. v \in Seq(Bit) /\ Len(v) = 8 * n
  BY <1>1, <1>3, FunctionIsSeq
<1>7. BitBytes(8 * n) = n
  BY <1>1 DEF BitBytes
<1>8. /\ PackBits(v) \in Seq(Byte) /\ Len(PackBits(v)) = n
      /\ \A i \in 0..(8 * n - 1) : BitAt(PackBits(v), i) = IF i < 8 * n THEN v[i + 1] ELSE 0
  BY <1>6, <1>7, PackBitsProperties
<1>9. \A i \in 1..(8 * n) : i - 1 \in 0..(8 * n - 1) /\ i - 1 < 8 * n /\ i - 1 + 1 = i
  BY <1>1
<1>10. \A i \in 1..(8 * n) : BitAt(PackBits(v), i - 1) = v[i]
  BY <1>8, <1>9
<1> QED  BY <1>4, <1>5, <1>8, <1>10

LEMMA SetRegistersProperties ==
  ASSUME NEW words \in Seq(Register), NEW a \in Int, NEW values \in Seq(Register)
  PROVE  LET q == SetRegisters(words, a, values) IN
         /\ q \in Seq(Register) /\ Len(q) = Len(words)
         /\ \A i \in DOMAIN words :
              q[i] = IF i - a \in DOMAIN values THEN values[i - a] ELSE words[i]
<1> DEFINE q == SetRegisters(words, a, values)
<1>1. Len(words) \in Nat /\ DOMAIN words = 1..Len(words)
  BY LenProperties
<1>2. \A i \in DOMAIN words :
        q[i] = IF i - a \in DOMAIN values THEN values[i - a] ELSE words[i]
  BY DEF SetRegisters
<1>3. q \in [1..Len(words) -> Register]
  <2>1. \A i \in DOMAIN words : words[i] \in Register
    BY LenProperties, ElementOfSeq
  <2>2. \A i \in DOMAIN values : values[i] \in Register
    BY LenProperties, ElementOfSeq
  <2> QED  BY <1>1, <2>1, <2>2 DEF SetRegisters
<1> HIDE DEF q
<1>4. q \in Seq(Register) /\ Len(q) = Len(words)
  BY <1>1, <1>3, FunctionIsSeq
<1> QED  BY <1>2, <1>4 DEF q

(* The value a device stores is the one asked, unless its handle clamps.   *)
LEMMA StoredProperties ==
  ASSUME NEW s \in Slaves, NEW r, AsCalled(r), Encodable(r)
  PROVE  LET d == Stored(s, Said(r)) IN
         /\ d.fc = r.fc /\ d.address = r.address /\ d.count = r.count
         /\ d.values \in Seq(Value(r.fc))
         /\ r.fc \notin Reads => Len(d.values) = r.count
         /\ "clamps" \notin Device[s].handle \/ r.fc # WriteRegister => d.values = r.values
         /\ AsCalled(d) /\ Encodable(d)
<1> DEFINE d == Stored(s, Said(r))
           x == r.values[1]
           y == IF x > 1 THEN 1 ELSE x
<1>1. /\ r.fc \in FunctionCodes /\ r.values \in Seq(Value(r.fc))
      /\ r.fc \notin Reads => Len(r.values) = r.count
  BY CalledProperties
<1>2. CASE ~("clamps" \in Device[s].handle /\ r.fc = WriteRegister)
  <2>1. d = Said(r)
    BY <1>2 DEF Stored, Said
  <2>2. d.fc = r.fc /\ d.address = r.address /\ d.count = r.count /\ d.values = r.values
    BY <2>1 DEF Said
  <2>3. AsCalled(d)
    BY <2>2 DEF AsCalled
  <2>4. Encodable(d)
    BY <2>2 DEF Encodable
  <2> QED  BY <1>1, <2>2, <2>3, <2>4
<1>3. CASE "clamps" \in Device[s].handle /\ r.fc = WriteRegister
  <2>1. d = [fc |-> r.fc, address |-> r.address, values |-> <<y>>, count |-> r.count]
    BY <1>3 DEF Stored, Said
  <2>2. d.fc = r.fc /\ d.address = r.address /\ d.count = r.count /\ d.values = <<y>>
    BY <2>1
  <2>3. r.count = 1 /\ r.fc \notin Reads /\ r.fc # WriteCoil /\ r.fc # WriteCoils
        /\ r.fc # Loopback /\ r.fc \notin WriteMultiple /\ Value(r.fc) = Register
    BY <1>3, Codes DEF AsCalled, Value
  <2>4. x \in Register
    BY <1>1, <2>3, ElementOfSeq
  <2>5. y \in Register /\ y \in Int /\ y \in 0..MaxRegisterValue
    <3>1. 1 \in Register /\ 1 \in Int /\ 1 \in 0..MaxRegisterValue
      BY Bounds DEF Register
    <3>2. \A z \in Register : z \in Int /\ z \in 0..MaxRegisterValue
      BY DEF Register
    <3> QED  BY <2>4, <3>1, <3>2
  <2> HIDE DEF x, y, d
  <2>6. <<y>> \in Seq(Register) /\ <<y>> \in Seq(Int) /\ Len(<<y>>) = 1
        /\ \A i \in DOMAIN <<y>> : <<y>>[i] \in 0..MaxRegisterValue
    BY <2>5
  <2>7. d.values \in Seq(IF d.fc \in {WriteCoil, WriteCoils} THEN {0, 1} ELSE Int)
    BY <2>2, <2>3, <2>6
  <2>8. Len(d.values) = 1 /\ \A i \in DOMAIN d.values : d.values[i] \in 0..MaxRegisterValue
    BY <2>2, <2>6
  <2>9. r.fc \in FunctionCodes /\ r.address \in Int /\ r.count \in Nat
    BY DEF AsCalled
  <2>10. AsCalled(d)
    BY <2>2, <2>3, <2>7, <2>8, <2>9 DEF AsCalled
  <2>11. r.address \in 0..MaxAddress /\ QuantityOK(r.fc, r.count)
    BY DEF Encodable
  <2>12. Encodable(d)
    BY <2>2, <2>3, <2>8, <2>11 DEF Encodable
  <2> QED  BY <1>3, <2>2, <2>3, <2>6, <2>10, <2>12 DEF d
<1> QED  BY <1>2, <1>3

(* What serving a request makes of a bank.                                 *)
LEMMA HandledProperties ==
  ASSUME NEW s \in Slaves, BankOK(bank[s], Device[s]), NEW r, AsCalled(r), Encodable(r)
  PROVE  LET b == bank[s]
             q == Handled(s, EncodeRequest(r))
             v == Stored(s, Said(r)).values IN
         /\ BankOK(q, Device[s])
         /\ Permission(s, r) # "ok" \/ r.fc \in Reading => q = b
         /\ q.discrete = b.discrete /\ q.input = b.input
         /\ r.fc \in {WriteCoil, WriteCoils} /\ Permission(s, r) = "ok" =>
              /\ q.holding = b.holding
              /\ \A i \in 1..(8 * Len(b.coils)) :
                   BitAt(q.coils, i - 1) = IF i - r.address \in DOMAIN r.values
                                           THEN r.values[i - r.address] ELSE BitAt(b.coils, i - 1)
         /\ r.fc \in {WriteRegister, WriteRegisters} /\ Permission(s, r) = "ok" =>
              /\ q.coils = b.coils
              /\ \A i \in DOMAIN b.holding :
                   q.holding[i] = IF i - r.address \in DOMAIN v
                                  THEN v[i - r.address] ELSE b.holding[i]
<1> DEFINE b == bank[s]
           p == EncodeRequest(r)
           q == Handled(s, p)
           d == Stored(s, Said(r))
           a == r.address
<1>1. /\ d.fc = r.fc /\ d.address = a /\ d.values \in Seq(Value(r.fc))
      /\ r.fc # WriteRegister => d.values = r.values
  BY StoredProperties
<1>2. /\ Permission(s, r) = "ok" => Refusal(s, p) = 0
      /\ Permission(s, r) # "ok" => Refusal(s, p) # 0
  BY RefusalOfRequest
<1>3. DecodeRequest(p) = Said(r)
  BY RequestRoundTrip
<1>4. r.fc \in FunctionCodes /\ a \in Int
  BY DEF AsCalled
<1>5. /\ b \in [coils : Seq(Byte), discrete : Seq(Byte), holding : Seq(Register),
               input : Seq(Register)]
      /\ Len(b.coils) = BitBytes(Device[s].coils) /\ Len(b.discrete) = BitBytes(Device[s].discrete)
      /\ Len(b.holding) = Device[s].holding /\ Len(b.input) = Device[s].input
  BY DEF BankOK
<1>6. CASE Permission(s, r) # "ok"
  <2>1. q = b
    BY <1>2, <1>6 DEF Handled
  <2> QED  BY <1>6, <2>1
<1>7. CASE Permission(s, r) = "ok"
  <2>1. q = Written(b, d)
    BY <1>2, <1>3, <1>7 DEF Handled
  <2> HIDE DEF q, d, b, p, a
  <2>2. CASE r.fc \in {WriteCoil, WriteCoils}
    <3> DEFINE e == SetCoils(b.coils, a, d.values)
    <3>1. r.fc # WriteRegister /\ r.fc # WriteRegisters /\ r.fc \notin Reading /\ Value(r.fc) = Bit
      BY <2>2, Codes DEF Reading, Value
    <3>2. q = [b EXCEPT !.coils = SetCoils(@, d.address, d.values)]
      <4>1. d.fc \in {WriteCoil, WriteCoils} /\ d.fc \notin {WriteRegister, WriteRegisters}
        BY <1>1, <2>2, <3>1
      <4> QED  BY <2>1, <4>1 DEF Written
    <3>3. q = [b EXCEPT !.coils = e]
      BY <1>1, <3>2
    <3>4. b.coils \in Seq(Byte) /\ d.values \in Seq(Bit) /\ d.values = r.values
      BY <1>1, <1>5, <3>1
    <3>5. /\ e \in Seq(Byte) /\ Len(e) = Len(b.coils)
          /\ \A i \in 1..(8 * Len(b.coils)) :
               BitAt(e, i - 1) = IF i - a \in DOMAIN d.values
                                 THEN d.values[i - a] ELSE BitAt(b.coils, i - 1)
      BY <1>4, <3>4, SetCoilsProperties DEF a
    <3> HIDE DEF e
    <3>6. q.coils = e /\ q.discrete = b.discrete /\ q.input = b.input /\ q.holding = b.holding
      BY <1>5, <3>3
    <3>7. q \in [coils : Seq(Byte), discrete : Seq(Byte), holding : Seq(Register),
                 input : Seq(Register)]
      BY <1>5, <3>3, <3>5
    <3>8. BankOK(q, Device[s])
      BY <1>5, <3>5, <3>6, <3>7 DEF BankOK
    <3> QED  BY <1>7, <3>1, <3>4, <3>5, <3>6, <3>8 DEF q, d, b, p, a
  <2>3. CASE r.fc \in {WriteRegister, WriteRegisters}
    <3> DEFINE e == SetRegisters(b.holding, a, d.values)
    <3>1. r.fc # WriteCoil /\ r.fc # WriteCoils /\ r.fc \notin Reading /\ Value(r.fc) = Register
      BY <2>3, Codes DEF Reading, Value
    <3>2. q = [b EXCEPT !.holding = SetRegisters(@, d.address, d.values)]
      BY <1>1, <2>1, <2>3, <3>1 DEF Written
    <3>3. q = [b EXCEPT !.holding = e]
      BY <1>1, <3>2
    <3>4. b.holding \in Seq(Register) /\ d.values \in Seq(Register)
      BY <1>1, <1>5, <3>1
    <3>5. /\ e \in Seq(Register) /\ Len(e) = Len(b.holding)
          /\ \A i \in DOMAIN b.holding :
               e[i] = IF i - a \in DOMAIN d.values THEN d.values[i - a] ELSE b.holding[i]
      BY <1>4, <3>4, SetRegistersProperties DEF a
    <3> HIDE DEF e
    <3>6. q.holding = e /\ q.discrete = b.discrete /\ q.input = b.input /\ q.coils = b.coils
      BY <1>5, <3>3
    <3>7. q \in [coils : Seq(Byte), discrete : Seq(Byte), holding : Seq(Register),
                 input : Seq(Register)]
      BY <1>5, <3>3, <3>5
    <3>8. BankOK(q, Device[s])
      BY <1>5, <3>5, <3>6, <3>7 DEF BankOK
    <3> QED  BY <1>7, <3>1, <3>4, <3>5, <3>6, <3>8 DEF q, d, b, p, a
  <2>4. CASE r.fc \notin {WriteCoil, WriteCoils, WriteRegister, WriteRegisters}
    <3>1. q = b
      BY <1>1, <2>1, <2>4 DEF Written
    <3> QED  BY <2>4, <3>1 DEF q, d, b, p, a
  <2> QED  BY <2>2, <2>3, <2>4
<1> QED  BY <1>6, <1>7

-----------------------------------------------------------------------------
(* Replies                                                                 *)

LEMMA ByteArithmetic ==
  /\ \A x \in Byte : (x + 1) % 256 \in Byte /\ (x + 1) % 256 # x
  /\ \A x \in Byte : (x % 128) + 128 \in Byte /\ 128 + (x % 128) = (x % 128) + 128
  /\ \A x \in Byte, k \in {1, 2} : k <= x => x - k \in Byte
  /\ \A x \in 0..250 : x + 1 \in Byte /\ x + 1 # x
  /\ \A x \in Byte : x \in Nat /\ (~(x >= 128) => x < 128)
  /\ 0 \in Byte /\ 4 \in Byte
<1>1. \A x \in Byte : (x + 1) % 256 \in Byte /\ (x + 1) % 256 # x
  BY DEF Byte
<1>2. \A x \in Byte : (x % 128) + 128 \in Byte /\ 128 + (x % 128) = (x % 128) + 128
  BY DEF Byte
<1>3. \A x \in Byte, k \in {1, 2} : k <= x => x - k \in Byte
  BY DEF Byte
<1>4. \A x \in 0..250 : x + 1 \in Byte /\ x + 1 # x
  BY DEF Byte
<1>5. \A x \in Byte : x \in Nat /\ (~(x >= 128) => x < 128)
  BY DEF Byte
<1>6. 0 \in Byte /\ 4 \in Byte
  BY DEF Byte
<1> QED  BY <1>1, <1>2, <1>3, <1>4, <1>5, <1>6

(* A byte that is not this one, and a function code that refuses.          *)
NextByte(x) == (x + 1) % 256
Refusing(x) == (x % 128) + 128

(* How a reply can be amiss.                                               *)
AmissForm(p, q) ==
  \/ Len(q) = Len(p) - 1 /\ q[1] = p[1]
  \/ Len(q) = Len(p) + 1 /\ q[1] = p[1] /\ q[2] = p[2]
  \/ Len(q) = 1 /\ q[1] = Refusing(p[1])
  \/ Len(q) = 2 /\ q[1] = Refusing(p[1]) /\ q[2] = 4
  \/ q[1] = 0
  \/ q[1] = NextByte(p[1])
  \/ p[1] \in Reads /\ q[1] = p[1] /\ (Len(q) # Len(p) \/ q[2] # p[2])
  \/ /\ p[1] < 128 /\ p[1] \notin Reads /\ q[1] = p[1] /\ Len(q) = Len(p)
     /\ \E i \in 2..Len(p) : /\ q[i] = NextByte(p[i])
                            /\ \A j \in 1..Len(p) : j # i => q[j] = p[j]

LEMMA AmissProperties ==
  ASSUME NEW p \in Seq(Byte), Len(p) >= 2,
         p[1] \in Reads => p[2] \in 0..250 /\ Len(p) = 2 + p[2],
         NEW q \in Amiss(p)
  PROVE  q \in PduBytes /\ AmissForm(p, q)
<1> DEFINE n == Len(p)
           shorter(k) == [SubSeq(p, 1, n - k) EXCEPT ![2] = @ - k]
<1>1. n \in Nat /\ n >= 2 /\ \A i \in 1..n : p[i] \in Byte
  BY LenProperties, ElementOfSeq
<1>2. p[1] \in Byte /\ p[2] \in Byte /\ 1 \in 1..n /\ 2 \in 1..n
  BY <1>1
<1>3. \A t \in Seq(Byte) : Len(t) >= 1 => t \in PduBytes
  BY EmptySeq DEF PduBytes
<1>4. \A i \in 1..n, e \in Byte :
        /\ [p EXCEPT ![i] = e] \in PduBytes /\ Len([p EXCEPT ![i] = e]) = n
        /\ \A j \in 1..n : [p EXCEPT ![i] = e][j] = IF j = i THEN e ELSE p[j]
  <2>1. ASSUME NEW i \in 1..n, NEW e \in Byte
        PROVE  /\ [p EXCEPT ![i] = e] \in Seq(Byte) /\ Len([p EXCEPT ![i] = e]) = n
               /\ \A j \in 1..n : [p EXCEPT ![i] = e][j] = IF j = i THEN e ELSE p[j]
    BY ExceptSeq
  <2> QED  BY <1>1, <1>3, <2>1
<1>5. \A k \in {1, 2} : n - k >= 1 =>
        /\ SubSeq(p, 1, n - k) \in Seq(Byte) /\ Len(SubSeq(p, 1, n - k)) = n - k
        /\ \A j \in 1..(n - k) : SubSeq(p, 1, n - k)[j] = p[j]
  <2> SUFFICES ASSUME NEW k \in {1, 2}, n - k >= 1
               PROVE  /\ SubSeq(p, 1, n - k) \in Seq(Byte) /\ Len(SubSeq(p, 1, n - k)) = n - k
                      /\ \A j \in 1..(n - k) : SubSeq(p, 1, n - k)[j] = p[j]
    OBVIOUS
  <2> DEFINE m == n - k
             t == SubSeq(p, 1, m)
  <2>1. m \in Int /\ 1 <= m /\ m <= n /\ m - 1 + 1 = m /\ \A j \in 1..m : 1 + j - 1 = j
    BY <1>1
  <2>2. \A i \in 1..m : p[i] \in Byte
    BY <1>1, <2>1
  <2> HIDE DEF m
  <2>3. /\ t \in Seq(Byte) /\ Len(t) = IF 1 <= m THEN m - 1 + 1 ELSE 0
        /\ \A j \in 1..(m - 1 + 1) : t[j] = p[1 + j - 1]
    BY <2>1, <2>2, SubSeqProperties
  <2>4. t \in Seq(Byte) /\ Len(t) = m /\ \A j \in 1..m : t[j] = p[j]
    BY <2>1, <2>3
  <2> QED  BY <2>4 DEF m
<1>6. \/ q = SubSeq(p, 1, n - 1)
      \/ q = Append(p, 0)
      \/ q = <<128 + (p[1] % 128)>>
      \/ q = <<(p[1] % 128) + 128, 4>>
      \/ \E x \in {0, (p[1] + 1) % 256} : q = [p EXCEPT ![1] = x]
      \/ p[1] \in Reads /\ q = [p EXCEPT ![2] = p[2] + 1]
      \/ p[1] \in Reads /\ \E k \in {1, 2} : k <= p[2] /\ q = shorter(k)
      \/ /\ p[1] \notin Reads /\ ~(p[1] >= 128)
         /\ \E i \in 2..n : q = [p EXCEPT ![i] = (p[i] + 1) % 256]
  <2> DEFINE A == {SubSeq(p, 1, n - 1), Append(p, 0), <<128 + (p[1] % 128)>>,
                   ExceptionResponse(p[1] % 128, 4)}
             B == {[p EXCEPT ![1] = x] : x \in {0, (p[1] + 1) % 256}}
             R == {[p EXCEPT ![2] = @ + 1]}
             K == {k \in {1, 2} : k <= p[2]}
             L == {shorter(k) : k \in K}
             E == {[p EXCEPT ![i] = (@ + 1) % 256] : i \in 2..n}
  <2>1. q \in A \cup B \cup (IF p[1] \in Reads THEN R \cup L ELSE IF p[1] >= 128 THEN {} ELSE E)
    BY DEF Amiss
  <2>2. q \in A => \/ q = SubSeq(p, 1, n - 1)
                   \/ q = Append(p, 0)
                   \/ q = <<128 + (p[1] % 128)>>
                   \/ q = <<(p[1] % 128) + 128, 4>>
    BY DEF ExceptionResponse
  <2>3. q \in B => \E x \in {0, (p[1] + 1) % 256} : q = [p EXCEPT ![1] = x]
    OBVIOUS
  <2>4. q \in R => q = [p EXCEPT ![2] = p[2] + 1]
    OBVIOUS
  <2>5. q \in L => \E k \in {1, 2} : k <= p[2] /\ q = shorter(k)
    OBVIOUS
  <2>6. q \in E => \E i \in 2..n : q = [p EXCEPT ![i] = (p[i] + 1) % 256]
    OBVIOUS
  <2> HIDE DEF A, B, R, L, E, shorter
  <2> QED  BY <2>1, <2>2, <2>3, <2>4, <2>5, <2>6
<1>7. CASE q = SubSeq(p, 1, n - 1)
  <2>1. n - 1 >= 1 /\ 1 \in 1..(n - 1)
    BY <1>1
  <2>2. q \in Seq(Byte) /\ Len(q) = n - 1 /\ q[1] = p[1]
    BY <1>5, <1>7, <2>1
  <2> QED  BY <1>1, <1>3, <2>1, <2>2 DEF AmissForm, NextByte, Refusing
<1>8. CASE q = Append(p, 0)
  <2>1. q \in Seq(Byte) /\ Len(q) = n + 1 /\ \A j \in 1..n : q[j] = p[j]
    BY <1>8, AppendProperties, ByteArithmetic
  <2> QED  BY <1>1, <1>2, <1>3, <2>1 DEF AmissForm, NextByte, Refusing
<1>9. CASE q = <<128 + (p[1] % 128)>>
  <2>1. 128 + (p[1] % 128) = (p[1] % 128) + 128 /\ (p[1] % 128) + 128 \in Byte
    BY <1>2, ByteArithmetic
  <2>2. q \in Seq(Byte) /\ Len(q) = 1 /\ q[1] = (p[1] % 128) + 128
    BY <1>9, <2>1
  <2>3. q \in PduBytes
    <3>1. Len(q) >= 1 /\ q \in Seq(Byte)
      BY <2>2
    <3> QED  BY <1>3, <3>1
  <2> QED  BY <2>2, <2>3, Zenon DEF AmissForm, NextByte, Refusing
<1>10. CASE q = <<(p[1] % 128) + 128, 4>>
  <2>1. (p[1] % 128) + 128 \in Byte /\ 4 \in Byte
    BY <1>2, ByteArithmetic
  <2>2. q \in Seq(Byte) /\ Len(q) = 2 /\ q[1] = (p[1] % 128) + 128 /\ q[2] = 4
    BY <1>10, <2>1
  <2>3. q \in PduBytes
    <3>1. Len(q) >= 1 /\ q \in Seq(Byte)
      BY <2>2
    <3> QED  BY <1>3, <3>1
  <2> QED  BY <2>2, <2>3, Zenon DEF AmissForm, NextByte, Refusing
<1>11. CASE \E x \in {0, (p[1] + 1) % 256} : q = [p EXCEPT ![1] = x]
  <2>1. PICK x \in {0, (p[1] + 1) % 256} : q = [p EXCEPT ![1] = x]
    BY <1>11
  <2>2. x \in Byte
    <3>1. 0 \in Byte /\ (p[1] + 1) % 256 \in Byte
      BY <1>2, ByteArithmetic, Zenon
    <3> QED  BY <2>1, <3>1
  <2>3. q \in PduBytes /\ q[1] = x
    <3>1. [p EXCEPT ![1] = x] \in PduBytes
      BY <1>2, <1>4, <2>2, Zenon
    <3>2. [p EXCEPT ![1] = x][1] = x
      BY <1>2, <1>4, <2>2
    <3> QED  BY <2>1, <3>1, <3>2
  <2> QED  BY <2>3 DEF AmissForm, NextByte, Refusing
<1>12. CASE p[1] \in Reads /\ q = [p EXCEPT ![2] = p[2] + 1]
  <2>1. p[2] + 1 \in Byte /\ p[2] + 1 # p[2]
    BY <1>2, <1>12, ByteArithmetic
  <2> DEFINE e == p[2] + 1
  <2>a. e \in Byte
    BY <2>1
  <2> HIDE DEF e
  <2>b. /\ [p EXCEPT ![2] = e] \in PduBytes
        /\ \A j \in 1..n : [p EXCEPT ![2] = e][j] = IF j = 2 THEN e ELSE p[j]
    BY <1>2, <1>4, <2>a
  <2>c. q = [p EXCEPT ![2] = e]
    BY <1>12 DEF e
  <2>2. q \in PduBytes /\ q[2] = p[2] + 1 /\ q[1] = p[1]
    BY <1>2, <2>b, <2>c DEF e
  <2> QED  BY <1>12, <2>1, <2>2 DEF AmissForm, NextByte, Refusing
<1>13. CASE p[1] \in Reads /\ \E k \in {1, 2} : k <= p[2] /\ q = shorter(k)
  <2>1. PICK k \in {1, 2} : k <= p[2] /\ q = shorter(k)
    BY <1>13
  <2> DEFINE t == SubSeq(p, 1, n - k)
  <2>2. p[2] \in Nat /\ n = 2 + p[2]
    BY <1>2, <1>13, ByteArithmetic, Zenon
  <2>3. n - k >= 1 /\ 1 \in 1..(n - k) /\ 2 \in 1..(n - k) /\ n - k # n
    <3>1. \A x \in Nat, j \in {1, 2} : j <= x =>
            LET m == 2 + x - j IN m >= 1 /\ 1 \in 1..m /\ 2 \in 1..m /\ m # 2 + x
      OBVIOUS
    <3>2. k <= p[2]
      BY <2>1
    <3> QED  BY <2>2, <3>1, <3>2
  <2>4. t \in Seq(Byte) /\ Len(t) = n - k /\ t[1] = p[1] /\ t[2] = p[2]
    BY <1>5, <2>3
  <2>5. q = [t EXCEPT ![2] = t[2] - k]
    BY <2>1
  <2>6. t[2] - k \in Byte
    BY <1>2, <2>1, <2>4, ByteArithmetic
  <2> DEFINE e == t[2] - k
  <2> HIDE DEF t, e
  <2>7. /\ [t EXCEPT ![2] = e] \in Seq(Byte) /\ Len([t EXCEPT ![2] = e]) = Len(t)
        /\ \A j \in 1..Len(t) : [t EXCEPT ![2] = e][j] = IF j = 2 THEN e ELSE t[j]
    <3>1. e \in Byte /\ 2 \in 1..Len(t)
      BY <2>3, <2>4, <2>6 DEF e
    <3> QED  BY <2>4, <3>1, ExceptSeq
  <2>8. q = [t EXCEPT ![2] = e]
    BY <2>5 DEF e
  <2>9. q \in Seq(Byte) /\ Len(q) = n - k /\ q[1] = p[1]
    BY <2>3, <2>4, <2>7, <2>8
  <2> QED  BY <1>3, <1>13, <2>3, <2>9 DEF AmissForm, NextByte, Refusing
<1>14. CASE /\ p[1] \notin Reads /\ ~(p[1] >= 128)
            /\ \E i \in 2..n : q = [p EXCEPT ![i] = (p[i] + 1) % 256]
  <2>1. PICK i \in 2..n : q = [p EXCEPT ![i] = (p[i] + 1) % 256]
    BY <1>14
  <2> DEFINE e == (p[i] + 1) % 256
  <2>2. i \in 1..n /\ i # 1
    BY <1>1
  <2>3. e \in Byte
    BY <1>1, <2>2, ByteArithmetic
  <2> HIDE DEF e
  <2>4. q = [p EXCEPT ![i] = e]
    BY <2>1 DEF e
  <2>5. q \in PduBytes /\ Len(q) = n /\ \A j \in 1..n : q[j] = IF j = i THEN e ELSE p[j]
    <3>1. /\ [p EXCEPT ![i] = e] \in PduBytes /\ Len([p EXCEPT ![i] = e]) = n
          /\ \A j \in 1..n : [p EXCEPT ![i] = e][j] = IF j = i THEN e ELSE p[j]
      BY <1>4, <2>2, <2>3
    <3> QED  BY <2>4, <3>1
  <2>6. q[1] = p[1] /\ q[i] = (p[i] + 1) % 256 /\ \A j \in 1..n : j # i => q[j] = p[j]
    BY <1>2, <2>2, <2>5 DEF e
  <2>7. p[1] < 128
    BY <1>2, <1>14, ByteArithmetic
  <2> QED  BY <1>14, <2>5, <2>6, <2>7 DEF AmissForm, NextByte, Refusing
<1> QED  BY <1>6, <1>7, <1>8, <1>9, <1>10, <1>11, <1>12, <1>13, <1>14

(* A bank of coils holds those from a on, n of them.                       *)
Holds(bytes, size, a, n) ==
  /\ bytes \in Seq(Byte) /\ size \in Nat /\ BitBytes(size) <= Len(bytes)
  /\ a \in Nat /\ n \in Nat /\ a + n <= size

(* The coils a read returns are those of the memory, and as many as asked. *)
LEMMA BitContents ==
  ASSUME NEW bytes, NEW size, NEW a, NEW n, Holds(bytes, size, a, n),
         NEW c, c = [i \in 1..n |-> BitAt(bytes, a + i - 1)]
  PROVE  /\ c \in Seq(Bit) /\ Len(c) = n
         /\ c = SubSeq(UnpackBits(bytes, size), a + 1, a + n)
<1> DEFINE u == UnpackBits(bytes, size)
           t == SubSeq(u, a + 1, a + n)
<1> USE DEF Holds
<1>1. u \in Seq(Bit) /\ Len(u) = size
  BY UnpackBitsProperties
<1>2. \A i \in 1..size : u[i] = BitAt(bytes, i - 1) /\ u[i] \in Bit
  <2>1. \A i \in 1..size : u[i] = BitAt(bytes, i - 1)
    BY DEF UnpackBits
  <2>2. \A i \in 1..size : u[i] \in Bit
    BY <1>1, LenProperties, ElementOfSeq
  <2> QED  BY <2>1, <2>2
<1> HIDE DEF u
<1>3. \A i \in 1..n : a + i \in 1..size /\ a + i - 1 = a + 1 + i - 1 - 1 /\ a + 1 + i - 1 = a + i
                      /\ a + i - 1 = (a + i) - 1
  OBVIOUS
<1>4. \A i \in 1..n : BitAt(bytes, a + i - 1) = u[a + i] /\ u[a + i] \in Bit
  <2> SUFFICES ASSUME NEW i \in 1..n
               PROVE  BitAt(bytes, a + i - 1) = u[a + i] /\ u[a + i] \in Bit
    OBVIOUS
  <2> DEFINE j == a + i
  <2>1. j \in 1..size /\ a + i - 1 = j - 1
    BY <1>3
  <2> HIDE DEF j
  <2>2. u[j] = BitAt(bytes, j - 1) /\ u[j] \in Bit
    BY <1>2, <2>1
  <2>3. BitAt(bytes, a + i - 1) = BitAt(bytes, j - 1)
    BY <2>1
  <2> QED  BY <2>2, <2>3 DEF j
<1>5. c \in [1..n -> Bit]
  BY <1>4
<1>6. c \in Seq(Bit) /\ Len(c) = n
  BY <1>5, FunctionIsSeq
<1>7. t \in Seq(Bit) /\ Len(t) = n /\ \A i \in 1..n : t[i] = u[a + 1 + i - 1]
  <2> DEFINE m == a + 1
             k == a + n
  <2>1. m \in Int /\ k \in Int /\ k - m + 1 = n /\ (m <= k <=> n # 0) /\ 1 <= m /\ k <= size
    OBVIOUS
  <2>2. \A i \in m..k : u[i] \in Bit
    BY <1>2, <2>1
  <2> HIDE DEF m, k
  <2>3. /\ SubSeq(u, m, k) \in Seq(Bit)
        /\ Len(SubSeq(u, m, k)) = IF m <= k THEN k - m + 1 ELSE 0
        /\ \A i \in 1..(k - m + 1) : SubSeq(u, m, k)[i] = u[m + i - 1]
    BY <2>1, <2>2, SubSeqProperties
  <2>4. Len(SubSeq(u, m, k)) = n /\ \A i \in 1..n : SubSeq(u, m, k)[i] = u[m + i - 1]
    BY <2>1, <2>3
  <2> QED  BY <2>3, <2>4 DEF m, k
<1>8. \A i \in 1..n : t[i] = u[a + i]
  BY <1>3, <1>7
<1>9. \A i \in 1..n : c[i] = u[a + i]
  BY <1>4
<1> HIDE DEF t
<1>10. c = t
  BY <1>6, <1>7, <1>8, <1>9, SeqEqual
<1> QED  BY <1>6, <1>10 DEF t, u

LEMMA WordContents ==
  ASSUME NEW words \in Seq(Register), NEW a \in Nat, NEW n \in Nat, a + n <= Len(words)
  PROVE  LET c == SubSeq(words, a + 1, a + n) IN
         c \in Seq(Register) /\ Len(c) = n
<1> DEFINE m == a + 1
           k == a + n
<1>1. m \in Int /\ k \in Int /\ k - m + 1 = n /\ (m <= k <=> n # 0) /\ 1 <= m /\ k <= Len(words)
  OBVIOUS
<1>2. \A i \in m..k : words[i] \in Register
  <2>1. \A i \in 1..Len(words) : words[i] \in Register
    BY LenProperties, ElementOfSeq
  <2>2. Len(words) \in Nat
    BY LenProperties
  <2>3. \A i \in m..k : i \in 1..Len(words)
    BY <1>1, <2>2
  <2> QED  BY <2>1, <2>3
<1> HIDE DEF m, k
<1>3. /\ SubSeq(words, m, k) \in Seq(Register)
      /\ Len(SubSeq(words, m, k)) = IF m <= k THEN k - m + 1 ELSE 0
  BY <1>1, <1>2, SubSeqProperties
<1>4. Len(SubSeq(words, m, k)) = n
  BY <1>1, <1>3
<1> QED  BY <1>3, <1>4 DEF m, k

(* A read that a device allows returns what the memory holds there.        *)
LEMMA ReadContents ==
  ASSUME NEW s \in Slaves, BankOK(bank[s], Device[s]), NEW r, AsCalled(r), Encodable(r),
         r.fc \in Reads, Permission(s, r) = "ok"
  PROVE  LET c == Contents(bank[s], Said(r)) IN
         /\ c \in Seq(Value(r.fc)) /\ Len(c) = r.count
         /\ c = SubSeq(MemOf(s)[BankOf(r.fc)], r.address + 1, r.address + r.count)
<1> DEFINE a == r.address
           n == r.count
           b == bank[s]
           d == Device[s]
           c == Contents(b, Said(r))
<1>1. n \in Nat /\ a \in Nat
  <2>1. r.address \in 0..MaxAddress /\ r.count \in Nat
    BY DEF AsCalled, Encodable
  <2>2. \A x \in 0..MaxAddress : x \in Nat
    BY AddressNatural
  <2> QED  BY <2>1, <2>2
<1>2. r.fc # Loopback
  BY Codes
<1>3. a + n <= d[BankOf(r.fc)] \/ ~(d[BankOf(r.fc)] \in Nat)
  <2>1. ~(a + n > d[BankOf(r.fc)])
    BY <1>2 DEF Permission
  <2> HIDE DEF a, n, d
  <2>2. \A x \in Nat, y \in Nat, z \in Nat : ~(x + y > z) => x + y <= z
    OBVIOUS
  <2> QED  BY <1>1, <2>1, <2>2
<1>4. d.coils \in Nat /\ d.discrete \in Nat /\ d.holding \in Nat /\ d.input \in Nat
  BY ServerAssumption
<1>5. /\ b.coils \in Seq(Byte) /\ Len(b.coils) = BitBytes(d.coils)
      /\ b.discrete \in Seq(Byte) /\ Len(b.discrete) = BitBytes(d.discrete)
      /\ b.holding \in Seq(Register) /\ Len(b.holding) = d.holding
      /\ b.input \in Seq(Register) /\ Len(b.input) = d.input
  BY DEF BankOK
<1>6. Said(r).fc = r.fc /\ Said(r).address = a /\ Said(r).count = n
  BY DEF Said
<1>7. \A x \in Nat : BitBytes(x) \in Nat /\ BitBytes(x) <= BitBytes(x)
  BY DEF BitBytes
<1> HIDE DEF a, n, d, b
<1>8. CASE r.fc = 1
  <2>1. BankOf(r.fc) = "coils" /\ OfBits(r.fc) /\ Value(r.fc) = Bit
    BY <1>8, Codes DEF BankOf, Value
  <2>2. c = [i \in 1..n |-> BitAt(b.coils, a + i - 1)]
    BY <1>6, <2>1 DEF Contents
  <2>3. MemOf(s)[BankOf(r.fc)] = UnpackBits(b.coils, d.coils)
    BY <2>1 DEF MemOf, b, d
  <2>4. a + n <= d.coils
    BY <1>3, <1>4, <2>1
  <2>5. /\ c \in Seq(Bit) /\ Len(c) = n
        /\ c = SubSeq(UnpackBits(b.coils, d.coils), a + 1, a + n)
    <3> DEFINE y == b.coils
               z == d.coils
    <3>1. BitBytes(z) <= Len(y)
      BY <1>4, <1>5, <1>7
    <3>2. y \in Seq(Byte) /\ z \in Nat /\ a + n <= z
      BY <1>4, <1>5, <2>4
    <3> HIDE DEF y, z, c
    <3>3. c = [i \in 1..n |-> BitAt(y, a + i - 1)]
      BY <2>2 DEF y
    <3>4. c \in Seq(Bit) /\ Len(c) = n /\ c = SubSeq(UnpackBits(y, z), a + 1, a + n)
      <4>1. Holds(y, z, a, n)
        BY <1>1, <3>1, <3>2 DEF Holds
      <4> QED  BY <3>3, <4>1, BitContents
    <3> QED  BY <3>4 DEF y, z
  <2> QED  BY <2>1, <2>2, <2>3, <2>5 DEF a, n, b, c
<1>9. CASE r.fc = 2
  <2>1. BankOf(r.fc) = "discrete" /\ OfBits(r.fc) /\ Value(r.fc) = Bit
    BY <1>9, Codes DEF BankOf, Value
  <2>2. c = [i \in 1..n |-> BitAt(b.discrete, a + i - 1)]
    BY <1>6, <2>1 DEF Contents
  <2>3. MemOf(s)[BankOf(r.fc)] = UnpackBits(b.discrete, d.discrete)
    BY <2>1 DEF MemOf, b, d
  <2>4. a + n <= d.discrete
    BY <1>3, <1>4, <2>1
  <2>5. /\ c \in Seq(Bit) /\ Len(c) = n
        /\ c = SubSeq(UnpackBits(b.discrete, d.discrete), a + 1, a + n)
    <3> DEFINE y == b.discrete
               z == d.discrete
    <3>1. BitBytes(z) <= Len(y)
      BY <1>4, <1>5, <1>7
    <3>2. y \in Seq(Byte) /\ z \in Nat /\ a + n <= z
      BY <1>4, <1>5, <2>4
    <3> HIDE DEF y, z, c
    <3>3. c = [i \in 1..n |-> BitAt(y, a + i - 1)]
      BY <2>2 DEF y
    <3>4. c \in Seq(Bit) /\ Len(c) = n /\ c = SubSeq(UnpackBits(y, z), a + 1, a + n)
      <4>1. Holds(y, z, a, n)
        BY <1>1, <3>1, <3>2 DEF Holds
      <4> QED  BY <3>3, <4>1, BitContents
    <3> QED  BY <3>4 DEF y, z
  <2> QED  BY <2>1, <2>2, <2>3, <2>5 DEF a, n, b, c
<1>10. CASE r.fc = 3
  <2>1. BankOf(r.fc) = "holding" /\ ~OfBits(r.fc) /\ Value(r.fc) = Register
    BY <1>10, Codes DEF BankOf, Value
  <2>2. c = SubSeq(b.holding, a + 1, a + n)
    BY <1>6, <2>1 DEF Contents
  <2>3. MemOf(s)[BankOf(r.fc)] = b.holding
    BY <2>1 DEF MemOf, b
  <2>4. a + n <= Len(b.holding) /\ b.holding \in Seq(Register)
    BY <1>3, <1>4, <1>5, <2>1
  <2>5. LET e == SubSeq(b.holding, a + 1, a + n) IN e \in Seq(Register) /\ Len(e) = n
    BY <1>1, <2>4, WordContents
  <2> QED  BY <2>1, <2>2, <2>3, <2>5 DEF a, n, b, c
<1>11. CASE r.fc = 4
  <2>1. BankOf(r.fc) = "input" /\ ~OfBits(r.fc) /\ Value(r.fc) = Register
    BY <1>11, Codes DEF BankOf, Value
  <2>2. c = SubSeq(b.input, a + 1, a + n)
    BY <1>6, <2>1 DEF Contents
  <2>3. MemOf(s)[BankOf(r.fc)] = b.input
    BY <2>1 DEF MemOf, b
  <2>4. a + n <= Len(b.input) /\ b.input \in Seq(Register)
    BY <1>3, <1>4, <1>5, <2>1
  <2>5. LET e == SubSeq(b.input, a + 1, a + n) IN e \in Seq(Register) /\ Len(e) = n
    BY <1>1, <2>4, WordContents
  <2> QED  BY <2>1, <2>2, <2>3, <2>5 DEF a, n, b, c
<1> QED  BY <1>8, <1>9, <1>10, <1>11, Codes

(* The reply of a slave that answers as it is asked.                       *)
AnswerTo(s, pdu, b) ==
  LET r == Stored(s, DecodeRequest(pdu)) IN
  IF Refusal(s, pdu) # 0 THEN ExceptionResponse(pdu[1] % 128, Refusal(s, pdu))
  ELSE EncodeResponse(r, IF r.fc \in Reads THEN Contents(b, r) ELSE <<>>)

RefusalShape(s, r, a) ==
  /\ Permission(s, r) # "ok"
  /\ Len(a) = 2 /\ a[1] = r.fc + 128 /\ a[2] \in {1, 2, 3}
  /\ ExceptionKind(a[2]) = Permission(s, r)
ReadShape(s, r, a) ==
  /\ Permission(s, r) = "ok" /\ r.fc \in Reads
  /\ a[1] = r.fc /\ a[2] = DataBytes(r.fc, r.count) /\ a[2] \in 1..250 /\ Len(a) = 2 + a[2]
  /\ SubSeq(a, 3, Len(a)) = Pack(r.fc, Contents(bank[s], Said(r)))
EchoShape(s, r, a) ==
  /\ Permission(s, r) = "ok" /\ r.fc \notin Reads
  /\ a[1] = r.fc /\ Len(a) = 5
  /\ WordAt(a, 2) = r.address /\ WordAt(a, 4) = SecondWord(Stored(s, Said(r)))

LEMMA AnswerShape ==
  ASSUME NEW s \in Slaves, BankOK(bank[s], Device[s]), NEW r, AsCalled(r), Encodable(r)
  PROVE  LET a == AnswerTo(s, EncodeRequest(r), bank[s]) IN
         /\ a \in Seq(Byte) /\ Len(a) >= 2
         /\ RefusalShape(s, r, a) \/ ReadShape(s, r, a) \/ EchoShape(s, r, a)
<1> DEFINE p == EncodeRequest(r)
           d == Stored(s, Said(r))
           a == AnswerTo(s, p, bank[s])
           k == Refusal(s, p)
<1>1. p[1] = r.fc
  BY RequestProperties
<1>2. DecodeRequest(p) = Said(r)
  BY RequestRoundTrip
<1>3. \/ Permission(s, r) = "ok" /\ k = 0
      \/ Permission(s, r) = "illegal_function" /\ k = 1
      \/ Permission(s, r) = "illegal_address" /\ k = 2
      \/ Permission(s, r) = "illegal_value" /\ k = 3
  BY RefusalOfRequest
<1>4. /\ d.fc = r.fc /\ d.address = r.address /\ d.count = r.count /\ AsCalled(d) /\ Encodable(d)
      /\ r.fc # WriteRegister => d.values = r.values
  BY StoredProperties
<1>5. r.fc \in 1..16
  BY CalledProperties
<1>6. a = IF k # 0 THEN ExceptionResponse(r.fc % 128, k)
          ELSE EncodeResponse(d, IF d.fc \in Reads THEN Contents(bank[s], d) ELSE <<>>)
  BY <1>1, <1>2 DEF AnswerTo
<1> HIDE DEF a, k, p, d
<1>7. CASE Permission(s, r) # "ok"
  <2>1. k \in {1, 2, 3} /\ k # 0 /\ ExceptionKind(k) = Permission(s, r)
    BY <1>3, <1>7 DEF ExceptionKind
  <2>2. r.fc % 128 = r.fc /\ r.fc + 128 \in Byte
    BY <1>5 DEF Byte
  <2>3. a = <<r.fc + 128, k>>
    BY <1>6, <2>1, <2>2 DEF ExceptionResponse
  <2>4. k \in Byte
    BY <2>1 DEF Byte
  <2>5. a \in Seq(Byte) /\ Len(a) = 2 /\ a[1] = r.fc + 128 /\ a[2] = k
    BY <2>2, <2>3, <2>4
  <2>6. Len(a) >= 2
    BY <2>5
  <2>7. RefusalShape(s, r, a)
    BY <1>7, <2>1, <2>5 DEF RefusalShape
  <2> QED  BY <2>5, <2>6, <2>7 DEF a, p
<1>8. CASE Permission(s, r) = "ok" /\ r.fc \in Reads
  <2> DEFINE c == Contents(bank[s], Said(r))
  <2>1. r.fc # WriteRegister
    BY <1>8, Codes
  <2>2. d = Said(r)
    BY <2>1 DEF d, Stored, Said
  <2>3. c \in Seq(Value(r.fc)) /\ Len(c) = r.count
    BY <1>8, ReadContents
  <2>4. a = EncodeResponse(d, c)
    BY <1>3, <1>4, <1>6, <1>8, <2>2
  <2>5. QuantityOK(r.fc, r.count)
    BY DEF Encodable
  <2>6. EncodeResponse(d, c) = EncodeResponse(r, c)
    BY <1>4, <1>8 DEF EncodeResponse
  <2> HIDE DEF c
  <2>7. LET q == EncodeResponse(r, c) IN
        /\ q \in Seq(Byte) /\ q[1] = r.fc /\ q[2] = DataBytes(r.fc, r.count)
        /\ Len(q) = 2 + DataBytes(r.fc, r.count) /\ DataBytes(r.fc, r.count) \in 1..250
        /\ SubSeq(q, 3, Len(q)) = Pack(r.fc, c)
    BY <1>8, <2>3, <2>5, ReadResponseProperties
  <2>8. /\ a \in Seq(Byte) /\ a[1] = r.fc /\ a[2] = DataBytes(r.fc, r.count)
        /\ Len(a) = 2 + a[2] /\ a[2] \in 1..250
        /\ SubSeq(a, 3, Len(a)) = Pack(r.fc, c)
    BY <2>4, <2>6, <2>7
  <2>9. Len(a) >= 2
    <3>1. \A x \in 1..250 : 2 + x >= 2
      OBVIOUS
    <3> QED  BY <2>8, <3>1
  <2>10. ReadShape(s, r, a)
    BY <1>8, <2>8 DEF ReadShape, c
  <2> QED  BY <2>8, <2>9, <2>10 DEF a, p
<1>9. CASE Permission(s, r) = "ok" /\ r.fc \notin Reads
  <2>1. a = EncodeResponse(d, <<>>)
    BY <1>3, <1>4, <1>6, <1>9
  <2>2. /\ a \in Seq(Byte) /\ Len(a) = 5 /\ a[1] = r.fc
        /\ WordAt(a, 2) = r.address /\ WordAt(a, 4) = SecondWord(d)
    BY <1>4, <1>9, <2>1, EchoProperties
  <2>3. Len(a) >= 2
    BY <2>2
  <2>4. EchoShape(s, r, a)
    BY <1>9, <2>2 DEF EchoShape, d
  <2> QED  BY <2>2, <2>3, <2>4 DEF a, p
<1> QED  BY <1>7, <1>8, <1>9

LEMMA CodeBytes ==
  \A x \in 1..16 :
    /\ Refusing(x) # x /\ NextByte(x) # x /\ 0 # x
    /\ NextByte(x) - 128 # x /\ 0 - 128 # x /\ x - 128 # x
    /\ x + 128 \notin Reads /\ Refusing(x + 128) = x + 128 /\ ~(x + 128 < 128)
    /\ NextByte(x + 128) # x /\ NextByte(x + 128) - 128 # x /\ x + 128 # x
BY Codes DEF Refusing, NextByte

(* A reply that is amiss is never taken for a value, nor for a refusal     *)
(* unless it is one.                                                       *)
LEMMA AmissRead ==
  ASSUME NEW s \in Slaves, NEW r, AsCalled(r), Encodable(r), NEW a \in Seq(Byte),
         ReadShape(s, r, a), NEW q \in PduBytes, AmissForm(a, q)
  PROVE  Kind(r, q) # "value" /\ Kind(r, q) \notin Memory!Refusals
<1>1. r.fc \in Reads /\ a[1] = r.fc /\ r.fc \in FunctionCodes
  BY Codes DEF ReadShape
<1>2. q \in Seq(Byte) /\ q # <<>>
  BY DEF PduBytes
<1>3. /\ Refusing(r.fc) # r.fc /\ NextByte(r.fc) # r.fc /\ 0 # r.fc
      /\ NextByte(r.fc) - 128 # r.fc /\ 0 - 128 # r.fc /\ r.fc - 128 # r.fc
  BY CodeBytes, CalledProperties
<1> DEFINE n == DataBytes(r.fc, r.count)
<1>4. Len(a) = 2 + n /\ a[2] = n /\ n \in Nat
  <2>1. Len(a) = 2 + n /\ a[2] = n /\ n \in 1..250
    BY DEF ReadShape
  <2>2. \A x \in 1..250 : x \in Nat
    OBVIOUS
  <2> QED  BY <2>1, <2>2
<1> HIDE DEF n
<1>5. \/ Len(q) # 2 + n \/ q[1] # r.fc \/ q[2] # n
  BY <1>1, <1>3, <1>4 DEF AmissForm
<1>6. Kind(r, q) # "value"
  <2>1. QuantityOK(r.fc, r.count)
    BY DEF Encodable
  <2> QED  BY <1>1, <1>2, <1>5, <2>1, ReadValue DEF n
<1>7. Kind(r, q) \in Memory!Refusals =>
        q[1] - 128 = r.fc /\ Len(q) >= 2 /\ Kind(r, q) = ExceptionKind(q[2])
  BY <1>1, <1>2, InterpretKinds DEF Memory!Refusals
<1>8. ASSUME Kind(r, q) \in Memory!Refusals PROVE FALSE
  <2>1. q[1] - 128 = r.fc /\ Len(q) >= 2 /\ Kind(r, q) = ExceptionKind(q[2])
    BY <1>7, <1>8
  <2>2. q[1] # r.fc /\ q[1] # 0 /\ q[1] # NextByte(r.fc)
    BY <1>1, <1>3, <2>1
  <2>3. Len(q) = 1 \/ (Len(q) = 2 /\ q[2] = 4)
    BY <1>1, <2>2 DEF AmissForm
  <2>4. Len(q) # 1
    BY <2>1
  <2>5. Kind(r, q) = ExceptionKind(4)
    BY <2>1, <2>3, <2>4
  <2> QED  BY <1>8, <2>5 DEF ExceptionKind, Memory!Refusals
<1> QED  BY <1>6, <1>8

LEMMA AmissEcho ==
  ASSUME NEW s \in Slaves, NEW r, AsCalled(r), Encodable(r), NEW a \in Seq(Byte),
         EchoShape(s, r, a), NEW q \in PduBytes, AmissForm(a, q)
  PROVE  /\ Kind(r, q) \notin Memory!Refusals
         /\ SecondWord(Stored(s, Said(r))) = SecondWord(r) => Kind(r, q) # "value"
<1>1. r.fc \notin Reads /\ a[1] = r.fc /\ r.fc \in FunctionCodes /\ r.fc \in 1..16
  BY CalledProperties DEF EchoShape
<1>2. q \in Seq(Byte) /\ q # <<>>
  BY DEF PduBytes
<1>3. /\ Refusing(r.fc) # r.fc /\ NextByte(r.fc) # r.fc /\ 0 # r.fc
      /\ NextByte(r.fc) - 128 # r.fc /\ 0 - 128 # r.fc /\ r.fc - 128 # r.fc
  BY <1>1, CodeBytes
<1>4. Len(a) = 5
  BY DEF EchoShape
<1>5. Kind(r, q) \in Memory!Refusals =>
        q[1] - 128 = r.fc /\ Len(q) >= 2 /\ Kind(r, q) = ExceptionKind(q[2])
  BY <1>1, <1>2, InterpretKinds DEF Memory!Refusals
<1>6. ASSUME Kind(r, q) \in Memory!Refusals PROVE FALSE
  <2>1. q[1] - 128 = r.fc /\ Len(q) >= 2 /\ Kind(r, q) = ExceptionKind(q[2])
    BY <1>5, <1>6
  <2>2. q[1] # r.fc /\ q[1] # 0 /\ q[1] # NextByte(r.fc)
    BY <1>1, <1>3, <2>1
  <2>3. Len(q) = 1 \/ (Len(q) = 2 /\ q[2] = 4)
    BY <1>1, <2>2 DEF AmissForm
  <2>4. Len(q) # 1
    BY <2>1
  <2>5. Kind(r, q) = ExceptionKind(4)
    BY <2>1, <2>3, <2>4
  <2> QED  BY <1>6, <2>5 DEF ExceptionKind, Memory!Refusals
<1>7. ASSUME SecondWord(Stored(s, Said(r))) = SecondWord(r), Kind(r, q) = "value"
      PROVE  FALSE
  <2>1. /\ q[1] = r.fc /\ Len(q) = 5
        /\ WordAt(q, 2) = r.address /\ WordAt(q, 4) = SecondWord(r)
    BY <1>1, <1>2, <1>7, EchoValue
  <2>2. WordAt(q, 2) = WordAt(a, 2) /\ WordAt(q, 4) = WordAt(a, 4)
    BY <1>7, <2>1 DEF EchoShape
  <2>3. q[1] # 0 /\ q[1] # NextByte(a[1]) /\ q[1] # Refusing(a[1])
    BY <1>1, <1>3, <2>1
  <2>4. \E i \in 2..Len(a) : /\ q[i] = NextByte(a[i])
                             /\ \A j \in 1..Len(a) : j # i => q[j] = a[j]
    BY <1>1, <1>4, <2>1, <2>3 DEF AmissForm
  <2>5. PICK i \in 2..5 : q[i] = NextByte(a[i]) /\ \A j \in 1..5 : j # i => q[j] = a[j]
    BY <1>4, <2>4
  <2>6. \A j \in 1..5 : a[j] \in Byte /\ q[j] \in Byte
    BY <1>2, <1>4, <2>1, LenProperties, ElementOfSeq
  <2>7. \A x \in Byte : NextByte(x) # x
    BY ByteArithmetic DEF NextByte
  <2>8. q[i] # a[i]
    BY <2>5, <2>6, <2>7
  <2>9. \A w \in Byte, x \in Byte, y \in Byte, z \in Byte :
          256 * w + x = 256 * y + z => w = y /\ x = z
    BY DEF Byte
  <2>10. 256 * q[2] + q[3] = 256 * a[2] + a[3] /\ 256 * q[4] + q[5] = 256 * a[4] + a[5]
    BY <2>2 DEF WordAt
  <2>11. q[2] = a[2] /\ q[3] = a[3] /\ q[4] = a[4] /\ q[5] = a[5]
    BY <2>6, <2>9, <2>10
  <2> QED  BY <2>5, <2>8, <2>11
<1> QED  BY <1>6, <1>7

LEMMA AmissRefusal ==
  ASSUME NEW s \in Slaves, NEW r, AsCalled(r), Encodable(r), NEW a \in Seq(Byte),
         RefusalShape(s, r, a), NEW q \in PduBytes, AmissForm(a, q)
  PROVE  /\ Kind(r, q) # "value"
         /\ Kind(r, q) \in Memory!Refusals => Kind(r, q) = Permission(s, r)
<1>1. /\ a[1] = r.fc + 128 /\ r.fc \in FunctionCodes /\ r.fc \in 1..16 /\ Len(a) = 2
      /\ ExceptionKind(a[2]) = Permission(s, r)
  BY CalledProperties DEF RefusalShape
<1>2. q \in Seq(Byte) /\ q # <<>>
  BY DEF PduBytes
<1>3. /\ a[1] \notin Reads /\ Refusing(a[1]) = a[1] /\ ~(a[1] < 128)
      /\ NextByte(a[1]) # r.fc /\ NextByte(a[1]) - 128 # r.fc
      /\ 0 # r.fc /\ a[1] # r.fc /\ 0 - 128 # r.fc
  <2> DEFINE f == r.fc
  <2>1. f \in 1..16 /\ a[1] = f + 128
    BY <1>1
  <2> HIDE DEF f
  <2>2. f + 128 \notin Reads /\ Refusing(f + 128) = f + 128
    BY <2>1, CodeBytes
  <2>3. NextByte(f + 128) # f /\ NextByte(f + 128) - 128 # f
    BY <2>1, CodeBytes
  <2>4. ~(f + 128 < 128) /\ 0 # f /\ f + 128 # f /\ 0 - 128 # f
    BY <2>1
  <2> QED  BY <2>1, <2>2, <2>3, <2>4 DEF f
<1>4. \/ Len(q) = 1 /\ q[1] = a[1]
      \/ Len(q) = 3 /\ q[1] = a[1] /\ q[2] = a[2]
      \/ Len(q) = 2 /\ q[1] = a[1] /\ q[2] = 4
      \/ q[1] = 0
      \/ q[1] = NextByte(a[1])
  BY <1>1, <1>3 DEF AmissForm
<1>5. q[1] # r.fc
  BY <1>1, <1>3, <1>4
<1>6. Kind(r, q) # "value"
  BY <1>1, <1>2, <1>5, InterpretKinds
<1>7. ASSUME Kind(r, q) \in Memory!Refusals PROVE Kind(r, q) = Permission(s, r)
  <2>1. q[1] - 128 = r.fc /\ Len(q) >= 2 /\ Kind(r, q) = ExceptionKind(q[2])
    BY <1>1, <1>2, <1>7, InterpretKinds DEF Memory!Refusals
  <2>2. q[1] # 0 /\ q[1] # NextByte(a[1])
    BY <1>1, <1>3, <2>1
  <2>3. Len(q) # 1
    BY <2>1
  <2>4. q[2] # 4
    BY <1>7, <2>1 DEF ExceptionKind, Memory!Refusals
  <2>5. q[2] = a[2]
    BY <1>4, <2>2, <2>3, <2>4
  <2> QED  BY <1>1, <2>1, <2>5
<1> QED  BY <1>6, <1>7

LEMMA RepliesForm ==
  ASSUME NEW s, NEW p, NEW b, NEW q \in Replies(s, p, b)
  PROVE  LET a == AnswerTo(s, p, b) IN
         q = a \/ ("distorts" \in Device[s].handle /\ q \in Amiss(a))
<1> DEFINE a == AnswerTo(s, p, b)
<1>1. Replies(s, p, b) = {a} \cup (IF "distorts" \in Device[s].handle THEN Amiss(a) ELSE {})
  BY DEF Replies, AnswerTo
<1> HIDE DEF a
<1> QED  BY <1>1 DEF a

(* A slave's reply to a request that was encoded: bytes, which give a      *)
(* value only for a call that the device allows, and refuse it as it does. *)
LEMMA RepliesProperties ==
  ASSUME NEW s \in Slaves, BankOK(bank[s], Device[s]), NEW r, AsCalled(r), Encodable(r),
         NEW q \in Replies(s, EncodeRequest(r), bank[s])
  PROVE  /\ q \in PduBytes
         /\ Kind(r, q) = "value" => Permission(s, r) = "ok"
         /\ Kind(r, q) \in Memory!Refusals => Permission(s, r) = Kind(r, q)
         /\ "distorts" \notin Device[s].handle => ReplyFits(q)
<1> DEFINE a == AnswerTo(s, EncodeRequest(r), bank[s])
<1>1. q = a \/ ("distorts" \in Device[s].handle /\ q \in Amiss(a))
  BY RepliesForm
<1>2. /\ a \in Seq(Byte) /\ Len(a) >= 2
      /\ RefusalShape(s, r, a) \/ ReadShape(s, r, a) \/ EchoShape(s, r, a)
  BY AnswerShape
<1>3. r.fc \in FunctionCodes /\ r.fc \in 1..16
  BY CalledProperties
<1> HIDE DEF a
<1>4. a \in PduBytes /\ a # <<>>
  BY <1>2, EmptySeq DEF PduBytes
<1>5. \A x \in 1..16 : x + 128 \notin Reads /\ ~(x + 128 < 128) /\ x + 128 # x /\ x - 128 # x
                       /\ x + 128 >= 128 /\ ~(x >= 128)
  BY Codes
<1>6. CASE q = a
  <2>1. q \in PduBytes
    BY <1>4, <1>6
  <2>2. /\ Kind(r, a) = "value" => a[1] = r.fc
        /\ Kind(r, a) \in Memory!Refusals => a[1] - 128 = r.fc /\ Kind(r, a) = ExceptionKind(a[2])
    BY <1>2, <1>3, <1>4, InterpretKinds DEF Memory!Refusals
  <2>3. CASE RefusalShape(s, r, a)
    <3>1. a[1] = r.fc + 128 /\ ExceptionKind(a[2]) = Permission(s, r) /\ Len(a) = 2
      BY <2>3 DEF RefusalShape
    <3>2. a[1] # r.fc /\ a[1] >= 128
      BY <1>3, <1>5, <3>1
    <3>3. ReplyFits(a)
      BY <3>1, <3>2 DEF ReplyFits, IsException, AfterHead, CrcLen
    <3> QED  BY <1>6, <2>1, <2>2, <3>1, <3>2, <3>3
  <2>4. CASE ReadShape(s, r, a)
    <3>1. a[1] = r.fc /\ Permission(s, r) = "ok" /\ r.fc \in Reads /\ Len(a) = 2 + a[2]
          /\ a[2] \in 1..250
      BY <2>4 DEF ReadShape
    <3>2. a[1] - 128 # r.fc /\ ~(a[1] >= 128)
      BY <1>3, <1>5, <3>1
    <3>3. a[1] \in ByteCount1B
      BY <3>1, Codes DEF ByteCount1B
    <3>4. AfterHead(a) = 1 + a[2] + CrcLen
      <4>1. \A x \in 1..250 : (2 + x) - 1 + 2 = 1 + x + 2
        OBVIOUS
      <4>2. AfterHead(a) = (2 + a[2]) - 1 + 2
        BY <3>1 DEF AfterHead, CrcLen
      <4> QED  BY <3>1, <4>1, <4>2 DEF CrcLen
    <3>5. ReplyFits(a)
      BY <3>2, <3>3, <3>4 DEF ReplyFits, IsException
    <3> QED  BY <1>6, <2>1, <2>2, <3>1, <3>2, <3>5
  <2>5. CASE EchoShape(s, r, a)
    <3>1. a[1] = r.fc /\ Permission(s, r) = "ok" /\ r.fc \notin Reads /\ Len(a) = 5
      BY <2>5 DEF EchoShape
    <3>2. a[1] - 128 # r.fc /\ ~(a[1] >= 128)
      BY <1>3, <1>5, <3>1
    <3>3. a[1] \notin ByteCount1B /\ a[1] \in {5, 6, 8, 15, 16}
      BY <1>3, <3>1, Codes DEF ByteCount1B
    <3>4. AfterHead(a) = 6 /\ FixedTail[a[1]] = 6
      BY <3>1, <3>3 DEF AfterHead, CrcLen, FixedTail
    <3>5. ReplyFits(a)
      BY <3>2, <3>3, <3>4 DEF ReplyFits, IsException
    <3> QED  BY <1>6, <2>1, <2>2, <3>1, <3>2, <3>5
  <2> QED  BY <1>2, <2>3, <2>4, <2>5
<1>7. CASE "distorts" \in Device[s].handle /\ q \in Amiss(a)
  <2>1. a[1] \in Reads => a[2] \in 0..250 /\ Len(a) = 2 + a[2]
    <3>1. CASE RefusalShape(s, r, a)
      <4>1. a[1] = r.fc + 128
        BY <3>1 DEF RefusalShape
      <4> QED  BY <1>3, <1>5, <4>1
    <3>2. CASE ReadShape(s, r, a)
      <4>1. a[2] \in 1..250 /\ Len(a) = 2 + a[2]
        BY <3>2 DEF ReadShape
      <4> QED  BY <4>1
    <3>3. CASE EchoShape(s, r, a)
      BY <3>3 DEF EchoShape
    <3> QED  BY <1>2, <3>1, <3>2, <3>3
  <2>2. q \in PduBytes /\ AmissForm(a, q)
    BY <1>2, <1>7, <2>1, AmissProperties
  <2>3. CASE RefusalShape(s, r, a)
    BY <1>2, <1>7, <2>2, <2>3, AmissRefusal
  <2>4. CASE ReadShape(s, r, a)
    BY <1>2, <1>7, <2>2, <2>4, AmissRead
  <2>5. CASE EchoShape(s, r, a)
    <3>1. Permission(s, r) = "ok"
      BY <2>5 DEF EchoShape
    <3> QED  BY <1>2, <1>7, <2>2, <2>5, <3>1, AmissEcho
  <2> QED  BY <1>2, <2>3, <2>4, <2>5
<1> QED  BY <1>1, <1>6, <1>7

(* A request that no encoder makes gets bytes too.                         *)
LEMMA ForeignReplies ==
  ASSUME NEW s \in Slaves, NEW f \in RequestRec, Foreign(f), NEW q \in Replies(s, f.pdu, bank[s])
  PROVE  /\ q \in PduBytes
         /\ "distorts" \notin Device[s].handle => ReplyFits(q)
<1> DEFINE a == AnswerTo(s, f.pdu, bank[s])
           k == Refusal(s, f.pdu)
           x == f.pdu[1]
<1>1. q = a \/ ("distorts" \in Device[s].handle /\ q \in Amiss(a))
  BY RepliesForm
<1>2. k \in {1, 3} /\ x \in Byte
  BY ForeignRefused
<1>3. a = ExceptionResponse(x % 128, k)
  BY <1>2 DEF AnswerTo
<1> HIDE DEF a, k, x
<1>4. (x % 128) + 128 \in Byte /\ (x % 128) + 128 >= 128
  BY <1>2 DEF Byte
<1>5. k \in Byte
  BY <1>2 DEF Byte
<1> DEFINE e == (x % 128) + 128
<1>6. a = <<e, k>> /\ e \in Byte /\ e >= 128
  BY <1>3, <1>4 DEF ExceptionResponse
<1> HIDE DEF e
<1>7. a \in Seq(Byte) /\ Len(a) = 2 /\ a[1] = e
  BY <1>5, <1>6
<1>8. Len(a) >= 2 /\ a # <<>> /\ a[1] >= 128
  BY <1>6, <1>7
<1>9. a[1] \notin Reads
  BY <1>8, Codes
<1>10. ReplyFits(a)
  BY <1>7, <1>8 DEF ReplyFits, IsException, AfterHead, CrcLen
<1>11. q \in Amiss(a) => q \in PduBytes
  BY <1>7, <1>8, <1>9, AmissProperties
<1>12. a \in PduBytes
  BY <1>7, <1>8 DEF PduBytes
<1> QED  BY <1>1, <1>10, <1>11, <1>12

(* What a read or a loopback returns, by the memory.                       *)
Returned(s, r) ==
  IF r.fc = Loopback THEN r.values
  ELSE IF r.fc \in Reads
  THEN SubSeq(MemOf(s)[BankOf(r.fc)], r.address + 1, r.address + r.count)
  ELSE <<>>

(* A value is what the memory holds, and a write is echoed only if it was  *)
(* stored as asked, unless a device stores and answers amiss both.         *)
LEMMA ValueReply ==
  ASSUME NEW s \in Slaves, BankOK(bank[s], Device[s]), NEW r, AsCalled(r), Encodable(r),
         NEW q \in Replies(s, EncodeRequest(r), bank[s]), Kind(r, q) = "value",
         ~({"clamps", "distorts"} \subseteq Device[s].handle)
  PROVE  /\ Interpret(r, q).values = Returned(s, r)
         /\ Stored(s, Said(r)).values = r.values
<1> DEFINE a == AnswerTo(s, EncodeRequest(r), bank[s])
           d == Stored(s, Said(r))
<1>1. q = a \/ ("distorts" \in Device[s].handle /\ q \in Amiss(a))
  BY RepliesForm
<1>2. /\ a \in Seq(Byte) /\ Len(a) >= 2
      /\ RefusalShape(s, r, a) \/ ReadShape(s, r, a) \/ EchoShape(s, r, a)
  BY AnswerShape
<1>3. r.fc \in FunctionCodes /\ r.fc \in 1..16 /\ r.values \in Seq(Value(r.fc))
      /\ (r.fc \notin Reads => Len(r.values) = r.count)
  BY CalledProperties
<1>4. /\ d.fc = r.fc /\ d.address = r.address /\ d.count = r.count
      /\ d.values \in Seq(Value(r.fc)) /\ (r.fc \notin Reads => Len(d.values) = r.count)
      /\ "clamps" \notin Device[s].handle \/ r.fc # WriteRegister => d.values = r.values
  BY StoredProperties
<1>5. Permission(s, r) = "ok" /\ q \in PduBytes
  BY RepliesProperties
<1>6. q \in Seq(Byte) /\ q # <<>>
  BY <1>5 DEF PduBytes
<1> HIDE DEF a, d
<1>7. ReadShape(s, r, a) \/ EchoShape(s, r, a)
  BY <1>2, <1>5 DEF RefusalShape
<1>8. "distorts" \in Device[s].handle => SecondWord(d) = SecondWord(r)
  <2>1. "distorts" \in Device[s].handle => d.values = r.values
    BY <1>4
  <2> QED  BY <1>4, <2>1 DEF SecondWord
<1>9. q = a
  <2>1. a[1] \in Reads => a[2] \in 0..250 /\ Len(a) = 2 + a[2]
    <3>1. CASE ReadShape(s, r, a)
      <4>1. a[2] \in 1..250 /\ Len(a) = 2 + a[2]
        BY <3>1 DEF ReadShape
      <4> QED  BY <4>1
    <3>2. CASE EchoShape(s, r, a)
      BY <3>2 DEF EchoShape
    <3> QED  BY <1>7, <3>1, <3>2
  <2>2. q \in Amiss(a) => AmissForm(a, q)
    BY <1>2, <2>1, AmissProperties
  <2>3. CASE ReadShape(s, r, a)
    BY <1>1, <1>2, <1>5, <2>2, <2>3, AmissRead
  <2>4. CASE EchoShape(s, r, a)
    BY <1>1, <1>2, <1>5, <1>8, <2>2, <2>4, AmissEcho DEF d
  <2> QED  BY <1>7, <2>3, <2>4
<1>10. CASE ReadShape(s, r, a)
  <2> DEFINE c == Contents(bank[s], Said(r))
  <2>1. r.fc \in Reads /\ SubSeq(a, 3, Len(a)) = Pack(r.fc, c)
    BY <1>10 DEF ReadShape
  <2>2. QuantityOK(r.fc, r.count)
    BY DEF Encodable
  <2>3. Interpret(r, q).values = Unpack(r.fc, SubSeq(q, 3, Len(q)), r.count)
    BY <1>6, <2>1, <2>2, ReadValue
  <2>4. /\ c \in Seq(Value(r.fc)) /\ Len(c) = r.count
        /\ c = SubSeq(MemOf(s)[BankOf(r.fc)], r.address + 1, r.address + r.count)
    BY <1>5, <2>1, ReadContents
  <2>5. r.fc # WriteCoil /\ r.fc # Loopback /\ r.fc # WriteRegister
    BY <2>1, Codes
  <2> HIDE DEF c
  <2>6. Unpack(r.fc, Pack(r.fc, c), Len(c)) = c
    BY <2>4, <2>5, PackProperties
  <2>7. Interpret(r, q).values = c
    BY <1>9, <2>1, <2>3, <2>4, <2>6
  <2>8. c = Returned(s, r)
    BY <2>1, <2>4, <2>5 DEF Returned
  <2> QED  BY <1>4, <2>5, <2>7, <2>8 DEF d
<1>11. CASE EchoShape(s, r, a)
  <2>1. r.fc \notin Reads /\ WordAt(a, 4) = SecondWord(d)
    BY <1>11 DEF EchoShape, d
  <2>2. /\ WordAt(q, 4) = SecondWord(r)
        /\ Interpret(r, q).values = IF r.fc = Loopback THEN r.values ELSE <<>>
    BY <1>3, <1>6, <2>1, EchoValue
  <2>3. Interpret(r, q).values = Returned(s, r)
    BY <2>1, <2>2 DEF Returned
  <2>4. CASE r.fc = WriteRegister
    <3>1. SecondWord(r) = r.values[1] /\ SecondWord(d) = d.values[1]
      BY <1>4, <2>1, <2>4, Codes DEF SecondWord
    <3>2. r.values[1] = d.values[1]
      BY <1>9, <2>1, <2>2, <3>1
    <3>3. r.count = 1
      BY <2>4 DEF AsCalled
    <3>4. Len(r.values) = 1 /\ Len(d.values) = 1
      BY <1>3, <1>4, <2>1, <3>3
    <3> DEFINE x == r.values
               y == d.values
               S == Value(r.fc)
    <3>5. x \in Seq(S) /\ y \in Seq(S) /\ Len(x) = Len(y)
      BY <1>3, <1>4, <3>4
    <3>6. \A i \in 1..Len(x) : x[i] = y[i]
      BY <3>2, <3>4
    <3> HIDE DEF x, y, S
    <3>7. x = y
      BY <3>5, <3>6, SeqEqual
    <3> QED  BY <2>3, <3>7 DEF x, y, d
  <2>5. CASE r.fc # WriteRegister
    BY <1>4, <2>3, <2>5 DEF d
  <2> QED  BY <2>4, <2>5
<1> QED  BY <1>7, <1>10, <1>11

-----------------------------------------------------------------------------
(* Constants and types                                                     *)

LEMMA CallsTyped ==
  /\ AllCalls \cup ProbeCalls \subseteq CallRec /\ NoCall \notin AllCalls \cup ProbeCalls
  /\ \A r \in ProbeCalls : r.to # 0
<1>1. AllCalls \subseteq CallRec
  BY ClientAssumption
<1>2. ASSUME NEW r \in ProbeCalls
      PROVE  r \in CallRec /\ r.to # 0
  <2>1. /\ r \in [to : Slaves, fc : Reads, address : {Walk[i] : i \in DOMAIN Walk},
                  count : {1}, values : {<<>>}]
    BY <1>2 DEF ProbeCalls
  <2>2. Slaves \subseteq 0..247 /\ 0 \notin Slaves
    <3>1. \A x \in 1..247 : x \in 0..247 /\ x # 0
      OBVIOUS
    <3> QED  BY <3>1, ServerAssumption
  <2>3. {Walk[i] : i \in DOMAIN Walk} \subseteq Int
    <3>1. \A i \in DOMAIN Walk : Walk[i] \in 0..MaxAddress
      BY ClientAssumption, LenProperties, ElementOfSeq
    <3>2. \A x \in 0..MaxAddress : x \in Int
      BY AddressNatural
    <3> QED  BY <3>1, <3>2
  <2>4. Reads \subseteq FunctionCodes
    BY DEF FunctionCodes
  <2>5. {1} \subseteq Nat /\ {<<>>} \subseteq Seq(Int)
    BY EmptySeq
  <2>6. r \in CallRec
    BY <2>1, <2>2, <2>3, <2>4, <2>5 DEF CallRec
  <2> QED  BY <2>1, <2>2, <2>6
<1> QED  BY <1>1, <1>2, ClientAssumption

LEMMA SetupTyped ==
  ASSUME [team |-> team, plan |-> plan] \in Setups
  PROVE  /\ team \subseteq Callers /\ plan \in Plans
         /\ plan \in [Slaves -> [corrupt : Int, drop : Int, wrong : Int]]
         /\ \A s \in Slaves : /\ plan[s].drop \in Int /\ plan[s].drop < IndexMax
                              /\ plan[s].corrupt \in Int /\ plan[s].corrupt < IndexMax
                              /\ plan[s].wrong \in Int
<1>1. [team |-> team, plan |-> plan] \in [team : SUBSET Callers, plan : Plans]
  BY ClientAssumption
<1>2. team \subseteq Callers /\ plan \in Plans
  BY <1>1
<1>3. plan \in [Slaves -> [corrupt : Int, drop : Int, wrong : Int]]
  BY <1>2, ServerAssumption
<1>4. \A s \in Slaves : plan[s].drop < IndexMax /\ plan[s].corrupt < IndexMax
  BY <1>2, ServerAssumption
<1> QED  BY <1>2, <1>3, <1>4

LEMMA NoFrameTyped == NoFrame \notin RequestRec /\ NoFrame \notin ReplyRec
<1>1. /\ RequestRec \subseteq [to : 0..247, pdu : Seq(0..255), intact : BOOLEAN]
      /\ ReplyRec \subseteq [from : Int, pdu : Seq(0..255), intact : BOOLEAN]
  BY DEF RequestRec, ReplyRec, PduBytes, Byte
<1> QED  BY <1>1, ServerAssumption

(* What a response gives is made of integers.                              *)
LEMMA ValuesTyped ==
  ASSUME NEW r, AsCalled(r), Encodable(r), NEW q \in PduBytes
  PROVE  Interpret(r, q).values \in Seq(Int)
<1>1. q \in Seq(Byte) /\ q # <<>> /\ r.fc \in FunctionCodes
  BY CalledProperties DEF PduBytes
<1>2. Seq(Bit) \subseteq Seq(Int) /\ Seq(Register) \subseteq Seq(Int)
  <2>1. Bit \subseteq Int /\ Register \subseteq Int
    BY Bounds DEF Bit
  <2> QED  BY <2>1, SeqSubset
<1>3. CASE Kind(r, q) # "value"
  <2>1. \A k : Raise(k).values = <<>>
    BY DEF Raise
  <2>2. \A v : Answer(v).kind = "value"
    BY DEF Answer
  <2>3. /\ DecodeReadBits(r, q).kind = "value" \/ DecodeReadBits(r, q).values = <<>>
        /\ DecodeReadRegisters(r, q).kind = "value" \/ DecodeReadRegisters(r, q).values = <<>>
        /\ DecodeEcho(r, q).kind = "value" \/ DecodeEcho(r, q).values = <<>>
    BY <2>1, <2>2 DEF DecodeReadBits, DecodeReadRegisters, DecodeEcho
  <2>4. Interpret(r, q).values = <<>>
    BY <1>3, <2>1, <2>3 DEF Interpret, Kind
  <2> QED  BY <2>4, EmptySeq
<1>4. CASE Kind(r, q) = "value" /\ r.fc \notin Reads
  <2>1. Interpret(r, q).values = IF r.fc = Loopback THEN r.values ELSE <<>>
    BY <1>1, <1>4, EchoValue
  <2>2. r.fc = Loopback => r.values \in Seq(Int)
    BY Codes DEF AsCalled
  <2> QED  BY <2>1, <2>2, EmptySeq
<1>5. CASE Kind(r, q) = "value" /\ r.fc \in Reads
  <2> DEFINE n == DataBytes(r.fc, r.count)
             t == SubSeq(q, 3, Len(q))
  <2>1. QuantityOK(r.fc, r.count)
    BY DEF Encodable
  <2>2. /\ Len(q) = 2 + n /\ q[2] = n
        /\ Interpret(r, q).values = Unpack(r.fc, t, r.count)
    BY <1>1, <1>5, <2>1, ReadValue
  <2>3. n \in 1..250
    BY <1>5, <2>1, ReadQuantity
  <2>4. n \in Nat /\ Len(q) \in Int /\ Len(q) - 3 + 1 = n /\ 3 <= Len(q)
    <3>1. \A x \in 1..250 : x \in Nat /\ 2 + x \in Int /\ (2 + x) - 3 + 1 = x /\ 3 <= 2 + x
      OBVIOUS
    <3> QED  BY <2>2, <2>3, <3>1
  <2>5. \A i \in 3..Len(q) : q[i] \in Byte
    <3>1. \A i \in 1..Len(q) : q[i] \in Byte
      BY <1>1, LenProperties, ElementOfSeq
    <3>2. \A i \in 3..Len(q) : i \in 1..Len(q)
      BY <2>4
    <3> QED  BY <3>1, <3>2
  <2>6. t \in Seq(Byte) /\ Len(t) = IF 3 <= Len(q) THEN Len(q) - 3 + 1 ELSE 0
    BY <2>4, <2>5, SubSeqProperties
  <2>7. Len(t) = n
    BY <2>4, <2>6
  <2> HIDE DEF t
  <2>8. CASE OfBits(r.fc)
    <3>1. n = BitBytes(r.count) /\ r.count \in Nat
      BY <2>8 DEF DataBytes, AsCalled
    <3>2. BitBytes(r.count) <= Len(t)
      BY <2>4, <2>7, <3>1
    <3>3. UnpackBits(t, r.count) \in Seq(Bit)
      BY <2>6, <3>1, <3>2, UnpackBitsProperties
    <3> QED  BY <1>2, <2>2, <2>8, <3>3 DEF Unpack
  <2>9. CASE ~OfBits(r.fc)
    <3>1. UnpackWords(t) \in Seq(Register)
      BY <2>6, UnpackWordsProperties
    <3> QED  BY <1>2, <2>2, <2>9, <3>1 DEF Unpack
  <2> QED  BY <2>8, <2>9
<1> QED  BY <1>3, <1>4, <1>5

(* What a call returns by the memory that the slaves are.                  *)
LEMMA ContentReturned ==
  ASSUME NEW r, r.to \in Slaves
  PROVE  /\ Memory!Targets(r) # {} <=> Permission(r.to, r) = "ok"
         /\ Permission(r.to, r) = "ok" => Memory!Content(r) = Returned(r.to, r)
<1>1. r.to # 0
  <2>1. \A x \in 1..247 : x # 0
    OBVIOUS
  <2> QED  BY <2>1, ServerAssumption
<1>2. Memory!Targets(r) = {s \in Slaves : r.to \in {0, s} /\ Permission(s, r) = "ok"}
  BY DEF Memory!Targets
<1>3. Memory!Targets(r) # {} <=> Permission(r.to, r) = "ok"
  BY <1>1, <1>2
<1>4. ASSUME Permission(r.to, r) = "ok"
      PROVE  Memory!Content(r) = Returned(r.to, r)
  <2>1. [s \in Slaves |-> MemOf(s)][r.to] = MemOf(r.to)
    OBVIOUS
  <2>2. Memory!Targets(r) # {}
    BY <1>3, <1>4
  <2>3. Memory!Content(r) =
          IF r.fc = Loopback THEN r.values
          ELSE IF r.fc \in Reads \cup {Loopback}
          THEN SubSeq([s \in Slaves |-> MemOf(s)][r.to][BankOf(r.fc)],
                      r.address + 1, r.address + r.count)
          ELSE <<>>
    BY <2>2 DEF Memory!Content
  <2> QED  BY <2>1, <2>3 DEF Returned
<1> QED  BY <1>3, <1>4

LEMMA ContentTyped ==
  ASSUME \A s \in Slaves : BankOK(bank[s], Device[s]), NEW r, AsCalled(r), Encodable(r)
  PROVE  Memory!Content(r) \in Seq(Int)
<1>1. CASE r.to \notin Slaves \/ Memory!Targets(r) = {}
  <2>1. Memory!Content(r) = <<>>
    BY <1>1 DEF Memory!Content
  <2> QED  BY <2>1, EmptySeq
<1>2. CASE r.to \in Slaves /\ Memory!Targets(r) # {}
  <2>1. Permission(r.to, r) = "ok" /\ Memory!Content(r) = Returned(r.to, r)
    BY <1>2, ContentReturned
  <2>2. r.fc = Loopback => r.values \in Seq(Int)
    BY Codes DEF AsCalled
  <2>3. r.fc \in Reads => SubSeq(MemOf(r.to)[BankOf(r.fc)], r.address + 1, r.address + r.count)
                            \in Seq(Value(r.fc))
    BY <1>2, <2>1, ReadContents
  <2>4. Seq(Value(r.fc)) \subseteq Seq(Int)
    <3>1. Value(r.fc) \subseteq Int
      BY Bounds DEF Value, Bit
    <3> QED  BY <3>1, SeqSubset
  <2> QED  BY <2>1, <2>2, <2>3, <2>4, EmptySeq DEF Returned
<1> QED  BY <1>1, <1>2

-----------------------------------------------------------------------------
(* The invariant, kept by each action                                      *)

Inv == TypeInv /\ FaultsOnce /\ LockOK /\ LineOK /\ ProbesOK /\ VerdictTrue

Called(r) == [IdleOp EXCEPT !.phase = "called", !.call = r]
Ended(kind, values) == [IdleOp EXCEPT !.phase = "done", !.kind = kind, !.values = values]

LEMMA OpRecords ==
  /\ IdleOp \in OpRec
  /\ \A r \in AllCalls \cup ProbeCalls :
       /\ Called(r) \in OpRec /\ Called(r).phase = "called" /\ Called(r).call = r
       /\ Called(r).effect = "none" /\ Called(r).seen = <<>>
  /\ \A kind \in Kinds, values \in Seq(Int) :
       /\ Ended(kind, values) \in OpRec /\ Ended(kind, values).phase = "done"
       /\ Ended(kind, values).kind = kind /\ Ended(kind, values).effect = "none"
<1>1. IdleOp \in OpRec
  <2>1. "none" \in Kinds /\ <<>> \in Seq(Int)
    BY EmptySeq DEF Kinds
  <2> QED  BY <2>1 DEF IdleOp, OpRec
<1>2. IdleOp.effect = "none" /\ IdleOp.seen = <<>>
  BY DEF IdleOp
<1>3. ASSUME NEW r \in AllCalls \cup ProbeCalls
      PROVE  /\ Called(r) \in OpRec /\ Called(r).phase = "called" /\ Called(r).call = r
             /\ Called(r).effect = "none" /\ Called(r).seen = <<>>
  BY <1>1, <1>2 DEF Called, OpRec
<1>4. ASSUME NEW kind \in Kinds, NEW values \in Seq(Int)
      PROVE  /\ Ended(kind, values) \in OpRec /\ Ended(kind, values).phase = "done"
             /\ Ended(kind, values).kind = kind /\ Ended(kind, values).effect = "none"
  BY <1>1, <1>2 DEF Ended, OpRec
<1> QED  BY <1>1, <1>3, <1>4

LEMMA InvokeProperties ==
  ASSUME op \in [Callers -> OpRec], NEW c \in Callers, NEW r \in AllCalls \cup ProbeCalls,
         Invoke(c, r)
  PROVE  /\ op' \in [Callers -> OpRec] /\ op'[c] = Called(r)
         /\ \A x \in Callers : x # c => op'[x] = op[x]
<1>1. op' = [op EXCEPT ![c] = Called(r)]
  BY DEF Invoke, Called
<1>2. Called(r) \in OpRec
  BY OpRecords
<1> QED  BY <1>1, <1>2

LEMMA FinishProperties ==
  ASSUME op \in [Callers -> OpRec], NEW c \in Callers, NEW kind \in Kinds, NEW values \in Seq(Int),
         Finish(c, kind, values)
  PROVE  /\ op' \in [Callers -> OpRec] /\ op'[c] = Ended(kind, values)
         /\ \A x \in Callers : x # c => op'[x] = op[x]
<1>1. op' = [op EXCEPT ![c] = Ended(kind, values)]
  BY DEF Finish, Ended
<1>2. Ended(kind, values) \in OpRec
  BY OpRecords
<1> QED  BY <1>1, <1>2

(* What is typed of one caller's call.                                     *)
LEMMA OpTyped ==
  ASSUME TypeInv, NEW c \in Callers
  PROVE  /\ op[c].phase \in {"idle", "called", "done"} /\ op[c].kind \in Kinds
         /\ op[c].call \in AllCalls \cup ProbeCalls \cup {NoCall}
         /\ op[c].values \in Seq(Int) /\ op[c].seen \in Seq(Int)
         /\ op[c].effect \in {"none", "exact", "other"}
         /\ op[c].phase = "called" => op[c].call \in AllCalls \cup ProbeCalls
<1>1. op[c] \in OpRec
  BY DEF TypeInv
<1>2. op[c].phase = "called" => op[c].call # NoCall
  BY DEF TypeInv
<1> QED  BY <1>1, <1>2 DEF OpRec

LEMMA OwnerCall ==
  ASSUME TypeInv, LockOK, owner # NoCaller
  PROVE  /\ owner \in Callers /\ op[owner].phase = "called"
         /\ op[owner].call \in AllCalls \cup ProbeCalls /\ op[owner].call # NoCall
         /\ AsCalled(op[owner].call) /\ Encodable(op[owner].call)
         /\ op[owner].call.to \in 0..247
<1>1. owner \in Callers
  BY DEF TypeInv
<1>2. op[owner].phase = "called" /\ Encodable(op[owner].call)
  BY DEF LockOK
<1>3. op[owner].call \in AllCalls \cup ProbeCalls
  BY <1>1, <1>2, OpTyped
<1>4. AsCalled(op[owner].call) /\ op[owner].call.to \in 0..247
  BY <1>3, CallsAsCalled
<1> QED  BY <1>1, <1>2, <1>3, <1>4, CallsTyped

(* The call whose request is on the line, or was cut off from it.          *)
LEMMA SenderCall ==
  ASSUME TypeInv, LineOK, sender.call # NoCall
  PROVE  /\ sender.call \in AllCalls \cup ProbeCalls
         /\ AsCalled(sender.call) /\ Encodable(sender.call)
         /\ request # NoFrame /\ request.to = sender.call.to
         /\ request.pdu = EncodeRequest(sender.call)
<1>1. sender.call \in AllCalls \cup ProbeCalls
  BY DEF TypeInv, SenderRec
<1>2. Encodable(sender.call) /\ request.to = sender.call.to
      /\ request.pdu = EncodeRequest(sender.call)
  BY DEF LineOK
<1>3. request # NoFrame
  BY DEF LineOK, NoSender
<1> QED  BY <1>1, <1>2, <1>3, CallsAsCalled

(* A step that changes nothing of the owner and of the line.               *)
LEMMA LockLineKept ==
  ASSUME LockOK, LineOK, UNCHANGED <<request, reply, owner, stage, attempt, sender>>,
         owner # NoCaller => op'[owner].phase = op[owner].phase /\ op'[owner].call = op[owner].call
  PROVE  LockOK' /\ LineOK'
<1>1. LockOK'
  BY DEF LockOK
<1>2. LineOK'
  <2>1. stage = "waiting" => owner # NoCaller
    BY DEF LockOK
  <2> QED  BY <2>1 DEF LineOK
<1> QED  BY <1>1, <1>2

LEMMA ProbeKept ==
  ASSUME NEW c, ProbeOK(c), op'[c] = op[c], probe'[c] = probe[c]
  PROVE  ProbeOK(c)'
BY DEF ProbeOK, Asking

LEMMA FaultsKept ==
  ASSUME FaultsOnce, UNCHANGED <<plan, emitted, fired>>
  PROVE  FaultsOnce'
BY DEF FaultsOnce

LEMMA VerdictsKept ==
  ASSUME VerdictTrue, UNCHANGED caps
  PROVE  VerdictTrue'
BY DEF VerdictTrue

LEMMA CallKeeps ==
  ASSUME Inv, NEW c \in Callers, Call(c)
  PROVE  Inv'
<1>1. PICK r \in Calls[c] : Invoke(c, r)
  BY DEF Call
<1>2. r \in AllCalls /\ r # NoCall
  <2>1. r \in AllCalls
    BY ClientAssumption DEF AllCalls
  <2> QED  BY <2>1, CallsTyped
<1>3. /\ op' \in [Callers -> OpRec] /\ op'[c] = Called(r)
      /\ \A x \in Callers : x # c => op'[x] = op[x]
  BY <1>1, <1>2, InvokeProperties DEF Inv, TypeInv
<1>4. /\ UNCHANGED <<serverVars, team, owner, stage, attempt, sender, probe, caps>>
      /\ op[c].phase # "called" /\ probe[c] = NoProbe
  BY DEF Call
<1>5. op'[c].phase = "called" /\ op'[c].call = r
  BY <1>2, <1>3, OpRecords
<1>6. TypeInv'
  <2>1. \A x \in Callers : op'[x].phase = "called" => op'[x].call # NoCall
    BY <1>2, <1>3, <1>5 DEF Inv, TypeInv
  <2> QED  BY <1>3, <1>4, <2>1 DEF Inv, TypeInv, serverVars
<1>7. LockOK' /\ LineOK'
  <2>1. owner # NoCaller => owner # c /\ owner \in Callers
    BY <1>4, OwnerCall DEF Inv
  <2>2. owner # NoCaller => op'[owner] = op[owner]
    BY <1>3, <2>1
  <2> QED  BY <1>4, <2>2, LockLineKept DEF Inv, serverVars
<1>8. ProbesOK'
  <2> SUFFICES ASSUME NEW x \in Callers, probe'[x] # NoProbe
               PROVE  ProbeOK(x)'
    BY DEF ProbesOK
  <2>1. x # c /\ probe[x] # NoProbe
    BY <1>4
  <2>2. ProbeOK(x)
    BY <2>1 DEF Inv, ProbesOK
  <2> QED  BY <1>3, <1>4, <2>1, <2>2, ProbeKept
<1>9. FaultsOnce' /\ VerdictTrue'
  BY <1>4, FaultsKept, VerdictsKept DEF Inv, serverVars
<1> QED  BY <1>6, <1>7, <1>8, <1>9 DEF Inv

LEMMA RejectKeeps ==
  ASSUME Inv, NEW c \in Callers, Reject(c)
  PROVE  Inv'
<1>1. /\ op[c].phase = "called" /\ ~Encodable(op[c].call)
      /\ Finish(c, "configuration", <<>>)
      /\ UNCHANGED <<serverVars, team, owner, stage, attempt, sender, probe, caps>>
  BY DEF Reject
<1>2. "configuration" \in Kinds /\ <<>> \in Seq(Int)
  BY EmptySeq DEF Kinds
<1>3. /\ op' \in [Callers -> OpRec] /\ op'[c] = Ended("configuration", <<>>)
      /\ \A x \in Callers : x # c => op'[x] = op[x]
  BY <1>1, <1>2, FinishProperties DEF Inv, TypeInv
<1>4. op'[c].phase = "done" /\ op'[c].kind = "configuration"
  <2>1. /\ Ended("configuration", <<>>).phase = "done"
        /\ Ended("configuration", <<>>).kind = "configuration"
    BY <1>2, OpRecords
  <2> QED  BY <1>3, <2>1
<1>5. TypeInv'
  <2>1. \A x \in Callers : op'[x].phase = "called" => op'[x].call # NoCall
    BY <1>3, <1>4 DEF Inv, TypeInv
  <2> QED  BY <1>1, <1>3, <2>1 DEF Inv, TypeInv, serverVars
<1>6. LockOK' /\ LineOK'
  <2>1. owner # NoCaller => owner # c /\ owner \in Callers
    BY <1>1, OwnerCall DEF Inv
  <2>2. owner # NoCaller => op'[owner] = op[owner]
    BY <1>3, <2>1
  <2> QED  BY <1>1, <2>2, LockLineKept DEF Inv, serverVars
<1>7. ProbesOK'
  <2> SUFFICES ASSUME NEW x \in Callers, probe'[x] # NoProbe
               PROVE  ProbeOK(x)'
    BY DEF ProbesOK
  <2>1. ProbeOK(x) /\ probe'[x] = probe[x]
    BY <1>1 DEF Inv, ProbesOK
  <2>2. CASE x = c
    BY <1>1, <1>4, <2>1, <2>2 DEF ProbeOK, KindTrue, Asking
  <2>3. CASE x # c
    BY <1>3, <2>1, <2>3, ProbeKept
  <2> QED  BY <2>2, <2>3
<1>8. FaultsOnce' /\ VerdictTrue'
  BY <1>1, FaultsKept, VerdictsKept DEF Inv, serverVars
<1> QED  BY <1>5, <1>6, <1>7, <1>8 DEF Inv

(* A step that changes no call, probe, count of faults or verdict.         *)
LEMMA CallsKept ==
  ASSUME Inv, UNCHANGED <<op, probe, caps, plan, emitted, fired>>
  PROVE  ProbesOK' /\ FaultsOnce' /\ VerdictTrue'
<1>1. ProbesOK'
  <2> SUFFICES ASSUME NEW x \in Callers, probe'[x] # NoProbe
               PROVE  ProbeOK(x)'
    BY DEF ProbesOK
  <2>1. ProbeOK(x)
    BY DEF Inv, ProbesOK
  <2> QED  BY <2>1, ProbeKept
<1> QED  BY <1>1, FaultsKept, VerdictsKept DEF Inv

LEMMA AcquireKeeps ==
  ASSUME Inv, NEW c \in Callers, Acquire(c)
  PROVE  Inv'
<1>1. /\ owner = NoCaller /\ op[c].phase = "called" /\ Encodable(op[c].call)
      /\ owner' = c /\ stage' = "sending" /\ attempt' = 0
      /\ UNCHANGED <<serverVars, team, op, sender, probe, caps>>
  BY DEF Acquire
<1>2. UNCHANGED <<bank, plan, emitted, fired, request, reply>>
  BY <1>1 DEF serverVars
<1>3. TypeInv'
  <2>1. 0 \in 0..Retries
    BY ClientAssumption
  <2> QED  BY <1>1, <1>2, <2>1 DEF Inv, TypeInv
<1>4. c # NoCaller
  BY ClientAssumption
<1>5. LockOK'
  BY <1>1, <1>4 DEF Inv, LockOK
<1>6. LineOK'
  BY <1>1, <1>2 DEF Inv, LineOK
<1> QED  BY <1>1, <1>2, <1>3, <1>5, <1>6, CallsKept DEF Inv

LEMMA SendKeeps ==
  ASSUME Inv, NEW c \in Callers, Send(c)
  PROVE  Inv'
<1> DEFINE r == op[c].call
<1>1. /\ owner = c /\ stage = "sending" /\ request = NoFrame
      /\ request' = [to |-> r.to, pdu |-> EncodeRequest(r), intact |-> TRUE]
      /\ reply' = NoFrame
      /\ sender' = [by |-> c, call |-> r, live |-> TRUE]
      /\ stage' = "waiting"
      /\ UNCHANGED <<bank, plan, emitted, fired, team, op, owner, attempt, probe, caps>>
  BY DEF Send
<1>2. c # NoCaller
  BY ClientAssumption
<1>3. /\ op[c].phase = "called" /\ r \in AllCalls \cup ProbeCalls /\ r # NoCall
      /\ AsCalled(r) /\ Encodable(r) /\ r.to \in 0..247
  BY <1>1, <1>2, OwnerCall DEF Inv
<1> HIDE DEF r
<1>4. EncodeRequest(r) \in PduBytes
  <2>1. EncodeRequest(r) \in Seq(Byte)
    BY <1>3, RequestProperties
  <2>2. EncodeRequest(r) # <<>>
    <3>2. CASE r.fc \notin WriteMultiple
      <4>1. Len(EncodeRequest(r)) = 5
        BY <1>3, <3>2, RequestProperties
      <4> QED  BY <2>1, <4>1, EmptySeq
    <3>3. CASE r.fc \in WriteMultiple
      <4> DEFINE n == DataBytes(r.fc, r.count)
      <4>1. Len(EncodeRequest(r)) = 6 + n
        BY <1>3, <3>3, RequestProperties
      <4>2. QuantityOK(r.fc, r.count)
        BY <1>3, <3>3, CalledProperties
      <4>3. n \in 1..250
        BY <3>3, <4>2, QuantityProperties
      <4> HIDE DEF n
      <4>4. Len(EncodeRequest(r)) # 0
        BY <4>1, <4>3
      <4> QED  BY <2>1, <4>4, EmptySeq
    <3> QED  BY <3>2, <3>3
  <2> QED  BY <2>1, <2>2 DEF PduBytes
<1>5. request' \in RequestRec /\ request' # NoFrame
  <2>1. request' \in RequestRec
    BY <1>1, <1>3, <1>4 DEF RequestRec
  <2> QED  BY <2>1, NoFrameTyped
<1>6. sender' \in SenderRec /\ sender'.live /\ sender'.by = c /\ sender'.call = r
  BY <1>1, <1>3 DEF SenderRec
<1>7. TypeInv'
  BY <1>1, <1>5, <1>6 DEF Inv, TypeInv
<1>8. LockOK'
  BY <1>1, <1>2, <1>3, <1>6 DEF Inv, LockOK, r
<1>9. request'.to = r.to /\ request'.pdu = EncodeRequest(r)
  BY <1>1
<1>10. LineOK'
  BY <1>1, <1>3, <1>5, <1>6, <1>9 DEF LineOK
<1> QED  BY <1>1, <1>7, <1>8, <1>10, CallsKept DEF Inv

LEMMA SkipStrayKeeps ==
  ASSUME Inv, NEW c \in Callers, SkipStray(c)
  PROVE  Inv'
<1>1. /\ reply' = NoFrame
      /\ UNCHANGED <<bank, plan, emitted, fired, request, team, op, owner, stage, attempt,
                     sender, probe, caps>>
  BY DEF SkipStray, clientVars
<1>2. TypeInv'
  BY <1>1 DEF Inv, TypeInv
<1>3. LockOK'
  BY <1>1 DEF Inv, LockOK
<1>4. LineOK'
  BY <1>1 DEF Inv, LineOK
<1> QED  BY <1>1, <1>2, <1>3, <1>4, CallsKept DEF Inv

LEMMA ForeignRequestKeeps ==
  ASSUME Inv, NEW c \in Callers, ForeignRequest(c)
  PROVE  Inv'
<1>1. /\ owner = NoCaller /\ request = NoFrame /\ reply' = NoFrame
      /\ \E m \in Malformed[c] : request' = [to |-> m.to, pdu |-> m.pdu, intact |-> TRUE]
      /\ UNCHANGED <<bank, plan, emitted, fired, team, op, owner, stage, attempt,
                     sender, probe, caps>>
  BY DEF ForeignRequest, clientVars
<1>2. PICK m \in Malformed[c] : request' = [to |-> m.to, pdu |-> m.pdu, intact |-> TRUE]
  BY <1>1
<1>3. m.to \in 0..247 /\ m.pdu \in PduBytes
  BY ClientAssumption DEF PduBytes, Byte
<1>4. request' \in RequestRec
  BY <1>2, <1>3 DEF RequestRec
<1>5. Foreign(request')
  BY <1>2 DEF Foreign
<1>6. TypeInv'
  BY <1>1, <1>4 DEF Inv, TypeInv
<1>7. LockOK'
  BY <1>1 DEF Inv, LockOK
<1>8. sender = NoSender /\ stage = "sending" /\ NoSender.call = NoCall
  BY <1>1 DEF Inv, LockOK, LineOK, NoSender
<1>9. LineOK'
  BY <1>1, <1>5, <1>8 DEF LineOK
<1> QED  BY <1>1, <1>6, <1>7, <1>9, CallsKept DEF Inv

LEMMA InputsChangeKeeps ==
  ASSUME Inv, InputsChange, OnServer
  PROVE  Inv'
<1>1. PICK s \in Slaves, x \in Outside :
        /\ bank' = [bank EXCEPT
             ![s].discrete = SetCoils(@, 0, [i \in 1..Device[s].discrete |-> x]),
             ![s].input = [i \in DOMAIN @ |-> 258 * x]]
        /\ UNCHANGED <<plan, emitted, fired, request, reply>>
  BY DEF InputsChange
<1>2. UNCHANGED <<team, op, owner, stage, attempt, sender, probe, caps>>
  BY DEF OnServer, clientVars
<1> DEFINE b == bank[s]
           e == SetCoils(b.discrete, 0, [i \in 1..Device[s].discrete |-> x])
           w == [i \in DOMAIN b.input |-> 258 * x]
<1>3. DOMAIN bank = Slaves /\ \A t \in Slaves : BankOK(bank[t], Device[t])
  BY DEF Inv, TypeInv
<1>4. bank' = [bank EXCEPT ![s] = [b EXCEPT !.discrete = e, !.input = w]]
  BY <1>1
<1>5. x \in Bit
  BY ServerAssumption DEF Bit
<1>6. Device[s].discrete \in Nat
  BY ServerAssumption
<1>7. /\ b \in [coils : Seq(Byte), discrete : Seq(Byte), holding : Seq(Register),
               input : Seq(Register)]
      /\ Len(b.coils) = BitBytes(Device[s].coils) /\ Len(b.discrete) = BitBytes(Device[s].discrete)
      /\ Len(b.holding) = Device[s].holding /\ Len(b.input) = Device[s].input
  BY <1>3 DEF BankOK
<1>8. e \in Seq(Byte) /\ Len(e) = Len(b.discrete)
  <2> DEFINE v == [i \in 1..Device[s].discrete |-> x]
  <2>1. v \in [1..Device[s].discrete -> Bit]
    BY <1>5
  <2> HIDE DEF v
  <2>2. v \in Seq(Bit)
    BY <1>6, <2>1, FunctionIsSeq
  <2>3. b.discrete \in Seq(Byte) /\ 0 \in Int
    BY <1>7
  <2>4. SetCoils(b.discrete, 0, v) \in Seq(Byte) /\ Len(SetCoils(b.discrete, 0, v)) = Len(b.discrete)
    BY <2>2, <2>3, SetCoilsProperties
  <2> QED  BY <2>4 DEF v
<1>9. w \in Seq(Register) /\ Len(w) = Len(b.input)
  <2>1. 258 * x \in Register
    BY <1>5, Bounds DEF Bit
  <2>2. b.input \in Seq(Register)
    BY <1>7
  <2>3. Len(b.input) \in Nat /\ DOMAIN b.input = 1..Len(b.input)
    BY <2>2, LenProperties
  <2>4. w \in [1..Len(b.input) -> Register]
    BY <2>1, <2>3
  <2> HIDE DEF w
  <2> QED  BY <2>3, <2>4, FunctionIsSeq
<1> DEFINE q == [b EXCEPT !.discrete = e, !.input = w]
<1> HIDE DEF e, w, b
<1>10. /\ q \in [coils : Seq(Byte), discrete : Seq(Byte), holding : Seq(Register),
                 input : Seq(Register)]
       /\ q.coils = b.coils /\ q.discrete = e /\ q.holding = b.holding /\ q.input = w
  BY <1>7, <1>8, <1>9
<1> HIDE DEF q
<1>11. BankOK(q, Device[s])
  BY <1>7, <1>8, <1>9, <1>10 DEF BankOK
<1>12. DOMAIN bank' = Slaves /\ \A t \in Slaves : BankOK(bank'[t], Device[t])
  <2>1. bank' = [bank EXCEPT ![s] = q]
    BY <1>4 DEF q
  <2> QED  BY <1>3, <1>11, <2>1
<1>13. TypeInv'
  BY <1>1, <1>2, <1>12 DEF Inv, TypeInv
<1>14. LockOK' /\ LineOK'
  BY <1>1, <1>2, LockLineKept DEF Inv
<1> QED  BY <1>1, <1>2, <1>13, <1>14, CallsKept DEF Inv

LEMMA DamageKeeps ==
  ASSUME Inv, Damage, OnServer
  PROVE  Inv'
<1>1. UNCHANGED <<bank, plan, emitted, fired, team, op, owner, stage, attempt, sender, probe, caps>>
  BY DEF Damage, OnServer, clientVars
<1>2. \/ /\ request # NoFrame /\ request' = [request EXCEPT !.intact = FALSE] /\ reply' = reply
      \/ /\ reply # NoFrame /\ reply' = [reply EXCEPT !.intact = FALSE] /\ request' = request
  BY DEF Damage
<1>3. request \in RequestRec \cup {NoFrame} /\ reply \in ReplyRec \cup {NoFrame}
  BY DEF Inv, TypeInv
<1>4. LockOK'
  BY <1>1 DEF Inv, LockOK
<1>5. CASE request # NoFrame /\ request' = [request EXCEPT !.intact = FALSE] /\ reply' = reply
  <2>1. request' \in RequestRec /\ request'.to = request.to /\ request'.pdu = request.pdu
    BY <1>3, <1>5 DEF RequestRec
  <2>2. request' # NoFrame
    BY <2>1, NoFrameTyped
  <2>3. Foreign(request) => Foreign(request')
    BY <2>1 DEF Foreign
  <2>4. TypeInv'
    BY <1>1, <1>5, <2>1 DEF Inv, TypeInv
  <2>5. LineOK'
    BY <1>1, <1>5, <2>1, <2>2, <2>3 DEF Inv, LineOK
  <2> QED  BY <1>1, <1>4, <2>4, <2>5, CallsKept DEF Inv
<1>6. CASE reply # NoFrame /\ reply' = [reply EXCEPT !.intact = FALSE] /\ request' = request
  <2>1. reply' \in ReplyRec /\ reply'.pdu = reply.pdu
    BY <1>3, <1>6 DEF ReplyRec
  <2>2. \A r : AnswerOK(r, reply) => AnswerOK(r, reply')
    BY <2>1 DEF AnswerOK, Outcome
  <2>3. TypeInv'
    BY <1>1, <1>6, <2>1 DEF Inv, TypeInv
  <2>4. LineOK'
    BY <1>1, <1>6, <2>2 DEF Inv, LineOK
  <2> QED  BY <1>1, <1>4, <2>3, <2>4, CallsKept DEF Inv
<1> QED  BY <1>2, <1>5, <1>6

(* An attempt ends: the call is tried again, or is over.                   *)
LEMMA EndKeeps ==
  ASSUME Inv, NEW c \in Callers, Waiting(c), NEW kind \in Kinds, NEW values \in Seq(Int),
         End(c, kind, values), reply' \in ReplyRec \cup {NoFrame},
         UNCHANGED <<bank, plan, emitted, fired, request, team, probe, caps>>,
         probe[c] # NoProbe => KindTrue(probe[c].to, Asking(probe[c]), kind)
  PROVE  Inv'
<1>1. owner = c /\ stage = "waiting" /\ c # NoCaller
  BY ClientAssumption DEF Waiting
<1>2. FaultsOnce' /\ VerdictTrue'
  BY FaultsKept, VerdictsKept DEF Inv
<1>3. CASE Retried(c, kind)
  <2>1. attempt' = attempt + 1 /\ stage' = "sending" /\ UNCHANGED <<op, owner, sender>>
        /\ attempt < Retries
    BY <1>3 DEF End, Retried
  <2>2. attempt' \in 0..Retries
    <3>1. attempt \in 0..Retries /\ Retries \in Nat
      BY ClientAssumption DEF Inv, TypeInv
    <3> QED  BY <2>1, <3>1
  <2>3. TypeInv'
    BY <2>1, <2>2 DEF Inv, TypeInv
  <2>4. LockOK'
    BY <1>1, <2>1 DEF Inv, LockOK
  <2>5. LineOK'
    BY <2>1 DEF Inv, LineOK
  <2> QED  BY <1>2, <2>1, <2>3, <2>4, <2>5, CallsKept DEF Inv
<1>4. CASE ~Retried(c, kind)
  <2>1. /\ Finish(c, kind, values)
        /\ owner' = NoCaller /\ stage' = "sending" /\ attempt' = 0
        /\ sender' = [sender EXCEPT !.live = FALSE]
    BY <1>4 DEF End
  <2>2. /\ op' \in [Callers -> OpRec] /\ op'[c] = Ended(kind, values)
        /\ \A x \in Callers : x # c => op'[x] = op[x]
    BY <2>1, FinishProperties DEF Inv, TypeInv
  <2>3. op'[c].phase = "done" /\ op'[c].kind = kind
    <3>1. Ended(kind, values).phase = "done" /\ Ended(kind, values).kind = kind
      BY OpRecords
    <3> QED  BY <2>2, <3>1
  <2>4. sender' \in SenderRec /\ sender'.call = sender.call /\ ~sender'.live
        /\ sender'.by = sender.by
    BY <2>1 DEF Inv, TypeInv, SenderRec
  <2>5. sender = NoSender => sender' = NoSender
    <3>1. sender \in SenderRec
      BY DEF Inv, TypeInv
    <3>2. sender.live = FALSE => [sender EXCEPT !.live = FALSE] = sender
      BY <3>1 DEF SenderRec
    <3>3. sender = NoSender => sender.live = FALSE
      BY DEF NoSender
    <3> QED  BY <2>1, <3>2, <3>3
  <2>6. TypeInv'
    <3>1. \A x \in Callers : op'[x].phase = "called" => op'[x].call # NoCall
      BY <2>2, <2>3 DEF Inv, TypeInv
    <3>2. 0 \in 0..Retries
      BY ClientAssumption
    <3> QED  BY <2>1, <2>2, <2>4, <3>1, <3>2 DEF Inv, TypeInv
  <2>7. LockOK'
    BY <2>1, <2>4, <2>5 DEF Inv, LockOK
  <2>8. LineOK'
    BY <2>1, <2>4, <2>5 DEF Inv, LineOK
  <2>9. ProbesOK'
    <3> SUFFICES ASSUME NEW x \in Callers, probe'[x] # NoProbe
                 PROVE  ProbeOK(x)'
      BY DEF ProbesOK
    <3>1. ProbeOK(x) /\ probe'[x] = probe[x]
      BY DEF Inv, ProbesOK
    <3>2. CASE x = c
      BY <2>3, <3>1, <3>2 DEF ProbeOK, Asking
    <3>3. CASE x # c
      BY <2>2, <3>1, <3>3, ProbeKept
    <3> QED  BY <3>2, <3>3
  <2> QED  BY <1>2, <2>6, <2>7, <2>8, <2>9 DEF Inv
<1> QED  BY <1>3, <1>4

(* A probe's call goes to a slave, with the function code it asks about.   *)
LEMMA ProbeCalling ==
  ASSUME Inv, NEW c \in Callers, probe[c] # NoProbe, op[c].phase = "called"
  PROVE  /\ op[c].call.to = probe[c].to /\ op[c].call.fc = Asking(probe[c])
         /\ op[c].call.to \in Slaves /\ op[c].call.to # 0
<1>1. op[c].call = ProbeCall(probe[c].to, Asking(probe[c]), probe[c].walk)
  BY DEF Inv, ProbesOK, ProbeOK
<1>2. op[c].call.to = probe[c].to /\ op[c].call.fc = Asking(probe[c])
  BY <1>1 DEF ProbeCall
<1>3. probe[c].to \in Slaves
  BY DEF Inv, TypeInv, ProbeRec
<1>4. \A x \in Slaves : x # 0
  <2>1. \A x \in 1..247 : x # 0
    OBVIOUS
  <2> QED  BY <2>1, ServerAssumption
<1> QED  BY <1>2, <1>3, <1>4

LEMMA TimeOutKeeps ==
  ASSUME Inv, NEW c \in Callers, TimeOut(c)
  PROVE  Inv'
<1>1. /\ Waiting(c) /\ End(c, "timeout", <<>>) /\ reply' = NoFrame
      /\ UNCHANGED <<bank, plan, emitted, fired, request, team, probe, caps>>
  BY DEF TimeOut, Discard
<1>2. "timeout" \in Kinds /\ <<>> \in Seq(Int)
  BY EmptySeq DEF Kinds
<1>3. KindTrue(probe[c].to, Asking(probe[c]), "timeout")
  BY DEF KindTrue
<1> QED  BY <1>1, <1>2, <1>3, EndKeeps

LEMMA InterruptKeeps ==
  ASSUME Inv, NEW c \in Callers, Interrupt(c)
  PROVE  Inv'
<1>1. PICK kind \in {"lost", "cancelled"} : End(c, kind, <<>>)
  BY DEF Interrupt
<1>2. /\ Waiting(c) /\ reply' = NoFrame
      /\ UNCHANGED <<bank, plan, emitted, fired, request, team, probe, caps>>
  BY DEF Interrupt, Discard
<1>3. kind \in Kinds /\ <<>> \in Seq(Int)
  BY EmptySeq DEF Kinds
<1>4. KindTrue(probe[c].to, Asking(probe[c]), kind)
  BY DEF KindTrue
<1> QED  BY <1>1, <1>2, <1>3, <1>4, EndKeeps

LEMMA BroadcastSentKeeps ==
  ASSUME Inv, NEW c \in Callers, BroadcastSent(c)
  PROVE  Inv'
<1>1. /\ Waiting(c) /\ End(c, "value", <<>>) /\ op[c].call.to = 0
      /\ UNCHANGED <<bank, plan, emitted, fired, request, reply, team, probe, caps>>
  BY DEF BroadcastSent, serverVars
<1>2. "value" \in Kinds /\ <<>> \in Seq(Int)
  BY EmptySeq DEF Kinds
<1>3. op[c].phase = "called"
  BY <1>1, OwnerCall, ClientAssumption DEF Inv, Waiting
<1>4. probe[c] = NoProbe
  BY <1>1, <1>3, ProbeCalling
<1>5. reply' \in ReplyRec \cup {NoFrame}
  BY <1>1 DEF Inv, TypeInv
<1> QED  BY <1>1, <1>2, <1>4, <1>5, EndKeeps

(* What comes of a response, and that it is true of the slave.             *)
LEMMA OutcomeProperties ==
  ASSUME NEW r, AsCalled(r), Encodable(r), NEW f, f.pdu \in PduBytes, AnswerOK(r, f)
  PROVE  /\ Kind(r, f.pdu) \in Kinds
         /\ Kind(r, f.pdu) = "value" => r.fc \notin Device[r.to].disabled
         /\ Kind(r, f.pdu) = "illegal_function" => r.fc \in Device[r.to].disabled
<1>1. f.pdu \in Seq(Byte) /\ f.pdu # <<>> /\ r.fc \in FunctionCodes
  BY CalledProperties DEF PduBytes
<1>2. Kind(r, f.pdu) \in Kinds
  BY <1>1, InterpretKinds DEF Kinds
<1>3. /\ Kind(r, f.pdu) = "value" => Permission(r.to, r) = "ok"
      /\ Kind(r, f.pdu) = "illegal_function" => Permission(r.to, r) = "illegal_function"
  BY DEF AnswerOK, Outcome, Kind, Memory!Refusals
<1>4. /\ Permission(r.to, r) = "ok" => r.fc \notin Device[r.to].disabled
      /\ Permission(r.to, r) = "illegal_function" => r.fc \in Device[r.to].disabled
  BY DEF Permission
<1> QED  BY <1>2, <1>3, <1>4

LEMMA ReceiveKeeps ==
  ASSUME Inv, NEW c \in Callers, Receive(c)
  PROVE  Inv'
<1> DEFINE r == op[c].call
           out == IF reply.intact THEN Interpret(r, reply.pdu) ELSE Raise("checksum")
<1>1. /\ Waiting(c) /\ reply # NoFrame /\ End(c, out.kind, out.values) /\ reply' = NoFrame
      /\ UNCHANGED <<bank, plan, emitted, fired, request, team, probe, caps>>
  BY DEF Receive
<1>2. owner = c /\ owner # NoCaller /\ stage = "waiting"
  BY <1>1, ClientAssumption DEF Waiting
<1>3. AsCalled(r) /\ Encodable(r) /\ op[c].phase = "called"
  BY <1>2, OwnerCall DEF Inv
<1>4. reply.pdu \in PduBytes /\ AnswerOK(r, reply)
  BY <1>1, <1>2 DEF Inv, TypeInv, ReplyRec, LineOK
<1>5. probe[c] # NoProbe => r.to = probe[c].to /\ r.fc = Asking(probe[c])
  BY <1>3, ProbeCalling
<1> HIDE DEF r
<1>6. CASE reply.intact
  <2>1. out.kind = Kind(r, reply.pdu) /\ out.values = Interpret(r, reply.pdu).values
    BY <1>6 DEF Kind
  <2>2. /\ Kind(r, reply.pdu) \in Kinds
        /\ Kind(r, reply.pdu) = "value" => r.fc \notin Device[r.to].disabled
        /\ Kind(r, reply.pdu) = "illegal_function" => r.fc \in Device[r.to].disabled
    BY <1>3, <1>4, OutcomeProperties
  <2>3. Interpret(r, reply.pdu).values \in Seq(Int)
    BY <1>3, <1>4, ValuesTyped
  <2>4. probe[c] # NoProbe => KindTrue(probe[c].to, Asking(probe[c]), out.kind)
    BY <1>5, <2>1, <2>2 DEF KindTrue
  <2>5. out.kind \in Kinds /\ out.values \in Seq(Int)
    BY <2>1, <2>2, <2>3
  <2> HIDE DEF out
  <2> QED  BY <1>1, <2>4, <2>5, EndKeeps
<1>7. CASE ~reply.intact
  <2>1. out.kind = "checksum" /\ out.values = <<>>
    BY <1>7 DEF Raise
  <2>2. out.kind \in Kinds /\ out.values \in Seq(Int)
    BY <2>1, EmptySeq DEF Kinds
  <2>3. probe[c] # NoProbe => KindTrue(probe[c].to, Asking(probe[c]), out.kind)
    BY <2>1 DEF KindTrue
  <2> HIDE DEF out
  <2> QED  BY <1>1, <2>2, <2>3, EndKeeps
<1> QED  BY <1>6, <1>7

(* One response sent, or dropped.                                          *)
LEMMA SendResponseKeeps ==
  ASSUME TypeInv, FaultsOnce, NEW s \in Slaves, NEW answer \in PduBytes, SendResponse(s, answer),
         plan' = plan
  PROVE  /\ emitted' \in [Slaves -> 0..IndexMax]
         /\ fired' \in [Slaves -> [drop : 0..2, corrupt : 0..2]]
         /\ FaultsOnce'
         /\ reply' \in ReplyRec \cup {NoFrame}
         /\ reply' # NoFrame =>
              /\ reply'.pdu = answer
              /\ reply'.from = IF plan[s].wrong = Never THEN s ELSE plan[s].wrong
<1> DEFINE p == plan[s]
           n == emitted[s]
           f == fired[s]
           m == Upto(n + 1, IndexMax)
           g == IF n = p.drop THEN [f EXCEPT !.drop = Upto(@ + 1, 2)]
                ELSE [f EXCEPT !.corrupt = IF n = p.corrupt THEN Upto(@ + 1, 2) ELSE @]
<1>1. /\ emitted \in [Slaves -> 0..IndexMax] /\ fired \in [Slaves -> [drop : 0..2, corrupt : 0..2]]
      /\ IndexMax \in Nat
  BY ServerAssumption DEF TypeInv
<1>2. emitted' = [emitted EXCEPT ![s] = m]
  BY DEF SendResponse
<1>3. fired' = [fired EXCEPT ![s] = g]
  <2>1. CASE n = p.drop
    BY <2>1 DEF SendResponse, Index
  <2>2. CASE n # p.drop
    BY <2>2 DEF SendResponse, Index
  <2> QED  BY <2>1, <2>2
<1>4. /\ p.drop \in Int /\ p.drop < IndexMax /\ p.corrupt \in Int /\ p.corrupt < IndexMax
      /\ p.wrong \in Int
  BY SetupTyped DEF TypeInv
<1>5. n \in 0..IndexMax /\ f \in [drop : 0..2, corrupt : 0..2]
  BY <1>1
<1>6. f.drop \in 0..2 /\ f.corrupt \in 0..2
  BY <1>5
<1>7. StruckOnce(f.drop, p.drop, n) /\ StruckOnce(f.corrupt, p.corrupt, n)
  BY DEF FaultsOnce
<1>8. /\ g \in [drop : 0..2, corrupt : 0..2]
      /\ g.drop = IF n = p.drop THEN Upto(f.drop + 1, 2) ELSE f.drop
      /\ g.corrupt = IF n # p.drop /\ n = p.corrupt THEN Upto(f.corrupt + 1, 2) ELSE f.corrupt
  <2>1. \A x \in 0..2 : Upto(x + 1, 2) \in 0..2
    BY DEF Upto
  <2>2. CASE n = p.drop
    BY <1>5, <1>6, <2>1, <2>2
  <2>3. CASE n # p.drop /\ n = p.corrupt
    BY <1>5, <1>6, <2>1, <2>3
  <2>4. CASE n # p.drop /\ n # p.corrupt
    BY <1>5, <1>6, <2>4
  <2> QED  BY <2>2, <2>3, <2>4
<1>9. m \in 0..IndexMax /\ m >= n /\ (n < IndexMax => m = n + 1)
  BY <1>1, <1>5 DEF Upto
<1>10. reply' \in ReplyRec \cup {NoFrame}
       /\ (reply' # NoFrame =>
             /\ reply'.pdu = answer
             /\ reply'.from = IF plan[s].wrong = Never THEN s ELSE plan[s].wrong)
  <2> DEFINE from == IF p.wrong = Never THEN s ELSE p.wrong
             whole == n # p.corrupt
  <2>1. from \in Int
    <3>1. \A x \in 1..247 : x \in Int
      OBVIOUS
    <3> QED  BY <1>4, <3>1, ServerAssumption
  <2>2. reply' = NoFrame \/ reply' = [from |-> from, pdu |-> answer, intact |-> whole]
    BY DEF SendResponse, Index
  <2>3. whole \in BOOLEAN
    OBVIOUS
  <2> HIDE DEF from, whole
  <2>4. /\ [from |-> from, pdu |-> answer, intact |-> whole] \in ReplyRec
        /\ [from |-> from, pdu |-> answer, intact |-> whole].pdu = answer
        /\ [from |-> from, pdu |-> answer, intact |-> whole].from = from
    BY <2>1, <2>3 DEF ReplyRec
  <2> QED  BY <2>2, <2>4 DEF from
<1> HIDE DEF p, n, f, m, g
<1>11. StruckOnce(g.drop, p.drop, m) /\ StruckOnce(g.corrupt, p.corrupt, m)
  <2>1. \A x \in 0..2, at \in Int, k \in 0..IndexMax, k1 \in 0..IndexMax :
          /\ at < IndexMax /\ k1 >= k /\ (k < IndexMax => k1 = k + 1) /\ StruckOnce(x, at, k)
          => /\ StruckOnce(IF k = at THEN Upto(x + 1, 2) ELSE x, at, k1)
             /\ StruckOnce(x, at, k1)
    BY <1>1 DEF StruckOnce, Upto
  <2>2. StruckOnce(g.drop, p.drop, m)
    BY <1>4, <1>5, <1>6, <1>7, <1>8, <1>9, <2>1
  <2>3. StruckOnce(g.corrupt, p.corrupt, m)
    <3>1. CASE n # p.drop /\ n = p.corrupt
      BY <1>4, <1>5, <1>6, <1>7, <1>8, <1>9, <2>1, <3>1
    <3>2. CASE ~(n # p.drop /\ n = p.corrupt)
      BY <1>4, <1>5, <1>6, <1>7, <1>8, <1>9, <2>1, <3>2
    <3> QED  BY <3>1, <3>2
  <2> QED  BY <2>2, <2>3
<1>12. /\ emitted' \in [Slaves -> 0..IndexMax]
       /\ fired' \in [Slaves -> [drop : 0..2, corrupt : 0..2]]
  BY <1>1, <1>2, <1>3, <1>8, <1>9
<1>13. FaultsOnce'
  <2> SUFFICES ASSUME NEW x \in Slaves
               PROVE  /\ StruckOnce(fired'[x].drop, plan'[x].drop, emitted'[x])
                      /\ StruckOnce(fired'[x].corrupt, plan'[x].corrupt, emitted'[x])
    BY DEF FaultsOnce
  <2>1. CASE x = s
    <3>1. fired'[x] = g /\ emitted'[x] = m /\ plan'[x] = p
      BY <1>1, <1>2, <1>3, <2>1 DEF p
    <3> QED  BY <1>11, <3>1
  <2>2. CASE x # s
    <3>1. fired'[x] = fired[x] /\ emitted'[x] = emitted[x] /\ plan'[x] = plan[x]
      BY <1>1, <1>2, <1>3, <2>2
    <3> QED  BY <3>1 DEF FaultsOnce
  <2> QED  BY <2>1, <2>2
<1> QED  BY <1>10, <1>12, <1>13

(* The slaves' banks after any request.                                    *)
LEMMA HandledTyped ==
  ASSUME TypeInv, LineOK, request # NoFrame, NEW s \in Slaves
  PROVE  BankOK(Handled(s, request.pdu), Device[s])
<1>1. BankOK(bank[s], Device[s]) /\ request \in RequestRec
  BY DEF TypeInv
<1>2. CASE sender.call # NoCall
  <2>1. /\ AsCalled(sender.call) /\ Encodable(sender.call)
        /\ request.pdu = EncodeRequest(sender.call)
    BY <1>2, SenderCall
  <2>2. BankOK(Handled(s, EncodeRequest(sender.call)), Device[s])
    BY <1>1, <2>1, HandledProperties
  <2> QED  BY <2>1, <2>2
<1>3. CASE sender.call = NoCall
  <2>1. Foreign(request)
    BY <1>3 DEF LineOK
  <2>2. Handled(s, request.pdu) = bank[s]
    BY <1>1, <2>1, ForeignRefused
  <2> QED  BY <1>1, <2>2
<1> QED  BY <1>2, <1>3

(* A slave's replies to any request.                                       *)
LEMMA RepliesTyped ==
  ASSUME TypeInv, LineOK, request # NoFrame, NEW s \in Slaves,
         NEW q \in Replies(s, request.pdu, bank[s])
  PROVE  /\ q \in PduBytes
         /\ "distorts" \notin Device[s].handle => ReplyFits(q)
<1>1. BankOK(bank[s], Device[s]) /\ request \in RequestRec
  BY DEF TypeInv
<1>2. CASE sender.call # NoCall
  <2>1. /\ AsCalled(sender.call) /\ Encodable(sender.call)
        /\ request.pdu = EncodeRequest(sender.call)
    BY <1>2, SenderCall
  <2>2. q \in Replies(s, EncodeRequest(sender.call), bank[s])
    BY <2>1
  <2> QED  BY <1>1, <2>1, <2>2, RepliesProperties
<1>3. CASE sender.call = NoCall
  <2>1. Foreign(request)
    BY <1>3 DEF LineOK
  <2> QED  BY <1>1, <2>1, ForeignReplies
<1> QED  BY <1>2, <1>3

(* What serving does to the banks, and to the line.                        *)
LEMMA ServeBank ==
  ASSUME TypeInv, LineOK, Serve
  PROVE  /\ request # NoFrame /\ request' = NoFrame /\ plan' = plan
         /\ DOMAIN bank' = Slaves /\ \A s \in Slaves : BankOK(bank'[s], Device[s])
         /\ \A s \in Slaves :
              bank'[s] = IF request.intact /\ request.to \in {0, s}
                         THEN Handled(s, request.pdu) ELSE bank[s]
<1>1. request # NoFrame /\ request' = NoFrame /\ plan' = plan
  BY DEF Serve, DropRequest, ServeBroadcast, ServeRequest
<1>2. DOMAIN bank = Slaves /\ \A s \in Slaves : BankOK(bank[s], Device[s])
  BY DEF TypeInv
<1>3. \A s \in Slaves : s # 0
  <2>1. \A x \in 1..247 : x # 0
    OBVIOUS
  <2> QED  BY <2>1, ServerAssumption
<1>4. DOMAIN bank' = Slaves
      /\ \A s \in Slaves :
           bank'[s] = IF request.intact /\ request.to \in {0, s}
                      THEN Handled(s, request.pdu) ELSE bank[s]
  <2>1. CASE DropRequest
    <3>1. bank' = bank /\ (~request.intact \/ request.to \notin Slaves \cup {0})
      BY <2>1 DEF DropRequest
    <3> QED  BY <1>2, <3>1
  <2>2. CASE ServeBroadcast
    <3>1. request.intact /\ request.to = 0 /\ bank' = [s \in Slaves |-> Handled(s, request.pdu)]
      BY <2>2 DEF ServeBroadcast
    <3> QED  BY <3>1
  <2>3. CASE ServeRequest
    <3>1. /\ request.intact /\ request.to \in Slaves
          /\ bank' = [bank EXCEPT ![request.to] = Handled(request.to, request.pdu)]
      BY <2>3 DEF ServeRequest
    <3> QED  BY <1>2, <1>3, <3>1
  <2> QED  BY <2>1, <2>2, <2>3 DEF Serve
<1>5. \A s \in Slaves : BankOK(bank'[s], Device[s])
  BY <1>1, <1>2, <1>4, HandledTyped
<1> QED  BY <1>1, <1>4, <1>5

LEMMA ServeLine ==
  ASSUME TypeInv, FaultsOnce, LineOK, Serve
  PROVE  /\ emitted' \in [Slaves -> 0..IndexMax]
         /\ fired' \in [Slaves -> [drop : 0..2, corrupt : 0..2]]
         /\ FaultsOnce'
         /\ reply' \in ReplyRec \cup {NoFrame}
         /\ \/ reply' = reply
            \/ reply' = NoFrame
            \/ /\ request.to \in Slaves /\ request.intact
               /\ reply'.pdu \in Replies(request.to, request.pdu, bank[request.to])
               /\ LET wrong == plan[request.to].wrong IN
                  reply'.from = IF wrong = Never THEN request.to ELSE wrong
<1>1. CASE UNCHANGED <<emitted, fired, reply>>
  <2>1. plan' = plan
    BY ServeBank
  <2> QED  BY <1>1, <2>1, FaultsKept DEF TypeInv
<1>2. CASE /\ request.to \in Slaves /\ request.intact
           /\ \E q \in Replies(request.to, request.pdu, bank[request.to]) :
                SendResponse(request.to, q)
  <2> DEFINE s == request.to
  <2>1. PICK q \in Replies(s, request.pdu, bank[s]) : SendResponse(s, q)
    BY <1>2
  <2>2. request # NoFrame /\ plan' = plan
    BY ServeBank
  <2>3. q \in PduBytes
    BY <1>2, <2>2, RepliesTyped
  <2>4. /\ emitted' \in [Slaves -> 0..IndexMax]
        /\ fired' \in [Slaves -> [drop : 0..2, corrupt : 0..2]]
        /\ FaultsOnce'
        /\ reply' \in ReplyRec \cup {NoFrame}
        /\ reply' # NoFrame =>
             /\ reply'.pdu = q
             /\ reply'.from = IF plan[s].wrong = Never THEN s ELSE plan[s].wrong
    BY <1>2, <2>1, <2>2, <2>3, SendResponseKeeps
  <2> QED  BY <1>2, <2>4
<1>3. \/ UNCHANGED <<emitted, fired, reply>>
      \/ /\ request.to \in Slaves /\ request.intact
         /\ \E q \in Replies(request.to, request.pdu, bank[request.to]) :
              SendResponse(request.to, q)
  BY DEF Serve, DropRequest, ServeBroadcast, ServeRequest
<1> QED  BY <1>1, <1>2, <1>3

(* Serving records what came of the request with its call, and nothing     *)
(* else of any call.                                                       *)
LEMMA ServeOps ==
  ASSUME TypeInv, LockOK, LineOK, Serve
  PROVE  /\ op' \in [Callers -> OpRec]
         /\ \A c \in Callers : /\ op'[c].phase = op[c].phase /\ op'[c].call = op[c].call
                               /\ op'[c].kind = op[c].kind
         /\ sender' = NoSender /\ UNCHANGED <<team, owner, stage, attempt, probe, caps>>
<1>1. sender' = NoSender /\ UNCHANGED <<team, owner, stage, attempt, probe, caps>>
  BY DEF Serve
<1>2. op \in [Callers -> OpRec]
  BY DEF TypeInv
<1> DEFINE acted == sender.live /\ request.intact /\ Memory!Targets(sender.call) # {}
           e == IF Memory!Stored(sender.call) THEN "exact" ELSE "other"
           t == Memory!Content(sender.call)
           x == sender.by
<1>3. op' = IF acted THEN [op EXCEPT ![x].effect = e, ![x].seen = t] ELSE op
  BY DEF Serve
<1>4. CASE ~acted
  <2>1. op' = op
    BY <1>3, <1>4
  <2> QED  BY <1>1, <1>2, <2>1
<1>5. CASE acted
  <2>1. sender.live
    BY <1>5
  <2>2. owner # NoCaller /\ sender.by = owner /\ sender.call # NoCall
    BY <2>1 DEF LockOK
  <2>3. x \in Callers
    BY <2>2, OwnerCall
  <2>4. AsCalled(sender.call) /\ Encodable(sender.call)
    BY <2>2, SenderCall
  <2>5. t \in Seq(Int)
    BY <2>4, ContentTyped DEF TypeInv
  <2>6. e \in {"none", "exact", "other"}
    OBVIOUS
  <2>7. op' = [op EXCEPT ![x].effect = e, ![x].seen = t]
    BY <1>3, <1>5
  <2> HIDE DEF e, t, x, acted
  <2> DEFINE o == [op[x] EXCEPT !.effect = e, !.seen = t]
  <2>8. o \in OpRec /\ o.phase = op[x].phase /\ o.call = op[x].call /\ o.kind = op[x].kind
    <3>1. op[x] \in OpRec
      BY <1>2, <2>3
    <3> QED  BY <2>5, <2>6, <3>1 DEF OpRec
  <2>9. op' = [op EXCEPT ![x] = o]
    BY <1>2, <2>3, <2>7
  <2> HIDE DEF o
  <2> QED  BY <1>1, <1>2, <2>3, <2>8, <2>9
<1> QED  BY <1>4, <1>5

LEMMA ServeKeeps ==
  ASSUME Inv, Serve
  PROVE  Inv'
<1>1. /\ request # NoFrame /\ request' = NoFrame /\ plan' = plan
      /\ DOMAIN bank' = Slaves /\ \A s \in Slaves : BankOK(bank'[s], Device[s])
  BY ServeBank DEF Inv
<1>2. /\ emitted' \in [Slaves -> 0..IndexMax]
      /\ fired' \in [Slaves -> [drop : 0..2, corrupt : 0..2]]
      /\ FaultsOnce'
      /\ reply' \in ReplyRec \cup {NoFrame}
      /\ \/ reply' = reply
         \/ reply' = NoFrame
         \/ /\ request.to \in Slaves
            /\ reply'.pdu \in Replies(request.to, request.pdu, bank[request.to])
  BY ServeLine DEF Inv
<1>3. /\ op' \in [Callers -> OpRec]
      /\ \A c \in Callers : /\ op'[c].phase = op[c].phase /\ op'[c].call = op[c].call
                            /\ op'[c].kind = op[c].kind
      /\ sender' = NoSender /\ UNCHANGED <<team, owner, stage, attempt, probe, caps>>
  BY ServeOps DEF Inv
<1>4. NoSender \in SenderRec /\ NoSender.call = NoCall /\ ~NoSender.live
  BY DEF NoSender, SenderRec
<1>5. TypeInv'
  <2>1. \A c \in Callers : op'[c].phase = "called" => op'[c].call # NoCall
    BY <1>3 DEF Inv, TypeInv
  <2> QED  BY <1>1, <1>2, <1>3, <1>4, <2>1 DEF Inv, TypeInv
<1>6. LockOK'
  <2>1. owner # NoCaller => owner \in Callers
    BY DEF Inv, TypeInv
  <2> QED  BY <1>3, <1>4, <2>1 DEF Inv, LockOK
<1>7. LineOK'
  <2>1. ASSUME stage' = "waiting", reply' # NoFrame
        PROVE  op'[owner'].call.to \in Slaves /\ AnswerOK(op'[owner'].call, reply')
    <3>1. sender.live /\ reply = NoFrame
      BY <1>1, <1>3, <2>1 DEF Inv, LineOK
    <3>2. owner # NoCaller /\ sender.call = op[owner].call /\ sender.call # NoCall
      BY <3>1 DEF Inv, LockOK
    <3>3. owner \in Callers
      BY <3>2, OwnerCall DEF Inv
    <3>4. op'[owner'].call = sender.call
      BY <1>3, <3>2, <3>3
    <3>5. /\ AsCalled(sender.call) /\ Encodable(sender.call)
          /\ request.to = sender.call.to /\ request.pdu = EncodeRequest(sender.call)
      BY <3>2, SenderCall DEF Inv
    <3> DEFINE r == sender.call
    <3>6. r.to \in Slaves /\ reply'.pdu \in Replies(r.to, EncodeRequest(r), bank[r.to])
      BY <1>2, <2>1, <3>1, <3>5
    <3>7. BankOK(bank[r.to], Device[r.to])
      BY <3>6 DEF Inv, TypeInv
    <3>8. AsCalled(r) /\ Encodable(r)
      BY <3>5
    <3> HIDE DEF r
    <3>9. /\ Kind(r, reply'.pdu) = "value" => Permission(r.to, r) = "ok"
          /\ Kind(r, reply'.pdu) \in Memory!Refusals => Permission(r.to, r) = Kind(r, reply'.pdu)
      BY <3>6, <3>7, <3>8, RepliesProperties
    <3>10. AnswerOK(r, reply')
      BY <3>9 DEF AnswerOK, Outcome, Kind
    <3> QED  BY <3>4, <3>6, <3>10 DEF r
  <2> QED  BY <1>1, <1>3, <1>4, <2>1 DEF LineOK
<1>8. ProbesOK'
  <2> SUFFICES ASSUME NEW x \in Callers, probe'[x] # NoProbe
               PROVE  ProbeOK(x)'
    BY DEF ProbesOK
  <2>1. ProbeOK(x) /\ probe'[x] = probe[x]
    BY <1>3 DEF Inv, ProbesOK
  <2> QED  BY <1>3, <2>1 DEF ProbeOK
<1>9. VerdictTrue'
  BY <1>3, VerdictsKept DEF Inv
<1> QED  BY <1>2, <1>5, <1>6, <1>7, <1>8, <1>9 DEF Inv

-----------------------------------------------------------------------------
(* Steps of a probe                                                        *)

LEMMA ProbeTyped ==
  ASSUME TypeInv, NEW c \in Callers, probe[c] # NoProbe
  PROVE  /\ probe[c] \in ProbeRec
         /\ probe[c].to \in Slaves /\ probe[c].walk \in DOMAIN Walk
         /\ probe[c].verdicts \in Seq(Verdicts) /\ probe[c].told \in SUBSET (Reads \X Kinds)
         /\ Len(probe[c].verdicts) \in 0..3 /\ Asking(probe[c]) \in 1..4
         /\ ProbeFcs[Asking(probe[c])] = Asking(probe[c])
<1>1. probe[c] \in ProbeRec
  BY DEF TypeInv
<1>2. /\ probe[c].to \in Slaves /\ probe[c].walk \in DOMAIN Walk
      /\ probe[c].verdicts \in Seq(Verdicts) /\ probe[c].told \in SUBSET (Reads \X Kinds)
  BY <1>1 DEF ProbeRec
<1>3. Len(probe[c].verdicts) \in Nat /\ Len(probe[c].verdicts) < 4
  <2>1. Len(ProbeFcs) = 4
    BY DEF ProbeFcs
  <2> QED  BY <1>2, <2>1, LenProperties DEF TypeInv
<1>4. \A n \in Nat : n < 4 => n \in 0..3 /\ n + 1 \in 1..4
  OBVIOUS
<1>5. Len(probe[c].verdicts) \in 0..3 /\ Asking(probe[c]) \in 1..4
  BY <1>3, <1>4 DEF Asking
<1>6. \A n \in 1..4 : ProbeFcs[n] = n
  BY DEF ProbeFcs
<1> QED  BY <1>1, <1>2, <1>5, <1>6

LEMMA ProbeCallTyped ==
  ASSUME NEW s \in Slaves, NEW fc \in 1..4, NEW i \in DOMAIN Walk
  PROVE  ProbeCall(s, fc, i) \in ProbeCalls
<1>1. fc \in Reads
  BY Codes
<1> QED  BY <1>1 DEF ProbeCall, ProbeCalls

(* An answer to a function code makes a verdict that is told and true.     *)
LEMMA PastExtended ==
  ASSUME NEW p, p.verdicts \in Seq(Verdicts), Len(p.verdicts) \in 0..3, PastOK(p),
         NEW kind \in {"value", "illegal_function", "illegal_address"},
         KindTrue(p.to, Asking(p), kind)
  PROVE  LET v == Append(p.verdicts, Verdict(kind))
             q == p.told \cup {<<Asking(p), kind>>} IN
         /\ v \in Seq(Verdicts) /\ Len(v) = Asking(p) /\ DOMAIN v = 1..Asking(p)
         /\ \A j \in DOMAIN v : ToldOf(j, v[j], q) /\ TrueOf(p.to, j, v[j])
         /\ \A t \in q : /\ t[2] \in {"value", "illegal_function", "illegal_address"}
                         /\ t[1] <= Asking(p)
<1> DEFINE n == Len(p.verdicts)
           m == Asking(p)
           w == Verdict(kind)
           v == Append(p.verdicts, w)
           q == p.told \cup {<<m, kind>>}
<1>1. w \in Verdicts
  BY DEF Verdict, Verdicts
<1>2. /\ n \in Nat /\ m \in Nat /\ m = n + 1
      /\ \A j \in 1..m : j = m \/ (j \in 1..n /\ j # m)
  BY DEF Asking
<1>3. v \in Seq(Verdicts) /\ Len(v) = m /\ v[m] = w /\ \A j \in 1..n : v[j] = p.verdicts[j]
  BY <1>1, <1>2, AppendProperties
<1>4. DOMAIN v = 1..m /\ DOMAIN p.verdicts = 1..n
  BY <1>3, LenProperties
<1>5. \A t \in p.told :
        /\ t[2] \in {"value", "illegal_function", "illegal_address"}
        /\ t[1] <= m
        /\ t[1] = m => t[2] = "illegal_address"
  BY DEF PastOK
<1>6. \A j \in 1..n : ToldOf(j, p.verdicts[j], p.told) /\ TrueOf(p.to, j, p.verdicts[j])
  BY <1>4 DEF PastOK
<1> HIDE DEF n, m, w, v
<1>7. \A t \in q : /\ t[2] \in {"value", "illegal_function", "illegal_address"}
                   /\ t[1] <= m
  <2>1. m <= m
    BY <1>2
  <2> QED  BY <1>5, <2>1
<1>8. ASSUME NEW j \in 1..m
      PROVE  ToldOf(j, v[j], q) /\ TrueOf(p.to, j, v[j])
  <2>1. CASE j \in 1..n /\ j # m
    <3>1. \A k : <<j, k>> \in q <=> <<j, k>> \in p.told
      BY <2>1
    <3> QED  BY <1>3, <1>6, <2>1, <3>1 DEF ToldOf
  <2>2. CASE j = m
    <3>1. <<m, kind>> \in q
      OBVIOUS
    <3>2. \A k : <<m, k>> \in q => k = kind \/ k = "illegal_address"
      <4>1. \A k : <<m, k>>[1] = m /\ <<m, k>>[2] = k
        OBVIOUS
      <4> QED  BY <1>5, <4>1
    <3>3. /\ w = "supported" <=> kind = "value"
          /\ w = "unsupported" <=> kind = "illegal_function"
          /\ w = "unknown" => kind = "illegal_address"
      BY DEF Verdict, w
    <3>4. ToldOf(m, w, q)
      BY <3>1, <3>2, <3>3 DEF ToldOf
    <3>5. TrueOf(p.to, m, w)
      BY <3>3 DEF TrueOf, KindTrue, m
    <3> QED  BY <1>3, <2>2, <3>4, <3>5
  <2> QED  BY <1>2, <2>1, <2>2
<1> QED  BY <1>3, <1>4, <1>7, <1>8 DEF v, m, w

(* What is reported is true, and no more than the verdicts.                *)
LEMMA ReportProperties ==
  ASSUME NEW v \in Seq(Verdicts), NEW s \in Slaves, \A j \in DOMAIN v : TrueOf(s, j, v[j])
  PROVE  /\ Report(v) \in CapsRec
         /\ \A fc \in DOMAIN Report(v) :
              /\ Report(v)[fc] = IF fc \in DOMAIN v THEN v[fc] ELSE "unknown"
              /\ TrueOf(s, fc, Report(v)[fc])
<1> DEFINE F == Reads \cup {WriteCoil, WriteRegister, WriteCoils, WriteRegisters}
<1>1. /\ DOMAIN Report(v) = F
      /\ \A fc \in F : Report(v)[fc] = IF fc \in DOMAIN v THEN v[fc] ELSE "unknown"
  BY DEF Report
<1>2. \A j \in DOMAIN v : v[j] \in Verdicts
  BY LenProperties, ElementOfSeq
<1>3. "unknown" \in Verdicts /\ \A fc : TrueOf(s, fc, "unknown")
  BY DEF Verdicts, TrueOf
<1>4. Report(v) \in [F -> Verdicts]
  BY <1>1, <1>2, <1>3 DEF Report
<1> QED  BY <1>1, <1>3, <1>4 DEF CapsRec

(* A probe that is over leaves true verdicts in the cache.                 *)
LEMMA ProbeOverKeeps ==
  ASSUME Inv, NEW c \in Callers, probe[c] # NoProbe, NEW v \in Seq(Verdicts),
         \A j \in DOMAIN v : TrueOf(probe[c].to, j, v[j]),
         ProbeOver(c, v), UNCHANGED <<serverVars, team, owner, stage, attempt, sender>>
  PROVE  Inv'
<1> DEFINE s == probe[c].to
           R == Report(v)
<1>1. /\ caps' = [caps EXCEPT ![c][s] = R]
      /\ probe' = [probe EXCEPT ![c] = NoProbe] /\ op' = op
      /\ UNCHANGED <<bank, plan, emitted, fired, request, reply>>
  BY DEF ProbeOver, serverVars
<1>2. s \in Slaves
  BY ProbeTyped DEF Inv
<1>3. R \in CapsRec /\ \A fc \in DOMAIN R : TrueOf(s, fc, R[fc])
  BY <1>2, ReportProperties
<1>4. /\ caps \in [Callers -> [Slaves -> CapsRec \cup {NoProbe}]]
      /\ probe \in [Callers -> ProbeRec \cup {NoProbe}]
  BY DEF Inv, TypeInv
<1> HIDE DEF s, R
<1>5. /\ caps' \in [Callers -> [Slaves -> CapsRec \cup {NoProbe}]]
      /\ \A x \in Callers, y \in Slaves :
           caps'[x][y] = IF x = c /\ y = s THEN R ELSE caps[x][y]
  BY <1>1, <1>2, <1>3, <1>4
<1>6. /\ probe' \in [Callers -> ProbeRec \cup {NoProbe}] /\ probe'[c] = NoProbe
      /\ \A x \in Callers : x # c => probe'[x] = probe[x]
  BY <1>1, <1>4
<1>7. TypeInv'
  <2>1. \A x \in Callers : probe'[x] # NoProbe => Len(probe'[x].verdicts) < Len(ProbeFcs)
    BY <1>6 DEF Inv, TypeInv
  <2> QED  BY <1>1, <1>5, <1>6, <2>1 DEF Inv, TypeInv
<1>8. LockOK' /\ LineOK'
  BY <1>1, LockLineKept DEF Inv
<1>9. ProbesOK'
  <2> SUFFICES ASSUME NEW x \in Callers, probe'[x] # NoProbe
               PROVE  ProbeOK(x)'
    BY DEF ProbesOK
  <2>1. x # c
    BY <1>6
  <2>2. probe'[x] = probe[x] /\ op'[x] = op[x]
    BY <1>1, <1>6, <2>1
  <2>3. ProbeOK(x)
    BY <2>2 DEF Inv, ProbesOK
  <2> QED  BY <2>2, <2>3, ProbeKept
<1>10. FaultsOnce'
  BY <1>1, FaultsKept DEF Inv
<1>11. VerdictTrue'
  <2> SUFFICES ASSUME NEW x \in Callers, NEW y \in Slaves, caps'[x][y] # NoProbe,
                      NEW fc \in DOMAIN caps'[x][y]
               PROVE  TrueOf(y, fc, caps'[x][y][fc])
    BY DEF VerdictTrue, TrueOf
  <2>1. CASE x = c /\ y = s
    <3>1. caps'[x][y] = R
      BY <1>5, <2>1
    <3> QED  BY <1>3, <2>1, <3>1
  <2>2. CASE ~(x = c /\ y = s)
    <3>1. caps'[x][y] = caps[x][y]
      BY <1>5, <2>2
    <3> QED  BY <3>1 DEF Inv, VerdictTrue, TrueOf
  <2> QED  BY <2>1, <2>2
<1> QED  BY <1>7, <1>8, <1>9, <1>10, <1>11 DEF Inv

(* A caller that goes on to ask for a register.                            *)
LEMMA AskKeeps ==
  ASSUME Inv, NEW c \in Callers, op[c].phase # "called", NEW p \in ProbeRec,
         Len(p.verdicts) < Len(ProbeFcs), PastOK(p),
         Invoke(c, ProbeCall(p.to, Asking(p), p.walk)), probe' = [probe EXCEPT ![c] = p],
         UNCHANGED <<serverVars, team, owner, stage, attempt, sender, caps>>
  PROVE  Inv'
<1> DEFINE r == ProbeCall(p.to, Asking(p), p.walk)
<1>1. UNCHANGED <<bank, plan, emitted, fired, request, reply>>
  BY DEF serverVars
<1>2. p.to \in Slaves /\ p.walk \in DOMAIN Walk /\ p.verdicts \in Seq(Verdicts)
  BY DEF ProbeRec
<1>3. Asking(p) \in 1..4
  <2>1. Len(p.verdicts) \in Nat /\ Len(ProbeFcs) = 4
    BY <1>2, LenProperties DEF ProbeFcs
  <2>2. \A n \in Nat : n < 4 => n + 1 \in 1..4
    OBVIOUS
  <2> QED  BY <2>1, <2>2 DEF Asking
<1>4. r \in ProbeCalls /\ r # NoCall
  <2>1. r \in ProbeCalls
    BY <1>2, <1>3, ProbeCallTyped
  <2> QED  BY <2>1, CallsTyped
<1> HIDE DEF r
<1>5. /\ op' \in [Callers -> OpRec] /\ op'[c] = Called(r)
      /\ \A x \in Callers : x # c => op'[x] = op[x]
  BY <1>4, InvokeProperties DEF Inv, TypeInv, r
<1>6. op'[c].phase = "called" /\ op'[c].call = r
  BY <1>4, <1>5, OpRecords
<1>7. /\ probe' \in [Callers -> ProbeRec \cup {NoProbe}] /\ probe'[c] = p
      /\ \A x \in Callers : x # c => probe'[x] = probe[x]
  BY DEF Inv, TypeInv
<1>8. TypeInv'
  <2>1. \A x \in Callers : probe'[x] # NoProbe => Len(probe'[x].verdicts) < Len(ProbeFcs)
    BY <1>7 DEF Inv, TypeInv
  <2>2. \A x \in Callers : op'[x].phase = "called" => op'[x].call # NoCall
    BY <1>4, <1>5, <1>6 DEF Inv, TypeInv
  <2> QED  BY <1>1, <1>5, <1>7, <2>1, <2>2 DEF Inv, TypeInv
<1>9. LockOK' /\ LineOK'
  <2>1. owner # NoCaller => owner # c /\ owner \in Callers
    BY OwnerCall DEF Inv
  <2>2. owner # NoCaller => op'[owner] = op[owner]
    BY <1>5, <2>1
  <2> QED  BY <1>1, <2>2, LockLineKept DEF Inv
<1>10. ProbesOK'
  <2> SUFFICES ASSUME NEW x \in Callers, probe'[x] # NoProbe
               PROVE  ProbeOK(x)'
    BY DEF ProbesOK
  <2>1. CASE x = c
    <3>1. op'[x].phase = "called" /\ op'[x].call = r /\ probe'[x] = p
      BY <1>6, <1>7, <2>1
    <3> QED  BY <3>1 DEF ProbeOK, r
  <2>2. CASE x # c
    <3>1. probe'[x] = probe[x] /\ op'[x] = op[x]
      BY <1>5, <1>7, <2>2
    <3>2. ProbeOK(x)
      BY <3>1 DEF Inv, ProbesOK
    <3> QED  BY <3>1, <3>2, ProbeKept
  <2> QED  BY <2>1, <2>2
<1>11. FaultsOnce' /\ VerdictTrue'
  BY <1>1, FaultsKept, VerdictsKept DEF Inv
<1> QED  BY <1>8, <1>9, <1>10, <1>11 DEF Inv

LEMMA StartProbeKeeps ==
  ASSUME Inv, NEW c \in Callers, StartProbe(c)
  PROVE  Inv'
<1>1. PICK s \in Probes[c] :
        /\ Invoke(c, ProbeCall(s, ProbeFcs[1], 1))
        /\ probe' = [probe EXCEPT ![c] = [to |-> s, walk |-> 1, verdicts |-> <<>>, told |-> {}]]
  BY DEF StartProbe
<1> DEFINE p == [to |-> s, walk |-> 1, verdicts |-> <<>>, told |-> {}]
<1>2. /\ op[c].phase # "called"
      /\ UNCHANGED <<serverVars, team, owner, stage, attempt, sender, caps>>
  BY DEF StartProbe
<1>3. 1 \in DOMAIN Walk /\ s \in Slaves
  <2>1. Len(Walk) \in Nat \ {0}
    BY ClientAssumption, EmptySeq, LenProperties
  <2>2. 1 \in 1..Len(Walk)
    BY <2>1
  <2>3. DOMAIN Walk = 1..Len(Walk)
    BY ClientAssumption, LenProperties
  <2>4. Probes[c] \in SUBSET Slaves
    BY ClientAssumption
  <2> QED  BY <2>2, <2>3, <2>4
<1>4. <<>> \in Seq(Verdicts) /\ Len(<<>>) = 0 /\ DOMAIN <<>> = {}
  BY EmptySeq
<1>5. p \in ProbeRec /\ p.to = s /\ p.walk = 1 /\ p.verdicts = <<>> /\ p.told = {}
  BY <1>3, <1>4 DEF ProbeRec
<1> HIDE DEF p
<1>6. Len(p.verdicts) < Len(ProbeFcs) /\ Asking(p) = 1
  <2>1. Len(ProbeFcs) = 4 /\ Len(p.verdicts) = 0
    BY <1>4, <1>5 DEF ProbeFcs
  <2> QED  BY <2>1 DEF Asking
<1>7. PastOK(p)
  BY <1>4, <1>5 DEF PastOK
<1>8. Invoke(c, ProbeCall(p.to, Asking(p), p.walk)) /\ probe' = [probe EXCEPT ![c] = p]
  <2>1. ProbeFcs[1] = 1
    BY DEF ProbeFcs
  <2> QED  BY <1>1, <1>5, <1>6, <2>1 DEF p
<1> QED  BY <1>2, <1>5, <1>6, <1>7, <1>8, AskKeeps

LEMMA UnknownAdded ==
  ASSUME NEW q \in Seq(Verdicts)
  PROVE  LET v == Append(q, "unknown") IN
         /\ v \in Seq(Verdicts) /\ Len(v) = Len(q) + 1 /\ v[Len(q) + 1] = "unknown"
         /\ \A j \in DOMAIN q : v[j] = q[j]
         /\ \A j \in DOMAIN v : v[j] = "unknown" \/ (j \in DOMAIN q /\ v[j] = q[j])
<1> DEFINE n == Len(q)
           v == Append(q, "unknown")
<1>1. n \in Nat /\ DOMAIN q = 1..n /\ "unknown" \in Verdicts
  BY LenProperties DEF Verdicts
<1>2. v \in Seq(Verdicts) /\ Len(v) = n + 1 /\ v[n + 1] = "unknown" /\ \A j \in 1..n : v[j] = q[j]
  BY <1>1, AppendProperties
<1>3. DOMAIN v = 1..(n + 1)
  BY <1>2, LenProperties
<1>4. \A j \in 1..(n + 1) : j = n + 1 \/ j \in 1..n
  BY <1>1
<1> HIDE DEF v, n
<1>5. \A j \in DOMAIN v : v[j] = "unknown" \/ (j \in DOMAIN q /\ v[j] = q[j])
  BY <1>1, <1>2, <1>3, <1>4
<1> QED  BY <1>1, <1>2, <1>5 DEF v, n

LEMMA ProbeNextKeeps ==
  ASSUME Inv, NEW c \in Callers, ProbeNext(c)
  PROVE  Inv'
<1> DEFINE p == probe[c]
           kind == op[c].kind
           fc == Asking(p)
           told == p.told \cup {<<fc, kind>>}
           v == Append(p.verdicts, Verdict(kind))
<1>1. /\ p # NoProbe /\ op[c].phase = "done"
      /\ UNCHANGED <<serverVars, team, owner, stage, attempt, sender>>
  BY DEF ProbeNext
<1>2. /\ p \in ProbeRec /\ p.to \in Slaves /\ p.walk \in DOMAIN Walk
      /\ p.verdicts \in Seq(Verdicts) /\ p.told \in SUBSET (Reads \X Kinds)
      /\ Len(p.verdicts) \in 0..3 /\ fc \in 1..4 /\ ProbeFcs[fc] = fc
  BY <1>1, ProbeTyped DEF Inv
<1>3. KindTrue(p.to, fc, kind) /\ PastOK(p)
  BY <1>1 DEF Inv, ProbesOK, ProbeOK
<1>4. kind \in Kinds /\ op[c].phase # "called"
  BY <1>1, OpTyped DEF Inv
<1>5. told \in SUBSET (Reads \X Kinds)
  BY <1>2, <1>4, Codes
<1>6. \/ /\ kind = "illegal_address" /\ p.walk < Len(Walk)
         /\ Invoke(c, ProbeCall(p.to, fc, p.walk + 1))
         /\ probe' = [probe EXCEPT ![c].walk = @ + 1, ![c].told = told]
         /\ UNCHANGED caps
      \/ /\ kind \in {"value", "illegal_function", "illegal_address"}
         /\ Len(v) = Len(ProbeFcs) /\ ProbeOver(c, v)
      \/ /\ kind \in {"value", "illegal_function", "illegal_address"}
         /\ Len(v) # Len(ProbeFcs)
         /\ Invoke(c, ProbeCall(p.to, ProbeFcs[Len(v) + 1], 1))
         /\ probe' = [probe EXCEPT ![c] = [to |-> p.to, walk |-> 1, verdicts |-> v, told |-> told]]
         /\ UNCHANGED caps
      \/ Silent(kind) /\ ProbeOver(c, v)
  <2>1. ProbeFcs[Len(p.verdicts) + 1] = fc
    BY <1>2 DEF Asking
  <2> DEFINE at == ProbeFcs[Len(p.verdicts) + 1]
             heard == p.told \cup {<<at, kind>>}
  <2>2. \/ /\ kind = "illegal_address" /\ p.walk < Len(Walk)
           /\ Invoke(c, ProbeCall(p.to, at, p.walk + 1))
           /\ probe' = [probe EXCEPT ![c].walk = @ + 1, ![c].told = heard]
           /\ UNCHANGED caps
        \/ /\ kind \in {"value", "illegal_function"} \/ (kind = "illegal_address" /\ p.walk = Len(Walk))
           /\ IF Len(v) = Len(ProbeFcs) THEN ProbeOver(c, v)
              ELSE /\ Invoke(c, ProbeCall(p.to, ProbeFcs[Len(v) + 1], 1))
                   /\ probe' = [probe EXCEPT ![c] = [to |-> p.to, walk |-> 1,
                                                     verdicts |-> v, told |-> heard]]
                   /\ UNCHANGED caps
        \/ Silent(kind) /\ ProbeOver(c, v)
    BY DEF ProbeNext
  <2>3. at = fc /\ heard = told
    BY <2>1
  <2> HIDE DEF at, heard, told, v, fc, kind, p
  <2>4. kind \in {"value", "illegal_function"} \/ (kind = "illegal_address" /\ p.walk = Len(Walk))
        => kind \in {"value", "illegal_function", "illegal_address"}
    OBVIOUS
  <2> QED  BY <2>2, <2>3, <2>4
<1>7. kind \in {"value", "illegal_function", "illegal_address"} =>
        /\ v \in Seq(Verdicts) /\ Len(v) = fc /\ DOMAIN v = 1..fc
        /\ \A j \in DOMAIN v : ToldOf(j, v[j], told) /\ TrueOf(p.to, j, v[j])
        /\ \A t \in told : /\ t[2] \in {"value", "illegal_function", "illegal_address"}
                           /\ t[1] <= fc
  BY <1>2, <1>3, PastExtended
<1> HIDE DEF v, told
<1>8. CASE /\ kind = "illegal_address" /\ p.walk < Len(Walk)
           /\ Invoke(c, ProbeCall(p.to, fc, p.walk + 1))
           /\ probe' = [probe EXCEPT ![c].walk = @ + 1, ![c].told = told]
           /\ UNCHANGED caps
  <2> DEFINE q == [p EXCEPT !.walk = p.walk + 1, !.told = told]
  <2>1. p.walk + 1 \in DOMAIN Walk
    <3>1. DOMAIN Walk = 1..Len(Walk) /\ Len(Walk) \in Nat
      BY ClientAssumption, LenProperties
    <3> QED  BY <1>2, <1>8, <3>1
  <2>2. /\ q \in ProbeRec /\ q.to = p.to /\ q.walk = p.walk + 1 /\ q.verdicts = p.verdicts
        /\ q.told = told
    BY <1>2, <1>5, <2>1 DEF ProbeRec
  <2>3. probe' = [probe EXCEPT ![c] = q]
    <3>1. probe \in [Callers -> ProbeRec \cup {NoProbe}]
      BY DEF Inv, TypeInv
    <3> QED  BY <1>8, <3>1
  <2> HIDE DEF q
  <2>4. Asking(q) = fc
    BY <2>2 DEF Asking
  <2>5. Len(q.verdicts) < Len(ProbeFcs)
    BY <1>1, <2>2 DEF Inv, TypeInv
  <2>6. PastOK(q)
    <3>1. \A j \in DOMAIN p.verdicts :
            ToldOf(j, p.verdicts[j], told) /\ TrueOf(p.to, j, p.verdicts[j])
      <4> SUFFICES ASSUME NEW j \in DOMAIN p.verdicts
                   PROVE  ToldOf(j, p.verdicts[j], told)
        BY <1>3 DEF PastOK
      <4>1. j # fc
        <5>1. DOMAIN p.verdicts = 1..Len(p.verdicts)
          BY <1>2, LenProperties
        <5> QED  BY <1>2, <5>1 DEF Asking
      <4>2. \A k : <<j, k>> \in told <=> <<j, k>> \in p.told
        BY <4>1 DEF told
      <4>3. ToldOf(j, p.verdicts[j], p.told)
        BY <1>3 DEF PastOK
      <4> QED  BY <4>2, <4>3 DEF ToldOf
    <3>2. \A t \in told :
            /\ t[2] \in {"value", "illegal_function", "illegal_address"}
            /\ t[1] <= fc
            /\ t[1] = fc => t[2] = "illegal_address"
      <4>1. \A t \in p.told : t[1] = fc => t[2] = "illegal_address"
        BY <1>3 DEF PastOK
      <4> QED  BY <1>7, <1>8, <4>1 DEF told
    <3> QED  BY <2>2, <2>4, <3>1, <3>2 DEF PastOK
  <2>7. Invoke(c, ProbeCall(q.to, Asking(q), q.walk))
    BY <1>8, <2>2, <2>4
  <2> QED  BY <1>1, <1>4, <1>8, <2>2, <2>3, <2>5, <2>6, <2>7, AskKeeps
<1>9. CASE /\ kind \in {"value", "illegal_function", "illegal_address"}
           /\ Len(v) = Len(ProbeFcs) /\ ProbeOver(c, v)
  BY <1>1, <1>7, <1>9, ProbeOverKeeps
<1>10. CASE /\ kind \in {"value", "illegal_function", "illegal_address"}
            /\ Len(v) # Len(ProbeFcs)
            /\ Invoke(c, ProbeCall(p.to, ProbeFcs[Len(v) + 1], 1))
            /\ probe' = [probe EXCEPT ![c] = [to |-> p.to, walk |-> 1, verdicts |-> v, told |-> told]]
            /\ UNCHANGED caps
  <2> DEFINE q == [to |-> p.to, walk |-> 1, verdicts |-> v, told |-> told]
  <2>1. 1 \in DOMAIN Walk
    <3>1. Len(Walk) \in Nat \ {0} /\ DOMAIN Walk = 1..Len(Walk)
      BY ClientAssumption, EmptySeq, LenProperties
    <3>2. 1 \in 1..Len(Walk)
      BY <3>1
    <3> QED  BY <3>1, <3>2
  <2>2. /\ q \in ProbeRec /\ q.to = p.to /\ q.walk = 1 /\ q.verdicts = v /\ q.told = told
    BY <1>2, <1>5, <1>7, <1>10, <2>1 DEF ProbeRec
  <2>3. probe' = [probe EXCEPT ![c] = q]
    BY <1>10
  <2> HIDE DEF q
  <2>4. Len(v) = fc /\ fc \in 1..3 /\ Asking(q) = fc + 1
    <3>1. Len(v) = fc
      BY <1>7, <1>10
    <3>2. Len(ProbeFcs) = 4
      BY DEF ProbeFcs
    <3>3. fc \in 1..3
      BY <1>2, <1>10, <3>1, <3>2
    <3> QED  BY <2>2, <3>1, <3>3 DEF Asking
  <2>5. Len(q.verdicts) < Len(ProbeFcs)
    BY <2>2, <2>4 DEF ProbeFcs
  <2>6. PastOK(q)
    <3>1. \A j \in DOMAIN v : ToldOf(j, v[j], told) /\ TrueOf(p.to, j, v[j])
      BY <1>7, <1>10
    <3>2. \A t \in told :
            /\ t[2] \in {"value", "illegal_function", "illegal_address"}
            /\ t[1] <= fc + 1 /\ t[1] # fc + 1
      <4>1. \A t \in told : t[1] \in 1..4
        <5>1. \A t \in told : t \in Reads \X Kinds
          BY <1>5
        <5>2. \A t \in Reads \X Kinds : t[1] \in Reads
          OBVIOUS
        <5>3. Reads \subseteq 1..4
          BY Codes
        <5> QED  BY <5>1, <5>2, <5>3
      <4>2. \A x \in 1..4, y \in 1..3 : x <= y => x <= y + 1 /\ x # y + 1
        OBVIOUS
      <4> QED  BY <1>7, <1>10, <2>4, <4>1, <4>2
    <3> QED  BY <2>2, <2>4, <3>1, <3>2 DEF PastOK
  <2>7. Invoke(c, ProbeCall(q.to, Asking(q), q.walk))
    <3>1. \A n \in 1..3 : ProbeFcs[n + 1] = n + 1
      BY DEF ProbeFcs
    <3>2. ProbeFcs[Len(v) + 1] = Asking(q)
      BY <2>4, <3>1
    <3> QED  BY <1>10, <2>2, <3>2
  <2> QED  BY <1>1, <1>4, <1>10, <2>2, <2>3, <2>5, <2>6, <2>7, AskKeeps
<1>11. CASE Silent(kind) /\ ProbeOver(c, v)
  <2>1. Verdict(kind) = "unknown"
    BY <1>11 DEF Silent, Verdict
  <2>2. /\ v \in Seq(Verdicts)
        /\ \A j \in DOMAIN v : v[j] = "unknown"
                             \/ (j \in DOMAIN p.verdicts /\ v[j] = p.verdicts[j])
    BY <1>2, <2>1, UnknownAdded DEF v
  <2>3. \A j : TrueOf(p.to, j, "unknown")
    BY DEF TrueOf
  <2>4. \A j \in DOMAIN v : TrueOf(p.to, j, v[j])
    BY <1>3, <2>2, <2>3 DEF PastOK
  <2> QED  BY <1>1, <1>11, <2>2, <2>4, ProbeOverKeeps
<1> QED  BY <1>6, <1>8, <1>9, <1>10, <1>11

LEMMA ProbeFailsKeeps ==
  ASSUME Inv, NEW c \in Callers, ProbeFails(c)
  PROVE  Inv'
<1>1. /\ probe' = [probe EXCEPT ![c] = NoProbe]
      /\ UNCHANGED <<bank, plan, emitted, fired, request, reply, team, op, owner, stage,
                     attempt, sender, caps>>
  BY DEF ProbeFails, serverVars
<1>2. /\ probe' \in [Callers -> ProbeRec \cup {NoProbe}] /\ probe'[c] = NoProbe
      /\ \A x \in Callers : x # c => probe'[x] = probe[x]
  BY <1>1 DEF Inv, TypeInv
<1>3. TypeInv'
  <2>1. \A x \in Callers : probe'[x] # NoProbe => Len(probe'[x].verdicts) < Len(ProbeFcs)
    BY <1>2 DEF Inv, TypeInv
  <2> QED  BY <1>1, <1>2, <2>1 DEF Inv, TypeInv
<1>4. LockOK' /\ LineOK'
  BY <1>1, LockLineKept DEF Inv
<1>5. ProbesOK'
  <2> SUFFICES ASSUME NEW x \in Callers, probe'[x] # NoProbe
               PROVE  ProbeOK(x)'
    BY DEF ProbesOK
  <2>1. probe'[x] = probe[x] /\ op'[x] = op[x]
    BY <1>1, <1>2
  <2>2. ProbeOK(x)
    BY <2>1 DEF Inv, ProbesOK
  <2> QED  BY <2>1, <2>2, ProbeKept
<1>6. FaultsOnce' /\ VerdictTrue'
  BY <1>1, FaultsKept, VerdictsKept DEF Inv
<1> QED  BY <1>3, <1>4, <1>5, <1>6 DEF Inv

-----------------------------------------------------------------------------
(* The invariant                                                           *)

LEMMA InitInv == Init => Inv
<1> SUFFICES ASSUME Init PROVE Inv
  OBVIOUS
<1>1. /\ [team |-> team, plan |-> plan] \in Setups
      /\ bank = [s \in Slaves |-> EmptyBank(Device[s])]
      /\ emitted = [s \in Slaves |-> 0]
      /\ fired = [s \in Slaves |-> [drop |-> 0, corrupt |-> 0]]
      /\ request = NoFrame /\ reply = NoFrame
      /\ op = [c \in Callers |-> IdleOp]
      /\ owner = NoCaller /\ stage = "sending" /\ attempt = 0 /\ sender = NoSender
      /\ probe = [c \in Callers |-> NoProbe]
      /\ caps = [c \in Callers |-> [s \in Slaves |-> NoProbe]]
  <2>1. PICK x \in Setups : team = x.team /\ plan = x.plan
    BY DEF Init
  <2>2. x \in [team : SUBSET Callers, plan : Plans]
    BY ClientAssumption
  <2>3. [team |-> x.team, plan |-> x.plan] = x
    BY <2>2
  <2> QED  BY <2>1, <2>3 DEF Init, ServerInit
<1>2. ASSUME NEW s \in Slaves
      PROVE  BankOK(EmptyBank(Device[s]), Device[s])
  <2> DEFINE d == Device[s]
  <2>1. d.coils \in Nat /\ d.discrete \in Nat /\ d.holding \in Nat /\ d.input \in Nat
    BY ServerAssumption
  <2>2. BitBytes(d.coils) \in Nat /\ BitBytes(d.discrete) \in Nat
    BY <2>1 DEF BitBytes
  <2>3. 0 \in Byte /\ 0 \in Register
    BY Bounds
  <2>4. ASSUME NEW n \in Nat, NEW S, 0 \in S
        PROVE  [i \in 1..n |-> 0] \in Seq(S) /\ Len([i \in 1..n |-> 0]) = n
    <3>1. [i \in 1..n |-> 0] \in [1..n -> S]
      BY <2>4
    <3> QED  BY <3>1, FunctionIsSeq
  <2> QED  BY <2>1, <2>2, <2>3, <2>4 DEF EmptyBank, BankOK
<1>3. NoSender \in SenderRec /\ NoSender.call = NoCall /\ ~NoSender.live
  BY DEF NoSender, SenderRec
<1>4. IdleOp \in OpRec /\ IdleOp.phase = "idle"
  BY OpRecords DEF IdleOp
<1>5. TypeInv
  <2>1. DOMAIN bank = Slaves /\ \A s \in Slaves : BankOK(bank[s], Device[s])
    BY <1>1, <1>2
  <2>2. emitted \in [Slaves -> 0..IndexMax] /\ fired \in [Slaves -> [drop : 0..2, corrupt : 0..2]]
    BY <1>1, ServerAssumption
  <2>3. op \in [Callers -> OpRec] /\ \A c \in Callers : op[c].phase = "idle"
    BY <1>1, <1>4
  <2>4. 0 \in 0..Retries
    BY ClientAssumption
  <2>5. /\ probe \in [Callers -> ProbeRec \cup {NoProbe}]
        /\ \A c \in Callers : probe[c] = NoProbe
        /\ caps \in [Callers -> [Slaves -> CapsRec \cup {NoProbe}]]
    BY <1>1
  <2> QED  BY <1>1, <1>3, <2>1, <2>2, <2>3, <2>4, <2>5 DEF TypeInv
<1>6. FaultsOnce
  BY <1>1 DEF FaultsOnce, StruckOnce
<1>7. LockOK /\ LineOK
  BY <1>1, <1>3 DEF LockOK, LineOK
<1>8. ProbesOK /\ VerdictTrue
  BY <1>1 DEF ProbesOK, VerdictTrue
<1> QED  BY <1>5, <1>6, <1>7, <1>8 DEF Inv

LEMMA NextKeeps == Inv /\ [Next]_vars => Inv'
<1> SUFFICES ASSUME Inv, [Next]_vars PROVE Inv'
  OBVIOUS
<1>1. team \subseteq Callers
  BY SetupTyped DEF Inv, TypeInv
<1>2. ASSUME NEW c \in team,
             \/ Call(c) \/ Reject(c) \/ Acquire(c) \/ Send(c) \/ Receive(c) \/ SkipStray(c)
             \/ TimeOut(c) \/ BroadcastSent(c) \/ Interrupt(c)
             \/ StartProbe(c) \/ ProbeNext(c) \/ ProbeFails(c)
             \/ ForeignRequest(c)
      PROVE  Inv'
  <2>1. c \in Callers
    BY <1>1
  <2>2. CASE Call(c)
    BY <2>1, <2>2, CallKeeps
  <2>3. CASE Reject(c)
    BY <2>1, <2>3, RejectKeeps
  <2>4. CASE Acquire(c)
    BY <2>1, <2>4, AcquireKeeps
  <2>5. CASE Send(c)
    BY <2>1, <2>5, SendKeeps
  <2>6. CASE Receive(c)
    BY <2>1, <2>6, ReceiveKeeps
  <2>7. CASE SkipStray(c)
    BY <2>1, <2>7, SkipStrayKeeps
  <2>8. CASE TimeOut(c)
    BY <2>1, <2>8, TimeOutKeeps
  <2>9. CASE BroadcastSent(c)
    BY <2>1, <2>9, BroadcastSentKeeps
  <2>10. CASE Interrupt(c)
    BY <2>1, <2>10, InterruptKeeps
  <2>11. CASE StartProbe(c)
    BY <2>1, <2>11, StartProbeKeeps
  <2>12. CASE ProbeNext(c)
    BY <2>1, <2>12, ProbeNextKeeps
  <2>13. CASE ProbeFails(c)
    BY <2>1, <2>13, ProbeFailsKeeps
  <2>14. CASE ForeignRequest(c)
    BY <2>1, <2>14, ForeignRequestKeeps
  <2> QED  BY <1>2, <2>2, <2>3, <2>4, <2>5, <2>6, <2>7, <2>8, <2>9, <2>10, <2>11, <2>12,
              <2>13, <2>14
<1>3. CASE UNCHANGED vars
  <2>1. UNCHANGED <<bank, plan, emitted, fired, request, reply, team, op, owner, stage,
                    attempt, sender, probe, caps>>
    BY <1>3 DEF vars, serverVars, clientVars
  <2>2. TypeInv'
    BY <2>1 DEF Inv, TypeInv
  <2>3. LockOK' /\ LineOK'
    BY <2>1, LockLineKept DEF Inv
  <2> QED  BY <2>1, <2>2, <2>3, CallsKept DEF Inv
<1>4. CASE Serve
  BY <1>4, ServeKeeps
<1>5. CASE InputsChange /\ OnServer
  BY <1>5, InputsChangeKeeps
<1>6. CASE Damage /\ OnServer
  BY <1>6, DamageKeeps
<1> QED  BY <1>2, <1>3, <1>4, <1>5, <1>6 DEF Next

LEMMA Invariance == Spec => []Inv
<1> QED  BY InitInv, NextKeeps, PTL DEF Spec

-----------------------------------------------------------------------------
(* Theorems                                                                *)

LEMMA TypeInvOK == TypeInv => TypeOK
<1> SUFFICES ASSUME TypeInv PROVE TypeOK
  OBVIOUS
<1>1. ASSUME NEW s \in Slaves, NEW b \in Banks
      PROVE  /\ DOMAIN bank[s][b] = DOMAIN EmptyBank(Device[s])[b]
             /\ \A i \in DOMAIN bank[s][b] :
                  bank[s][b][i] \in IF b \in {"coils", "discrete"} THEN 0..255
                                    ELSE 0..MaxRegisterValue
  <2> DEFINE d == Device[s]
             x == bank[s]
  <2>1. BankOK(x, d)
    BY DEF TypeInv
  <2>2. \A S : \A q \in Seq(S) : DOMAIN q = 1..Len(q) /\ \A i \in DOMAIN q : q[i] \in S
    BY LenProperties, ElementOfSeq
  <2> HIDE DEF x, d
  <2>3. /\ x.coils \in Seq(Byte) /\ x.discrete \in Seq(Byte)
        /\ x.holding \in Seq(Register) /\ x.input \in Seq(Register)
        /\ Len(x.coils) = BitBytes(d.coils) /\ Len(x.discrete) = BitBytes(d.discrete)
        /\ Len(x.holding) = d.holding /\ Len(x.input) = d.input
    BY <2>1 DEF BankOK
  <2>4. CASE b = "coils"
    <3>1. DOMAIN x.coils = 1..BitBytes(d.coils) /\ \A i \in DOMAIN x.coils : x.coils[i] \in Byte
      BY <2>2, <2>3
    <3>2. EmptyBank(d).coils = [i \in 1..BitBytes(d.coils) |-> 0]
      BY DEF EmptyBank
    <3> QED  BY <2>4, <3>1, <3>2 DEF x, d, Byte
  <2>5. CASE b = "discrete"
    <3>1. /\ DOMAIN x.discrete = 1..BitBytes(d.discrete)
          /\ \A i \in DOMAIN x.discrete : x.discrete[i] \in Byte
      BY <2>2, <2>3
    <3>2. EmptyBank(d).discrete = [i \in 1..BitBytes(d.discrete) |-> 0]
      BY DEF EmptyBank
    <3> QED  BY <2>5, <3>1, <3>2 DEF x, d, Byte
  <2>6. CASE b = "holding"
    <3>1. DOMAIN x.holding = 1..d.holding /\ \A i \in DOMAIN x.holding : x.holding[i] \in Register
      BY <2>2, <2>3
    <3>2. EmptyBank(d).holding = [i \in 1..d.holding |-> 0]
      BY DEF EmptyBank
    <3> QED  BY <2>6, <3>1, <3>2 DEF x, d, Register
  <2>7. CASE b = "input"
    <3>1. DOMAIN x.input = 1..d.input /\ \A i \in DOMAIN x.input : x.input[i] \in Register
      BY <2>2, <2>3
    <3>2. EmptyBank(d).input = [i \in 1..d.input |-> 0]
      BY DEF EmptyBank
    <3> QED  BY <2>7, <3>1, <3>2 DEF x, d, Register
  <2> QED  BY <2>4, <2>5, <2>6, <2>7 DEF Banks
<1>2. ASSUME NEW f \in {request, reply} \ {NoFrame}
      PROVE  f.intact \in BOOLEAN /\ \A i \in DOMAIN f.pdu : f.pdu[i] \in 0..255
  <2>1. f \in RequestRec \/ f \in ReplyRec
    BY DEF TypeInv
  <2>2. f.intact \in BOOLEAN /\ f.pdu \in Seq(0..255)
    BY <2>1 DEF RequestRec, ReplyRec, PduBytes, Byte
  <2> QED  BY <2>2, LenProperties, ElementOfSeq
<1>3. ASSUME NEW c \in Callers
      PROVE  /\ op[c].phase \in {"idle", "called", "done"}
             /\ op[c].kind \in Kinds /\ op[c].effect \in {"none", "exact", "other"}
             /\ op[c].call \in AllCalls \cup ProbeCalls \cup {NoCall}
             /\ probe[c] # NoProbe =>
                  /\ probe[c].walk \in DOMAIN Walk
                  /\ Len(probe[c].verdicts) < Len(ProbeFcs)
  <2>1. probe[c] # NoProbe => probe[c].walk \in DOMAIN Walk
    BY ProbeTyped
  <2>2. probe[c] # NoProbe => Len(probe[c].verdicts) < Len(ProbeFcs)
    BY DEF TypeInv
  <2> QED  BY <2>1, <2>2, OpTyped
<1> QED  BY <1>1, <1>2, <1>3 DEF TypeInv, TypeOK

(* Every variable keeps its type, for any slaves, calls, faults and probes *)
(* (slave.py, and the mock's banks and counts).                            *)
THEOREM TypeCorrect == Spec => []TypeOK
<1>1. Inv => TypeOK
  BY TypeInvOK DEF Inv
<1> QED  BY <1>1, Invariance, PTL

(* A fault of a FaultPlan strikes one response and no more, whichever      *)
(* responses the plan names and however many are sent (send_response).     *)
THEOREM FaultsStrikeOnce == Spec => []OneShotFaults
<1>1. Inv => OneShotFaults
  BY DEF Inv, FaultsOnce, StruckOnce, OneShotFaults
<1> QED  BY <1>1, Invariance, PTL

(* What probe caches of a slave is true of it, whatever was lost, damaged, *)
(* misaddressed or answered amiss while it asked (Slave.probe).            *)
THEOREM CachedVerdictsTrue == Spec => []VerdictTrue
<1>1. Inv => VerdictTrue
  BY DEF Inv
<1> QED  BY <1>1, Invariance, PTL

(* A report made of verdicts is backed by what was told.                   *)
LEMMA ReportBacked ==
  ASSUME NEW p, p.verdicts \in Seq(Verdicts), Len(p.verdicts) \in 0..3,
         p.told \in SUBSET (Reads \X Kinds), PastOK(p),
         NEW kind, Len(p.verdicts) + 1 = 4 \/ Silent(kind),
         kind \in {"value", "illegal_function", "illegal_address"} \/ Silent(kind),
         KindTrue(p.to, Asking(p), kind)
  PROVE  Backed(Report(Append(p.verdicts, Verdict(kind))), p.told \cup {<<Asking(p), kind>>})
<1> DEFINE m == Asking(p)
           v == Append(p.verdicts, Verdict(kind))
           R == Report(v)
           q == p.told \cup {<<m, kind>>}
<1>1. kind \in {"value", "illegal_function", "illegal_address", "timeout", "lost"}
  BY DEF Silent
<1>2. \A t \in p.told : /\ t[2] \in {"value", "illegal_function", "illegal_address"}
                        /\ t[1] <= m /\ (t[1] = m => t[2] = "illegal_address")
  BY DEF PastOK
<1>3. \A t \in q : t[2] \in {"value", "illegal_function", "illegal_address", "timeout", "lost"}
  BY <1>1, <1>2
<1>4. Cardinality({t \in q : Silent(t[2])}) <= 1
  <2> DEFINE S == {t \in q : Silent(t[2])}
  <2>1. S \subseteq {<<m, kind>>}
    BY <1>2 DEF Silent
  <2>2. IsFiniteSet({<<m, kind>>}) /\ Cardinality({<<m, kind>>}) = 1
    BY FS_Singleton
  <2>3. Cardinality(S) <= Cardinality({<<m, kind>>})
    BY <2>1, <2>2, FS_Subset
  <2> QED  BY <2>2, <2>3
<1>5. \A fc \in Reads : R[fc] = IF fc \in DOMAIN v THEN v[fc] ELSE "unknown"
  BY DEF Report
<1>6. m \in 1..4 /\ m \in Nat /\ Reads = 1..4 /\ (m = 4 \/ Silent(kind))
  <2>1. \A n \in 0..3 : n + 1 \in 1..4 /\ n + 1 \in Nat
    OBVIOUS
  <2>2. Reads = {1, 2, 3, 4} /\ {1, 2, 3, 4} = 1..4
    BY Codes
  <2>3. m = Len(p.verdicts) + 1
    BY DEF Asking
  <2> QED  BY <2>1, <2>2, <2>3
<1>7. CASE kind \in {"value", "illegal_function", "illegal_address"}
  <2>1. /\ DOMAIN v = 1..m /\ \A j \in DOMAIN v : ToldOf(j, v[j], q)
    BY <1>7, PastExtended
  <2>2. m = 4
    BY <1>6, <1>7 DEF Silent
  <2> HIDE DEF v, q, R, m
  <2>3. \A fc \in Reads : ToldOf(fc, R[fc], q)
    BY <1>5, <1>6, <2>1, <2>2
  <2>4. \A fc \in Reads :
          /\ R[fc] = "supported"   <=> <<fc, "value">> \in q
          /\ R[fc] = "unsupported" <=> <<fc, "illegal_function">> \in q
          /\ R[fc] = "unknown" => \/ <<fc, "illegal_address">> \in q
                                  \/ \E t \in q : Silent(t[2]) /\ t[1] <= fc
    BY <2>3 DEF ToldOf
  <2>5. Backed(R, q)
    BY <1>3, <1>4, <2>4 DEF Backed
  <2> QED  BY <2>5 DEF R, q, v, m
<1>8. CASE Silent(kind)
  <2>1. Verdict(kind) = "unknown" /\ kind # "value" /\ kind # "illegal_function"
    BY <1>8 DEF Silent, Verdict
  <2>2. /\ Len(v) = m /\ v \in Seq(Verdicts) /\ v[m] = "unknown"
        /\ \A j \in DOMAIN p.verdicts : v[j] = p.verdicts[j]
    BY <2>1, UnknownAdded DEF Asking
  <2>3. DOMAIN v = 1..m
    BY <2>2, LenProperties
  <2>4. DOMAIN p.verdicts = 1..Len(p.verdicts)
    BY LenProperties
  <2>5. \A fc \in Reads : fc \in DOMAIN p.verdicts \/ (fc \notin DOMAIN p.verdicts /\ m <= fc)
    <3>1. \A n \in 0..3, x \in 1..4 : x \in 1..n \/ (x \notin 1..n /\ n + 1 <= x)
      OBVIOUS
    <3> QED  BY <1>6, <2>4, <3>1 DEF Asking
  <2>6. \A j \in DOMAIN p.verdicts : ToldOf(j, p.verdicts[j], p.told) /\ j \in DOMAIN v
    <3>1. \A n \in 0..3 : \A j \in 1..n : j \in 1..(n + 1)
      OBVIOUS
    <3> QED  BY <2>3, <2>4, <3>1 DEF PastOK, Asking
  <2>7. \A fc, k : k \in {"value", "illegal_function"} => (<<fc, k>> \in q <=> <<fc, k>> \in p.told)
    BY <2>1
  <2>8. \A fc, k : k \in {"value", "illegal_function"} /\ <<fc, k>> \in p.told => fc < m
    <3>1. \A t \in p.told : t[1] \in 1..4
      BY <1>6
    <3>2. \A fc, k : <<fc, k>>[1] = fc /\ <<fc, k>>[2] = k
      OBVIOUS
    <3>3. \A x \in 1..4 : x <= m /\ x # m => x < m
      BY <1>6
    <3> QED  BY <1>2, <3>1, <3>2, <3>3
  <2>9. <<m, kind>> \in q /\ <<m, kind>>[1] = m /\ Silent(<<m, kind>>[2])
    BY <1>8
  <2> HIDE DEF v, q, R
  <2>10. ASSUME NEW fc \in Reads
         PROVE  /\ R[fc] = "supported"   <=> <<fc, "value">> \in q
                /\ R[fc] = "unsupported" <=> <<fc, "illegal_function">> \in q
                /\ R[fc] = "unknown" => \/ <<fc, "illegal_address">> \in q
                                        \/ \E t \in q : Silent(t[2]) /\ t[1] <= fc
    <3>1. CASE fc \in DOMAIN p.verdicts
      <4>1. R[fc] = p.verdicts[fc] /\ ToldOf(fc, p.verdicts[fc], p.told)
        BY <1>5, <2>2, <2>6, <3>1
      <4>2. <<fc, "illegal_address">> \in p.told => <<fc, "illegal_address">> \in q
        BY DEF q
      <4> QED  BY <2>7, <4>1, <4>2 DEF ToldOf
    <3>2. CASE fc \notin DOMAIN p.verdicts /\ m <= fc
      <4>1. R[fc] = "unknown"
        <5>1. CASE fc \in DOMAIN v
          <6>1. fc = m
            BY <1>6, <2>3, <3>2, <5>1
          <6> QED  BY <1>5, <2>2, <5>1, <6>1
        <5>2. CASE fc \notin DOMAIN v
          BY <1>5, <5>2
        <5> QED  BY <5>1, <5>2
      <4>2. ~(fc < m)
        BY <1>6, <3>2
      <4> QED  BY <2>7, <2>8, <2>9, <3>2, <4>1, <4>2
    <3> QED  BY <2>5, <3>1, <3>2
  <2>11. Backed(R, q)
    BY <1>3, <1>4, <2>10 DEF Backed
  <2> QED  BY <2>11 DEF R, q, v
<1> QED  BY <1>7, <1>8

LEMMA BackedStep ==
  ASSUME Inv, [Next]_vars, NEW x \in Callers, NEW y \in Slaves, caps'[x][y] # caps[x][y]
  PROVE  /\ probe[x] # NoProbe
         /\ Backed(caps'[x][y],
                   probe[x].told \cup {<<ProbeFcs[Len(probe[x].verdicts) + 1], op[x].kind>>})
<1>1. PICK c \in team : ProbeNext(c)
  <2>1. caps' # caps
    OBVIOUS
  <2>2. [Next]_vars => caps' = caps \/ \E c \in team : ProbeNext(c)
    BY DEF Next, vars, clientVars, OnServer, Call, Reject, Acquire, Send, Receive, SkipStray,
           TimeOut, BroadcastSent, Interrupt, StartProbe, ProbeFails, ForeignRequest, Serve
  <2> QED  BY <2>1, <2>2
<1>2. c \in Callers
  BY SetupTyped DEF Inv, TypeInv
<1> DEFINE p == probe[c]
           kind == op[c].kind
           v == Append(p.verdicts, Verdict(kind))
<1>3. /\ p # NoProbe /\ op[c].phase = "done"
      /\ kind \in {"value", "illegal_function", "illegal_address"} \/ Silent(kind)
      /\ Len(v) = 4 \/ Silent(kind)
      /\ caps' = [caps EXCEPT ![c][p.to] = Report(v)]
  <2>1. Len(ProbeFcs) = 4
    BY DEF ProbeFcs
  <2>2. /\ p # NoProbe /\ op[c].phase = "done"
        /\ kind \in {"value", "illegal_function", "illegal_address"} \/ Silent(kind)
    BY <1>1 DEF ProbeNext
  <2>3. caps' # caps
    OBVIOUS
  <2>4. UNCHANGED caps \/ (Len(v) = Len(ProbeFcs) /\ ProbeOver(c, v))
        \/ (Silent(kind) /\ ProbeOver(c, v))
    BY <1>1 DEF ProbeNext
  <2>5. (Len(v) = 4 \/ Silent(kind)) /\ ProbeOver(c, v)
    BY <2>1, <2>3, <2>4
  <2>6. caps' = [caps EXCEPT ![c][p.to] = Report(v)]
    BY <2>5 DEF ProbeOver
  <2> QED  BY <2>2, <2>5, <2>6
<1>4. /\ p.to \in Slaves /\ p.verdicts \in Seq(Verdicts) /\ p.told \in SUBSET (Reads \X Kinds)
      /\ Len(p.verdicts) \in 0..3 /\ ProbeFcs[Asking(p)] = Asking(p)
  BY <1>2, <1>3, ProbeTyped DEF Inv
<1>5. KindTrue(p.to, Asking(p), kind) /\ PastOK(p)
  BY <1>2, <1>3 DEF Inv, ProbesOK, ProbeOK
<1>6. Verdict(kind) \in Verdicts
  BY DEF Verdict, Verdicts
<1>7. Len(v) = Len(p.verdicts) + 1
  BY <1>4, <1>6, AppendProperties
<1>8. Backed(Report(v), p.told \cup {<<Asking(p), kind>>})
  BY <1>3, <1>4, <1>5, <1>7, ReportBacked
<1>9. x = c /\ y = p.to
  BY <1>2, <1>3, <1>4 DEF Inv, TypeInv
<1>10. caps'[x][y] = Report(v)
  BY <1>2, <1>3, <1>4, <1>9 DEF Inv, TypeInv
<1>11. ProbeFcs[Len(p.verdicts) + 1] = Asking(p)
  BY <1>4 DEF Asking
<1> QED  BY <1>3, <1>8, <1>9, <1>10, <1>11

(* The cache of a handle changes only when a probe of it has ended, and    *)
(* each verdict that it then holds comes from an answer to that probe      *)
(* (Slave.probe).                                                          *)
THEOREM CacheBackedByAnswers == Spec => CacheBacked
<1>1. Inv /\ [Next]_vars =>
        [\A c \in Callers, s \in Slaves : caps'[c][s] # caps[c][s] =>
           /\ probe[c] # NoProbe
           /\ Backed(caps'[c][s],
                probe[c].told \cup {<<ProbeFcs[Len(probe[c].verdicts) + 1], op[c].kind>>})]_vars
  BY BackedStep
<1> QED  BY <1>1, Invariance, PTL DEF Spec, CacheBacked

-----------------------------------------------------------------------------
(* The layout of the data                                                  *)

(* WireLayout, of one request.                                             *)
LaidOut(r, pdu) ==
  LET data == SubSeq(pdu, 7, Len(pdu)) IN
  IF r.fc = WriteCoils THEN Number(data, 256) = Number(r.values, 2)
  ELSE /\ Len(data) = 2 * Len(r.values)
       /\ \A i \in DOMAIN r.values : 256 * data[2 * i - 1] + data[2 * i] = r.values[i]

LEMMA CallLayout ==
  ASSUME NEW r, AsCalled(r), Encodable(r), r.fc \in WriteMultiple
  PROVE  LaidOut(r, EncodeRequest(r))
<1> DEFINE p == EncodeRequest(r)
           data == SubSeq(p, 7, Len(p))
<1>1. data = Pack(r.fc, r.values)
  BY RequestProperties
<1>2. r.values \in Seq(Value(r.fc))
  BY CalledProperties
<1> HIDE DEF data
<1>3. CASE r.fc = WriteCoils
  <2>1. data = PackBits(r.values) /\ r.values \in Seq(Bit)
    BY <1>1, <1>2, <1>3, Codes DEF Pack, Value, OfBits
  <2>2. Number(data, 256) = Number(r.values, 2)
    BY <2>1, PackBitsNumber
  <2> QED  BY <1>3, <2>2 DEF data, LaidOut
<1>4. CASE r.fc # WriteCoils
  <2>1. data = PackWords(r.values) /\ r.values \in Seq(Register)
    BY <1>1, <1>2, <1>4, Codes DEF Pack, Value, OfBits, WriteMultiple
  <2>2. DOMAIN r.values = 1..Len(r.values)
    BY <2>1, LenProperties
  <2>3. /\ Len(data) = 2 * Len(r.values)
        /\ \A i \in DOMAIN r.values : 256 * data[2 * i - 1] + data[2 * i] = r.values[i]
    BY <2>1, <2>2, PackWordsProperties, WordsLayout
  <2> QED  BY <1>4, <2>3 DEF data, LaidOut
<1> QED  BY <1>3, <1>4

(* The data of every write request are laid out as the protocol says: the   *)
(* bytes, as one number with the lowest byte first, are the coils as one    *)
(* number with the lowest coil first, and registers go high byte first.     *)
THEOREM WireLayoutKept == Spec => []WireLayout
<1>1. Inv => WireLayout
  <2> SUFFICES ASSUME Inv, sender.call # NoCall, sender.call.fc \in WriteMultiple
               PROVE  LaidOut(sender.call, request.pdu)
    BY DEF WireLayout, LaidOut
  <2>1. /\ AsCalled(sender.call) /\ Encodable(sender.call)
        /\ request.pdu = EncodeRequest(sender.call)
    BY SenderCall DEF Inv
  <2> QED  BY <2>1, CallLayout
<1> QED  BY <1>1, Invariance, PTL

-----------------------------------------------------------------------------
(* Lengths on the RTU line                                                 *)

(* A device that answers amiss does it in its own name.                    *)
TrueNames ==
  \A x \in Setups, s \in Slaves :
    "distorts" \in Device[s].handle => x.plan[s].wrong \in {Never, s}

FitsOK ==
  (reply # NoFrame /\ reply.from \in Slaves /\ "distorts" \notin Device[reply.from].handle) =>
    ReplyFits(reply.pdu)

LEMMA RequestLength ==
  ASSUME NEW r, AsCalled(r), Encodable(r)
  PROVE  RequestFits(EncodeRequest(r))
<1> DEFINE p == EncodeRequest(r)
           n == DataBytes(r.fc, r.count)
<1>1. /\ p[1] = r.fc
      /\ r.fc \notin WriteMultiple => Len(p) = 5
      /\ r.fc \in WriteMultiple => Len(p) = 6 + n /\ p[6] = n
  BY RequestProperties
<1>2. r.fc \in FunctionCodes /\ (r.fc \in WriteMultiple => QuantityOK(r.fc, r.count))
  BY CalledProperties
<1>3. CASE r.fc \in WriteMultiple
  <2>1. n \in 1..250
    BY <1>2, <1>3, QuantityProperties
  <2>2. r.fc \notin DOMAIN RequestFixedTail /\ RequestByteCountPrefix[r.fc] = 4
    BY <1>3, Codes DEF RequestFixedTail, RequestByteCountPrefix
  <2> HIDE DEF p, n
  <2>3. \A x \in 1..250 : (6 + x) - 1 + 2 = 4 + 1 + x + 2
    OBVIOUS
  <2>4. AfterHead(p) = 4 + 1 + p[4 + 2] + CrcLen
    BY <1>1, <1>3, <2>1, <2>3 DEF AfterHead, CrcLen
  <2> QED  BY <1>1, <2>2, <2>4 DEF RequestFits, p
<1>4. CASE r.fc \notin WriteMultiple
  <2>1. r.fc \in {1, 2, 3, 4, 5, 6, 8}
    BY <1>2, <1>4, Codes
  <2>2. r.fc \in DOMAIN RequestFixedTail /\ RequestFixedTail[r.fc] = 6
    BY <2>1 DEF RequestFixedTail
  <2> HIDE DEF p
  <2>3. AfterHead(p) = 6
    <3>1. Len(p) = 5
      BY <1>1, <1>4
    <3> QED  BY <3>1 DEF AfterHead, CrcLen
  <2> QED  BY <1>1, <2>2, <2>3 DEF RequestFits, p
<1> QED  BY <1>3, <1>4

LEMMA ServeFits ==
  ASSUME TrueNames, Inv, FitsOK, Serve
  PROVE  FitsOK'
<1>1. /\ request # NoFrame
      /\ \/ reply' = reply
         \/ reply' = NoFrame
         \/ /\ request.to \in Slaves /\ request.intact
            /\ reply'.pdu \in Replies(request.to, request.pdu, bank[request.to])
            /\ LET wrong == plan[request.to].wrong IN
               reply'.from = IF wrong = Never THEN request.to ELSE wrong
  BY ServeBank, ServeLine DEF Inv
<1>2. CASE /\ request.to \in Slaves
           /\ reply'.pdu \in Replies(request.to, request.pdu, bank[request.to])
           /\ LET wrong == plan[request.to].wrong IN
              reply'.from = IF wrong = Never THEN request.to ELSE wrong
  <2> DEFINE s == request.to
             w == plan[s].wrong
  <2>1. "distorts" \in Device[s].handle => w \in {Never, s}
    <3>1. [team |-> team, plan |-> plan] \in Setups
      BY DEF Inv, TypeInv
    <3>2. [team |-> team, plan |-> plan].plan = plan
      OBVIOUS
    <3> QED  BY <1>2, <3>1, <3>2 DEF TrueNames
  <2>2. "distorts" \in Device[s].handle => reply'.from = s
    BY <1>2, <2>1
  <2>3. "distorts" \notin Device[s].handle => ReplyFits(reply'.pdu)
    BY <1>1, <1>2, RepliesTyped DEF Inv
  <2> QED  BY <2>2, <2>3 DEF FitsOK
<1> QED  BY <1>1, <1>2 DEF FitsOK

LEMMA NextFits ==
  ASSUME TrueNames, Inv, FitsOK, [Next]_vars
  PROVE  FitsOK'
<1>1. CASE Serve
  BY <1>1, ServeFits
<1>2. CASE Damage /\ OnServer
  <2>1. \/ reply' = reply
        \/ reply # NoFrame /\ reply' = [reply EXCEPT !.intact = FALSE]
    BY <1>2 DEF Damage
  <2>2. CASE reply # NoFrame /\ reply' = [reply EXCEPT !.intact = FALSE]
    <3>1. reply \in ReplyRec
      BY <2>2 DEF Inv, TypeInv
    <3>2. reply'.from = reply.from /\ reply'.pdu = reply.pdu
      BY <2>2, <3>1 DEF ReplyRec
    <3> QED  BY <2>2, <3>2 DEF FitsOK
  <2> QED  BY <2>1, <2>2 DEF FitsOK
<1>3. CASE reply' = reply \/ reply' = NoFrame
  BY <1>3 DEF FitsOK
<1>4. ASSUME NEW c \in team, Call(c) \/ Reject(c) \/ Acquire(c) \/ StartProbe(c) \/ ProbeNext(c)
                             \/ ProbeFails(c) \/ BroadcastSent(c)
      PROVE  reply' = reply
  BY <1>4 DEF Call, Reject, Acquire, StartProbe, ProbeNext, ProbeFails, BroadcastSent, serverVars
<1>5. ASSUME NEW c \in team, Send(c) \/ Receive(c) \/ SkipStray(c) \/ TimeOut(c) \/ Interrupt(c)
                             \/ ForeignRequest(c)
      PROVE  reply' = NoFrame
  BY <1>5 DEF Send, Receive, SkipStray, TimeOut, Interrupt, ForeignRequest, Discard
<1>6. CASE InputsChange \/ UNCHANGED vars
  <2>1. reply' = reply
    BY <1>6 DEF InputsChange, vars, serverVars
  <2> QED  BY <1>3, <2>1
<1> QED  BY <1>1, <1>2, <1>3, <1>4, <1>5, <1>6 DEF Next

(* The codecs and the length tables agree: every request, and every reply  *)
(* of a slave that answers as asked, is as long as the RTU framer will     *)
(* read it, if no device answers amiss in another's name (pdu.py,          *)
(* framer.py).                                                             *)
THEOREM LengthsKnown ==
  ASSUME TrueNames
  PROVE  Spec => []FramerKnowsLength
<1>1. Init => FitsOK
  BY DEF Init, ServerInit, FitsOK
<1>2. Inv /\ FitsOK /\ [Next]_vars => FitsOK'
  BY NextFits
<1>3. Inv /\ FitsOK => FramerKnowsLength
  <2>1. ASSUME Inv, sender.call # NoCall
        PROVE  RequestFits(request.pdu)
    BY <2>1, SenderCall, RequestLength DEF Inv
  <2> QED  BY <2>1 DEF FitsOK, FramerKnowsLength
<1> QED  BY <1>1, <1>2, <1>3, Invariance, PTL DEF Spec

-----------------------------------------------------------------------------
(* The memory that the slaves are                                          *)

MemFrom(b, d) ==
  [coils    |-> UnpackBits(b.coils, d.coils),
   discrete |-> UnpackBits(b.discrete, d.discrete),
   holding  |-> b.holding,
   input    |-> b.input]

LEMMA MemOfBank ==
  ASSUME NEW s
  PROVE  MemOf(s) = MemFrom(bank[s], Device[s]) /\ MemOf(s)' = MemFrom(bank'[s], Device[s])
BY DEF MemOf, MemFrom

LEMMA MemProperties ==
  ASSUME NEW s \in Slaves, NEW b, BankOK(b, Device[s])
  PROVE  LET d == Device[s]
             m == MemFrom(b, d) IN
         /\ m = [x \in Banks |-> m[x]] /\ DOMAIN m = Banks
         /\ m.coils \in Seq(Bit) /\ m.discrete \in Seq(Bit)
         /\ m.holding \in Seq(Register) /\ m.input \in Seq(Register)
         /\ DOMAIN m.coils = 1..d.coils /\ DOMAIN m.discrete = 1..d.discrete
         /\ DOMAIN m.holding = 1..d.holding /\ DOMAIN m.input = 1..d.input
         /\ \A i \in 1..d.coils : m.coils[i] = BitAt(b.coils, i - 1)
         /\ d.coils \in Nat /\ d.coils <= 8 * Len(b.coils)
         /\ m.holding = b.holding /\ m.input = b.input
<1> DEFINE d == Device[s]
           m == MemFrom(b, d)
<1>1. d.coils \in Nat /\ d.discrete \in Nat /\ d.holding \in Nat /\ d.input \in Nat
  BY ServerAssumption
<1>2. /\ b.coils \in Seq(Byte) /\ b.discrete \in Seq(Byte)
      /\ b.holding \in Seq(Register) /\ b.input \in Seq(Register)
      /\ Len(b.coils) = BitBytes(d.coils) /\ Len(b.discrete) = BitBytes(d.discrete)
      /\ Len(b.holding) = d.holding /\ Len(b.input) = d.input
  BY DEF BankOK
<1> HIDE DEF d
<1>3. /\ m.coils = UnpackBits(b.coils, d.coils) /\ m.discrete = UnpackBits(b.discrete, d.discrete)
      /\ m.holding = b.holding /\ m.input = b.input
      /\ DOMAIN m = Banks /\ m = [x \in Banks |-> m[x]]
  BY DEF MemFrom, Banks
<1>4. UnpackBits(b.coils, d.coils) \in Seq(Bit) /\ Len(UnpackBits(b.coils, d.coils)) = d.coils
  <2>1. Len(b.coils) \in Nat /\ BitBytes(d.coils) <= Len(b.coils)
    BY <1>2, LenProperties
  <2> QED  BY <1>1, <1>2, <2>1, UnpackBitsProperties
<1>5. /\ UnpackBits(b.discrete, d.discrete) \in Seq(Bit)
      /\ Len(UnpackBits(b.discrete, d.discrete)) = d.discrete
  <2>1. Len(b.discrete) \in Nat /\ BitBytes(d.discrete) <= Len(b.discrete)
    BY <1>2, LenProperties
  <2> QED  BY <1>1, <1>2, <2>1, UnpackBitsProperties
<1>6. \A i \in 1..d.coils : UnpackBits(b.coils, d.coils)[i] = BitAt(b.coils, i - 1)
  BY DEF UnpackBits
<1>7. d.coils <= 8 * Len(b.coils)
  BY <1>1, <1>2 DEF BitBytes
<1> HIDE DEF m
<1>8. \A S : \A q \in Seq(S) : DOMAIN q = 1..Len(q)
  BY LenProperties
<1> QED  BY <1>1, <1>2, <1>3, <1>4, <1>5, <1>6, <1>7, <1>8 DEF m, d

LEMMA TookForm ==
  ASSUME NEW r, \A s \in Slaves : BankOK(bank[s], Device[s]),
         \A s \in Slaves : BankOK(bank'[s], Device[s]),
         \A s \in Slaves : \A b \in Banks :
           LET m == MemFrom(bank[s], Device[s])
               n == MemFrom(bank'[s], Device[s]) IN
           /\ DOMAIN n[b] = DOMAIN m[b]
           /\ \A i \in DOMAIN m[b] :
                IF s \in Memory!Targets(r) /\ r.fc \notin Reading /\ b = BankOf(r.fc)
                   /\ i \in Memory!Cells(r)
                THEN "clamps" \notin Device[s].handle => n[b][i] = r.values[i - r.address]
                ELSE n[b][i] = m[b][i]
  PROVE  Memory!Took(r)
<1> DEFINE M == [s \in Slaves |-> MemOf(s)]
<1>1. DOMAIN M' = Slaves /\ \A s \in Slaves : M'[s] = MemFrom(bank'[s], Device[s])
  BY MemOfBank
<1>2. \A s \in Slaves : M[s] = MemFrom(bank[s], Device[s])
  BY MemOfBank
<1>3. \A s \in Slaves : DOMAIN M[s] = Banks
  <2>1. \A s \in Slaves : DOMAIN MemFrom(bank[s], Device[s]) = Banks
    BY DEF MemFrom, Banks
  <2> QED  BY <1>2, <2>1
<1>4. \A s \in Slaves : s \in {t \in Slaves : "clamps" \notin Device[t].handle}
                        <=> "clamps" \notin Device[s].handle
  OBVIOUS
<1>5. Memory!Took(r) <=>
        /\ DOMAIN M' = Slaves
        /\ \A s \in Slaves : \A b \in DOMAIN M[s] :
             /\ DOMAIN M'[s][b] = DOMAIN M[s][b]
             /\ \A i \in DOMAIN M[s][b] :
                  IF s \in Memory!Targets(r) /\ r.fc \notin Reads \cup {Loopback} /\ b = BankOf(r.fc)
                     /\ i \in Memory!Cells(r)
                  THEN s \in {t \in Slaves : "clamps" \notin Device[t].handle} =>
                         M'[s][b][i] = r.values[i - r.address]
                  ELSE M'[s][b][i] = M[s][b][i]
  BY DEF Memory!Took
<1> HIDE DEF M
<1>6. ASSUME NEW s \in Slaves, NEW b \in DOMAIN M[s]
      PROVE  /\ DOMAIN M'[s][b] = DOMAIN M[s][b]
             /\ \A i \in DOMAIN M[s][b] :
                  IF s \in Memory!Targets(r) /\ r.fc \notin Reads \cup {Loopback} /\ b = BankOf(r.fc)
                     /\ i \in Memory!Cells(r)
                  THEN s \in {t \in Slaves : "clamps" \notin Device[t].handle} =>
                         M'[s][b][i] = r.values[i - r.address]
                  ELSE M'[s][b][i] = M[s][b][i]
  <2> DEFINE m == MemFrom(bank[s], Device[s])
             n == MemFrom(bank'[s], Device[s])
  <2>1. M[s] = m /\ M'[s] = n /\ b \in Banks
    BY <1>1, <1>2, <1>3, <1>6
  <2>2. /\ DOMAIN n[b] = DOMAIN m[b]
        /\ \A i \in DOMAIN m[b] :
              IF s \in Memory!Targets(r) /\ r.fc \notin Reading /\ b = BankOf(r.fc)
                 /\ i \in Memory!Cells(r)
              THEN "clamps" \notin Device[s].handle => n[b][i] = r.values[i - r.address]
              ELSE n[b][i] = m[b][i]
    BY <2>1
  <2> HIDE DEF m, n
  <2> QED  BY <1>4, <2>1, <2>2 DEF Reading
<1> QED  BY <1>1, <1>5, <1>6

(* What a device makes of a request is a step of the memory: the cells     *)
(* named hold what it stores, and the rest is as it was.                   *)
LEMMA HandledMemory ==
  ASSUME NEW s \in Slaves, BankOK(bank[s], Device[s]), NEW r, AsCalled(r), Encodable(r),
         NEW b \in Banks
  PROVE  LET m == MemFrom(bank[s], Device[s])
             n == MemFrom(Handled(s, EncodeRequest(r)), Device[s])
             v == Stored(s, Said(r)).values IN
         /\ DOMAIN n[b] = DOMAIN m[b]
         /\ \A i \in DOMAIN m[b] :
              n[b][i] = IF Permission(s, r) = "ok" /\ r.fc \notin Reading /\ b = BankOf(r.fc)
                           /\ i \in Memory!Cells(r)
                        THEN v[i - r.address] ELSE m[b][i]
<1> DEFINE d == Device[s]
           k == bank[s]
           q == Handled(s, EncodeRequest(r))
           m == MemFrom(k, d)
           n == MemFrom(q, d)
           v == Stored(s, Said(r)).values
           a == r.address
           ok == Permission(s, r) = "ok"
<1>1. /\ BankOK(q, d)
      /\ ~ok \/ r.fc \in Reading => q = k
      /\ q.discrete = k.discrete /\ q.input = k.input
      /\ r.fc \in {WriteCoil, WriteCoils} /\ ok =>
           /\ q.holding = k.holding
           /\ \A i \in 1..(8 * Len(k.coils)) :
                BitAt(q.coils, i - 1) = IF i - a \in DOMAIN r.values
                                        THEN r.values[i - a] ELSE BitAt(k.coils, i - 1)
      /\ r.fc \in {WriteRegister, WriteRegisters} /\ ok =>
           /\ q.coils = k.coils
           /\ \A i \in DOMAIN k.holding :
                q.holding[i] = IF i - a \in DOMAIN v THEN v[i - a] ELSE k.holding[i]
  BY HandledProperties
<1>2. /\ r.fc \in FunctionCodes /\ (r.fc \notin Reads => Len(r.values) = r.count)
      /\ r.values \in Seq(Value(r.fc))
  BY CalledProperties
<1>3. /\ v \in Seq(Value(r.fc)) /\ (r.fc \notin Reads => Len(v) = r.count)
      /\ "clamps" \notin Device[s].handle \/ r.fc # WriteRegister => v = r.values
  BY StoredProperties
<1>4. a \in Int /\ r.count \in Nat
  BY DEF AsCalled
<1>5. r.fc \notin Reads =>
        \A i \in Int : (i \in Memory!Cells(r) <=> i - a \in DOMAIN v)
                       /\ (i \in Memory!Cells(r) <=> i - a \in DOMAIN r.values)
  <2>1. \A i \in Int : i \in Memory!Cells(r) <=> i - a \in 1..r.count
    BY <1>4 DEF Memory!Cells
  <2>2. r.fc \notin Reads => DOMAIN v = 1..r.count /\ DOMAIN r.values = 1..r.count
    BY <1>2, <1>3, LenProperties
  <2> QED  BY <2>1, <2>2
<1>6. /\ DOMAIN m.coils = 1..d.coils /\ DOMAIN m.discrete = 1..d.discrete
      /\ DOMAIN m.holding = 1..d.holding /\ DOMAIN m.input = 1..d.input
      /\ \A i \in 1..d.coils : m.coils[i] = BitAt(k.coils, i - 1)
      /\ d.coils \in Nat /\ d.coils <= 8 * Len(k.coils)
      /\ m.holding = k.holding /\ m.input = k.input
  BY MemProperties
<1>7. /\ DOMAIN n.coils = 1..d.coils /\ DOMAIN n.discrete = 1..d.discrete
      /\ DOMAIN n.holding = 1..d.holding /\ DOMAIN n.input = 1..d.input
      /\ \A i \in 1..d.coils : n.coils[i] = BitAt(q.coils, i - 1)
      /\ n.holding = q.holding /\ n.input = q.input
  BY <1>1, MemProperties
<1>8. n.discrete = m.discrete
  BY <1>1 DEF MemFrom
<1>9. q = k => n = m
  OBVIOUS
<1>10. Len(k.coils) \in Nat /\ d.holding \in Nat
  BY LenProperties, ServerAssumption DEF BankOK
<1>11. /\ r.fc \in {WriteCoil, WriteCoils} => r.fc \notin Reading /\ r.fc \notin Reads
                                              /\ BankOf(r.fc) = "coils" /\ r.fc # WriteRegister
       /\ r.fc \in {WriteRegister, WriteRegisters} => r.fc \notin Reading /\ r.fc \notin Reads
                                                      /\ BankOf(r.fc) = "holding"
       /\ r.fc \notin {WriteCoil, WriteCoils, WriteRegister, WriteRegisters} => r.fc \in Reading
  BY <1>2, Codes DEF BankOf, Reading
<1> HIDE DEF d, k, q, m, n, v, a, ok
<1>12. CASE ~ok \/ r.fc \in Reading
  BY <1>1, <1>9, <1>12 DEF m, n, v, a, ok, q, k, d
<1>13. CASE ok /\ r.fc \in {WriteCoil, WriteCoils}
  <2>1. n.holding = m.holding /\ n.input = m.input /\ v = r.values
    BY <1>1, <1>3, <1>6, <1>7, <1>11, <1>13
  <2>2. \A i \in 1..d.coils : i \in 1..(8 * Len(k.coils)) /\ i \in Int
    BY <1>6, <1>10
  <2>3. \A i \in 1..d.coils :
          n.coils[i] = IF i \in Memory!Cells(r) THEN v[i - a] ELSE m.coils[i]
    BY <1>1, <1>5, <1>6, <1>7, <1>11, <1>13, <2>1, <2>2
  <2>4. DOMAIN n[b] = DOMAIN m[b]
        /\ \A i \in DOMAIN m[b] :
             n[b][i] = IF b = "coils" /\ i \in Memory!Cells(r) THEN v[i - a] ELSE m[b][i]
    BY <1>6, <1>7, <1>8, <2>1, <2>3 DEF Banks
  <2> QED  BY <1>11, <1>13, <2>4 DEF m, n, v, a, ok, q, k, d
<1>14. CASE ok /\ r.fc \in {WriteRegister, WriteRegisters}
  <2>1. \A i \in 1..d.coils : n.coils[i] = m.coils[i]
    BY <1>1, <1>6, <1>7, <1>14
  <2>2. n.input = m.input
    BY <1>1, <1>6, <1>7
  <2>3. \A i \in 1..d.holding : i \in Int /\ i \in DOMAIN k.holding
    <3>1. \A i \in 1..d.holding : i \in Int
      BY <1>10
    <3> QED  BY <1>6, <3>1
  <2>4. \A i \in 1..d.holding :
          n.holding[i] = IF i \in Memory!Cells(r) THEN v[i - a] ELSE m.holding[i]
    BY <1>1, <1>5, <1>6, <1>7, <1>11, <1>14, <2>3
  <2>5. DOMAIN n[b] = DOMAIN m[b]
        /\ \A i \in DOMAIN m[b] :
             n[b][i] = IF b = "holding" /\ i \in Memory!Cells(r) THEN v[i - a] ELSE m[b][i]
    BY <1>6, <1>7, <1>8, <2>1, <2>2, <2>4 DEF Banks
  <2> QED  BY <1>11, <1>14, <2>5 DEF m, n, v, a, ok, q, k, d
<1> QED  BY <1>11, <1>12, <1>13, <1>14

(* A request served whole is a step of the memory; one that no slave takes *)
(* up leaves it as it was.                                                 *)
LEMMA ServeTook ==
  ASSUME Inv, Serve, sender.call # NoCall
  PROVE  /\ request.intact => Memory!Took(sender.call)
         /\ ~request.intact \/ Memory!Targets(sender.call) = {} =>
              \A s \in Slaves : MemFrom(bank'[s], Device[s]) = MemFrom(bank[s], Device[s])
<1> DEFINE r == sender.call
<1>1. /\ \A s \in Slaves : BankOK(bank'[s], Device[s])
      /\ \A s \in Slaves :
           bank'[s] = IF request.intact /\ request.to \in {0, s}
                      THEN Handled(s, request.pdu) ELSE bank[s]
  BY ServeBank DEF Inv
<1>2. /\ AsCalled(r) /\ Encodable(r) /\ request.to = r.to /\ request.pdu = EncodeRequest(r)
  BY SenderCall DEF Inv
<1>3. \A s \in Slaves : BankOK(bank[s], Device[s])
  BY DEF Inv, TypeInv
<1> HIDE DEF r
<1>4. \A s \in Slaves : s \in Memory!Targets(r) <=> r.to \in {0, s} /\ Permission(s, r) = "ok"
  BY DEF Memory!Targets
<1>5. ASSUME request.intact
      PROVE  Memory!Took(r)
  <2>1. ASSUME NEW s \in Slaves, NEW b \in Banks
        PROVE  LET m == MemFrom(bank[s], Device[s])
                   n == MemFrom(bank'[s], Device[s]) IN
               /\ DOMAIN n[b] = DOMAIN m[b]
               /\ \A i \in DOMAIN m[b] :
                    IF s \in Memory!Targets(r) /\ r.fc \notin Reading /\ b = BankOf(r.fc)
                       /\ i \in Memory!Cells(r)
                    THEN "clamps" \notin Device[s].handle => n[b][i] = r.values[i - r.address]
                    ELSE n[b][i] = m[b][i]
    <3> DEFINE m == MemFrom(bank[s], Device[s])
               n == MemFrom(bank'[s], Device[s])
               v == Stored(s, Said(r)).values
    <3>1. CASE r.to \in {0, s}
      <4>1. n = MemFrom(Handled(s, EncodeRequest(r)), Device[s])
        BY <1>1, <1>2, <1>5, <3>1
      <4>2. /\ DOMAIN n[b] = DOMAIN m[b]
            /\ \A i \in DOMAIN m[b] :
                 n[b][i] = IF Permission(s, r) = "ok" /\ r.fc \notin Reading /\ b = BankOf(r.fc)
                              /\ i \in Memory!Cells(r)
                           THEN v[i - r.address] ELSE m[b][i]
        BY <1>2, <1>3, <4>1, HandledMemory
      <4>3. "clamps" \notin Device[s].handle => v = r.values
        BY <1>2, StoredProperties
      <4> HIDE DEF m, n, v
      <4>4. /\ DOMAIN n[b] = DOMAIN m[b]
            /\ \A i \in DOMAIN m[b] :
                 IF s \in Memory!Targets(r) /\ r.fc \notin Reading /\ b = BankOf(r.fc)
                    /\ i \in Memory!Cells(r)
                 THEN "clamps" \notin Device[s].handle => n[b][i] = r.values[i - r.address]
                 ELSE n[b][i] = m[b][i]
        BY <1>4, <3>1, <4>2, <4>3
      <4> QED  BY <4>4 DEF m, n
    <3>2. CASE r.to \notin {0, s}
      <4>1. n = m
        BY <1>1, <1>2, <3>2
      <4>2. s \notin Memory!Targets(r)
        BY <1>4, <3>2
      <4> HIDE DEF m, n
      <4>3. /\ DOMAIN n[b] = DOMAIN m[b]
            /\ \A i \in DOMAIN m[b] :
                 IF s \in Memory!Targets(r) /\ r.fc \notin Reading /\ b = BankOf(r.fc)
                    /\ i \in Memory!Cells(r)
                 THEN "clamps" \notin Device[s].handle => n[b][i] = r.values[i - r.address]
                 ELSE n[b][i] = m[b][i]
        BY <4>1, <4>2
      <4> QED  BY <4>3 DEF m, n
    <3> QED  BY <3>1, <3>2
  <2> QED  BY <1>1, <1>3, <2>1, TookForm
<1>6. ASSUME ~request.intact \/ Memory!Targets(r) = {}, NEW s \in Slaves
      PROVE  bank'[s] = bank[s]
  <2>1. CASE request.intact /\ r.to \in {0, s}
    <3>1. Permission(s, r) # "ok"
      BY <1>4, <1>6, <2>1
    <3>2. Handled(s, EncodeRequest(r)) = bank[s]
      BY <1>2, <1>3, <3>1, HandledProperties
    <3> QED  BY <1>1, <1>2, <2>1, <3>2
  <2>2. CASE ~(request.intact /\ r.to \in {0, s})
    BY <1>1, <1>2, <2>2
  <2> QED  BY <2>1, <2>2
<1>7. ~request.intact \/ Memory!Targets(r) = {} =>
        \A s \in Slaves : MemFrom(bank'[s], Device[s]) = MemFrom(bank[s], Device[s])
  BY <1>6
<1> QED  BY <1>5, <1>7 DEF r

(* A malformed request leaves the memory as it was.                        *)
LEMMA ServeForeign ==
  ASSUME Inv, Serve, sender.call = NoCall
  PROVE  \A s \in Slaves : bank'[s] = bank[s]
<1>1. /\ request # NoFrame
      /\ \A s \in Slaves :
           bank'[s] = IF request.intact /\ request.to \in {0, s}
                      THEN Handled(s, request.pdu) ELSE bank[s]
  BY ServeBank DEF Inv
<1>2. Foreign(request) /\ request \in RequestRec
  BY <1>1 DEF Inv, TypeInv, LineOK
<1>3. \A s \in Slaves : Handled(s, request.pdu) = bank[s]
  BY <1>2, ForeignRefused
<1> QED  BY <1>1, <1>3

(* The cells a permitted call names are there.                             *)
LEMMA CellsThere ==
  ASSUME NEW s \in Slaves, BankOK(bank[s], Device[s]), NEW r, AsCalled(r), Encodable(r),
         r.fc \notin Reading, Permission(s, r) = "ok", NEW i \in Memory!Cells(r)
  PROVE  BankOf(r.fc) \in Banks /\ i \in DOMAIN MemFrom(bank[s], Device[s])[BankOf(r.fc)]
<1> DEFINE d == Device[s]
           b == BankOf(r.fc)
<1>1. r.fc \in FunctionCodes /\ r.fc # Loopback
  BY DEF AsCalled, Reading
<1>2. b \in {"coils", "holding"} /\ b \in Banks
  <2>1. r.fc \in {WriteCoil, WriteCoils, WriteRegister, WriteRegisters}
    BY <1>1, Codes DEF Reading
  <2> QED  BY <2>1, Codes DEF BankOf, Banks
<1>3. r.address + r.count <= d[b]
  <2>1. r.address \in Int /\ r.count \in Nat
    BY DEF AsCalled
  <2>2. ~(r.address + r.count > d[b])
    BY <1>1 DEF Permission
  <2>3. d.coils \in Nat /\ d.holding \in Nat
    BY ServerAssumption
  <2>4. d[b] \in Nat
    BY <1>2, <2>3
  <2> HIDE DEF d, b
  <2> QED  BY <2>1, <2>2, <2>4
<1>4. r.address \in Nat /\ r.count \in Nat
  <2>1. \A x \in Register : x \in Nat
    BY Bounds
  <2>2. r.address \in Register
    BY CalledProperties
  <2> QED  BY <2>1, <2>2 DEF AsCalled
<1>5. d.coils \in Nat /\ d.holding \in Nat
  BY ServerAssumption
<1>6. /\ DOMAIN MemFrom(bank[s], d).coils = 1..d.coils
      /\ DOMAIN MemFrom(bank[s], d).holding = 1..d.holding
  BY MemProperties
<1>7. i \in 1..d[b]
  <2>1. d[b] \in Nat
    BY <1>2, <1>5
  <2>2. i \in r.address + 1 .. r.address + r.count
    BY DEF Memory!Cells
  <2> HIDE DEF d, b
  <2> QED  BY <1>3, <1>4, <2>1, <2>2
<1> HIDE DEF d
<1>8. CASE b = "coils"
  BY <1>2, <1>6, <1>7, <1>8 DEF d
<1>9. CASE b = "holding"
  BY <1>2, <1>6, <1>7, <1>9 DEF d
<1> QED  BY <1>2, <1>8, <1>9

(* A reply that gives a value means that the call took effect as asked.    *)
LEMMA ServeValue ==
  ASSUME OneOverride, Inv, Serve, sender.live, reply' # NoFrame, reply' # reply,
         Outcome(sender.call, reply').kind = "value"
  PROVE  /\ request.intact /\ Memory!Targets(sender.call) # {}
         /\ Memory!Stored(sender.call)
         /\ Memory!Content(sender.call) = Outcome(sender.call, reply').values
<1> DEFINE r == sender.call
           s == r.to
           q == reply'.pdu
<1>1. r # NoCall
  BY DEF Inv, LockOK
<1>2. /\ AsCalled(r) /\ Encodable(r) /\ request.to = r.to /\ request.pdu = EncodeRequest(r)
  BY <1>1, SenderCall DEF Inv
<1>3. /\ s \in Slaves /\ request.intact /\ q \in Replies(s, EncodeRequest(r), bank[s])
  BY <1>2, ServeLine DEF Inv
<1>4. \A t \in Slaves : BankOK(bank[t], Device[t])
  BY DEF Inv, TypeInv
<1>5. Kind(r, q) = "value" /\ Outcome(r, reply').values = Interpret(r, q).values
  BY DEF Outcome, Kind
<1>6. ~({"clamps", "distorts"} \subseteq Device[s].handle)
  BY <1>3 DEF OneOverride
<1> HIDE DEF r, q
<1>7. Interpret(r, q).values = Returned(s, r) /\ Stored(s, Said(r)).values = r.values
  BY <1>2, <1>3, <1>4, <1>5, <1>6, ValueReply
<1>8. Permission(s, r) = "ok"
  BY <1>2, <1>3, <1>4, <1>5, RepliesProperties
<1>9. Memory!Targets(r) # {} /\ Memory!Content(r) = Returned(s, r)
  BY <1>3, <1>8, ContentReturned
<1>10. \A t \in Memory!Targets(r) : t = s
  <2>1. \A x \in 1..247 : x # 0
    OBVIOUS
  <2>2. s # 0
    BY <1>3, <2>1, ServerAssumption
  <2> QED  BY <2>2 DEF Memory!Targets
<1>11. CASE r.fc \in Reading
  <2>1. Memory!Stored(r)
    BY <1>11 DEF Memory!Stored, Reading
  <2> QED  BY <1>3, <1>5, <1>7, <1>9, <2>1 DEF r
<1>12. CASE r.fc \notin Reading
  <2> DEFINE m == MemFrom(bank[s], Device[s])
             n == MemFrom(bank'[s], Device[s])
  <2>1. bank'[s] = Handled(s, EncodeRequest(r))
    BY <1>2, <1>3, ServeBank DEF Inv
  <2>2. ASSUME NEW i \in Memory!Cells(r)
        PROVE  n[BankOf(r.fc)][i] = r.values[i - r.address]
    <3>1. BankOf(r.fc) \in Banks /\ i \in DOMAIN m[BankOf(r.fc)]
      BY <1>2, <1>3, <1>4, <1>8, <1>12, CellsThere
    <3>2. n = MemFrom(Handled(s, EncodeRequest(r)), Device[s])
      BY <2>1
    <3> DEFINE b == BankOf(r.fc)
               v == Stored(s, Said(r)).values
    <3>3. \A x \in Banks :
            \A j \in DOMAIN m[x] :
              n[x][j] = IF Permission(s, r) = "ok" /\ r.fc \notin Reading /\ x = BankOf(r.fc)
                           /\ j \in Memory!Cells(r)
                        THEN v[j - r.address] ELSE m[x][j]
      BY <1>2, <1>3, <1>4, <3>2, HandledMemory
    <3> HIDE DEF m, n, b, v
    <3>4. n[BankOf(r.fc)][i] = v[i - r.address]
      BY <1>8, <1>12, <3>1, <3>3
    <3>5. v = r.values
      BY <1>7 DEF v
    <3> QED  BY <3>4, <3>5
  <2>3. [t \in Slaves |-> MemOf(t)]'[s] = n
    BY <1>3, MemOfBank
  <2>4. \A t \in Memory!Targets(r) :
          \A i \in Memory!Cells(r) :
            [x \in Slaves |-> MemOf(x)]'[t][BankOf(r.fc)][i] = r.values[i - r.address]
    BY <1>10, <2>2, <2>3
  <2>5. Memory!Stored(r)
    BY <2>4 DEF Memory!Stored
  <2> QED  BY <1>3, <1>5, <1>7, <1>9, <2>5 DEF r
<1> QED  BY <1>11, <1>12

-----------------------------------------------------------------------------
(* Effects, kept by each action                                            *)

(* A step that leaves the lock and the line, and starts and ends calls     *)
(* that do not hold the lock.                                              *)
LEMMA EffectKept ==
  ASSUME Inv, EffectOK, UNCHANGED <<owner, stage, attempt, sender>>,
         reply' = NoFrame \/ (reply # NoFrame /\ reply'.pdu = reply.pdu) \/ reply' = reply,
         \A x \in Callers :
           \/ op'[x] = op[x]
           \/ x # owner /\ (op'[x].phase = "called" => op'[x].effect = "none" /\ op'[x].seen = <<>>)
  PROVE  EffectOK'
<1>1. owner # NoCaller => owner \in Callers
  BY DEF Inv, TypeInv
<1>2. owner # NoCaller => op'[owner] = op[owner]
  BY <1>1
<1>3. stage = "waiting" => owner # NoCaller
  BY DEF Inv, LockOK
<1>4. OwnEffects'
  <2> SUFFICES ASSUME NEW c \in Callers, op'[c].phase = "called"
               PROVE  /\ op'[c].effect # "none" =>
                           owner' = c /\ Memory!Targets(op'[c].call) # {}
                      /\ op'[c].call.to = 0 => op'[c].seen = <<>>
    BY DEF OwnEffects, Memory!Targets
  <2>1. CASE op'[c] = op[c]
    BY <2>1 DEF EffectOK, OwnEffects
  <2>2. CASE op'[c] # op[c]
    BY <2>2
  <2> QED  BY <2>1, <2>2
<1>5. WritesOnce'
  BY <1>2 DEF EffectOK, WritesOnce
<1>6. RepliesTell'
  <2>1. CASE reply' = NoFrame
    BY <2>1 DEF RepliesTell
  <2>2. CASE stage = "waiting" /\ reply # NoFrame /\ reply'.pdu = reply.pdu
    BY <1>2, <1>3, <2>2 DEF EffectOK, RepliesTell, Outcome
  <2>3. CASE reply' = reply
    BY <1>2, <1>3, <2>3 DEF EffectOK, RepliesTell
  <2> QED  BY <2>1, <2>2, <2>3 DEF RepliesTell
<1> QED  BY <1>4, <1>5, <1>6 DEF EffectOK

(* Calls are started when the caller has none, of those listed.            *)
LEMMA Invoking ==
  ASSUME Inv, NEW c \in Callers, Call(c) \/ StartProbe(c) \/ ProbeNext(c)
  PROVE  op' = op \/ \E r \in AllCalls \cup ProbeCalls : op[c].phase # "called" /\ Invoke(c, r)
<1>1. CASE Call(c)
  <2>1. PICK r \in Calls[c] : Invoke(c, r)
    BY <1>1 DEF Call
  <2>2. r \in AllCalls /\ op[c].phase # "called"
    BY <1>1, ClientAssumption DEF AllCalls, Call
  <2> QED  BY <2>1, <2>2
<1>2. 1 \in DOMAIN Walk
  <2>1. Len(Walk) \in Nat \ {0} /\ DOMAIN Walk = 1..Len(Walk)
    BY ClientAssumption, EmptySeq, LenProperties
  <2>2. 1 \in 1..Len(Walk)
    BY <2>1
  <2> QED  BY <2>1, <2>2
<1>3. \A n \in 1..4 : ProbeFcs[n] = n
  BY DEF ProbeFcs
<1>4. CASE StartProbe(c)
  <2>1. PICK s \in Probes[c] : Invoke(c, ProbeCall(s, ProbeFcs[1], 1))
    BY <1>4 DEF StartProbe
  <2>2. s \in Slaves /\ op[c].phase # "called"
    BY <1>4, ClientAssumption DEF StartProbe
  <2>3. ProbeCall(s, ProbeFcs[1], 1) \in ProbeCalls
    BY <1>2, <1>3, <2>2, ProbeCallTyped
  <2> QED  BY <2>1, <2>2, <2>3
<1>5. CASE ProbeNext(c)
  <2> DEFINE p == probe[c]
             v == Append(p.verdicts, Verdict(op[c].kind))
  <2>1. p # NoProbe /\ op[c].phase = "done"
    BY <1>5 DEF ProbeNext
  <2>2. /\ p.to \in Slaves /\ p.walk \in DOMAIN Walk /\ p.verdicts \in Seq(Verdicts)
        /\ Len(p.verdicts) \in 0..3 /\ Asking(p) \in 1..4 /\ ProbeFcs[Asking(p)] = Asking(p)
    BY <2>1, ProbeTyped DEF Inv
  <2>3. \/ op' = op
        \/ p.walk < Len(Walk)
           /\ Invoke(c, ProbeCall(p.to, ProbeFcs[Len(p.verdicts) + 1], p.walk + 1))
        \/ Len(v) # Len(ProbeFcs) /\ Invoke(c, ProbeCall(p.to, ProbeFcs[Len(v) + 1], 1))
    BY <1>5 DEF ProbeNext, ProbeOver
  <2>4. Verdict(op[c].kind) \in Verdicts
    BY DEF Verdict, Verdicts
  <2>5. Len(v) = Len(p.verdicts) + 1
    BY <2>2, <2>4, AppendProperties
  <2> HIDE DEF v
  <2>6. p.walk < Len(Walk) => p.walk + 1 \in DOMAIN Walk
    <3>1. DOMAIN Walk = 1..Len(Walk) /\ Len(Walk) \in Nat
      BY ClientAssumption, LenProperties
    <3> QED  BY <2>2, <3>1
  <2>7. p.walk < Len(Walk) =>
          ProbeCall(p.to, ProbeFcs[Len(p.verdicts) + 1], p.walk + 1) \in ProbeCalls
    BY <2>2, <2>6, ProbeCallTyped DEF Asking
  <2>8. Len(v) # Len(ProbeFcs) => ProbeCall(p.to, ProbeFcs[Len(v) + 1], 1) \in ProbeCalls
    <3>1. Len(ProbeFcs) = 4
      BY DEF ProbeFcs
    <3>2. \A n \in 0..3 : n + 1 # 4 => n + 1 + 1 \in 1..4
      OBVIOUS
    <3>3. Len(v) # Len(ProbeFcs) => Len(v) + 1 \in 1..4
      BY <2>2, <2>5, <3>1, <3>2
    <3> QED  BY <1>2, <1>3, <2>2, <3>3, ProbeCallTyped
  <2> QED  BY <2>1, <2>3, <2>7, <2>8
<1> QED  BY <1>1, <1>4, <1>5

LEMMA InvokeEffects ==
  ASSUME Inv, NEW c \in Callers, NEW r \in AllCalls \cup ProbeCalls, op[c].phase # "called",
         Invoke(c, r)
  PROVE  \A x \in Callers :
           \/ op'[x] = op[x]
           \/ x # owner /\ (op'[x].phase = "called" => op'[x].effect = "none" /\ op'[x].seen = <<>>)
<1>1. /\ op'[c] = Called(r) /\ \A x \in Callers : x # c => op'[x] = op[x]
  BY InvokeProperties DEF Inv, TypeInv
<1>2. Called(r).effect = "none" /\ Called(r).seen = <<>>
  BY OpRecords
<1>3. c # owner
  <2>1. c # NoCaller
    BY ClientAssumption
  <2> QED  BY <2>1 DEF Inv, LockOK
<1> QED  BY <1>1, <1>2, <1>3

LEMMA AcquireEffects ==
  ASSUME Inv, EffectOK, NEW c \in Callers, Acquire(c)
  PROVE  EffectOK'
<1>1. /\ owner = NoCaller /\ op[c].phase = "called" /\ owner' = c /\ stage' = "sending"
      /\ attempt' = 0 /\ UNCHANGED <<op, sender>> /\ c # NoCaller
  BY ClientAssumption DEF Acquire
<1>2. \A x \in Callers : op[x].phase = "called" => op[x].effect = "none"
  <2>1. \A x \in Callers : x # NoCaller
    BY ClientAssumption
  <2> QED  BY <1>1, <2>1 DEF EffectOK, OwnEffects
<1>3. ~sender.live
  BY <1>1 DEF Inv, LockOK
<1>4. OwnEffects'
  BY <1>1, <1>2 DEF EffectOK, OwnEffects, Memory!Targets
<1>5. WritesOnce'
  BY <1>1, <1>2, <1>3 DEF WritesOnce
<1>6. RepliesTell'
  BY <1>1 DEF RepliesTell
<1> QED  BY <1>4, <1>5, <1>6 DEF EffectOK

LEMMA SendEffects ==
  ASSUME Inv, EffectOK, NEW c \in Callers, Send(c)
  PROVE  EffectOK'
<1>1. /\ owner = c /\ stage = "sending" /\ stage' = "waiting" /\ reply' = NoFrame
      /\ UNCHANGED <<op, owner, attempt>> /\ c # NoCaller
  BY ClientAssumption DEF Send
<1>2. OwnEffects'
  BY <1>1 DEF EffectOK, OwnEffects, Memory!Targets
<1>3. WritesOnce'
  BY <1>1 DEF EffectOK, WritesOnce
<1>4. RepliesTell'
  BY <1>1 DEF RepliesTell
<1> QED  BY <1>2, <1>3, <1>4 DEF EffectOK

LEMMA EndEffects ==
  ASSUME NoWriteRepeated, Inv, EffectOK, NEW c \in Callers, Waiting(c), NEW kind \in Kinds,
         NEW values \in Seq(Int), End(c, kind, values)
  PROVE  EffectOK'
<1>1. owner = c /\ c # NoCaller /\ stage' = "sending"
  BY ClientAssumption DEF Waiting, End
<1>2. RepliesTell'
  BY <1>1 DEF RepliesTell
<1>3. CASE Retried(c, kind)
  <2>1. /\ UNCHANGED <<op, owner, sender>> /\ attempt < Retries
        /\ IdempotentOnly => op[c].call.fc \in Reading
    BY <1>3 DEF End, Retried, Reading
  <2>2. op[c].call.fc \in Reading
    <3>1. ~(attempt < 0)
      <4>1. \A n \in 0..Retries : ~(n < 0)
        BY ClientAssumption
      <4> QED  BY <4>1 DEF Inv, TypeInv
    <3> QED  BY <2>1, <3>1 DEF NoWriteRepeated
  <2>3. OwnEffects'
    BY <2>1 DEF EffectOK, OwnEffects, Memory!Targets
  <2>4. WritesOnce'
    BY <1>1, <2>1, <2>2 DEF WritesOnce
  <2> QED  BY <1>2, <2>3, <2>4 DEF EffectOK
<1>4. CASE ~Retried(c, kind)
  <2>1. Finish(c, kind, values) /\ owner' = NoCaller
    BY <1>4 DEF End
  <2>2. op'[c] = Ended(kind, values) /\ \A x \in Callers : x # c => op'[x] = op[x]
    BY <2>1, FinishProperties DEF Inv, TypeInv
  <2>3. op'[c].phase = "done"
    BY <2>2, OpRecords
  <2>4. OwnEffects'
    <3> SUFFICES ASSUME NEW x \in Callers, op'[x].phase = "called"
                 PROVE  /\ op'[x].effect # "none" =>
                             owner' = x /\ Memory!Targets(op'[x].call) # {}
                        /\ op'[x].call.to = 0 => op'[x].seen = <<>>
      BY DEF OwnEffects, Memory!Targets
    <3>1. x # c /\ op'[x] = op[x]
      BY <2>2, <2>3
    <3> QED  BY <1>1, <3>1 DEF EffectOK, OwnEffects
  <2>5. WritesOnce'
    BY <2>1 DEF WritesOnce
  <2> QED  BY <1>2, <2>4, <2>5 DEF EffectOK
<1> QED  BY <1>3, <1>4

(* What serving records with the call whose request it was.                *)
LEMMA ServeRecords ==
  ASSUME Inv, Serve
  PROVE  \/ op' = op /\ ~(sender.live /\ request.intact /\ Memory!Targets(sender.call) # {})
         \/ /\ sender.live /\ request.intact /\ Memory!Targets(sender.call) # {}
            /\ op' = [op EXCEPT ![owner].effect = IF Memory!Stored(sender.call) THEN "exact"
                                                  ELSE "other",
                                ![owner].seen = Memory!Content(sender.call)]
            /\ op'[owner].effect = IF Memory!Stored(sender.call) THEN "exact" ELSE "other"
            /\ op'[owner].seen = Memory!Content(sender.call)
            /\ op'[owner].phase = "called" /\ op'[owner].call = sender.call
            /\ \A x \in Callers : x # owner => op'[x] = op[x]
<1> DEFINE acted == sender.live /\ request.intact /\ Memory!Targets(sender.call) # {}
           e == IF Memory!Stored(sender.call) THEN "exact" ELSE "other"
           t == Memory!Content(sender.call)
<1>1. op' = IF acted THEN [op EXCEPT ![sender.by].effect = e, ![sender.by].seen = t] ELSE op
  BY DEF Serve
<1>2. acted => /\ owner # NoCaller /\ sender.by = owner /\ sender.call = op[owner].call
               /\ op[owner].phase = "called"
  BY DEF Inv, LockOK
<1>3. acted => owner \in Callers
  BY <1>2, OwnerCall DEF Inv
<1>4. op \in [Callers -> OpRec]
  BY DEF Inv, TypeInv
<1> HIDE DEF e, t
<1>5. CASE acted
  <2>1. op' = [op EXCEPT ![owner].effect = e, ![owner].seen = t]
    BY <1>1, <1>2, <1>5
  <2> DEFINE o == [op[owner] EXCEPT !.effect = e, !.seen = t]
  <2>2. o.effect = e /\ o.seen = t /\ o.phase = op[owner].phase /\ o.call = op[owner].call
    <3>1. op[owner] \in OpRec
      BY <1>3, <1>4, <1>5
    <3> QED  BY <3>1 DEF OpRec
  <2>3. op'[owner] = o /\ \A x \in Callers : x # owner => op'[x] = op[x]
    BY <1>3, <1>4, <1>5, <2>1
  <2> HIDE DEF o
  <2> QED  BY <1>2, <1>5, <2>1, <2>2, <2>3 DEF e, t
<1>6. CASE ~acted
  BY <1>1, <1>6
<1> QED  BY <1>5, <1>6

LEMMA ServeEffects ==
  ASSUME OneOverride, Inv, EffectOK, Serve
  PROVE  EffectOK'
<1>1. /\ request # NoFrame /\ sender' = NoSender /\ ~sender'.live
      /\ UNCHANGED <<owner, stage, attempt>>
  BY ServeBank DEF Inv, Serve, NoSender
<1>2. stage = "waiting" => owner # NoCaller /\ sender.live /\ reply = NoFrame
  BY <1>1 DEF Inv, LockOK, LineOK
<1>3. sender.live => sender.by = owner /\ sender.call = op[owner].call
  BY DEF Inv, LockOK
<1>4. stage = "waiting" /\ reply' # NoFrame /\ Outcome(sender.call, reply').kind = "value" =>
        /\ request.intact /\ Memory!Targets(sender.call) # {}
        /\ Memory!Stored(sender.call)
        /\ Memory!Content(sender.call) = Outcome(sender.call, reply').values
  BY <1>2, ServeValue
<1>5. CASE op' = op /\ ~(sender.live /\ request.intact /\ Memory!Targets(sender.call) # {})
  <2>1. OwnEffects'
    BY <1>1, <1>5 DEF EffectOK, OwnEffects, Memory!Targets
  <2>2. WritesOnce'
    BY <1>1, <1>5 DEF EffectOK, WritesOnce
  <2>3. RepliesTell'
    <3> SUFFICES ASSUME stage = "waiting", reply' # NoFrame,
                        Outcome(op[owner].call, reply').kind = "value"
                 PROVE  FALSE
      BY <1>1, <1>5 DEF RepliesTell
    <3> QED  BY <1>2, <1>3, <1>4, <1>5
  <2> QED  BY <2>1, <2>2, <2>3 DEF EffectOK
<1>6. CASE /\ sender.live /\ request.intact /\ Memory!Targets(sender.call) # {}
           /\ op'[owner].effect = IF Memory!Stored(sender.call) THEN "exact" ELSE "other"
           /\ op'[owner].seen = Memory!Content(sender.call)
           /\ op'[owner].phase = "called" /\ op'[owner].call = sender.call
           /\ \A x \in Callers : x # owner => op'[x] = op[x]
  <2>1. OwnEffects'
    <3> SUFFICES ASSUME NEW x \in Callers, op'[x].phase = "called"
                 PROVE  /\ op'[x].effect # "none" =>
                             owner = x /\ Memory!Targets(op'[x].call) # {}
                        /\ op'[x].call.to = 0 => op'[x].seen = <<>>
      BY <1>1 DEF OwnEffects, Memory!Targets
    <3>1. CASE x = owner
      <4>1. 0 \notin Slaves
        <5>1. \A y \in 1..247 : y # 0
          OBVIOUS
        <5> QED  BY <5>1, ServerAssumption
      <4>2. sender.call.to = 0 => Memory!Content(sender.call) = <<>>
        BY <4>1 DEF Memory!Content
      <4> QED  BY <1>6, <3>1, <4>2
    <3>2. CASE x # owner
      <4>1. op'[x] = op[x]
        BY <1>6, <3>2
      <4> QED  BY <3>2, <4>1 DEF EffectOK, OwnEffects
    <3> QED  BY <3>1, <3>2
  <2>2. WritesOnce'
    <3>1. owner # NoCaller /\ op[owner].call.fc \notin Reading => stage # "sending"
      BY <1>6 DEF EffectOK, WritesOnce
    <3> QED  BY <1>1, <1>3, <1>6, <3>1 DEF WritesOnce
  <2>3. RepliesTell'
    <3> SUFFICES ASSUME stage = "waiting", reply' # NoFrame,
                        Outcome(op'[owner].call, reply').kind = "value"
                 PROVE  /\ op'[owner].effect = "exact"
                        /\ Outcome(op'[owner].call, reply').values = op'[owner].seen
      BY <1>1 DEF RepliesTell
    <3> QED  BY <1>4, <1>6
  <2> QED  BY <2>1, <2>2, <2>3 DEF EffectOK
<1> QED  BY <1>5, <1>6, ServeRecords

(* What ends an attempt, and with what result.                             *)
LEMMA Ending ==
  ASSUME Inv, NEW c \in Callers, Receive(c) \/ TimeOut(c) \/ Interrupt(c) \/ BroadcastSent(c)
  PROVE  /\ Waiting(c) /\ UNCHANGED <<bank, request>>
         /\ \E kind \in Kinds, values \in Seq(Int) :
              /\ End(c, kind, values)
              /\ \/ /\ Receive(c) /\ reply # NoFrame /\ reply.intact /\ op[c].call.to # 0
                    /\ kind = Outcome(op[c].call, reply).kind
                    /\ values = Outcome(op[c].call, reply).values
                 \/ kind \in {"timeout", "lost", "cancelled", "checksum"} /\ values = <<>>
                 \/ /\ BroadcastSent(c) /\ request = NoFrame /\ op[c].call.to = 0
                    /\ kind = "value" /\ values = <<>>
<1>1. <<>> \in Seq(Int) /\ {"timeout", "lost", "cancelled", "checksum", "value"} \subseteq Kinds
  BY EmptySeq DEF Kinds
<1>2. CASE Receive(c)
  <2> DEFINE r == op[c].call
             out == IF reply.intact THEN Interpret(r, reply.pdu) ELSE Raise("checksum")
  <2>1. /\ Waiting(c) /\ reply # NoFrame /\ End(c, out.kind, out.values) /\ r.to # 0
        /\ UNCHANGED <<bank, request>>
    BY <1>2 DEF Receive
  <2>2. owner = c /\ owner # NoCaller /\ stage = "waiting"
    BY <2>1, ClientAssumption DEF Waiting
  <2>3. AsCalled(r) /\ Encodable(r)
    BY <2>2, OwnerCall DEF Inv
  <2>4. reply.pdu \in PduBytes /\ AnswerOK(r, reply)
    BY <2>1, <2>2 DEF Inv, TypeInv, ReplyRec, LineOK
  <2> HIDE DEF r
  <2>5. CASE reply.intact
    <3>1. out.kind = Kind(r, reply.pdu) /\ out.values = Interpret(r, reply.pdu).values
      BY <2>5 DEF Kind
    <3>2. out.kind \in Kinds
      BY <2>3, <2>4, <3>1, OutcomeProperties
    <3>3. out.values \in Seq(Int)
      BY <2>3, <2>4, <3>1, ValuesTyped
    <3>4. out.kind = Outcome(r, reply).kind /\ out.values = Outcome(r, reply).values
      BY <3>1 DEF Outcome, Kind
    <3> HIDE DEF out
    <3> QED  BY <1>2, <2>1, <2>5, <3>2, <3>3, <3>4 DEF r
  <2>6. CASE ~reply.intact
    <3>1. out.kind = "checksum" /\ out.values = <<>>
      BY <2>6 DEF Raise
    <3> HIDE DEF out
    <3> QED  BY <1>1, <2>1, <3>1
  <2> QED  BY <2>5, <2>6
<1>3. CASE TimeOut(c)
  <2>1. Waiting(c) /\ End(c, "timeout", <<>>) /\ UNCHANGED <<bank, request>>
    BY <1>3 DEF TimeOut, Discard
  <2> QED  BY <1>1, <2>1
<1>4. CASE Interrupt(c)
  <2>1. Waiting(c) /\ UNCHANGED <<bank, request>>
    BY <1>4 DEF Interrupt, Discard
  <2>2. PICK kind \in {"lost", "cancelled"} : End(c, kind, <<>>)
    BY <1>4 DEF Interrupt
  <2> QED  BY <1>1, <2>1, <2>2
<1>5. CASE BroadcastSent(c)
  <2>1. Waiting(c) /\ End(c, "value", <<>>) /\ request = NoFrame /\ op[c].call.to = 0
        /\ UNCHANGED <<bank, request>>
    BY <1>5 DEF BroadcastSent, serverVars
  <2> QED  BY <1>1, <1>5, <2>1
<1> QED  BY <1>2, <1>3, <1>4, <1>5

LEMMA NextEffects ==
  ASSUME NoWriteRepeated, OneOverride, Inv, EffectOK, [Next]_vars
  PROVE  EffectOK'
<1>1. team \subseteq Callers
  BY SetupTyped DEF Inv, TypeInv
<1>2. ASSUME NEW c \in team, Call(c) \/ StartProbe(c) \/ ProbeNext(c)
      PROVE  EffectOK'
  <2>1. c \in Callers /\ UNCHANGED <<owner, stage, attempt, sender>> /\ reply' = reply
    BY <1>1, <1>2 DEF Call, StartProbe, ProbeNext, serverVars
  <2>2. op' = op \/ \E r \in AllCalls \cup ProbeCalls : op[c].phase # "called" /\ Invoke(c, r)
    BY <1>2, <2>1, Invoking
  <2>3. \A x \in Callers :
          \/ op'[x] = op[x]
          \/ x # owner /\ (op'[x].phase = "called" => op'[x].effect = "none" /\ op'[x].seen = <<>>)
    BY <2>1, <2>2, InvokeEffects
  <2> QED  BY <2>1, <2>3, EffectKept
<1>3. ASSUME NEW c \in team, Reject(c)
      PROVE  EffectOK'
  <2>1. /\ c \in Callers /\ UNCHANGED <<owner, stage, attempt, sender>> /\ reply' = reply
        /\ op[c].phase = "called" /\ ~Encodable(op[c].call) /\ Finish(c, "configuration", <<>>)
    BY <1>1, <1>3 DEF Reject, serverVars
  <2>2. c # owner
    <3>1. c # NoCaller
      BY <2>1, ClientAssumption
    <3> QED  BY <2>1, <3>1 DEF Inv, LockOK
  <2>3. "configuration" \in Kinds /\ <<>> \in Seq(Int)
    BY EmptySeq DEF Kinds
  <2>4. op'[c] = Ended("configuration", <<>>) /\ \A x \in Callers : x # c => op'[x] = op[x]
    BY <2>1, <2>3, FinishProperties DEF Inv, TypeInv
  <2>5. Ended("configuration", <<>>).phase = "done"
    BY <2>3, OpRecords
  <2> QED  BY <2>1, <2>2, <2>4, <2>5, EffectKept
<1>4. ASSUME NEW c \in team, SkipStray(c) \/ ForeignRequest(c) \/ ProbeFails(c)
      PROVE  EffectOK'
  <2>1. UNCHANGED <<owner, stage, attempt, sender, op>> /\ (reply' = NoFrame \/ reply' = reply)
    BY <1>4 DEF SkipStray, ForeignRequest, ProbeFails, serverVars, clientVars
  <2> QED  BY <2>1, EffectKept
<1>5. ASSUME NEW c \in team, Acquire(c)
      PROVE  EffectOK'
  BY <1>1, <1>5, AcquireEffects
<1>6. ASSUME NEW c \in team, Send(c)
      PROVE  EffectOK'
  BY <1>1, <1>6, SendEffects
<1>7. ASSUME NEW c \in team, Receive(c) \/ TimeOut(c) \/ Interrupt(c) \/ BroadcastSent(c)
      PROVE  EffectOK'
  <2>1. c \in Callers
    BY <1>1
  <2>2. Waiting(c)
    BY <1>7, <2>1, Ending
  <2>3. PICK kind \in Kinds, values \in Seq(Int) : End(c, kind, values)
    BY <1>7, <2>1, Ending
  <2> QED  BY <2>1, <2>2, <2>3, EndEffects
<1>8. CASE Serve
  BY <1>8, ServeEffects
<1>9. CASE (InputsChange /\ OnServer) \/ UNCHANGED vars
  <2>1. UNCHANGED <<owner, stage, attempt, sender, op, reply>>
    BY <1>9 DEF InputsChange, OnServer, vars, serverVars, clientVars
  <2> QED  BY <2>1, EffectKept
<1>10. CASE Damage /\ OnServer
  <2>1. /\ UNCHANGED <<owner, stage, attempt, sender, op>>
        /\ reply' = reply \/ (reply # NoFrame /\ reply' = [reply EXCEPT !.intact = FALSE])
    BY <1>10 DEF Damage, OnServer, clientVars
  <2>2. reply # NoFrame => [reply EXCEPT !.intact = FALSE].pdu = reply.pdu
    BY DEF Inv, TypeInv, ReplyRec
  <2>3. reply' = reply \/ (reply # NoFrame /\ reply'.pdu = reply.pdu)
    BY <2>1, <2>2
  <2> QED  BY <2>1, <2>3, EffectKept
<1> QED  BY <1>2, <1>3, <1>4, <1>5, <1>6, <1>7, <1>8, <1>9, <1>10 DEF Next

-----------------------------------------------------------------------------
(* The memory is implemented                                               *)

MemNow == [s \in Slaves |-> MemOf(s)]
LateNow == IF sender.live THEN NoCall ELSE sender.call

LEMMA MemKept ==
  ASSUME \A s \in Slaves : MemFrom(bank'[s], Device[s]) = MemFrom(bank[s], Device[s])
  PROVE  MemNow' = MemNow
<1>1. \A s \in Slaves : MemOf(s)' = MemOf(s)
  BY MemOfBank
<1> QED  BY <1>1 DEF MemNow

LEMMA StutterRefines ==
  ASSUME MemNow' = MemNow, LateNow' = LateNow, op' = op
  PROVE  [Memory!Next]_Memory!memoryVars
BY DEF Memory!memoryVars, MemNow, LateNow

LEMMA InvokeRefines ==
  ASSUME NEW c \in Callers, NEW r \in AllCalls \cup ProbeCalls, op[c].phase # "called",
         Invoke(c, r), MemNow' = MemNow, LateNow' = LateNow
  PROVE  Memory!Invoke(c)
<1>1. op' = [op EXCEPT ![c] = [Memory!Idle EXCEPT !.phase = "called", !.call = r]]
  BY DEF Invoke, IdleOp, Memory!Idle
<1> QED  BY <1>1 DEF Memory!Invoke, MemNow, LateNow

LEMMA RejectRefines ==
  ASSUME Inv, EffectOK, NEW c \in Callers, Reject(c)
  PROVE  Memory!Reject(c)
<1>1. /\ op[c].phase = "called" /\ ~Encodable(op[c].call) /\ Finish(c, "configuration", <<>>)
      /\ UNCHANGED <<bank, sender>>
  BY DEF Reject, serverVars
<1>2. op[c].effect = "none"
  <2>1. c # NoCaller
    BY ClientAssumption
  <2>2. owner # c
    BY <1>1, <2>1 DEF Inv, LockOK
  <2> QED  BY <1>1, <2>2 DEF EffectOK, OwnEffects
<1>3. MemNow' = MemNow /\ LateNow' = LateNow
  <2>1. MemNow' = MemNow
    BY <1>1, MemKept
  <2> QED  BY <1>1, <2>1 DEF LateNow
<1>4. Memory!Done(c, "configuration", <<>>)
  BY <1>1 DEF Finish, Memory!Done, IdleOp, Memory!Idle
<1> QED  BY <1>1, <1>2, <1>3, <1>4 DEF Memory!Reject, MemNow, LateNow

LEMMA InitRefines == Init => Memory!Init
<1> SUFFICES ASSUME Init PROVE Memory!Init
  OBVIOUS
<1>1. \A s \in Slaves : BankOK(bank[s], Device[s])
  BY InitInv DEF Inv, TypeInv
<1>2. Seq(Bit) \subseteq Seq(Nat) /\ Seq(Register) \subseteq Seq(Nat)
  <2>1. Bit \subseteq Nat /\ Register \subseteq Nat
    BY Bounds DEF Bit
  <2> QED  BY <2>1, SeqSubset
<1>3. ASSUME NEW s \in Slaves
      PROVE  MemOf(s) \in [Banks -> Seq(Nat)]
  <2> DEFINE m == MemFrom(bank[s], Device[s])
  <2>1. /\ m = [x \in Banks |-> m[x]]
        /\ m.coils \in Seq(Bit) /\ m.discrete \in Seq(Bit)
        /\ m.holding \in Seq(Register) /\ m.input \in Seq(Register)
    BY <1>1, MemProperties
  <2> HIDE DEF m
  <2>2. \A x \in Banks : m[x] \in Seq(Nat)
    BY <1>2, <2>1 DEF Banks
  <2>3. m \in [Banks -> Seq(Nat)]
    BY <2>1, <2>2
  <2> QED  BY <2>3, MemOfBank DEF m
<1>4. MemNow \in [Slaves -> [{"coils", "discrete", "holding", "input"} -> Seq(Nat)]]
  BY <1>3 DEF MemNow, Banks
<1>5. op = [c \in Callers |-> Memory!Idle]
  BY DEF Init, IdleOp, Memory!Idle
<1>6. LateNow = NoCall
  BY DEF Init, LateNow, NoSender
<1> QED  BY <1>4, <1>5, <1>6 DEF Memory!Init, MemNow, LateNow

LEMMA InputsRefine ==
  ASSUME Inv, InputsChange, OnServer
  PROVE  Memory!InputsChange
<1>1. PICK s \in Slaves, x \in Outside :
        bank' = [bank EXCEPT
             ![s].discrete = SetCoils(@, 0, [i \in 1..Device[s].discrete |-> x]),
             ![s].input = [i \in DOMAIN @ |-> 258 * x]]
  BY DEF InputsChange
<1>2. UNCHANGED <<op, sender>>
  BY DEF OnServer, clientVars
<1>3. \A t \in Slaves : bank'[t].coils = bank[t].coils /\ bank'[t].holding = bank[t].holding
  <2> DEFINE b == bank[s]
             e == SetCoils(b.discrete, 0, [i \in 1..Device[s].discrete |-> x])
             w == [i \in DOMAIN b.input |-> 258 * x]
  <2>1. DOMAIN bank = Slaves /\ b \in [coils : Seq(Byte), discrete : Seq(Byte),
                                       holding : Seq(Register), input : Seq(Register)]
    BY DEF Inv, TypeInv, BankOK
  <2>2. bank' = [bank EXCEPT ![s].discrete = e, ![s].input = w]
    BY <1>1, <2>1
  <2> HIDE DEF e, w
  <2> QED  BY <2>1, <2>2
<1>4. \A t \in Slaves : MemNow'[t].coils = MemNow[t].coils /\ MemNow'[t].holding = MemNow[t].holding
  BY <1>3, MemOfBank DEF MemNow, MemFrom
<1> QED  BY <1>2, <1>4 DEF Memory!InputsChange, MemNow, LateNow

(* Only a value comes with values.                                         *)
LEMMA RaisedEmpty ==
  ASSUME NEW r, NEW q, Kind(r, q) # "value"
  PROVE  Interpret(r, q).values = <<>>
<1>1. \A k : Raise(k).values = <<>>
  BY DEF Raise
<1>2. \A v : Answer(v).kind = "value"
  BY DEF Answer
<1>3. /\ DecodeReadBits(r, q).kind = "value" \/ DecodeReadBits(r, q).values = <<>>
      /\ DecodeReadRegisters(r, q).kind = "value" \/ DecodeReadRegisters(r, q).values = <<>>
      /\ DecodeEcho(r, q).kind = "value" \/ DecodeEcho(r, q).values = <<>>
  BY <1>1, <1>2 DEF DecodeReadBits, DecodeReadRegisters, DecodeEcho
<1> QED  BY <1>1, <1>3 DEF Interpret, Kind

(* The results of a call, as the memory gives them.                        *)
LEMMA ResultRefines ==
  ASSUME Inv, EffectOK, NEW c \in Callers, op[c].phase = "called", MemNow' = MemNow,
         LateNow' \in {LateNow, op[c].call}, NEW kind, NEW values, Memory!Done(c, kind, values),
         \/ /\ kind = "value" /\ values = op[c].seen /\ LateNow' = LateNow
            /\ op[c].call.to = 0 \/ op[c].effect = "exact"
         \/ /\ kind \in Memory!Refusals /\ values = <<>> /\ op[c].effect = "none"
            /\ op[c].call.to \in Slaves /\ Permission(op[c].call.to, op[c].call) = kind
            /\ LateNow' = LateNow
         \/ kind \in Memory!Failures /\ values = <<>>
  PROVE  Memory!Return(c) \/ Memory!Refused(c) \/ Memory!Fail(c)
<1>1. CASE /\ kind = "value" /\ values = op[c].seen /\ LateNow' = LateNow
           /\ op[c].call.to = 0 \/ op[c].effect = "exact"
  <2>1. Memory!Return(c)
    BY <1>1 DEF Memory!Return, MemNow, LateNow
  <2> QED  BY <2>1
<1>2. CASE /\ kind \in Memory!Refusals /\ values = <<>> /\ op[c].effect = "none"
           /\ op[c].call.to \in Slaves /\ Permission(op[c].call.to, op[c].call) = kind
           /\ LateNow' = LateNow
  <2>1. Memory!Refused(c)
    BY <1>2 DEF Memory!Refused, MemNow, LateNow
  <2> QED  BY <2>1
<1>3. CASE kind \in Memory!Failures /\ values = <<>>
  <2>1. Memory!Fail(c)
    BY <1>3 DEF Memory!Fail, MemNow, LateNow
  <2> QED  BY <2>1
<1> QED  BY <1>1, <1>2, <1>3

LEMMA EndRefines ==
  ASSUME Inv, EffectOK, NEW c \in Callers,
         Receive(c) \/ TimeOut(c) \/ Interrupt(c) \/ BroadcastSent(c)
  PROVE  [Memory!Next]_Memory!memoryVars
<1> DEFINE r == op[c].call
<1>1. Waiting(c) /\ UNCHANGED <<bank, request>>
  BY Ending
<1>2. PICK kind \in Kinds, values \in Seq(Int) :
        /\ End(c, kind, values)
        /\ \/ /\ Receive(c) /\ reply # NoFrame /\ reply.intact /\ op[c].call.to # 0
              /\ kind = Outcome(op[c].call, reply).kind
              /\ values = Outcome(op[c].call, reply).values
           \/ kind \in {"timeout", "lost", "cancelled", "checksum"} /\ values = <<>>
           \/ /\ BroadcastSent(c) /\ request = NoFrame /\ op[c].call.to = 0
              /\ kind = "value" /\ values = <<>>
  BY Ending
<1>3. owner = c /\ owner # NoCaller /\ stage = "waiting" /\ op[c].phase = "called"
  BY <1>1, ClientAssumption DEF Waiting, Inv, LockOK
<1>4. MemNow' = MemNow
  BY <1>1, MemKept
<1>5. CASE Retried(c, kind)
  <2>1. UNCHANGED <<op, sender>>
    BY <1>2, <1>5 DEF End
  <2>2. LateNow' = LateNow
    BY <2>1 DEF LateNow
  <2> QED  BY <1>4, <2>1, <2>2, StutterRefines
<1>6. CASE ~Retried(c, kind)
  <2>1. Finish(c, kind, values) /\ sender' = [sender EXCEPT !.live = FALSE]
    BY <1>2, <1>6 DEF End
  <2>2. Memory!Done(c, kind, values)
    BY <2>1 DEF Finish, Memory!Done, IdleOp, Memory!Idle
  <2>3. ~sender'.live /\ sender'.call = sender.call
    BY <2>1 DEF Inv, TypeInv, SenderRec
  <2>4. LateNow' = sender.call
    BY <2>3 DEF LateNow
  <2>5. LateNow' \in {LateNow, op[c].call}
    <3>1. sender.live => sender.call = op[c].call
      BY <1>3 DEF Inv, LockOK
    <3> QED  BY <2>4, <3>1 DEF LateNow
  <2>6. request = NoFrame => LateNow' = LateNow
    <3>1. request = NoFrame => sender.call = NoCall
      BY DEF Inv, LineOK, NoSender
    <3> QED  BY <2>4, <3>1 DEF LateNow
  <2>7. CASE /\ Receive(c) /\ reply # NoFrame /\ reply.intact /\ op[c].call.to # 0
             /\ kind = Outcome(op[c].call, reply).kind
             /\ values = Outcome(op[c].call, reply).values
    <3>1. request = NoFrame /\ r.to \in Slaves /\ AnswerOK(r, reply)
      BY <1>3, <2>7 DEF Inv, LineOK
    <3>2. AsCalled(r) /\ Encodable(r)
      BY <1>3, OwnerCall DEF Inv
    <3>3. reply.pdu \in Seq(Byte) /\ reply.pdu # <<>>
      BY <2>7 DEF Inv, TypeInv, ReplyRec, PduBytes
    <3>4. r.fc \in FunctionCodes
      BY <3>2 DEF AsCalled
    <3> HIDE DEF r
    <3>5. kind = Kind(r, reply.pdu) /\ values = Interpret(r, reply.pdu).values
      BY <2>7 DEF Outcome, Kind, r
    <3>6. kind \in {"value", "protocol", "unexpected", "index_error", "exception",
                    "illegal_function", "illegal_address", "illegal_value"}
      BY <3>3, <3>4, <3>5, InterpretKinds
    <3>7. kind # "value" => values = <<>>
      BY <3>5, RaisedEmpty
    <3>8. kind = "value" => op[c].effect = "exact" /\ values = op[c].seen
      BY <1>3, <2>7 DEF EffectOK, RepliesTell
    <3>9. kind \in Memory!Refusals => Permission(r.to, r) = kind /\ op[c].effect = "none"
      <4>1. kind \in Memory!Refusals => Permission(r.to, r) = kind
        BY <2>7, <3>1 DEF AnswerOK, r
      <4>2. kind \in Memory!Refusals => kind # "ok"
        BY DEF Memory!Refusals
      <4>3. op[c].effect # "none" => Permission(r.to, r) = "ok"
        <5>1. op[c].effect # "none" => Memory!Targets(r) # {}
          BY <1>3 DEF EffectOK, OwnEffects, r
        <5> QED  BY <3>1, <5>1, ContentReturned
      <4> QED  BY <4>1, <4>2, <4>3
    <3>10. kind \in {"value"} \cup Memory!Refusals \cup Memory!Failures
      BY <3>6 DEF Memory!Refusals, Memory!Failures
    <3>11. LateNow' = LateNow
      BY <2>6, <3>1
    <3>12. kind \in Memory!Refusals \cup Memory!Failures => kind # "value"
      BY DEF Memory!Refusals, Memory!Failures
    <3>13. \/ kind = "value" /\ values = op[c].seen /\ op[c].effect = "exact"
           \/ /\ kind \in Memory!Refusals /\ values = <<>> /\ op[c].effect = "none"
              /\ op[c].call.to \in Slaves /\ Permission(op[c].call.to, op[c].call) = kind
           \/ kind \in Memory!Failures /\ values = <<>>
      BY <3>1, <3>7, <3>8, <3>9, <3>10, <3>12 DEF r
    <3>14. Memory!Return(c) \/ Memory!Refused(c) \/ Memory!Fail(c)
      BY <1>3, <1>4, <2>2, <2>5, <3>11, <3>13, ResultRefines
    <3> QED  BY <3>14 DEF Memory!Next
  <2>8. CASE kind \in {"timeout", "lost", "cancelled", "checksum"} /\ values = <<>>
    <3>1. kind \in Memory!Failures
      BY <2>8 DEF Memory!Failures
    <3>2. Memory!Return(c) \/ Memory!Refused(c) \/ Memory!Fail(c)
      BY <1>3, <1>4, <2>2, <2>5, <2>8, <3>1, ResultRefines
    <3> QED  BY <3>2 DEF Memory!Next
  <2>9. CASE /\ BroadcastSent(c) /\ request = NoFrame /\ op[c].call.to = 0
             /\ kind = "value" /\ values = <<>>
    <3>1. op[c].seen = <<>>
      BY <1>3, <2>9 DEF EffectOK, OwnEffects
    <3>2. Memory!Return(c) \/ Memory!Refused(c) \/ Memory!Fail(c)
      BY <1>3, <1>4, <2>2, <2>5, <2>6, <2>9, <3>1, ResultRefines
    <3> QED  BY <3>2 DEF Memory!Next
  <2> QED  BY <1>2, <2>7, <2>8, <2>9
<1> QED  BY <1>5, <1>6

LEMMA ServeRefines ==
  ASSUME Inv, EffectOK, Serve
  PROVE  [Memory!Next]_Memory!memoryVars
<1>1. LateNow' = NoCall
  BY DEF Serve, NoSender, LateNow
<1>2. CASE sender.call = NoCall
  <2>1. MemNow' = MemNow
    BY <1>2, ServeForeign, MemKept
  <2>2. LateNow = NoCall
    BY <1>2 DEF LateNow
  <2>3. ~sender.live
    BY <1>2 DEF Inv, LockOK
  <2>4. op' = op
    BY <2>3, ServeRecords
  <2> QED  BY <1>1, <2>1, <2>2, <2>4, StutterRefines
<1>3. CASE sender.call # NoCall /\ sender.live
  <2>1. LateNow = NoCall
    BY <1>3 DEF LateNow
  <2>2. /\ owner # NoCaller /\ sender.call = op[owner].call
    BY <1>3 DEF Inv, LockOK
  <2>3. CASE op' = op /\ ~(sender.live /\ request.intact /\ Memory!Targets(sender.call) # {})
    <3>1. MemNow' = MemNow
      BY <1>3, <2>3, ServeTook, MemKept
    <3> QED  BY <1>1, <2>1, <2>3, <3>1, StutterRefines
  <2>4. CASE /\ request.intact /\ Memory!Targets(sender.call) # {}
             /\ op' = [op EXCEPT ![owner].effect = IF Memory!Stored(sender.call) THEN "exact"
                                                   ELSE "other",
                                 ![owner].seen = Memory!Content(sender.call)]
    <3>1. owner \in Callers /\ op[owner].phase = "called"
      BY <2>2, OwnerCall DEF Inv
    <3>2. sender.call.fc \in Reading \/ op[owner].effect = "none"
      BY <1>3, <2>2 DEF EffectOK, WritesOnce
    <3>3. Memory!Took(sender.call)
      BY <1>3, <2>4, ServeTook
    <3>4. Memory!Effect(owner)
      BY <1>1, <2>1, <2>2, <2>4, <3>1, <3>2, <3>3
         DEF Memory!Effect, Reading, LateNow, Memory!Took, Memory!Stored, Memory!Content,
             Memory!Targets, Memory!Cells
    <3> QED  BY <3>1, <3>4 DEF Memory!Next
  <2> QED  BY <2>3, <2>4, ServeRecords
<1>4. CASE sender.call # NoCall /\ ~sender.live
  <2>1. LateNow = sender.call
    BY <1>4 DEF LateNow
  <2>2. op' = op
    BY <1>4, ServeRecords
  <2>3. Memory!Took(sender.call) \/ MemNow' = MemNow
    BY <1>4, ServeTook, MemKept
  <2>4. Memory!Took(LateNow) \/ MemNow' = MemNow
    BY <2>1, <2>3 DEF Memory!Took, Memory!Targets, Memory!Cells
  <2>5. Memory!LateEffect
    BY <1>1, <1>4, <2>1, <2>2, <2>4 DEF Memory!LateEffect, LateNow, MemNow
  <2> QED  BY <2>5 DEF Memory!Next
<1> QED  BY <1>2, <1>3, <1>4

LEMMA StepRefines ==
  ASSUME Inv, EffectOK, [Next]_vars
  PROVE  [Memory!Next]_Memory!memoryVars
<1>1. team \subseteq Callers
  BY SetupTyped DEF Inv, TypeInv
<1>2. ASSUME NEW c \in team, Call(c) \/ StartProbe(c) \/ ProbeNext(c)
      PROVE  [Memory!Next]_Memory!memoryVars
  <2>1. c \in Callers /\ UNCHANGED <<bank, sender>>
    BY <1>1, <1>2 DEF Call, StartProbe, ProbeNext, serverVars
  <2>2. MemNow' = MemNow /\ LateNow' = LateNow
    <3>1. MemNow' = MemNow
      BY <2>1, MemKept
    <3> QED  BY <2>1, <3>1 DEF LateNow
  <2>3. CASE op' = op
    BY <2>2, <2>3, StutterRefines
  <2>4. CASE \E r \in AllCalls \cup ProbeCalls : op[c].phase # "called" /\ Invoke(c, r)
    <3>1. Memory!Invoke(c)
      BY <2>1, <2>2, <2>4, InvokeRefines
    <3> QED  BY <2>1, <3>1 DEF Memory!Next
  <2> QED  BY <1>2, <2>1, <2>3, <2>4, Invoking
<1>3. ASSUME NEW c \in team, Reject(c)
      PROVE  [Memory!Next]_Memory!memoryVars
  <2>1. c \in Callers /\ Memory!Reject(c)
    BY <1>1, <1>3, RejectRefines
  <2> QED  BY <2>1 DEF Memory!Next
<1>4. ASSUME NEW c \in team, Receive(c) \/ TimeOut(c) \/ Interrupt(c) \/ BroadcastSent(c)
      PROVE  [Memory!Next]_Memory!memoryVars
  BY <1>1, <1>4, EndRefines
<1>5. ASSUME NEW c \in team,
             Acquire(c) \/ SkipStray(c) \/ ForeignRequest(c) \/ ProbeFails(c) \/ Send(c)
      PROVE  [Memory!Next]_Memory!memoryVars
  <2>1. UNCHANGED <<bank, op>>
    BY <1>5 DEF Acquire, SkipStray, ForeignRequest, ProbeFails, Send, serverVars, clientVars
  <2>2. MemNow' = MemNow
    BY <2>1, MemKept
  <2>3. LateNow' = LateNow
    <3>1. CASE Send(c)
      <4>1. request = NoFrame /\ sender'.live
        BY <3>1 DEF Send
      <4>2. sender = NoSender
        BY <4>1 DEF Inv, LineOK
      <4> QED  BY <4>1, <4>2 DEF LateNow, NoSender
    <3>2. CASE Acquire(c) \/ SkipStray(c) \/ ForeignRequest(c) \/ ProbeFails(c)
      <4>1. sender' = sender
        BY <3>2 DEF Acquire, SkipStray, ForeignRequest, ProbeFails, clientVars
      <4> QED  BY <4>1 DEF LateNow
    <3> QED  BY <1>5, <3>1, <3>2
  <2> QED  BY <2>1, <2>2, <2>3, StutterRefines
<1>6. CASE Serve
  BY <1>6, ServeRefines
<1>7. CASE InputsChange /\ OnServer
  <2>1. Memory!InputsChange
    BY <1>7, InputsRefine
  <2> QED  BY <2>1 DEF Memory!Next
<1>8. CASE (Damage /\ OnServer) \/ UNCHANGED vars
  <2>1. UNCHANGED <<bank, op, sender>>
    BY <1>8 DEF Damage, OnServer, vars, serverVars, clientVars
  <2>2. MemNow' = MemNow /\ LateNow' = LateNow
    <3>1. MemNow' = MemNow
      BY <2>1, MemKept
    <3> QED  BY <2>1, <3>1 DEF LateNow
  <2> QED  BY <2>1, <2>2, StutterRefines
<1> QED  BY <1>2, <1>3, <1>4, <1>5, <1>6, <1>7, <1>8 DEF Next

(* The calls of slave handles read and write the registers of the slaves   *)
(* as a memory does: what returns a value took effect, once and as asked.  *)
(* It holds if a write is not sent again (retry_idempotent_only, or no     *)
(* retries), and no device both stores other values and answers amiss      *)
(* (slave.py, pdu.py and the mock).                                        *)
THEOREM MemoryImplemented ==
  ASSUME NoWriteRepeated, OneOverride
  PROVE  Spec => ReadsAndWritesMemory
<1>1. Init => EffectOK
  <2> SUFFICES ASSUME Init PROVE EffectOK
    OBVIOUS
  <2>1. /\ \A c \in Callers : op[c].phase = "idle"
        /\ owner = NoCaller /\ stage = "sending"
    BY OpRecords DEF Init, IdleOp
  <2> QED  BY <2>1 DEF EffectOK, OwnEffects, WritesOnce, RepliesTell
<1>2. Inv /\ EffectOK /\ [Next]_vars => EffectOK'
  BY NextEffects
<1>3. Init => Memory!Init
  BY InitRefines
<1>4. Inv /\ EffectOK /\ [Next]_vars => [Memory!Next]_Memory!memoryVars
  BY StepRefines
<1> QED  BY <1>1, <1>2, <1>3, <1>4, Invariance, PTL DEF Spec, ReadsAndWritesMemory, Memory!Spec
=============================================================================
