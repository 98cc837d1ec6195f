----------------------------- MODULE MockServer -----------------------------
(***************************************************************************)
(* anymodbus.testing: the slaves of one line, their register banks, and    *)
(* the server that answers requests for them one at a time.                *)
(***************************************************************************)
EXTENDS Pdu, FrameTables, FiniteSets

CONSTANTS
  Slaves,   \* the addresses MockServer serves
  Device,   \* address -> MockSlave's arguments, and how its handle is overridden
  Plans,    \* slave -> its FaultPlan: those it may have
  Outside,  \* values the device's discrete inputs and input registers take
  IndexMax, \* bound: responses counted
  NoFrame

Never == -1  \* a FaultPlan field that is None

(* How a subclass overrides handle: "distorts" also answers amiss; "clamps" *)
(* stores and echoes a smaller value than it is given; "from_one" has       *)
(* nothing at address 0.                                                    *)
Overrides == {"distorts", "clamps", "from_one"}
Banks == {"coils", "discrete", "holding", "input"}
Limits == [bits : 1..MaxReadBits, registers : 1..MaxReadRegisters,
           writeCoils : 1..MaxWriteCoils, writeRegisters : 1..MaxWriteRegisters]

ASSUME ServerAssumption ==
  /\ Slaves \subseteq 1..247
  /\ Device \in [Slaves -> [coils : Nat, discrete : Nat, holding : Nat, input : Nat,
                            disabled : SUBSET (0..255), limits : Limits, handle : SUBSET Overrides]]
  /\ Plans \subseteq [Slaves -> [corrupt : Int, drop : Int, wrong : Int]]
  /\ Outside \subseteq 0..1
  /\ IndexMax \in Nat /\ \A p \in Plans, s \in Slaves :
                        p[s].drop < IndexMax /\ p[s].corrupt < IndexMax
  /\ NoFrame \notin [to : 0..247, pdu : Seq(0..255), intact : BOOLEAN]
  /\ NoFrame \notin [from : Int, pdu : Seq(0..255), intact : BOOLEAN]

VARIABLES
  bank,    \* slave -> its four register banks; bits are packed in bytes
  plan,    \* slave -> its FaultPlan
  emitted, \* slave -> MockSlave._responses_emitted, up to IndexMax
  fired,   \* slave -> how often each one-shot fault has fired, up to 2
  request, \* the request frame on the line, or NoFrame
  reply    \* the reply frame on the line, or NoFrame

serverVars == <<bank, plan, emitted, fired, request, reply>>

-----------------------------------------------------------------------------
(* A slave's register banks                                                *)

BankOf(fc) ==
  CASE fc \in {1, WriteCoil, WriteCoils}         -> "coils"
    [] fc = 2                                    -> "discrete"
    [] fc \in {3, WriteRegister, WriteRegisters} -> "holding"
    [] fc = 4                                    -> "input"

EmptyBank(d) ==
  [coils    |-> [k \in 1..BitBytes(d.coils) |-> 0],
   discrete |-> [k \in 1..BitBytes(d.discrete) |-> 0],
   holding  |-> [i \in 1..d.holding |-> 0],
   input    |-> [i \in 1..d.input |-> 0]]

Limit(s, fc) ==
  CASE fc \in ReadBits      -> Device[s].limits.bits
    [] fc \in ReadRegisters -> Device[s].limits.registers
    [] fc = WriteCoils      -> Device[s].limits.writeCoils
    [] fc = WriteRegisters  -> Device[s].limits.writeRegisters
    [] OTHER                -> 1

(* MockSlave._read_bits and _read_registers.                                *)
Contents(b, r) ==
  IF OfBits(r.fc) THEN [i \in 1..r.count |-> BitAt(b[BankOf(r.fc)], r.address + i - 1)]
  ELSE SubSeq(b[BankOf(r.fc)], r.address + 1, r.address + r.count)

SetCoils(bytes, a, bits) ==
  PackBits([i \in 1..(8 * Len(bytes)) |->
              IF i - a \in DOMAIN bits THEN bits[i - a] ELSE BitAt(bytes, i - 1)])
SetRegisters(words, a, values) ==
  [i \in DOMAIN words |-> IF i - a \in DOMAIN values THEN values[i - a] ELSE words[i]]

Written(b, r) ==
  CASE r.fc \in {WriteCoil, WriteCoils} ->
         [b EXCEPT !.coils = SetCoils(@, r.address, r.values)]
    [] r.fc \in {WriteRegister, WriteRegisters} ->
         [b EXCEPT !.holding = SetRegisters(@, r.address, r.values)]
    [] OTHER -> b

(* The exception code a request is refused with; 0 if it is answered.       *)
Refusal(s, pdu) ==
  LET fc == pdu[1]
      r  == DecodeRequest(pdu)
      unknown == \/ fc \in Device[s].disabled \/ fc \notin FunctionCodes
                 \/ fc = Loopback /\ Len(pdu) = 5 /\ WordAt(pdu, 2) # 0
      outside == \/ r.address + r.count > Device[s][BankOf(fc)]
                 \/ "from_one" \in Device[s].handle /\ r.address = 0
  IN IF unknown THEN 1
     ELSE IF ~WellFormedRequest(pdu) THEN 3
     ELSE IF fc = Loopback THEN 0
     ELSE IF r.count > Limit(s, fc) THEN 3
     ELSE IF outside THEN 2
     ELSE 0

(* What the handle of a slave makes of a value it is asked to store.        *)
Stored(s, r) ==
  IF "clamps" \in Device[s].handle /\ r.fc = WriteRegister
  THEN [r EXCEPT !.values = <<IF @[1] > 1 THEN 1 ELSE @[1]>>] ELSE r

(* Replies that do not answer their request: cut short, too long, of        *)
(* another function code, with another byte count or another echo.          *)
Amiss(pdu) ==
  LET n == Len(pdu)
      shorter(k) == [SubSeq(pdu, 1, n - k) EXCEPT ![2] = @ - k]
  IN {SubSeq(pdu, 1, n - 1), Append(pdu, 0), <<128 + (pdu[1] % 128)>>,
      ExceptionResponse(pdu[1] % 128, 4)}
     \cup {[pdu EXCEPT ![1] = x] : x \in {0, (pdu[1] + 1) % 256}}
     \cup (IF pdu[1] \in Reads
           THEN {[pdu EXCEPT ![2] = @ + 1]} \cup
                {shorter(k) : k \in {k \in {1, 2} : k <= pdu[2]}}
           ELSE IF pdu[1] >= 128 THEN {}
           ELSE {[pdu EXCEPT ![i] = (@ + 1) % 256] : i \in 2..n})

Replies(s, pdu, b) ==
  LET r == Stored(s, DecodeRequest(pdu))
      answer == IF Refusal(s, pdu) # 0 THEN ExceptionResponse(pdu[1] % 128, Refusal(s, pdu))
                ELSE EncodeResponse(r, IF r.fc \in Reads THEN Contents(b, r) ELSE <<>>)
  IN {answer} \cup (IF "distorts" \in Device[s].handle THEN Amiss(answer) ELSE {})

Handled(s, pdu) ==
  IF Refusal(s, pdu) # 0 THEN bank[s] ELSE Written(bank[s], Stored(s, DecodeRequest(pdu)))

-----------------------------------------------------------------------------
(* MockServer.serve                                                        *)

Upto(n, max) == IF n > max THEN max ELSE n

Index(s) == emitted[s]

SendResponseUncounted(s, pdu) ==
  LET p == plan[s] IN
  IF Index(s) = p.drop
  THEN /\ reply' = NoFrame
       /\ fired' = [fired EXCEPT ![s].drop = Upto(@ + 1, 2)]
       /\ UNCHANGED emitted
  ELSE /\ emitted' = [emitted EXCEPT ![s] = Upto(@ + 1, IndexMax)]
       /\ reply' = [from |-> IF p.wrong = Never THEN s ELSE p.wrong,
                    pdu |-> pdu, intact |-> Index(s) # p.corrupt]
       /\ fired' = [fired EXCEPT ![s].corrupt =
                      IF Index(s) = p.corrupt THEN Upto(@ + 1, 2) ELSE @]

(* MockSlave.send_response.  A delay is the time a reply stays on the line. *)
SendResponse(s, pdu) ==
  LET p == plan[s] IN
  /\ emitted' = [emitted EXCEPT ![s] = Upto(@ + 1, IndexMax)]
  /\ IF Index(s) = p.drop
     THEN /\ reply' = NoFrame
          /\ fired' = [fired EXCEPT ![s].drop = Upto(@ + 1, 2)]
     ELSE /\ reply' = [from |-> IF p.wrong = Never THEN s ELSE p.wrong,
                       pdu |-> pdu, intact |-> Index(s) # p.corrupt]
          /\ fired' = [fired EXCEPT ![s].corrupt =
                         IF Index(s) = p.corrupt THEN Upto(@ + 1, 2) ELSE @]

(* A damaged request, or one for a slave that is not there.                 *)
DropRequest ==
  /\ request # NoFrame
  /\ ~request.intact \/ request.to \notin Slaves \cup {0}
  /\ request' = NoFrame
  /\ UNCHANGED <<bank, plan, emitted, fired, reply>>

ServeBroadcast ==
  /\ request # NoFrame /\ request.intact /\ request.to = 0
  /\ bank' = [s \in Slaves |-> Handled(s, request.pdu)]
  /\ request' = NoFrame
  /\ UNCHANGED <<plan, emitted, fired, reply>>

ServeRequest ==
  /\ request # NoFrame /\ request.intact /\ request.to \in Slaves
  /\ LET s == request.to
         pdu == request.pdu IN
     /\ bank' = [bank EXCEPT ![s] = Handled(s, pdu)]
     /\ IF pdu[1] % 128 = 0 THEN UNCHANGED <<emitted, fired, reply>>
        ELSE \E answer \in Replies(s, pdu, bank[s]) : SendResponse(s, answer)
  /\ request' = NoFrame
  /\ UNCHANGED plan

(* The device's own inputs change.                                          *)
InputsChange ==
  \E s \in Slaves, x \in Outside :
    /\ bank' = [bank EXCEPT
         ![s].discrete = SetCoils(@, 0, [i \in 1..Device[s].discrete |-> x]),
         ![s].input = [i \in DOMAIN @ |-> 258 * x]]
    /\ bank' # bank
    /\ UNCHANGED <<plan, emitted, fired, request, reply>>

(* Damage on the line.                                                      *)
Damage ==
  /\ \/ /\ request # NoFrame /\ request.intact
        /\ request' = [request EXCEPT !.intact = FALSE]
        /\ UNCHANGED reply
     \/ /\ reply # NoFrame /\ reply.intact
        /\ reply' = [reply EXCEPT !.intact = FALSE]
        /\ UNCHANGED request
  /\ UNCHANGED <<bank, plan, emitted, fired>>

ServerInit ==
  /\ bank = [s \in Slaves |-> EmptyBank(Device[s])]
  /\ plan \in Plans
  /\ emitted = [s \in Slaves |-> 0]
  /\ fired = [s \in Slaves |-> [drop |-> 0, corrupt |-> 0]]
  /\ request = NoFrame /\ reply = NoFrame
=============================================================================
