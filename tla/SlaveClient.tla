----------------------------- MODULE SlaveClient -----------------------------
(***************************************************************************)
(* anymodbus.slave on a line of mock slaves: calls of Slave and broadcasts *)
(* of Bus, their retries, and Slave.probe, which is made of such calls.    *)
(*                                                                         *)
(* ModbusBus keeps time, the lock and the late-reply window; here the lock *)
(* is its holder, a time out may strike at any moment, and a request is    *)
(* sent only when nothing of the one before is left: the window covers it  *)
(* (WindowCoversReply of ModbusBus_proofs).                                *)
(***************************************************************************)
EXTENDS MockServer

CONSTANTS
  Callers,        \* tasks, each with slave handles of its own
  Calls,          \* caller -> the calls it makes: [to, fc, address, count, values]
  Probes,         \* caller -> the slaves it probes
  Setups,         \* bound: the callers at work together, and the FaultPlans they meet
  Retries,        \* RetryPolicy.retries
  IdempotentOnly, \* RetryPolicy.retry_idempotent_only
  Walk,           \* _PROBE_ADDRESS_WALK
  Malformed,      \* caller -> requests it sends that no encoder makes: [to, pdu]
  NoCall, NoCaller, NoProbe

CallRec == [to : 0..247, fc : FunctionCodes, address : Int, count : Nat, values : Seq(Int)]

AllCalls == UNION {Calls[c] : c \in Callers}

ASSUME ClientAssumption ==
  /\ \A r \in AllCalls :
       /\ r \in CallRec /\ AsCalled(r)
       /\ r.to = 0 => r.fc \notin Reads \cup {Loopback}
  /\ DOMAIN Calls = Callers /\ DOMAIN Malformed = Callers
  /\ \A c \in Callers : \A m \in Malformed[c] :
       /\ m.to \in 0..247 /\ m.pdu \in Seq(0..255) /\ m.pdu # <<>>
       /\ m.pdu[1] \in FunctionCodes => ~WellFormedRequest(m.pdu)
  /\ Probes \in [Callers -> SUBSET Slaves]
  /\ Setups \subseteq [team : SUBSET Callers, plan : Plans]
  /\ Retries \in Nat /\ IdempotentOnly \in BOOLEAN
  /\ Walk \in Seq(0..MaxAddress) /\ Walk # <<>>
  /\ NoCaller \notin Callers /\ NoCall \notin CallRec

VARIABLES
  team,    \* the callers at work; it does not change
  op,      \* caller -> its call and what came of it at the slave, or its result
  owner,   \* the caller that holds the lock, or NoCaller
  stage,   \* "sending" or "waiting", for the owner
  attempt, \* the owner's attempt, from 0
  sender,  \* whose the request on the line is, and whether its call is not over
  probe,   \* caller -> the probe it is in, or NoProbe
  caps     \* caller -> slave -> Slave._capabilities: verdicts, or NoProbe

clientVars == <<team, op, owner, stage, attempt, sender, probe, caps>>
vars == <<serverVars, clientVars>>

Kinds == {"none", "value", "configuration", "protocol", "unexpected", "checksum",
          "timeout", "lost", "cancelled", "index_error", "exception",
          "illegal_function", "illegal_address", "illegal_value"}

NoSender == [by |-> NoCaller, call |-> NoCall, live |-> FALSE]

IdleOp == [phase |-> "idle", call |-> NoCall, kind |-> "none", values |-> <<>>,
           effect |-> "none", seen |-> <<>>]

-----------------------------------------------------------------------------
(* The memory that Registers specifies                                     *)

MemOf(s) ==
  [coils    |-> UnpackBits(bank[s].coils, Device[s].coils),
   discrete |-> UnpackBits(bank[s].discrete, Device[s].discrete),
   holding  |-> bank[s].holding,
   input    |-> bank[s].input]

(* What a slave's device makes of a call, by the call itself.               *)
Permission(s, r) ==
  IF r.fc \in Device[s].disabled THEN "illegal_function"
  ELSE IF r.fc = Loopback THEN "ok"
  ELSE IF r.count > Limit(s, r.fc) THEN "illegal_value"
  ELSE IF \/ r.address + r.count > Device[s][BankOf(r.fc)]
          \/ "from_one" \in Device[s].handle /\ r.address = 0 THEN "illegal_address"
  ELSE "ok"

ProbeCalls == [to : Slaves, fc : Reads, address : {Walk[i] : i \in DOMAIN Walk},
               count : {1}, values : {<<>>}]

Memory == INSTANCE Registers WITH
  mem       <- [s \in Slaves |-> MemOf(s)],
  late      <- IF sender.live THEN NoCall ELSE sender.call,
  Calls     <- AllCalls \cup ProbeCalls,
  Bank      <- BankOf,
  Reading   <- Reads \cup {Loopback},
  Permitted <- Permission,
  Exact     <- {s \in Slaves : "clamps" \notin Device[s].handle}

-----------------------------------------------------------------------------
(* Calls                                                                   *)

Invoke(c, r) ==
  op' = [op EXCEPT ![c] = [IdleOp EXCEPT !.phase = "called", !.call = r]]

Call(c) ==
  /\ op[c].phase # "called" /\ probe[c] = NoProbe
  /\ \E r \in Calls[c] : Invoke(c, r)
  /\ UNCHANGED <<serverVars, team, owner, stage, attempt, sender, probe, caps>>

Finish(c, kind, values) ==
  op' = [op EXCEPT ![c] = [IdleOp EXCEPT !.phase = "done", !.kind = kind, !.values = values]]

(* The encoders raise before anything is sent.                              *)
Reject(c) ==
  /\ op[c].phase = "called" /\ ~Encodable(op[c].call)
  /\ Finish(c, "configuration", <<>>)
  /\ UNCHANGED <<serverVars, team, owner, stage, attempt, sender, probe, caps>>

Acquire(c) ==
  /\ owner = NoCaller
  /\ op[c].phase = "called" /\ Encodable(op[c].call)
  /\ owner' = c /\ stage' = "sending" /\ attempt' = 0
  /\ UNCHANGED <<serverVars, team, op, sender, probe, caps>>

Send(c) ==
  /\ owner = c /\ stage = "sending"
  /\ request = NoFrame
  /\ request' = [to |-> op[c].call.to, pdu |-> EncodeRequest(op[c].call), intact |-> TRUE]
  /\ reply' = NoFrame
  /\ sender' = [by |-> c, call |-> op[c].call, live |-> TRUE]
  /\ stage' = "waiting"
  /\ UNCHANGED <<bank, plan, emitted, fired, team, op, owner, attempt, probe, caps>>

RetriedOnceMore(c, kind) ==
  /\ attempt <= Retries
  /\ kind \in {"timeout", "checksum", "protocol", "unexpected"}
  /\ IdempotentOnly => op[c].call.fc \in Reads \cup {Loopback}

(* RetryPolicy.should_retry.                                                *)
Retried(c, kind) ==
  /\ attempt < Retries
  /\ kind \in {"timeout", "checksum", "protocol", "unexpected"}
  /\ IdempotentOnly => op[c].call.fc \in Reads \cup {Loopback}

End(c, kind, values) ==
  IF Retried(c, kind)
  THEN attempt' = attempt + 1 /\ stage' = "sending" /\ UNCHANGED <<op, owner, sender>>
  ELSE /\ Finish(c, kind, values)
       /\ owner' = NoCaller /\ stage' = "sending" /\ attempt' = 0
       /\ sender' = [sender EXCEPT !.live = FALSE]

(* What arrives after its attempt is thrown away (_discard_late_bytes).     *)
Discard == reply' = NoFrame /\ UNCHANGED <<bank, plan, emitted, fired, request>>

Waiting(c) == owner = c /\ stage = "waiting"

Receive(c) ==
  /\ Waiting(c) /\ op[c].call.to # 0
  /\ reply # NoFrame /\ reply.from = op[c].call.to
  /\ LET out == IF reply.intact THEN Interpret(op[c].call, reply.pdu) ELSE Raise("checksum")
     IN End(c, out.kind, out.values)
  /\ reply' = NoFrame
  /\ UNCHANGED <<bank, plan, emitted, fired, request, team, probe, caps>>

(* A reply in another slave's name is skipped.                              *)
SkipStray(c) ==
  /\ Waiting(c) /\ op[c].call.to # 0
  /\ reply # NoFrame /\ reply.from # op[c].call.to
  /\ reply' = NoFrame
  /\ UNCHANGED <<bank, plan, emitted, fired, request, clientVars>>

TimeOut(c) ==
  /\ Waiting(c) /\ op[c].call.to # 0
  /\ End(c, "timeout", <<>>)
  /\ Discard
  /\ UNCHANGED <<team, probe, caps>>

(* The turnaround covers what the slaves do.                                *)
BroadcastSent(c) ==
  /\ Waiting(c) /\ op[c].call.to = 0
  /\ request = NoFrame
  /\ End(c, "value", <<>>)
  /\ UNCHANGED <<serverVars, team, probe, caps>>

(* The stream fails or the call is cancelled, after its request was sent.   *)
Interrupt(c) ==
  /\ Waiting(c)
  /\ \E kind \in {"lost", "cancelled"} : End(c, kind, <<>>)
  /\ Discard
  /\ UNCHANGED <<team, probe, caps>>

(* MockServer serves the request.  effect and seen record what came of it,  *)
(* by the call and not by its bytes.                                        *)
Serve ==
  /\ DropRequest \/ ServeBroadcast \/ ServeRequest
  /\ op' = IF sender.live /\ request.intact /\ Memory!Targets(sender.call) # {}
           THEN [op EXCEPT
                  ![sender.by].effect = IF Memory!Stored(sender.call) THEN "exact" ELSE "other",
                  ![sender.by].seen = Memory!Content(sender.call)]
           ELSE op
  /\ sender' = NoSender
  /\ UNCHANGED <<team, owner, stage, attempt, probe, caps>>

(* A caller that writes requests of its own to the line, malformed.         *)
ForeignRequest(c) ==
  /\ owner = NoCaller /\ request = NoFrame
  /\ \E m \in Malformed[c] : request' = [to |-> m.to, pdu |-> m.pdu, intact |-> TRUE]
  /\ reply' = NoFrame
  /\ UNCHANGED <<bank, plan, emitted, fired, clientVars>>

-----------------------------------------------------------------------------
(* Slave.probe.  One list of verdicts is built; a silent slave ends the     *)
(* asking.  told is a record of what was asked and came back.               *)

Verdicts == {"supported", "unsupported", "unknown"}
ProbeFcs == <<1, 2, 3, 4>>

ProbeCall(s, fc, i) == [to |-> s, fc |-> fc, address |-> Walk[i], count |-> 1, values |-> <<>>]

StartProbe(c) ==
  /\ op[c].phase # "called" /\ probe[c] = NoProbe
  /\ \E s \in Probes[c] :
       /\ Invoke(c, ProbeCall(s, ProbeFcs[1], 1))
       /\ probe' = [probe EXCEPT ![c] = [to |-> s, walk |-> 1, verdicts |-> <<>>, told |-> {}]]
  /\ UNCHANGED <<serverVars, team, owner, stage, attempt, sender, caps>>

Silent(kind) == kind \in {"timeout", "lost"}

VerdictLumped(kind) ==
  IF kind = "value" THEN "supported"
  ELSE IF kind \in {"illegal_function", "illegal_address"} THEN "unsupported" ELSE "unknown"

Verdict(kind) ==
  CASE kind = "value"            -> "supported"
    [] kind = "illegal_function" -> "unsupported"
    [] OTHER                     -> "unknown"

(* The read codes not asked any more, and the writes, are unknown.          *)
Report(verdicts) ==
  [fc \in Reads \cup {WriteCoil, WriteRegister, WriteCoils, WriteRegisters} |->
     IF fc \in DOMAIN verdicts THEN verdicts[fc] ELSE "unknown"]

ProbeOver(c, verdicts) ==
  /\ caps' = [caps EXCEPT ![c][probe[c].to] = Report(verdicts)]
  /\ probe' = [probe EXCEPT ![c] = NoProbe]
  /\ UNCHANGED op

ProbeNext(c) ==
  LET p    == probe[c]
      kind == op[c].kind
      fc   == ProbeFcs[Len(p.verdicts) + 1]
      told == p.told \cup {<<fc, kind>>}
      verdicts == Append(p.verdicts, Verdict(kind))
  IN
  /\ p # NoProbe /\ op[c].phase = "done"
  /\ \/ /\ kind = "illegal_address" /\ p.walk < Len(Walk)
        /\ Invoke(c, ProbeCall(p.to, fc, p.walk + 1))
        /\ probe' = [probe EXCEPT ![c].walk = @ + 1, ![c].told = told]
        /\ UNCHANGED caps
     \/ /\ \/ kind \in {"value", "illegal_function"}
           \/ kind = "illegal_address" /\ p.walk = Len(Walk)
        /\ IF Len(verdicts) = Len(ProbeFcs) THEN ProbeOver(c, verdicts)
           ELSE /\ Invoke(c, ProbeCall(p.to, ProbeFcs[Len(verdicts) + 1], 1))
                /\ probe' = [probe EXCEPT ![c] = [to |-> p.to, walk |-> 1,
                                                  verdicts |-> verdicts, told |-> told]]
                /\ UNCHANGED caps
     \/ Silent(kind) /\ ProbeOver(c, verdicts)
  /\ UNCHANGED <<serverVars, team, owner, stage, attempt, sender>>

ProbeFailsCached(c) ==
  /\ probe[c] # NoProbe /\ op[c].phase = "done"
  /\ op[c].kind \notin {"value", "illegal_function", "illegal_address", "timeout", "lost"}
  /\ ProbeOver(c, probe[c].verdicts)
  /\ UNCHANGED <<serverVars, team, owner, stage, attempt, sender>>

(* Any other error leaves probe, and the cache as it was.                   *)
ProbeFails(c) ==
  /\ probe[c] # NoProbe /\ op[c].phase = "done"
  /\ op[c].kind \notin {"value", "illegal_function", "illegal_address", "timeout", "lost"}
  /\ probe' = [probe EXCEPT ![c] = NoProbe]
  /\ UNCHANGED <<serverVars, team, op, owner, stage, attempt, sender, caps>>
-----------------------------------------------------------------------------
Init ==
  /\ \E x \in Setups : team = x.team /\ plan = x.plan
  /\ ServerInit
  /\ op = [c \in Callers |-> IdleOp]
  /\ owner = NoCaller /\ stage = "sending" /\ attempt = 0
  /\ sender = NoSender
  /\ probe = [c \in Callers |-> NoProbe]
  /\ caps = [c \in Callers |-> [s \in Slaves |-> NoProbe]]

OnServer == UNCHANGED clientVars

Next ==
  \/ \E c \in team :
       \/ Call(c) \/ Reject(c) \/ Acquire(c) \/ Send(c) \/ Receive(c) \/ SkipStray(c)
       \/ TimeOut(c) \/ BroadcastSent(c) \/ Interrupt(c)
       \/ StartProbe(c) \/ ProbeNext(c) \/ ProbeFails(c)
       \/ ForeignRequest(c)
  \/ Serve
  \/ InputsChange /\ OnServer
  \/ Damage /\ OnServer

Spec == Init /\ [][Next]_vars

-----------------------------------------------------------------------------
(* Properties                                                              *)

(* Every variable holds a value of its kind.                               *)
TypeOK ==
  /\ \A s \in Slaves : \A b \in Banks :
       /\ DOMAIN bank[s][b] = DOMAIN EmptyBank(Device[s])[b]
       /\ \A i \in DOMAIN bank[s][b] :
            bank[s][b][i] \in IF b \in {"coils", "discrete"} THEN 0..255 ELSE 0..MaxRegisterValue
  /\ [team |-> team, plan |-> plan] \in Setups
  /\ emitted \in [Slaves -> 0..IndexMax]
  /\ fired \in [Slaves -> [drop : 0..2, corrupt : 0..2]]
  /\ \A f \in {request, reply} \ {NoFrame} :
       /\ f.intact \in BOOLEAN
       /\ \A i \in DOMAIN f.pdu : f.pdu[i] \in 0..255
  /\ \A c \in Callers :
       /\ op[c].phase \in {"idle", "called", "done"}
       /\ op[c].kind \in Kinds /\ op[c].effect \in {"none", "exact", "other"}
       /\ op[c].call \in AllCalls \cup ProbeCalls \cup {NoCall}
       /\ probe[c] # NoProbe =>
            /\ probe[c].walk \in DOMAIN Walk
            /\ Len(probe[c].verdicts) < Len(ProbeFcs)
  /\ owner \in Callers \cup {NoCaller}
  /\ stage \in {"sending", "waiting"} /\ attempt \in 0..Retries

(* slave.py, pdu.py and the mock together: the calls of a slave handle read *)
(* and write its registers as the memory that Registers specifies.          *)
ReadsAndWritesMemory == Memory!Spec

(* The layout of the protocol, apart from how the codecs undo each other:   *)
(* coil n is bit n of the data read as one little-endian number, the bits   *)
(* past the last coil are zero, and registers follow each other high byte   *)
(* first (pdu.py, PackBits and PackWords).                                  *)
WireLayout ==
  (request # NoFrame /\ sender.call # NoCall /\ sender.call.fc \in WriteMultiple) =>
    LET data == SubSeq(request.pdu, 7, Len(request.pdu))
        values == sender.call.values IN
    IF sender.call.fc = WriteCoils THEN Number(data, 256) = Number(values, 2)
    ELSE /\ Len(data) = 2 * Len(values)
         /\ \A i \in DOMAIN values : 256 * data[2 * i - 1] + data[2 * i] = values[i]

(* A PDU's length on the RTU line, told from its first bytes by a table.    *)
AfterHead(pdu) == Len(pdu) - 1 + CrcLen
RequestFits(pdu) ==
  LET fc == pdu[1] IN
  IF fc \in DOMAIN RequestFixedTail THEN AfterHead(pdu) = RequestFixedTail[fc]
  ELSE LET at == RequestByteCountPrefix[fc] IN
       AfterHead(pdu) = at + 1 + pdu[at + 2] + CrcLen
ReplyFits(pdu) ==
  LET fc == pdu[1] IN
  IF IsException(fc) THEN AfterHead(pdu) = 1 + CrcLen
  ELSE IF fc \in ByteCount1B THEN AfterHead(pdu) = 1 + pdu[2] + CrcLen
  ELSE AfterHead(pdu) = FixedTail[fc]

(* The codecs of pdu.py and the length tables of framer.py agree: every     *)
(* request sent, and every reply of a slave that answers as asked, is as    *)
(* long as the RTU framer will read it.                                     *)
FramerKnowsLength ==
  /\ (request # NoFrame /\ sender.call # NoCall) => RequestFits(request.pdu)
  /\ (reply # NoFrame /\ reply.from \in Slaves /\ "distorts" \notin Device[reply.from].handle) =>
       ReplyFits(reply.pdu)

(* A fault of FaultPlan strikes one response and no more, although the      *)
(* response it strikes, and those that are refusals, count (mock            *)
(* send_response).                                                          *)
OneShotFaults == \A s \in Slaves : fired[s].drop <= 1 /\ fired[s].corrupt <= 1

(* What probe has cached is true of the slave: a read function code is      *)
(* called supported or unsupported only as the device has it, whatever was  *)
(* lost, damaged, misaddressed or answered amiss.                           *)
VerdictTrue ==
  \A c \in Callers, s \in Slaves : caps[c][s] # NoProbe =>
    \A fc \in DOMAIN caps[c][s] :
      /\ caps[c][s][fc] = "unsupported" => fc \in Device[s].disabled
      /\ caps[c][s][fc] = "supported"   => fc \notin Device[s].disabled

Backed(report, told) ==
  /\ \A t \in told : t[2] \in {"value", "illegal_function", "illegal_address", "timeout", "lost"}
  /\ Cardinality({t \in told : Silent(t[2])}) <= 1
  /\ \A fc \in Reads :
       /\ report[fc] = "supported"   <=> <<fc, "value">> \in told
       /\ report[fc] = "unsupported" <=> <<fc, "illegal_function">> \in told
       /\ report[fc] = "unknown" =>
            \/ <<fc, "illegal_address">> \in told
            \/ \E t \in told : Silent(t[2]) /\ t[1] <= fc

(* The cache of a handle changes as a whole, when a probe has ended without *)
(* any other error, and each of its verdicts comes from that probe: probe   *)
(* stops asking at the first silence (Slave.probe).                         *)
CacheBacked ==
  [][\A c \in Callers, s \in Slaves : caps'[c][s] # caps[c][s] =>
       /\ probe[c] # NoProbe
       /\ Backed(caps'[c][s],
                 probe[c].told \cup {<<ProbeFcs[Len(probe[c].verdicts) + 1], op[c].kind>>})]_vars
=============================================================================
