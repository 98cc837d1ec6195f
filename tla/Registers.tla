------------------------------ MODULE Registers ------------------------------
(***************************************************************************)
(* What a slave handle promises: its calls read and write the registers of *)
(* the slaves as if they were a memory.  A call that returns a value took  *)
(* effect, once and exactly as asked, between its start and its return; a  *)
(* refused one has changed nothing; one that fails in any other way may or *)
(* may not have taken effect, and may still do so after it has failed.     *)
(***************************************************************************)
EXTENDS Integers, Sequences

CONSTANTS
  Callers,
  Calls,     \* the calls made: [to, fc, address, count, values]
  Slaves,
  Bank(_),   \* function code -> the bank it reads or writes
  Reading,   \* the function codes that read, the loopback among them
  Loopback,
  Permitted(_, _), \* slave, call -> "ok", or the kind of refusal the slave gives
  Exact,     \* the slaves that store what they are told
  NoCall

VARIABLES
  mem,  \* slave -> bank -> its bits or registers
  op,   \* caller -> its call and how far it has got
  late  \* a call that has failed and may still take effect, or NoCall

memoryVars == <<mem, op, late>>

Refusals == {"illegal_function", "illegal_address", "illegal_value"}
Failures == {"timeout", "checksum", "protocol", "unexpected", "index_error", "exception",
             "lost", "cancelled"}

Idle == [phase |-> "idle", call |-> NoCall, kind |-> "none", values |-> <<>>,
         effect |-> "none", seen |-> <<>>]

Targets(r) == {s \in Slaves : r.to \in {0, s} /\ Permitted(s, r) = "ok"}

Cells(r) == r.address + 1 .. r.address + r.count

Done(c, kind, values) ==
  op' = [op EXCEPT ![c] = [Idle EXCEPT !.phase = "done", !.kind = kind, !.values = values]]

Content(r) ==
  IF r.to \notin Slaves \/ Targets(r) = {} THEN <<>>
  ELSE IF r.fc = Loopback THEN r.values
  ELSE IF r.fc \in Reading
  THEN SubSeq(mem[r.to][Bank(r.fc)], r.address + 1, r.address + r.count)
  ELSE <<>>

(* mem as r leaves it, where a slave that is not Exact may store another    *)
(* value in the registers that r names.                                     *)
Took(r) ==
  /\ DOMAIN mem' = Slaves
  /\ \A s \in Slaves : \A b \in DOMAIN mem[s] :
       /\ DOMAIN mem'[s][b] = DOMAIN mem[s][b]
       /\ \A i \in DOMAIN mem[s][b] :
            IF s \in Targets(r) /\ r.fc \notin Reading /\ b = Bank(r.fc) /\ i \in Cells(r)
            THEN s \in Exact => mem'[s][b][i] = r.values[i - r.address]
            ELSE mem'[s][b][i] = mem[s][b][i]

Stored(r) ==
  \A s \in Targets(r) : r.fc \in Reading \/
    \A i \in Cells(r) : mem'[s][Bank(r.fc)][i] = r.values[i - r.address]

Invoke(c) ==
  /\ op[c].phase # "called"
  /\ \E r \in Calls : op' = [op EXCEPT ![c] = [Idle EXCEPT !.phase = "called", !.call = r]]
  /\ UNCHANGED <<mem, late>>

(* A write takes effect at most once; a read may be repeated.               *)
Effect(c) ==
  LET r == op[c].call IN
  /\ op[c].phase = "called"
  /\ r.fc \in Reading \/ op[c].effect = "none"
  /\ Targets(r) # {}
  /\ Took(r)
  /\ op' = [op EXCEPT ![c].effect = IF Stored(r) THEN "exact" ELSE "other",
                      ![c].seen = Content(r)]
  /\ UNCHANGED late

Refused(c) ==
  LET r == op[c].call IN
  /\ op[c].phase = "called"
  /\ op[c].effect = "none"
  /\ \E k \in Refusals :
       /\ r.to \in Slaves /\ Permitted(r.to, r) = k
       /\ Done(c, k, <<>>)
  /\ UNCHANGED <<mem, late>>

Return(c) ==
  /\ op[c].phase = "called"
  /\ op[c].call.to = 0 \/ op[c].effect = "exact"
  /\ Done(c, "value", op[c].seen)
  /\ UNCHANGED <<mem, late>>

(* Bad arguments: nothing was sent.                                         *)
Reject(c) ==
  /\ op[c].phase = "called" /\ op[c].effect = "none"
  /\ Done(c, "configuration", <<>>)
  /\ UNCHANGED <<mem, late>>

Fail(c) ==
  /\ op[c].phase = "called"
  /\ \E k \in Failures : Done(c, k, <<>>)
  /\ late' \in {late, op[c].call}
  /\ UNCHANGED mem

LateEffect ==
  /\ late # NoCall
  /\ late' = NoCall
  /\ Took(late) \/ mem' = mem
  /\ UNCHANGED op

(* Inputs are the device's own.                                             *)
InputsChange ==
  /\ \A s \in Slaves : /\ mem'[s].coils = mem[s].coils
                       /\ mem'[s].holding = mem[s].holding
  /\ UNCHANGED <<op, late>>

Init ==
  /\ mem \in [Slaves -> [{"coils", "discrete", "holding", "input"} -> Seq(Nat)]]
  /\ op = [c \in Callers |-> Idle]
  /\ late = NoCall

Next ==
  \/ \E c \in Callers : \/ Invoke(c) \/ Effect(c) \/ Refused(c)
                        \/ Return(c) \/ Reject(c) \/ Fail(c)
  \/ LateEffect
  \/ InputsChange

Spec == Init /\ [][Next]_memoryVars
=============================================================================
