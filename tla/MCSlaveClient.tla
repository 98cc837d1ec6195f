--------------------------- MODULE MCSlaveClient ---------------------------
(* Small instances of SlaveClient for TLC.                                 *)
EXTENDS SlaveClient, TLC

CONSTANTS c1, c2, c3, c4, c5, c6

MCLimits == [bits |-> 10, registers |-> 2, writeCoils |-> 10, writeRegisters |-> 2]

(* Slave 1 has coils over a byte's edge, a small cap on registers, no FC 4  *)
(* and a handle that clamps; slave 2 answers amiss, lacks FC 2, has no      *)
(* input registers, and begins at address 1.                                *)
MCDevice ==
  1 :> [coils |-> 10, discrete |-> 1, holding |-> 2, input |-> 1, disabled |-> {4},
        limits |-> [MCLimits EXCEPT !.registers = 1], handle |-> {"clamps"}] @@
  2 :> [coils |-> 10, discrete |-> 0, holding |-> 3, input |-> 0, disabled |-> {2},
        limits |-> MCLimits, handle |-> {"distorts", "from_one"}]

NoFaults == [corrupt |-> -1, drop |-> -1, wrong |-> -1]
MCFaulty  == 1 :> [corrupt |-> 0, drop |-> 1, wrong |-> -1] @@ 2 :> NoFaults
MCLossy   == 1 :> NoFaults @@ 2 :> [NoFaults EXCEPT !.drop = 0]
MCWrongId == 1 :> [NoFaults EXCEPT !.wrong = 2] @@ 2 :> NoFaults
MCPlans == {MCFaulty, MCLossy, MCWrongId}

Read(to, fc, address, count) ==
  [to |-> to, fc |-> fc, address |-> address, count |-> count, values |-> <<>>]
Write(to, fc, address, values) ==
  [to |-> to, fc |-> fc, address |-> address, count |-> Len(values), values |-> values]

NineBits == <<1, 0, 1, 1, 0, 0, 0, 0, 1>>

(* c1 works with slave 1, c2 with slave 2; c3 probes; c4 and c5 contend for *)
(* a coil; c6 broadcasts, and sends malformed requests.                     *)
MCCalls ==
  c1 :> {Read(1, 1, 0, 10), Read(1, 2, 0, 1), Read(1, 3, 1, 1), Read(1, 3, 0, 2),
         Write(1, 5, 9, <<1>>), Write(1, 6, 0, <<2>>), Write(1, 15, 1, NineBits)} @@
  c2 :> {Read(2, 1, 1, 9), Read(2, 3, 1, 2), Write(2, 5, 8, <<1>>),
         Write(2, 16, 1, <<1, 65535>>), Write(2, 8, 0, <<258>>), Read(3, 3, 0, 1)} @@
  c3 :> {} @@
  c4 :> {Read(1, 1, 0, 2), Write(1, 5, 0, <<1>>)} @@
  c5 :> {Write(1, 5, 0, <<0>>)} @@
  c6 :> {Write(0, 15, 1, <<0, 1>>), Read(2, 3, 0, 3), Write(2, 6, 65536, <<1>>),
         Read(1, 4, 0, 1), Read(1, 1, 3, 8)}

MCProbes == [c \in Callers |-> IF c = c3 THEN {2} ELSE {}]
MCWalk == <<0, 1>>

MCMalformed ==
  [c \in Callers |-> IF c # c6 THEN {} ELSE
   {[to |-> 1, pdu |-> pdu] : pdu \in {<<15, 0, 0, 0, 9, 1, 255>>, <<16, 0, 0, 0, 2, 4, 0, 7>>,
                                       <<5, 0, 0, 1, 0>>, <<6, 0, 0, 7>>, <<128, 0>>,
                                       <<8, 0, 1, 0, 0>>}}]

MCSetups ==
  {[team |-> {c1}, plan |-> MCFaulty], [team |-> {c2}, plan |-> MCLossy],
   [team |-> {c3}, plan |-> MCLossy], [team |-> {c4, c5}, plan |-> MCWrongId],
   [team |-> {c6}, plan |-> MCFaulty]}
=============================================================================
