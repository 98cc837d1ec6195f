------------------------------- MODULE MCBus --------------------------------
(* Small instances of ModbusBus for TLC.                                   *)
EXTENDS ModbusBus, TLC

CONSTANTS c1, c2, r1, r2, s1, w1, d1, b1

(* Two callers.  r1 and r2 are reads of the same shape from one slave, s1  *)
(* a read from another, w1 a write, d1 a diagnostic echo, b1 a broadcast.  *)
MCKind == (r1 :> "read") @@ (r2 :> "read") @@ (s1 :> "read") @@
          (w1 :> "write") @@ (d1 :> "diagnostic") @@ (b1 :> "broadcast")
MCUnit == (r1 :> 1) @@ (r2 :> 1) @@ (s1 :> 2) @@ (w1 :> 1) @@ (d1 :> 1) @@ (b1 :> 0)

KindOf == [r \in Requests |-> MCKind[r]]
UnitOf == [r \in Requests |-> MCUnit[r]]

Symmetry == Permutations(Callers)
=============================================================================
