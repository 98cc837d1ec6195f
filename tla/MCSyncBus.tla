------------------------------ MODULE MCSyncBus ------------------------------
(* Small instances of SyncBus for TLC.                                     *)
EXTENDS SyncBus, TLC

CONSTANTS b1, b2

Scope(buses, n) ==
  [buses |-> buses, requests |-> b1 :> n @@ b2 :> 0,
   registrations |-> 0, interrupts |-> 0]

(* Two buses opened, called and closed by two threads; then one bus: its    *)
(* request and observers, two requests, and an interrupt.                   *)
MCScopes ==
  {Scope({b1, b2}, 1),
   [Scope({b1}, 1) EXCEPT !.registrations = 2],
   Scope({b1}, 2),
   [Scope({b1}, 1) EXCEPT !.interrupts = 1]}
=============================================================================
