-------------------------------- MODULE Portal --------------------------------
(***************************************************************************)
(* AnyIO's BlockingPortalProvider as anyserial.sync shares it: one event   *)
(* loop thread for as long as anyone holds a lease.  A later lease may     *)
(* start another portal, with a loop and a thread of its own.              *)
(***************************************************************************)
EXTENDS Integers

CONSTANTS Portals  \* numbers of the portals that may be started, in this order

ASSUME PortalAssumption == Portals \subseteq Nat /\ 0 \notin Portals

NoPortal == 0

VARIABLES
  portal,  \* portal -> "unused", "running", "stopping": its tasks end, or "stopped"
  current, \* the provider's portal, or NoPortal
  leases   \* BlockingPortalProvider._leases

portalVars == <<portal, current, leases>>

Unused == {p \in Portals : portal[p] = "unused"}
NextPortal == CHOOSE p \in Unused : \A q \in Unused : p <= q

(* provider.__enter__.  The portal leased is current'.                      *)
Lease ==
  /\ leases' = leases + 1
  /\ IF current = NoPortal
     THEN /\ Unused # {}
          /\ current' = NextPortal
          /\ portal' = [portal EXCEPT ![NextPortal] = "running"]
     ELSE UNCHANGED <<portal, current>>

(* provider.__exit__, as far as its lock is held.                           *)
Unlease ==
  /\ leases' = leases - 1
  /\ current' = IF leases = 1 THEN NoPortal ELSE current
  /\ UNCHANGED portal

(* The rest of it, for the last lease: portal.stop, and joining the thread. *)
(* On the loop's own thread neither is possible: both raise RuntimeError.   *)
Stop(p) ==
  /\ portal' = [portal EXCEPT ![p] = IF @ = "running" THEN "stopping" ELSE @]
  /\ UNCHANGED <<current, leases>>

Ends(p) ==
  /\ portal[p] = "stopping"
  /\ portal' = [portal EXCEPT ![p] = "stopped"]
  /\ UNCHANGED <<current, leases>>

(* Whether portal.call takes a call from another thread.                    *)
Accepts(p) == portal[p] = "running"

PortalInit ==
  /\ portal = [p \in Portals |-> "unused"]
  /\ current = NoPortal
  /\ leases = 0
=============================================================================
