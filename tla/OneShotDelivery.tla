--------------------------- MODULE OneShotDelivery ---------------------------
(***************************************************************************)
(* What the registrar promises about one device's identity delivery, with   *)
(* every operation one atomic step (docs/engineering-spec.md: "delivered    *)
(* once per slot").  A consume hands out the bundle that is current at that *)
(* instant and shuts the slot; a publish replaces the bundle and opens the  *)
(* slot; nothing else shuts it, and nothing else changes the bundle.        *)
(* BundleDelivery shows that the registrar's transactions implement this.   *)
(***************************************************************************)
EXTENDS Naturals

CONSTANTS Bundles,   \* the identity bundles there may be
          Rearm      \* auto_rearm_after, in clock ticks

VARIABLES bundle,    \* the current bundle
          open,      \* is the slot armed?
          shutAt,    \* time of the last consume (0 before the first)
          count,     \* delivery_count
          handed     \* the bundle the last consume handed out

vars == <<bundle, open, shutAt, count, handed>>

Init == /\ bundle \in Bundles
        /\ open = TRUE
        /\ shutAt = 0
        /\ count = 0
        /\ handed = bundle

Consume == /\ shutAt' \in Nat
           /\ open \/ shutAt + Rearm <= shutAt'
           /\ open' = FALSE
           /\ count' = count + 1
           /\ handed' = bundle
           /\ UNCHANGED bundle

Publish == /\ bundle' \in Bundles
           /\ open' = TRUE
           /\ UNCHANGED <<shutAt, count, handed>>

Arm == /\ open' = TRUE
       /\ UNCHANGED <<bundle, shutAt, count, handed>>

Next == Consume \/ Publish \/ Arm

Spec == Init /\ [][Next]_vars
=============================================================================
