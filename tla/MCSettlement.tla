----------------------------- MODULE MCSettlement ------------------------------
(***************************************************************************)
(* Both services on small instances; the slots of a service are            *)
(* interchangeable, and so are the drivers.                                *)
(***************************************************************************)
EXTENDS TripSettlement, TLC

Symmetry == Permutations(RideReqs) \cup Permutations(PayReqs)
              \cup Permutations(Drivers)

\* A negative price, which only a fixed or a meter ride can carry.
MCOffers == {-12}
================================================================================
