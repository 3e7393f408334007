----------------------------- MODULE MCRideService -----------------------------
(***************************************************************************)
(* The ride service on small instances.  Requests are interchangeable, and *)
(* so are the drivers whose approval does not change.                      *)
(***************************************************************************)
EXTENDS RideService, TLC

RideSymmetry == Permutations(RideReqs) \cup Permutations(Drivers \ Moderated)

\* Of the prices a client can send, those that nothing tests unless the ride
\* is of type offer: 0, which is falsy, and a negative one.
MCOffers == {0, -20}
================================================================================
