------------------------------- MODULE MCPayment -------------------------------
(***************************************************************************)
(* The payment service on small instances; requests are interchangeable,   *)
(* and so are the drivers.                                                 *)
(***************************************************************************)
EXTENDS Ledger, TLC

PaySymmetry == Permutations(PayReqs) \cup Permutations(Drivers)

\* A price that no test keeps a meter ride from carrying; a fare like any other
\* beside the calculated totals.
MCOffers == {-20}
================================================================================
