------------------------------- MODULE MCRealtime -------------------------------
(***************************************************************************)
(* One trip of one passenger, one driver and two places 20 km apart.  A    *)
(* behaviour has one of these budgets: it is about the map, about a trip's *)
(* status with or without failures, about offers, or about notifications.  *)
(***************************************************************************)
EXTENDS Realtime

MCKm == [p \in Places \X Places |-> IF p[1] = p[2] THEN 0 ELSE 20]
MCPassengerOf == [t \in Trips |-> "passenger"]
MCUserOf == [d \in Drivers |-> "driver"]

Nothing == [moves |-> 0, rides |-> 0, kyc |-> 0, reports |-> 0, joins |-> 0,
            breaks |-> 0, devices |-> 0]

MCBudgets ==
  { [Nothing EXCEPT !.reports = 3, !.joins = 3, !.breaks = 1],
    [Nothing EXCEPT !.moves = 3, !.joins = 2],
    [Nothing EXCEPT !.moves = 2, !.joins = 2, !.breaks = 1],
    [Nothing EXCEPT !.reports = 1, !.joins = 4, !.rides = 3],
    [Nothing EXCEPT !.kyc = 2, !.breaks = 1],
    [Nothing EXCEPT !.moves = 1, !.kyc = 1, !.devices = 2, !.breaks = 1] }
=================================================================================
