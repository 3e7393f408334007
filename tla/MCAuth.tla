--------------------------------- MODULE MCAuth ---------------------------------
(***************************************************************************)
(* The auth service on a small instance: two requests over one or two      *)
(* phones, with Redis failing and handlers and the process dying anywhere. *)
(***************************************************************************)
EXTENDS Auth, TLC

MCKeys == {"rate", "otp"} \X Phones

AuthSymmetry == Permutations(Users) \cup Permutations(Phones)
                  \cup Permutations(AuthReqs)
=================================================================================
