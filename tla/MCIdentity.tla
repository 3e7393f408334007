------------------------------- MODULE MCIdentity -------------------------------
(***************************************************************************)
(* The identity service on a small instance.  Like the mock provider's, a  *)
(* passport number is a hash of the front image's URL, and a face embedding *)
(* is read off the selfie's, so images, accounts and submissions are       *)
(* interchangeable.                                                        *)
(***************************************************************************)
EXTENDS Identity, TLC

MCPassportOf == [f \in Fronts |-> f]
MCFaceOf == [s \in Selfies |-> s]
MCMaxUploads == [passport_front |-> 2, passport_back |-> 1, selfie |-> 2]

KycSymmetry == Permutations(Users) \cup Permutations(Fronts)
                 \cup Permutations(Selfies) \cup Permutations(KycReqs)
=================================================================================
