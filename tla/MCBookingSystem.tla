--------------------------- MODULE MCBookingSystem ---------------------------
(***************************************************************************)
(* Small instances of BookingSystem for TLC.  Requests of one kind are     *)
(* interchangeable, so the safety runs use them as a symmetry set; the     *)
(* liveness run does not.                                                  *)
(***************************************************************************)
EXTENDS BookingSystem, TLC

MCGwCallers == ConfirmReqs \cup CancelReqs \cup ExpireJobs

RequestSymmetry ==
    Permutations(CreateReqs) \cup Permutations(IntentReqs)
        \cup Permutations(ConfirmReqs) \cup Permutations(CancelReqs)
==============================================================================
