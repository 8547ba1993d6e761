--------------------------- MODULE MCBookingThread ---------------------------
(* Small instances of BookingThread.  Requests are interchangeable. *)
EXTENDS BookingThread, TLC

RequestSymmetry == Permutations(Requests)
==============================================================================
