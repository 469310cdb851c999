------------------------------ MODULE MCBooking -------------------------------
(***************************************************************************)
(* Small instances of Booking.                                             *)
(***************************************************************************)
EXTENDS Booking, TLC

Symmetry ==
    Permutations(Requests) \cup Permutations(Sessions) \cup Permutations(Sweepers)
================================================================================
