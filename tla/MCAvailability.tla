---------------------------- MODULE MCAvailability ----------------------------
(***************************************************************************)
(* Small instances of Availability.                                        *)
(***************************************************************************)
EXTENDS Availability, TLC

Symmetry == Permutations(Rooms) \cup Permutations(Requests)
===============================================================================
