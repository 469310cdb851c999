-------------------------------- MODULE MCStay --------------------------------
(***************************************************************************)
(* Small instances of Stay.                                                *)
(***************************************************************************)
EXTENDS Stay, TLC

Symmetry ==
    Permutations(Reservations) \cup Permutations(Rooms) \cup Permutations(Requests)
        \cup Permutations(Assignments) \cup Permutations(Tasks)
        \cup Permutations(Extensions)
================================================================================
