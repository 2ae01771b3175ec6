------------------------------ MODULE MCObsLog ------------------------------
(* A small machine for TLC: two processes, a content that fits in a
   segment and one that exceeds it. *)
EXTENDS ObsLog, TLC

CONSTANTS p1, p2, small, large, s1, s2

MCProcs    == {p1, p2}
MCContents == {small, large}
MCSize     == small :> 1 @@ large :> 3
MCSpaces   == {s1, s2}

(* Processes and spaces are interchangeable: nothing tells them apart. *)
MCSymmetry == Permutations(MCProcs) \cup Permutations(MCSpaces)
=============================================================================
