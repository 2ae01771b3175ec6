----------------------------- MODULE MCArchive -----------------------------
(* Two conversations, and segments of two other devices about the first:   *)
(* one deletes it, one has the line after its first.                       *)
EXTENDS Archive

CONSTANTS a, b, k1, k2

Observed(k, kind, off, data) == [key |-> k, kind |-> kind, off |-> off, data |-> data]
Segment(d, o) == [dev |-> d, first |-> 1, obs |-> <<o>>]

Deletion     == Segment(2, Observed(k1, "tombstone", 0, << >>))
Continuation == Segment(3, Observed(k1, "append", 1, <<b>>))

NoSegments   == {}
OtherDevices == {Deletion, Continuation}
=============================================================================
