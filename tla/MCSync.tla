------------------------------- MODULE MCSync -------------------------------
(* A device that writes and one that does not, each with a daemon.         *)
EXTENDS Sync, TLC

CONSTANTS d1, d2, daemon1, daemon2, r1, r2

TwoDevices == [c \in Clients |-> IF c = daemon2 THEN d2 ELSE d1]

Symmetry == Permutations(Relays)
=============================================================================
