------------------------------- MODULE MCHost -------------------------------
(* Two processes of one machine, and two migrations, of which the second   *)
(* cannot be applied twice, as 0003_conversation_mtime.sql.                *)
EXTENDS Host, TLC

CONSTANTS p1, p2

Machine == {p1, p2}

AddColumn == {2}

Symmetry == Permutations(Processes)
=============================================================================
