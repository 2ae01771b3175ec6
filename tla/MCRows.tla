------------------------------- MODULE MCRows -------------------------------
(* Conversations that differ in every way the code tells apart: one that   *)
(* grew, one whose second message changed its blocks, one without blocks   *)
(* there, one with other indexed columns, and one that differs from the    *)
(* first only in the divergences found.                                    *)
EXTENDS Rows

Msg(h, b) == [head |-> h, blocks |-> b]
Conversation(h, m, d) ==
  [head |-> h, rest |-> Len(m), messages |-> m,
   events |-> [i \in DOMAIN m |-> m[i].blocks], divergences |-> d]

m1 == Msg("m1", <<"x">>)
m2 == Msg("m2", <<"x", "y">>)
Short    == Conversation("p", <<m1>>, {})
Grown    == Conversation("p", <<m1, m2>>, {})
Edited   == Conversation("p", <<m1, Msg("m2", <<"y">>)>>, {})
Empty    == Conversation("p", <<m1, Msg("m2", << >>)>>, {})
Moved    == Conversation("q", <<m1, m2>>, {})
Diverged == Conversation("p", <<m1, m2>>, {"m1", "m2"})

MCConversations == {Short, Grown, Edited, Empty, Moved, Diverged}
=============================================================================
