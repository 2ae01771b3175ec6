------------------------------- MODULE Merge -------------------------------
(***************************************************************************)
(* How the versions of a conversation become one conversation (order and   *)
(* merge in internal/project/project.go).                                  *)
(*                                                                         *)
(* A version is a record of                                                *)
(*   legacy         imported from the Python archive                       *)
(*   size           the length of its content                              *)
(*   first          <<device, sequence number>> of its first contributor   *)
(*   devices        the devices of its contributors                        *)
(*   title, project, messages, events, start, end   what the adapter made  *)
(*                  of it                                                  *)
(* and a message has an id, a time (or None) and more.                     *)
(***************************************************************************)
EXTENDS Integers, Sequences, FiniteSets, SequencesExt

CONSTANT None   \* no id, no time

(* A sequence sorted stably by a strict weak order. *)
StableSort(s, Less(_, _)) ==
  LET Ahead(i) == {j \in DOMAIN s : \/ Less(s[j], s[i])
                                    \/ j < i /\ ~Less(s[i], s[j])}
  IN  [n \in DOMAIN s |-> s[CHOOSE i \in DOMAIN s : Cardinality(Ahead(i)) = n - 1]]

Each(s, Op(_)) == [i \in DOMAIN s |-> Op(s[i])]

Earlier(p, q) == p[1] < q[1] \/ (p[1] = q[1] /\ p[2] < q[2])

(* Mutant of Leads: the longest content first, whatever it holds. *)
LeadsBySize(u, v) == u.size > v.size

(* The order that puts the primary first. *)
Leads(u, v) ==
  IF u.legacy # v.legacy THEN v.legacy
  ELSE IF Len(u.messages) # Len(v.messages) THEN Len(u.messages) > Len(v.messages)
  ELSE IF u.size # v.size THEN u.size > v.size
  ELSE Earlier(u.first, v.first)

Ordered(versions) == StableSort(versions, Leads)

(* messageKey: the native id, else the position. *)
Key(ms, i) == IF ms[i].id # None THEN <<"id", ms[i].id>> ELSE <<"pos", i>>

Keys(ms) == {Key(ms, i) : i \in DOMAIN ms}

(* Mutant of Present: only the primary's messages are known. *)
PresentFirst(versions, n) == Keys(versions[1].messages)

(* The keys known when version n is gone through. *)
Present(versions, n) == UNION {Keys(versions[m].messages) : m \in 1..(n - 1)}

(* The messages of a version that are kept: those not known yet. *)
New(versions, n) ==
  LET ms == versions[n].messages
  IN  {i \in DOMAIN ms : /\ Key(ms, i) \notin Present(versions, n)
                         /\ \A j \in 1..(i - 1) : Key(ms, j) # Key(ms, i)}

(* The last message of the primary that version n has before its i-th, or 0. *)
Anchor(versions, n, i) ==
  LET ms == versions[n].messages
      p  == versions[1].messages
  IN  IF \E j \in 1..(i - 1) : Key(ms, j) \in Keys(p)
      THEN LET j == Max({j \in 1..(i - 1) : Key(ms, j) \in Keys(p)})
           IN  Max({k \in DOMAIN p : Key(p, k) = Key(ms, j)})
      ELSE 0

(* The blocks of version n: its runs of new messages. *)
Runs(new) == {<<i, j>> \in new \X new : /\ i..j \subseteq new
                                        /\ i <= j /\ i - 1 \notin new /\ j + 1 \notin new}

BlocksOf(versions, n) ==
  LET Block(r) == [messages |-> SubSeq(versions[n].messages, r[1], r[2]),
                   anchor   |-> Anchor(versions, n, r[1]),
                   version  |-> n]
  IN  Each(SetToSortSeq(Runs(New(versions, n)), Earlier), Block)

Blocks(versions) ==
  FlattenSeq([n \in DOMAIN versions |-> IF n = 1 THEN << >> ELSE BlocksOf(versions, n)])

(* The number of the primary's messages p before the earliest fork. *)
Fork(p, blocks) == Min({Len(p)} \cup {b.anchor : b \in ToSet(blocks)})

Rank(id) == IF id = None THEN 0 ELSE id

(* firstBefore: by the first messages' times, then by their ids. *)
FirstBefore(b, c) ==
  LET x == b.messages[1]
      y == c.messages[1]
  IN  IF x.time # None /\ y.time # None /\ x.time # y.time THEN x.time < y.time
      ELSE IF (x.time = None) # (y.time = None) THEN x.time # None
      ELSE Rank(x.id) < Rank(y.id)

(* The branches after the fork, the rest of the primary being one. *)
Groups(p, blocks, fork) ==
  LET tail == [messages |-> SubSeq(p, fork + 1, Len(p)), anchor |-> fork, version |-> 1]
  IN  StableSort((IF fork = Len(p) THEN << >> ELSE <<tail>>) \o blocks, FirstBefore)

(* Mutant of MergedMessages: the whole primary first. *)
MergedMessagesWhole(p, blocks) ==
  p \o FlattenSeq([k \in DOMAIN blocks |-> blocks[k].messages])

MessagesOf(groups) == FlattenSeq([k \in DOMAIN groups |-> groups[k].messages])

MergedMessages(p, blocks) ==
  SubSeq(p, 1, Fork(p, blocks)) \o MessagesOf(Groups(p, blocks, Fork(p, blocks)))

(* Mutant of MergedEvents: each version's events in turn. *)
MergedEventsAll(versions) == FlattenSeq([n \in DOMAIN versions |-> versions[n].events])

(* withRawEvents: of equal events the first. *)
Firsts(all) == {i \in DOMAIN all : \A j \in 1..(i - 1) : all[j] # all[i]}

MergedEvents(versions) ==
  LET Distinct(all) == [k \in 1..Cardinality(Firsts(all)) |->
                          all[SetToSortSeq(Firsts(all), <)[k]]]
  IN  Distinct(FlattenSeq([n \in DOMAIN versions |-> versions[n].events]))

(* Mutant of Branching: any branch is a divergence. *)
BranchingAny(versions, blocks) == blocks # << >>

(* A live version disagrees. *)
Branching(versions, blocks) == \E b \in ToSet(blocks) : ~versions[b.version].legacy

(* The branches of live versions that begin with a message with an id. *)
DivergencesAfter(versions, fork, groups) ==
  {[fork_after |-> IF fork = 0 THEN None ELSE versions[1].messages[fork].id,
    branch     |-> g.messages[1].id,
    devices    |-> versions[g.version].devices] :
     g \in {g \in ToSet(groups) : /\ ~versions[g.version].legacy
                                  /\ g.messages[1].id # None}}

Divergences(versions, blocks) ==
  LET p == versions[1].messages
  IN  IF Branching(versions, blocks)
      THEN DivergencesAfter(versions, Fork(p, blocks), Groups(p, blocks, Fork(p, blocks)))
      ELSE {}

(* merge: the primary with what the others add, and the span of the        *)
(* messages once there are branches.  One version is taken as it is.       *)
Stamps(ms) == {ms[i].time : i \in DOMAIN ms} \ {None}

WithMessages(conversation, ms) ==
  [conversation EXCEPT !.messages = ms,
                       !.start = IF Stamps(ms) = {} THEN None ELSE Min(Stamps(ms)),
                       !.end = IF Stamps(ms) = {} THEN None ELSE Max(Stamps(ms))]

Join(versions, blocks) ==
  LET whole == [versions[1] EXCEPT !.events = MergedEvents(versions)]
      ms    == MergedMessages(versions[1].messages, blocks)
  IN  (IF blocks = << >> THEN whole ELSE WithMessages(whole, ms))
        @@ [divergences |-> Divergences(versions, blocks)]

Merged(versions) ==
  IF Len(versions) = 1 THEN versions[1] @@ [divergences |-> {}]
  ELSE Join(versions, Blocks(versions))

=============================================================================
