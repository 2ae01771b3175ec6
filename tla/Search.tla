------------------------------- MODULE Search -------------------------------
(***************************************************************************)
(* The full-text index beside the blocks it was made from                  *)
(* (internal/store/store.go, internal/cli/read.go).  DuckDB cannot update  *)
(* the index in place, and making it costs time for all of the archive, so *)
(* catch-up makes it anew only when enough blocks are missing from it, and *)
(* a search looks at those itself.                                         *)
(*                                                                         *)
(* A query is one word, and a text is the word it has.  The index is the   *)
(* DuckDB extension's: for each block of the time it was made, by its id,  *)
(* the text of that time.  How the rows change is in Rows; a reader sees   *)
(* them only between two commands.                                         *)
(***************************************************************************)
EXTENDS Integers, FiniteSets, Functions, FiniteSetsExt

CONSTANTS
  Blocks,      \* ids of blocks: they depend on a block's place
  Words,
  None,        \* no text, or no index
  MinPending,  \* ftsMinPending
  Part,        \* ftsPendingShare is 1 / Part
  MaxLimit     \* bound: results a search asks for

ASSUME SearchAssumption ==
  /\ IsFiniteSet(Blocks)
  /\ None \notin Words
  /\ \A B \in SUBSET Blocks : None \notin [B -> Words \cup {None}]
  /\ MinPending \in Nat \ {0} /\ Part \in Nat \ {0} /\ MaxLimit \in Nat

VARIABLES
  text,      \* content_blocks: the text of each block there is
  index,     \* the index, as text, or None
  loadable,  \* whether the extension is there to be loaded
  pc,
  stored,    \* Stats.Stored + Stats.Removed > 0
  \* History.
  inserted,  \* blocks that came since the index was made, new to it
  edited,    \* blocks of the index whose text changed, or that went
  missed     \* blocks changed in a catch-up that did not look at the index

vars == <<text, index, loadable, pc, stored, inserted, edited, missed>>

Init ==
  /\ text = << >>
  /\ index = None
  /\ loadable \in BOOLEAN
  /\ pc = "idle"
  /\ stored = FALSE
  /\ inserted = {} /\ edited = {}
  /\ missed = FALSE

-----------------------------------------------------------------------------
(* What a search finds. *)

Indexed == IF index = None THEN {} ELSE DOMAIN index

(* FTSCoverage: the blocks with text that the index does not hold. *)
Pending == {b \in DOMAIN text \ Indexed : text[b] # None}

(* match_bm25, of the blocks that are still there. *)
Ranked(w) == {b \in Indexed \cap DOMAIN text : index[b] = w}

(* The substring search beside it. *)
Fresh(w) == {b \in DOMAIN text \ Indexed : text[b] = w}

(* Without the extension or an index all blocks are searched. *)
Substring == ~loadable \/ index = None

(* Mutant of Found: only a search that fails looks at the blocks. *)
FoundIndexed(w) ==
  IF Substring THEN {b \in DOMAIN text : text[b] = w} ELSE Ranked(w)

Found(w) ==
  IF Substring THEN {b \in DOMAIN text : text[b] = w} ELSE Ranked(w) \cup Fresh(w)

Least(i, j) == IF i <= j THEN i ELSE j
Most(i, j)  == IF i <= j THEN j ELSE i

(* Mutant of Shares: the new blocks get what the ranked ones leave. *)
SharesLeft(limit, ranked, fresh) ==
  LET r == Least(ranked, limit)
  IN  [ranked |-> r, fresh |-> Least(fresh, limit - r)]

(* Of as many ranked and fresh matches, how many a search shows. *)
Shares(limit, ranked, fresh) ==
  LET r    == Least(ranked, limit)
      keep == Least(Least(fresh, limit), Most(limit \div 4, limit - r))
  IN  [ranked |-> Least(r, limit - keep), fresh |-> keep]

-----------------------------------------------------------------------------
(* Catch-up. *)

(* RebuildFTS. *)
Made == text

StartCatchUp ==
  /\ pc = "idle"
  /\ pc' = "projecting"
  /\ stored' = FALSE
  /\ UNCHANGED <<text, index, loadable, inserted, edited, missed>>

(* A conversation is projected: a block comes, goes, or is another under   *)
(* its id.  An error after that (of ReplaceDivergences) counts it among    *)
(* the failed.                                                             *)
Project(b, counted) ==
  /\ pc = "projecting"
  /\ \/ \E t \in Words \cup {None} :
          text' = [x \in DOMAIN text \cup {b} |-> IF x = b THEN t ELSE text[x]]
     \/ b \in DOMAIN text /\ text' = Restrict(text, DOMAIN text \ {b})
  /\ text' # text
  /\ inserted' = inserted \cup ({b} \ Indexed)
  /\ edited' = edited \cup ({b} \cap Indexed)
  /\ stored' = (stored \/ counted)
  /\ missed' = (missed \/ ~counted)
  /\ UNCHANGED <<index, loadable, pc>>

(* Mutant of FTSNeedsRebuild: whenever something is pending. *)
NeedsRebuildAny == index = None \/ Pending # {}

(* Mutant of FTSNeedsRebuild: more than enough. *)
NeedsRebuildLater ==
  \/ index = None
  \/ Cardinality(Pending) > Most(MinPending, Cardinality(Indexed) \div Part)

FTSNeedsRebuild ==
  \/ index = None
  \/ Cardinality(Pending) >= Most(MinPending, Cardinality(Indexed) \div Part)

(* The end of CatchUp, if it changed anything and the extension is there. *)
Refresh ==
  /\ pc = "projecting"
  /\ stored /\ loadable
  /\ IF FTSNeedsRebuild THEN index' = Made /\ inserted' = {} /\ edited' = {}
                        ELSE UNCHANGED <<index, inserted, edited>>
  /\ pc' = "idle"
  /\ missed' = FALSE
  /\ UNCHANGED <<text, loadable, stored>>

(* It leaves the index alone if it counted no change or there is no       *)
(* extension, and when an error or a crash ends it before.                 *)
LeaveIndex ==
  /\ pc = "projecting"
  /\ pc' = "idle"
  /\ missed' = (missed \/ stored)
  /\ UNCHANGED <<text, index, loadable, stored, inserted, edited>>

(* reindex, which may install the extension. *)
Reindex(install) ==
  /\ pc = "idle"
  /\ loadable \/ install
  /\ loadable' = TRUE
  /\ index' = Made
  /\ inserted' = {} /\ edited' = {}
  /\ missed' = FALSE
  /\ UNCHANGED <<text, pc, stored>>

(* rebuild makes the rows, and the index with them, in a new archive. *)
Rebuild ==
  /\ pc = "idle"
  /\ index' = IF loadable /\ text # << >> THEN Made ELSE None
  /\ inserted' = IF index' = None THEN DOMAIN text ELSE {}
  /\ edited' = {}
  /\ missed' = ~loadable
  /\ UNCHANGED <<text, loadable, pc, stored>>

(* Another build of the program, without the extension or with it. *)
Install(there) ==
  /\ pc = "idle"
  /\ loadable # there
  /\ loadable' = there
  /\ UNCHANGED <<text, index, pc, stored, inserted, edited, missed>>

Next ==
  \/ StartCatchUp \/ Refresh \/ LeaveIndex \/ Rebuild
  \/ (\E b \in Blocks, counted \in BOOLEAN : Project(b, counted))
  \/ (\E choice \in BOOLEAN : Reindex(choice) \/ Install(choice))

Spec == Init /\ [][Next]_vars

-----------------------------------------------------------------------------
(* Properties. *)

Texts == UNION {[B -> Words \cup {None}] : B \in SUBSET Blocks}

TypeOK ==
  /\ text \in Texts
  /\ index \in Texts \cup {None}
  /\ {loadable, stored, missed} \subseteq BOOLEAN
  /\ pc \in {"idle", "projecting"}
  /\ inserted \cup edited \subseteq Blocks
  /\ DOMAIN text \subseteq Indexed \cup inserted

(* "until then search finds the newest content by substring matching": a   *)
(* block is found by its word as soon as it is there and whatever was      *)
(* indexed when, by extensions that come and go, as long as its id has     *)
(* stood for one text only since the index was made.                       *)
NewestFound ==
  \A w \in Words : \A b \in DOMAIN text \ edited :
    text[b] = w => b \in Found(w)

(* "with at least a quarter of the slots kept for them": and no slot stays *)
(* empty while there is a match for it.                                    *)
SlotsShared ==
  \A w \in Words, limit \in 0..MaxLimit :
    LET ranked == Cardinality(Ranked(w))
        fresh  == Cardinality(Fresh(w))
        shown  == Shares(limit, ranked, fresh)
    IN  /\ shown.ranked + shown.fresh = Least(limit, ranked + fresh)
        /\ shown.fresh >= Least(fresh, limit \div 4)
        /\ shown.ranked <= ranked /\ shown.fresh <= fresh

(* A search looks through few blocks itself, unless a catch-up failed, was *)
(* stopped, or had no extension since the index was last looked at.        *)
LagBounded ==
  pc = "idle" /\ ~missed /\ index # None =>
    Cardinality(Pending) < Most(MinPending, Cardinality(Indexed) \div Part)

(* "the cost per new block stays constant": catch-up makes an index anew   *)
(* at the cost of the blocks there are, and for each new block since the   *)
(* last time there are no more than Part + 1 of them, rounding apart.      *)
RebuildsPaid ==
  [][Refresh /\ index' # index =>
       Cardinality(DOMAIN text) < (Part + 1) * Cardinality(inserted) + Part]_vars

=============================================================================
