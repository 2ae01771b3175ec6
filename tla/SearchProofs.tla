---------------------------- MODULE SearchProofs ----------------------------
(***************************************************************************)
(* Proofs about Search, for every number of blocks and words, every policy *)
(* and every limit.                                                        *)
(***************************************************************************)
EXTENDS Search, FiniteSetTheorems, TLAPS

-----------------------------------------------------------------------------
(* The inductive invariant. *)

(* What the index says of a block that was not edited is so. *)
Faithful ==
  index # None =>
    \A b \in (DOMAIN text \cap DOMAIN index) \ edited : index[b] = text[b]

Enough == Cardinality(Pending) >= Most(MinPending, Cardinality(Indexed) \div Part)

(* Nothing has changed since the index was last looked at. *)
Seen == ~missed /\ index # None /\ (pc = "idle" \/ ~stored)

IInv == TypeOK /\ Faithful /\ (Seen => ~Enough)

-----------------------------------------------------------------------------
(* Lemmas about the sets that are counted. *)

LEMMA TextsDomain ==
  ASSUME NEW f \in Texts
  PROVE  DOMAIN f \subseteq Blocks /\ \A b \in DOMAIN f : f[b] \in Words \cup {None}
BY DEF Texts

LEMMA TextsOf ==
  ASSUME NEW B \in SUBSET Blocks, NEW f \in [B -> Words \cup {None}]
  PROVE  f \in Texts
BY DEF Texts

LEMMA NotNone == None \notin Texts
BY SearchAssumption DEF Texts

LEMMA Counted ==
  ASSUME NEW B \in SUBSET Blocks
  PROVE  IsFiniteSet(B) /\ Cardinality(B) \in Nat
BY SearchAssumption, FS_Subset, FS_CardinalityType

LEMMA Parts ==
  ASSUME TypeOK
  PROVE  /\ DOMAIN text \subseteq Blocks /\ Indexed \subseteq Blocks /\ Pending \subseteq Blocks
         /\ Cardinality(Pending) \in Nat /\ Cardinality(Indexed) \in Nat
<1>1. DOMAIN text \subseteq Blocks BY TextsDomain DEF TypeOK
<1>2. Indexed \subseteq Blocks
  <2>1. CASE index = None BY <2>1 DEF Indexed
  <2>2. CASE index # None
    <3>1. index \in Texts BY <2>2 DEF TypeOK
    <3>2. QED BY <3>1, <2>2, TextsDomain DEF Indexed
  <2>3. QED BY <2>1, <2>2
<1>3. Pending \subseteq Blocks BY <1>1 DEF Pending
<1>4. QED BY <1>1, <1>2, <1>3, Counted

(* Nothing is pending for an index that was just made. *)
LEMMA NothingPending ==
  ASSUME TypeOK', index' = text'
  PROVE  ~Enough'
<1>1. index' # None BY NotNone DEF TypeOK
<1>2. Indexed' = DOMAIN text' BY <1>1 DEF Indexed
<1>3. Pending' = {} BY <1>2 DEF Pending
<1>4. Cardinality(Pending') = 0 BY <1>3, FS_EmptySet
<1> DEFINE share == Cardinality(Indexed') \div Part
<1>5. Most(MinPending, share) = MinPending \/ (MinPending <= share /\ Most(MinPending, share) = share)
  BY DEF Most
<1>6. ~(0 >= Most(MinPending, share))
  <2>1. Cardinality(Indexed') \in Nat
    <3>1. DOMAIN text' \subseteq Blocks BY TextsDomain DEF TypeOK
    <3>2. QED BY <1>2, <3>1, Counted
  <2>2. share \in Int BY <2>1, SearchAssumption
  <2> HIDE DEF share
  <2>3. QED BY <1>5, <2>2, SearchAssumption
<1>7. QED BY <1>4, <1>6 DEF Enough

-----------------------------------------------------------------------------
LEMMA Initially == Init => IInv
<1> SUFFICES ASSUME Init PROVE IInv OBVIOUS
<1>1. text \in [{} -> Words \cup {None}] BY DEF Init
<1>2. text \in Texts BY <1>1, TextsOf
<1>3. DOMAIN text = {} BY <1>1
<1>4. TypeOK BY <1>2, <1>3 DEF Init, TypeOK
<1>5. QED BY <1>4 DEF Init, IInv, Faithful, Seen

LEMMA ProjectKeeps ==
  ASSUME IInv, NEW b \in Blocks, NEW counted \in BOOLEAN, Project(b, counted)
  PROVE  IInv'
<1>1. TypeOK /\ Faithful BY DEF IInv
<1>2. text \in Texts /\ DOMAIN text \subseteq Blocks BY <1>1, TextsDomain DEF TypeOK
<1>3. /\ text' \in Texts /\ DOMAIN text' \subseteq DOMAIN text \cup {b}
      /\ \A x \in DOMAIN text' \ {b} : x \in DOMAIN text /\ text'[x] = text[x]
      /\ b \notin DOMAIN text => DOMAIN text' = DOMAIN text \cup {b}
  <2>1. CASE \E t \in Words \cup {None} :
               text' = [x \in DOMAIN text \cup {b} |-> IF x = b THEN t ELSE text[x]]
    <3>1. PICK t \in Words \cup {None} :
            text' = [x \in DOMAIN text \cup {b} |-> IF x = b THEN t ELSE text[x]]
      BY <2>1
    <3>2. \A x \in DOMAIN text : text[x] \in Words \cup {None} BY <1>2, TextsDomain
    <3>3. text' \in [DOMAIN text \cup {b} -> Words \cup {None}] BY <3>1, <3>2
    <3>4. text' \in Texts BY <1>2, <3>3, TextsOf
    <3>5. QED BY <3>1, <3>4
  <2>2. CASE b \in DOMAIN text /\ text' = Restrict(text, DOMAIN text \ {b})
    <3>1. text' = [x \in DOMAIN text \ {b} |-> text[x]] BY <2>2 DEF Restrict
    <3>2. \A x \in DOMAIN text : text[x] \in Words \cup {None} BY <1>2, TextsDomain
    <3>3. text' \in [DOMAIN text \ {b} -> Words \cup {None}] BY <3>1, <3>2
    <3>4. text' \in Texts BY <1>2, <3>3, TextsOf
    <3>5. QED BY <2>2, <3>1, <3>4
  <2>3. QED BY <2>1, <2>2 DEF Project
<1>4. /\ UNCHANGED <<index, loadable, pc>> /\ Indexed' = Indexed
      /\ pc = "projecting" /\ stored' = (stored \/ counted) /\ missed' = (missed \/ ~counted)
      /\ inserted' = inserted \cup ({b} \ Indexed)
      /\ edited' = edited \cup ({b} \cap Indexed)
  BY DEF Project, Indexed
<1>5. DOMAIN text' \subseteq Indexed' \cup inserted'
  BY <1>1, <1>3, <1>4 DEF TypeOK
<1>6. stored' \in BOOLEAN /\ missed' \in BOOLEAN BY <1>1, <1>4 DEF TypeOK
<1>7. inserted' \cup edited' \subseteq Blocks BY <1>1, <1>4 DEF TypeOK
<1>8. TypeOK' BY <1>1, <1>3, <1>4, <1>5, <1>6, <1>7 DEF TypeOK
<1>9. Faithful'
  <2>1. ASSUME index' # None, NEW x \in (DOMAIN text' \cap DOMAIN index') \ edited'
        PROVE  index'[x] = text'[x]
    <3>1. index # None /\ DOMAIN index' = DOMAIN index /\ Indexed = DOMAIN index
      BY <1>4, <2>1 DEF Indexed
    <3>2. x # b BY <1>4, <2>1, <3>1
    <3>3. x \in (DOMAIN text \cap DOMAIN index) \ edited BY <1>3, <1>4, <2>1, <3>1, <3>2
    <3>4. QED BY <1>1, <1>3, <1>4, <2>1, <3>1, <3>2, <3>3 DEF Faithful
  <2>2. QED BY <2>1 DEF Faithful
<1>10. ~Seen' BY <1>4 DEF Seen
<1>11. QED BY <1>8, <1>9, <1>10 DEF IInv

(* The index is made, by a catch-up or by hand.                            *)
LEMMA MakeKeeps ==
  ASSUME IInv, UNCHANGED text, index' = text, edited' = {}, inserted' \subseteq Blocks,
         loadable' \in BOOLEAN, stored' \in BOOLEAN, missed' \in BOOLEAN,
         pc' \in {"idle", "projecting"}
  PROVE  IInv'
<1>1. text \in Texts BY DEF IInv, TypeOK
<1>2. index' # None BY <1>1, NotNone
<1>3. Indexed' = DOMAIN text' BY <1>2 DEF Indexed
<1>4. TypeOK' BY <1>1, <1>3 DEF TypeOK
<1>5. Faithful' BY DEF Faithful
<1>6. ~Enough' BY <1>4, NothingPending
<1>7. QED BY <1>4, <1>5, <1>6 DEF IInv

LEMMA RefreshKeeps == ASSUME IInv, Refresh PROVE IInv'
<1>1. /\ UNCHANGED <<text, loadable, stored>> /\ pc' = "idle" /\ missed' = FALSE
  BY DEF Refresh
<1>2. CASE FTSNeedsRebuild
  <2>1. index' = text /\ inserted' = {} /\ edited' = {} BY <1>2 DEF Refresh, Made
  <2>2. QED BY <1>1, <2>1, MakeKeeps DEF IInv, TypeOK
<1>3. CASE ~FTSNeedsRebuild
  <2>1. UNCHANGED <<index, inserted, edited>> BY <1>3 DEF Refresh
  <2>2. Indexed' = Indexed /\ Pending' = Pending BY <1>1, <2>1 DEF Indexed, Pending
  <2>3. TypeOK' BY <1>1, <2>1, <2>2 DEF IInv, TypeOK
  <2>4. Faithful' BY <1>1, <2>1 DEF IInv, Faithful
  <2>5. ~Enough' BY <1>3, <2>2 DEF FTSNeedsRebuild, Enough
  <2>6. QED BY <2>3, <2>4, <2>5 DEF IInv
<1>4. QED BY <1>2, <1>3

(* The steps that leave rows and index alone.                              *)
LEMMA OthersKeep ==
  ASSUME IInv,
         \/ StartCatchUp \/ LeaveIndex \/ \E there \in BOOLEAN : Install(there)
         \/ UNCHANGED vars
  PROVE  IInv'
<1>1. UNCHANGED <<text, index, inserted, edited>>
  BY DEF StartCatchUp, LeaveIndex, Install, vars
<1>2. Indexed' = Indexed /\ Pending' = Pending BY <1>1 DEF Indexed, Pending
<1>3. /\ loadable' \in BOOLEAN /\ stored' \in BOOLEAN /\ missed' \in BOOLEAN
      /\ pc' \in {"idle", "projecting"}
  BY DEF StartCatchUp, LeaveIndex, Install, vars, IInv, TypeOK
<1>4. TypeOK' BY <1>1, <1>2, <1>3 DEF IInv, TypeOK
<1>5. Faithful' BY <1>1 DEF IInv, Faithful
<1>6. Enough' = Enough BY <1>2 DEF Enough
<1>7. Seen' => Seen
  BY <1>1 DEF StartCatchUp, LeaveIndex, Install, vars, Seen, IInv, TypeOK
<1>8. QED BY <1>4, <1>5, <1>6, <1>7 DEF IInv

LEMMA RebuildKeeps == ASSUME IInv, Rebuild PROVE IInv'
<1>1. /\ UNCHANGED <<text, loadable, pc, stored>> /\ edited' = {} /\ missed' = ~loadable
      /\ inserted' = IF index' = None THEN DOMAIN text ELSE {}
  BY DEF Rebuild
<1>2. TypeOK /\ DOMAIN text \subseteq Blocks BY Parts DEF IInv
<1>3. inserted' \subseteq Blocks BY <1>1, <1>2
<1>4. CASE index' = text
  BY <1>1, <1>2, <1>3, <1>4, MakeKeeps DEF TypeOK
<1>5. CASE index' = None
  <2>1. Indexed' = {} /\ inserted' = DOMAIN text BY <1>1, <1>5 DEF Indexed
  <2>2. TypeOK' BY <1>1, <1>2, <1>3, <1>5, <2>1 DEF TypeOK
  <2>3. QED BY <1>5, <2>2 DEF IInv, Faithful, Seen
<1>6. QED BY <1>4, <1>5 DEF Rebuild, Made

LEMMA NextKeeps == IInv /\ [Next]_vars => IInv'
<1> SUFFICES ASSUME IInv, [Next]_vars PROVE IInv' OBVIOUS
<1>1. CASE \E b \in Blocks, counted \in BOOLEAN : Project(b, counted)
  BY <1>1, ProjectKeeps
<1>2. CASE Refresh BY <1>2, RefreshKeeps
<1>3. CASE Rebuild BY <1>3, RebuildKeeps
<1>4. CASE \E install \in BOOLEAN : Reindex(install)
  <2>1. /\ UNCHANGED <<text, pc, stored>> /\ index' = text /\ loadable' = TRUE
        /\ inserted' = {} /\ edited' = {} /\ missed' = FALSE
    BY <1>4 DEF Reindex, Made
  <2>2. QED BY <2>1, MakeKeeps DEF IInv, TypeOK
<1>5. CASE StartCatchUp \/ LeaveIndex \/ (\E there \in BOOLEAN : Install(there)) \/ UNCHANGED vars
  BY <1>5, OthersKeep
<1>6. QED BY <1>1, <1>2, <1>3, <1>4, <1>5 DEF Next

(* Every behaviour keeps the inductive invariant.                          *)
THEOREM Inductive == Spec => []IInv
BY Initially, NextKeeps, PTL DEF Spec

-----------------------------------------------------------------------------
(* The results. *)

(* Every variable keeps its type, and blocks that the index does not hold  *)
(* came after it was made.                                                 *)
THEOREM TypeCorrect == Spec => []TypeOK
<1>1. IInv => TypeOK BY DEF IInv
<1>2. QED BY <1>1, Inductive, PTL

LEMMA InductiveFound == IInv => NewestFound
<1> SUFFICES ASSUME IInv, NEW w \in Words, NEW b \in DOMAIN text \ edited, text[b] = w
             PROVE  b \in Found(w)
  BY DEF NewestFound
<1>1. CASE Substring BY <1>1 DEF Found
<1>2. CASE ~Substring
  <2>1. index # None /\ Indexed = DOMAIN index BY <1>2 DEF Substring, Indexed
  <2>2. CASE b \in Indexed
    <3>1. index[b] = text[b] BY <2>1, <2>2 DEF IInv, Faithful
    <3>2. b \in Ranked(w) BY <2>2, <3>1 DEF Ranked
    <3>3. QED BY <1>2, <3>2 DEF Found
  <2>3. CASE b \notin Indexed
    <3>1. b \in Fresh(w) BY <2>3 DEF Fresh
    <3>2. QED BY <1>2, <3>1 DEF Found
  <2>4. QED BY <2>2, <2>3
<1>3. QED BY <1>1, <1>2

(* A block whose text has not changed since the index was made is found,   *)
(* be it in the index or not.                                              *)
THEOREM AllFound == Spec => []NewestFound
BY InductiveFound, Inductive, PTL

LEMMA InductiveLag == IInv => LagBounded
<1> SUFFICES ASSUME IInv, pc = "idle", ~missed, index # None
             PROVE  Cardinality(Pending) < Most(MinPending, Cardinality(Indexed) \div Part)
  BY DEF LagBounded
<1>1. ~Enough BY DEF IInv, Seen
<1>2. Cardinality(Pending) \in Nat /\ Cardinality(Indexed) \in Nat BY Parts DEF IInv
<1>3. Most(MinPending, Cardinality(Indexed) \div Part) \in Int
  BY <1>2, SearchAssumption DEF Most
<1>4. QED BY <1>1, <1>2, <1>3 DEF Enough

(* However commands follow one another, few blocks are missing from the    *)
(* index after a catch-up that looked at it.                               *)
THEOREM LagIsBounded == Spec => []LagBounded
BY InductiveLag, Inductive, PTL

LEMMA SharesOf ==
  ASSUME NEW limit \in Nat, NEW ranked \in Nat, NEW fresh \in Nat
  PROVE  LET shown == Shares(limit, ranked, fresh)
         IN  /\ shown.ranked + shown.fresh = Least(limit, ranked + fresh)
             /\ shown.fresh >= Least(fresh, limit \div 4)
             /\ shown.ranked <= ranked /\ shown.fresh <= fresh
<1> DEFINE quarter == limit \div 4
           r       == Least(ranked, limit)
           keep    == Least(Least(fresh, limit), Most(quarter, limit - r))
<1>1. quarter \in Nat /\ quarter <= limit OBVIOUS
<1>2. Shares(limit, ranked, fresh) = [ranked |-> Least(r, limit - keep), fresh |-> keep]
  BY DEF Shares
<1> HIDE DEF quarter
<1>3. /\ Least(r, limit - keep) + keep = Least(limit, ranked + fresh)
      /\ keep >= Least(fresh, quarter)
      /\ Least(r, limit - keep) <= ranked /\ keep <= fresh
  BY <1>1 DEF Least, Most
<1>4. QED BY <1>2, <1>3 DEF quarter

LEMMA InductiveSlots == IInv => SlotsShared
<1> SUFFICES ASSUME IInv, NEW w \in Words, NEW limit \in 0..MaxLimit
             PROVE  LET ranked == Cardinality(Ranked(w))
                        fresh  == Cardinality(Fresh(w))
                        shown  == Shares(limit, ranked, fresh)
                    IN  /\ shown.ranked + shown.fresh = Least(limit, ranked + fresh)
                        /\ shown.fresh >= Least(fresh, limit \div 4)
                        /\ shown.ranked <= ranked /\ shown.fresh <= fresh
  BY DEF SlotsShared
<1>1. Ranked(w) \subseteq Blocks /\ Fresh(w) \subseteq Blocks BY Parts DEF IInv, Ranked, Fresh
<1>2. Cardinality(Ranked(w)) \in Nat /\ Cardinality(Fresh(w)) \in Nat BY <1>1, Counted
<1>3. limit \in Nat BY SearchAssumption
<1>4. QED BY <1>2, <1>3, SharesOf

(* However many ranked and new matches there are and whatever the limit,   *)
(* the new ones get a quarter of the slots and no slot is wasted.          *)
THEOREM SlotsAreShared == Spec => []SlotsShared
BY InductiveSlots, Inductive, PTL

(* Fewer than one more than the quotient, times the divisor.               *)
LEMMA Quotient ==
  ASSUME NEW n \in Nat, NEW p \in Nat \ {0}, NEW c \in Nat, n \div p <= c
  PROVE  n < (c + 1) * p
<1> DEFINE d == n \div p
<1>1. d \in Int /\ n = p * d + (n % p) /\ n % p < p OBVIOUS
<1> HIDE DEF d
<1>2. p * d <= p * c BY <1>1 DEF d
<1>3. n < p * c + p BY <1>1, <1>2
<1>4. p * c + p = (c + 1) * p OBVIOUS
<1>5. QED BY <1>3, <1>4

(* A catch-up makes the index anew at a cost that the new blocks pay.      *)
Paying ==
  Refresh /\ index' # index =>
    Cardinality(DOMAIN text) < (Part + 1) * Cardinality(inserted) + Part

LEMMA RefreshPays ==
  ASSUME IInv, Refresh, index' # index
  PROVE  Cardinality(DOMAIN text) < (Part + 1) * Cardinality(inserted) + Part
<1> DEFINE c == Cardinality(inserted)
           n == Cardinality(Indexed)
           s == Cardinality(DOMAIN text)
<1>1. FTSNeedsRebuild BY DEF Refresh
<1>2. /\ DOMAIN text \subseteq Indexed \cup inserted
      /\ inserted \subseteq Blocks /\ Indexed \subseteq Blocks /\ DOMAIN text \subseteq Blocks
      /\ n \in Nat /\ Cardinality(Pending) \in Nat
  BY Parts DEF IInv, TypeOK
<1>3. /\ IsFiniteSet(inserted) /\ IsFiniteSet(Indexed) /\ IsFiniteSet(Indexed \cup inserted)
      /\ c \in Nat /\ s \in Nat
  BY <1>2, Counted
<1>4. s <= n + c
  <2>1. s <= Cardinality(Indexed \cup inserted) BY <1>2, <1>3, FS_Subset
  <2>2. Cardinality(Indexed \cup inserted) = n + c - Cardinality(Indexed \cap inserted)
    BY <1>3, FS_Union
  <2>3. Cardinality(Indexed \cap inserted) \in Nat BY <1>2, Counted
  <2>4. Cardinality(Indexed \cup inserted) \in Nat BY <1>3, FS_CardinalityType
  <2>5. QED BY <1>2, <1>3, <2>1, <2>2, <2>3, <2>4
<1>5. n < (c + 1) * Part
  <2>1. CASE index = None
    <3>1. n = 0 BY <2>1, FS_EmptySet DEF Indexed
    <3>2. (c + 1) * Part >= Part
      <4>1. c * Part \in Nat BY <1>3, SearchAssumption
      <4>2. (c + 1) * Part = c * Part + Part BY <1>3, SearchAssumption
      <4>3. QED BY <4>1, <4>2, SearchAssumption
    <3>3. QED BY <1>3, <3>1, <3>2, SearchAssumption
  <2>2. CASE index # None
    <3>1. Cardinality(Pending) >= Most(MinPending, n \div Part)
      BY <1>1, <2>2 DEF FTSNeedsRebuild
    <3>2. n \div Part \in Int BY <1>2, SearchAssumption
    <3>3. n \div Part <= Cardinality(Pending)
      BY <1>2, <3>1, <3>2, SearchAssumption DEF Most
    <3>4. Pending \subseteq inserted BY <1>2 DEF Pending
    <3>5. Cardinality(Pending) <= c BY <1>3, <3>4, FS_Subset
    <3>6. n \div Part <= c BY <1>2, <1>3, <3>2, <3>3, <3>5
    <3>7. QED BY <1>2, <1>3, <3>6, Quotient, SearchAssumption
  <2>3. QED BY <2>1, <2>2
<1>6. (Part + 1) * c + Part = (c + 1) * Part + c
  BY <1>3, SearchAssumption
<1>7. (c + 1) * Part \in Nat BY <1>3, SearchAssumption
<1> HIDE DEF c, n, s
<1>8. s < (Part + 1) * c + Part BY <1>2, <1>3, <1>4, <1>5, <1>6, <1>7
<1>9. QED BY <1>8 DEF c, s

(* Each index that a catch-up makes is paid for by new blocks, each of     *)
(* which pays for Part + 1 blocks at most, rounding apart: they came since *)
(* the last one was made, so none pays twice.                              *)
THEOREM EachRebuildPaid == Spec => RebuildsPaid
<1>1. IInv /\ [Next]_vars => [Paying]_vars BY RefreshPays DEF Paying
<1>2. Spec => [][Paying]_vars BY <1>1, Inductive, PTL DEF Spec
<1>3. QED BY <1>2 DEF RebuildsPaid, Paying

=============================================================================
