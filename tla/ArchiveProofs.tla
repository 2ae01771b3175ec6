--------------------------- MODULE ArchiveProofs ---------------------------
(***************************************************************************)
(* Proofs about Archive: its safety invariants and its action properties,  *)
(* for any conversations, files, segments of other devices and bounds.     *)
(***************************************************************************)
EXTENDS Archive, ReconstructProofs

-----------------------------------------------------------------------------
(* The inductive invariant, in parts.                                      *)

Segments == [dev : Nat, first : Nat, obs : Seq(Observation)]

(* What the collector appends.                                             *)
Entries == {o \in Observation : o.kind # "tombstone"}

(* The complete lines of a file.                                           *)
Hist(k) == CompleteLines(file[k].data)

TypeInv ==
  /\ appendOnly \in BOOLEAN
  /\ file \in [Keys -> [data : Seq(Lines \cup {Torn}), mtime : 0..MaxEdits]]
  /\ \A k \in Keys : Hist(k) \in Seq(Lines) /\ (~appendOnly => file[k].data = Hist(k))
  /\ segs \in SUBSET Segments /\ IsFiniteSet(segs)
  /\ indexed \subseteq segs /\ listing \subseteq segs
  /\ state \in [Keys -> {None} \cup [data : Nonempty(Lines), mtime : {None} \cup 0..MaxEdits]]
  /\ row \in [Keys -> {None, Half} \cup SUBSET Nonempty(Lines)]
  /\ pc \in {"idle", "indexing", "projecting", "ready", "collecting", "saving",
             "saved", "done"}
  /\ affected \cup queue \cup lost \cup failed \subseteq Keys
  /\ DOMAIN stats \subseteq Keys /\ \A k \in DOMAIN stats : stats[k] \in 0..MaxEdits
  /\ DOMAIN fresh \subseteq Keys
  /\ \A k \in DOMAIN fresh : fresh[k] \in [data : Nonempty(Lines), mtime : 0..MaxEdits]
  /\ batch \in Seq(Entries)
  /\ faults \in Nat

(* What a command remembers of a phase is gone with it.                    *)
PhaseInv ==
  /\ pc # "collecting" => queue = {} /\ DOMAIN stats = {} /\ batch = << >>
  /\ pc \notin {"collecting", "saving"} => DOMAIN fresh = {}
  /\ affected # {} => pc \in {"indexing", "projecting"}

(* Of one device no two segments hold the same number; this one's end      *)
(* before the next number to use.                                          *)
Disjoint(S) ==
  \A s, t \in S : s.dev = t.dev =>
    s = t \/ s.first + Len(s.obs) <= t.first \/ t.first + Len(t.obs) <= s.first

NumberInv ==
  /\ NextSeq \in Nat
  /\ \A s \in segs : IF s.dev = Self
                     THEN s.first + Len(s.obs) <= NextSeq /\ s.obs \in Seq(Entries)
                     ELSE s \in Foreign
  /\ Disjoint(segs)

(* What is remembered of a file is no newer than the file, and what it     *)
(* holds when it is as new.                                                *)
Knows(st, k) ==
  st.mtime <= file[k].mtime /\ (st.mtime = file[k].mtime => st.data = Complete(k))

SkipOf(k) ==
  /\ k \in DOMAIN stats => stats[k] <= file[k].mtime
  /\ k \in DOMAIN fresh => Knows(fresh[k], k)
  /\ state[k] # None /\ state[k].mtime # None => Knows(state[k], k)

SkipInv == \A k \in Keys : SkipOf(k)

(* Nothing of a deleted conversation is on its way to the log.             *)
DeletedOf(k) == k \notin queue \cup DOMAIN stats /\ \A j \in DOMAIN batch : batch[j].key # k

DeletedInv == \A k \in Deleted : DeletedOf(k)

(* This device's observations of a conversation, in the log and still to   *)
(* be appended.                                                            *)
OwnIn(S, k) == {o \in ObsFor(S, k) : o.dev = Self}
Waiting(k)  == {batch[j] : j \in {j \in DOMAIN batch : batch[j].key = k}}

(* One of the observations has the line as the i-th.                       *)
Has(O, i, line) == \E o \in O : o.off < i /\ i <= End(o) /\ o.data[i - o.off] = line

(* What is remembered as logged is.                                        *)
StateLog(k) ==
  state[k] # None =>
    \A i \in 1..Len(state[k].data) : Has(OwnIn(segs, k), i, state[k].data[i])

FreshLog(k) ==
  k \in DOMAIN fresh =>
    \A i \in 1..Len(fresh[k].data) :
      Has(OwnIn(segs, k) \cup Waiting(k), i, fresh[k].data[i])

(* An observation starts at the beginning, or goes on from one in the log. *)
Linked(O, o) ==
  \/ o.off = 0
  \/ o.kind = "append" /\ \E p \in O : p.off < o.off /\ o.off <= End(p)

OwnLog(k) ==
  \A o \in OwnIn(segs, k) : Linked({p \in OwnIn(segs, k) : p.seq < o.seq}, o)

WaitLog(k) == \A o \in Waiting(k) : Linked(OwnIn(segs, k), o)

LogInv == \A k \in Keys : StateLog(k) /\ FreshLog(k) /\ OwnLog(k) /\ WaitLog(k)

(* A source that is not append-only is logged as snapshots.                *)
SnapshotOf(k) ==
  \A o \in OwnIn(segs, k) \cup Waiting(k) : o.kind = "snapshot" /\ o.off = 0

SnapshotInv == ~appendOnly => \A k \in Keys : SnapshotOf(k)

Newest(k, o) == \A p \in OwnIn(segs, k) : p.seq <= o.seq

Saved(k, o) == state[k] # None /\ state[k].data = o.data

(* A conversation is looked at, read and appended once in a collection.    *)
OnceOf(k) ==
  /\ \A o \in Waiting(k) : k \in DOMAIN fresh /\ fresh[k].data = o.data
  /\ \A i, j \in DOMAIN batch : batch[i].key = k /\ batch[j].key = k => i = j
  /\ k \in DOMAIN fresh => k \notin queue \cup DOMAIN stats
  /\ k \in queue => k \notin DOMAIN stats

(* The last snapshot is the one remembered, or the one about to be, which  *)
(* is not yet indexed.                                                     *)
NewestOf(k) ==
  \A o \in OwnIn(segs, k) : Newest(k, o) =>
    /\ Saved(k, o) \/ o \notin ObsFor(indexed, k)
    /\ IF Waiting(k) = {} /\ k \in DOMAIN fresh THEN fresh[k].data = o.data ELSE Saved(k, o)

NewestInv ==
  ~appendOnly => \A k \in Keys : OnceOf(k) /\ (faults = 0 => NewestOf(k))

(* Of a file that only grows, all there is of it is a part or a beginning. *)
GrowOf(k) ==
  /\ \A o \in OwnIn(segs, k) \cup Waiting(k) : Holds(Hist(k), o)
  /\ state[k] # None => Continues(Hist(k), state[k].data)
  /\ k \in DOMAIN fresh => Continues(Hist(k), fresh[k].data)
  /\ row[k] \notin {None, Half} => Beginning(Hist(k), row[k])

GrowInv == \A k \in Own \ Rewritable : GrowOf(k)

-----------------------------------------------------------------------------
(* Observations.                                                           *)

(* The observation at i of a segment, as ObsFor has it.                    *)
ObsAt(s, i) ==
  [dev |-> s.dev, seq |-> s.first + i - 1, kind |-> s.obs[i].kind,
   off |-> s.obs[i].off, data |-> s.obs[i].data]

LEMMA ObsForIs ==
  ASSUME NEW S, NEW k, NEW o
  PROVE  o \in ObsFor(S, k) <=>
           \E s \in S : \E i \in DOMAIN s.obs : s.obs[i].key = k /\ o = ObsAt(s, i)
BY DEF ObsFor, ObsAt

LEMMA ObsForMonotone ==
  ASSUME NEW S, NEW T, NEW k, S \subseteq T
  PROVE  ObsFor(S, k) \subseteq ObsFor(T, k)
BY DEF ObsFor

LEMMA SegmentTyped ==
  ASSUME NEW s \in Segments
  PROVE  /\ s.dev \in Nat /\ s.first \in Nat /\ s.obs \in Seq(Observation) /\ Len(s.obs) \in Nat
         /\ DOMAIN s.obs = 1..Len(s.obs)
         /\ \A i \in 1..Len(s.obs) :
              /\ s.obs[i] \in Observation /\ s.obs[i].key \in Keys
              /\ s.obs[i].kind \in {"append", "snapshot", "tombstone"}
              /\ s.obs[i].off \in Nat /\ s.obs[i].data \in Seq(Lines)
              /\ s.obs[i].kind = "tombstone" \/ s.obs[i].data # << >>
<1>1. s.dev \in Nat /\ s.first \in Nat /\ s.obs \in Seq(Observation) BY DEF Segments
<1>2. Len(s.obs) \in Nat /\ DOMAIN s.obs = 1..Len(s.obs) BY <1>1
<1>3. \A i \in 1..Len(s.obs) : s.obs[i] \in Observation BY <1>1
<1>4. \A o \in Observation :
        /\ o.key \in Keys /\ o.kind \in {"append", "snapshot", "tombstone"}
        /\ o.off \in Nat /\ o.data \in Seq(Lines) /\ (o.kind = "tombstone" \/ o.data # << >>)
  BY DEF Observation
<1>5. QED BY <1>1, <1>2, <1>3, <1>4

LEMMA ObsForTyped ==
  ASSUME NEW S \in SUBSET Segments, NEW k, NEW o \in ObsFor(S, k)
  PROVE  /\ o.dev \in Nat /\ o.seq \in Nat /\ o.kind \in {"append", "snapshot", "tombstone"}
         /\ o.off \in Nat /\ o.data \in Seq(Lines) /\ Len(o.data) \in Nat
         /\ o.kind = "tombstone" \/ o.data \in Nonempty(Lines)
<1> PICK s \in S : \E i \in DOMAIN s.obs : o = ObsAt(s, i) BY ObsForIs
<1>1. PICK i \in DOMAIN s.obs : o = ObsAt(s, i) OBVIOUS
<1>2. s \in Segments OBVIOUS
<1>3. /\ s.dev \in Nat /\ s.first \in Nat /\ i \in 1..Len(s.obs) /\ Len(s.obs) \in Nat
      /\ s.obs[i].kind \in {"append", "snapshot", "tombstone"}
      /\ s.obs[i].off \in Nat /\ s.obs[i].data \in Seq(Lines)
      /\ s.obs[i].kind = "tombstone" \/ s.obs[i].data # << >>
  BY <1>2, SegmentTyped
<1>4. /\ o.dev = s.dev /\ o.seq = s.first + i - 1 /\ o.kind = s.obs[i].kind
      /\ o.off = s.obs[i].off /\ o.data = s.obs[i].data
  BY <1>1 DEF ObsAt
<1>5. QED BY <1>3, <1>4 DEF Nonempty

(* The image of a finite set.                                              *)
LEMMA ImageFinite ==
  ASSUME NEW S, IsFiniteSet(S), NEW T, NEW f \in [S -> T], \A y \in T : \E x \in S : f[x] = y
  PROVE  IsFiniteSet(T)
<1>1. f \in Surjection(S, T) BY DEF Surjection
<1>2. QED BY <1>1, FS_Surjection

LEMMA ObsForFinite ==
  ASSUME NEW S \in SUBSET Segments, IsFiniteSet(S), NEW k
  PROVE  IsFiniteSet(ObsFor(S, k))
<1> DEFINE A(s) == {ObsAt(s, i) : i \in {i \in DOMAIN s.obs : s.obs[i].key = k}}
           U == {A(s) : s \in S}
<1>1. ASSUME NEW s \in S PROVE IsFiniteSet(A(s))
  <2> DEFINE D == {i \in DOMAIN s.obs : s.obs[i].key = k}
             f == [i \in D |-> ObsAt(s, i)]
  <2>1. s \in Segments OBVIOUS
  <2>2. D \in SUBSET (1..Len(s.obs)) /\ Len(s.obs) \in Nat BY <2>1, SegmentTyped
  <2>3. IsFiniteSet(1..Len(s.obs)) BY <2>2, FS_Interval
  <2>4. IsFiniteSet(D) BY <2>2, <2>3, FS_Subset
  <2>5. f \in [D -> A(s)] /\ \A y \in A(s) : \E x \in D : f[x] = y OBVIOUS
  <2> HIDE DEF A, f, D
  <2>6. QED BY <2>4, <2>5, ImageFinite
<1>2. IsFiniteSet(U)
  <2> DEFINE f == [s \in S |-> A(s)]
  <2> HIDE DEF A
  <2>1. f \in [S -> U] /\ \A y \in U : \E x \in S : f[x] = y OBVIOUS
  <2> HIDE DEF f, U
  <2>2. QED BY <2>1, ImageFinite
<1>3. \A x \in U : IsFiniteSet(x)
  <2> HIDE DEF A
  <2>1. QED BY <1>1
<1>4. IsFiniteSet(UNION U)
  <2> HIDE DEF U
  <2>1. QED BY <1>2, <1>3, FS_UNION
<1>5. ObsFor(S, k) = UNION U BY DEF ObsFor, ObsAt
<1> HIDE DEF U
<1>6. QED BY <1>4, <1>5

LEMMA ObsForDistinct ==
  ASSUME NEW S \in SUBSET Segments, Disjoint(S), NEW k,
         NEW o \in ObsFor(S, k), NEW p \in ObsFor(S, k), o.dev = p.dev, o.seq = p.seq
  PROVE  o = p
<1> PICK s \in S : \E i \in DOMAIN s.obs : o = ObsAt(s, i) BY ObsForIs
<1>1. PICK i \in DOMAIN s.obs : o = ObsAt(s, i) OBVIOUS
<1> PICK t \in S : \E j \in DOMAIN t.obs : p = ObsAt(t, j) BY ObsForIs
<1>2. PICK j \in DOMAIN t.obs : p = ObsAt(t, j) OBVIOUS
<1>3. /\ s.first \in Nat /\ i \in 1..Len(s.obs) /\ Len(s.obs) \in Nat
      /\ t.first \in Nat /\ j \in 1..Len(t.obs) /\ Len(t.obs) \in Nat
  BY SegmentTyped
<1>4. s.dev = t.dev /\ s.first + i - 1 = t.first + j - 1 BY <1>1, <1>2 DEF ObsAt
<1>5. s = t
  <2>1. s = t \/ s.first + Len(s.obs) <= t.first \/ t.first + Len(t.obs) <= s.first
    BY <1>4 DEF Disjoint
  <2>2. i \in Nat /\ 1 <= i /\ i <= Len(s.obs) /\ j \in Nat /\ 1 <= j /\ j <= Len(t.obs)
    BY <1>3
  <2>3. s.first + i = t.first + j 
    <3>1. s.first \in Nat /\ t.first \in Nat BY <1>3
    <3>2. s.first + i - 1 = t.first + j - 1 BY <1>4
    <3>3. i \in Nat /\ j \in Nat BY <2>2
    <3>4. QED BY ONLY <3>1, <3>2, <3>3
  <2>4. ~(s.first + Len(s.obs) <= t.first) BY <1>3, <2>2, <2>3
  <2>5. ~(t.first + Len(t.obs) <= s.first) BY <1>3, <2>2, <2>3
  <2>6. QED BY <2>1, <2>4, <2>5
<1>6. i = j BY <1>3, <1>4, <1>5
<1>7. QED BY <1>1, <1>2, <1>5, <1>6

-----------------------------------------------------------------------------
(* Versions.                                                               *)

FragmentAt(o) == [off |-> o.off, data |-> o.data, dev |-> o.dev, seq |-> o.seq]
Frags(S, k)   == {FragmentAt(o) : o \in Live(S, k)}

LEMMA LiveIn ==
  ASSUME NEW S, NEW k
  PROVE  Live(S, k) \subseteq ObsFor(S, k)
BY DEF Live

LEMMA NotTombstone ==
  ASSUME NEW S, NEW k, ~Tombstoned(S, k), NEW o \in ObsFor(S, k)
  PROVE  o.kind # "tombstone"
<1> PICK s \in S : \E i \in DOMAIN s.obs : s.obs[i].key = k /\ o = ObsAt(s, i) BY ObsForIs
<1>1. PICK i \in DOMAIN s.obs : s.obs[i].key = k /\ o = ObsAt(s, i) OBVIOUS
<1>2. o.kind = s.obs[i].kind BY <1>1 DEF ObsAt
<1>3. QED BY <1>1, <1>2 DEF Tombstoned

LEMMA VersionsGiven ==
  ASSUME NEW S \in SUBSET Segments, IsFiniteSet(S), Disjoint(S), NEW k, ~Tombstoned(S, k)
  PROVE  VersionsOf(S, k) = Contents(Frags(S, k)) /\ Given(Lines, Frags(S, k))
<1>1. VersionsOf(S, k) = Contents(Frags(S, k)) BY DEF VersionsOf, Frags, FragmentAt
<1>2. \A o \in Live(S, k) :
        /\ o \in ObsFor(S, k) /\ o.dev \in Nat /\ o.seq \in Nat
        /\ o.off \in Nat /\ o.data \in Seq(Lines) \ {<< >>}
  BY LiveIn, ObsForTyped, NotTombstone DEF Nonempty
<1>3. Frags(S, k) \in SUBSET FragmentsOver(Lines) BY <1>2 DEF Frags, FragmentAt, FragmentsOver
<1>4. IsFiniteSet(Frags(S, k))
  <2> DEFINE f == [o \in Live(S, k) |-> FragmentAt(o)]
  <2>1. IsFiniteSet(Live(S, k)) BY LiveIn, ObsForFinite, FS_Subset
  <2>2. f \in [Live(S, k) -> Frags(S, k)] BY DEF Frags
  <2>3. \A y \in Frags(S, k) : \E x \in Live(S, k) : f[x] = y BY DEF Frags
  <2> HIDE DEF f
  <2>4. QED BY <2>1, <2>2, <2>3, ImageFinite
<1>5. Numbered(Frags(S, k))
  <2> SUFFICES ASSUME NEW o \in Live(S, k), NEW p \in Live(S, k),
                      o.dev = p.dev, o.seq = p.seq
               PROVE  FragmentAt(o) = FragmentAt(p)
    BY DEF Numbered, Frags, FragmentAt
  <2>1. o = p BY <1>2, ObsForDistinct
  <2>2. QED BY <2>1
<1>6. QED BY <1>1, <1>3, <1>4, <1>5 DEF Given

LEMMA VersionsTyped ==
  ASSUME NEW S \in SUBSET Segments, IsFiniteSet(S), Disjoint(S), NEW k, ~Tombstoned(S, k)
  PROVE  VersionsOf(S, k) \subseteq Nonempty(Lines)
BY VersionsGiven, ContentsTyped

LEMMA ProjectedTyped ==
  ASSUME NEW S \in SUBSET Segments, IsFiniteSet(S), Disjoint(S), NEW k,
         NEW there \in {None, Half} \cup SUBSET Nonempty(Lines)
  PROVE  Projected(S, k, there) \in {None, Half} \cup SUBSET Nonempty(Lines)
BY VersionsTyped DEF Projected

(* What is projected does not depend on what is there when it shows         *)
(* anything, nor when the conversation is deleted.                         *)
LEMMA ProjectedIs ==
  ASSUME NEW S, NEW k, NEW there
  PROVE  /\ Tombstoned(S, k) => Projected(S, k, there) = None
         /\ Projected(S, k, None) # None =>
              /\ ~Tombstoned(S, k)
              /\ Projected(S, k, there) = VersionsOf(S, k)
              /\ Projected(S, k, None) = VersionsOf(S, k)
BY DEF Projected

-----------------------------------------------------------------------------
(* What recomputing the collector's state makes of its observations.       *)

After(st, o) ==
  LET prev == IF st = None THEN << >> ELSE st
  IN  IF o.kind = "tombstone" THEN st
      ELSE IF o.kind = "snapshot" THEN o.data
      ELSE IF o.off <= Len(prev) THEN SubSeq(prev, 1, o.off) \o o.data
      ELSE prev

ReplaySteps(r, n, obs) ==
  /\ r[0] = None
  /\ \A i \in 1..n : r[i] = After(r[i - 1], obs[i])
  /\ Replay(obs) = r[n]

(* An entry continues the content from its offset on.                      *)
LEMMA SpliceIs ==
  ASSUME NEW prev \in Seq(Lines), NEW off \in 0..Len(prev), NEW data \in Seq(Lines)
  PROVE  LET new == SubSeq(prev, 1, off) \o data
         IN  /\ new \in Seq(Lines) /\ Len(new) = off + Len(data)
             /\ \A i \in 1..Len(new) : new[i] = IF i <= off THEN prev[i] ELSE data[i - off]
<1> DEFINE t == SubSeq(prev, 1, off)
           new == t \o data
<1>1. /\ Len(prev) \in Nat /\ off \in Nat /\ Len(data) \in Nat
      /\ \A i \in 1..off : prev[i] \in Lines
  OBVIOUS
<1>2. /\ t \in Seq(Lines) /\ Len(t) = IF 1 <= off THEN off - 1 + 1 ELSE 0
      /\ \A i \in 1..off - 1 + 1 : t[i] = prev[1 + i - 1]
  BY <1>1, SubSeqProperties
<1> HIDE DEF t
<1>3. Len(t) = off /\ \A i \in 1..off : t[i] = prev[i] BY <1>1, <1>2
<1>4. /\ new \in Seq(Lines) /\ Len(new) = Len(t) + Len(data)
      /\ \A i \in 1..Len(t) + Len(data) :
           new[i] = IF i <= Len(t) THEN t[i] ELSE data[i - Len(t)]
  BY <1>2, ConcatProperties
<1> HIDE DEF new
<1>5. ASSUME NEW i \in 1..Len(new)
      PROVE  new[i] = IF i <= off THEN prev[i] ELSE data[i - off]
  <2>1. i \in 1..off + Len(data) BY <1>3, <1>4
  <2>2. new[i] = IF i <= off THEN t[i] ELSE data[i - off] BY <1>3, <1>4, <2>1
  <2>3. i <= off => i \in 1..off BY <1>1, <2>1
  <2>4. QED BY <1>3, <2>2, <2>3
<1>6. Len(new) = off + Len(data) BY <1>3, <1>4
<1>7. QED BY <1>4, <1>5, <1>6 DEF new, t

LEMMA AfterTyped ==
  ASSUME NEW st \in {None} \cup Seq(Lines), NEW o,
         o.off \in Nat, o.data \in Seq(Lines)
  PROVE  After(st, o) \in {None} \cup Seq(Lines)
<1> DEFINE prev == IF st = None THEN << >> ELSE st
<1>1. prev \in Seq(Lines) /\ Len(prev) \in Nat OBVIOUS
<1> HIDE DEF prev
<1>2. CASE o.off <= Len(prev)
  <2>1. o.off \in 0..Len(prev) BY <1>1, <1>2
  <2>2. SubSeq(prev, 1, o.off) \o o.data \in Seq(Lines) BY <1>1, <2>1, SpliceIs
  <2>3. QED BY <1>1, <2>2 DEF After, prev
<1>3. CASE ~(o.off <= Len(prev)) BY <1>1, <1>3 DEF After, prev
<1>4. QED BY <1>2, <1>3

LEMMA ReplayRun ==
  ASSUME NEW obs, NEW n \in Nat, Len(obs) = n,
         \A i \in 1..n : obs[i].off \in Nat /\ obs[i].data \in Seq(Lines)
  PROVE  \E r \in [0..n -> {None} \cup Seq(Lines)] : ReplaySteps(r, n, obs)
<1> DEFINE S == {None} \cup Seq(Lines)
           Val(f, i) == IF i = 0 THEN None
                        ELSE LET o    == obs[i]
                                 prev == IF f[i - 1] = None THEN << >> ELSE f[i - 1]
                             IN  IF o.kind = "tombstone" THEN f[i - 1]
                                 ELSE IF o.kind = "snapshot" THEN o.data
                                 ELSE IF o.off <= Len(prev) THEN SubSeq(prev, 1, o.off) \o o.data
                                 ELSE prev
           g == [x \in S \X (1..n) |-> After(x[1], obs[x[2]])]
           run == CHOOSE f : f = [i \in 0..n |-> Val(f, i)]
<1>1. \A f : \A i \in 1..n : Val(f, i) = After(f[i - 1], obs[i]) BY DEF After
<1>2. \A st \in S : \A i \in 1..n : After(st, obs[i]) \in S BY AfterTyped
<1> HIDE DEF S
<1>3. g \in [S \X (1..n) -> S]
  <2>1. \A x \in S \X (1..n) : x[1] \in S /\ x[2] \in 1..n OBVIOUS
  <2>2. QED BY <1>2, <2>1
<1>4. PICK q \in [0..n -> S] : Iterates(q, n, None, g)
  <2> HIDE DEF g
  <2>1. None \in S BY DEF S
  <2>2. QED BY <1>3, <2>1, Steps
<1>5. q[0] = None /\ \A i \in 1..n : q[i] = After(q[i - 1], obs[i])
  <2> SUFFICES ASSUME NEW i \in 1..n PROVE q[i] = After(q[i - 1], obs[i])
    BY <1>4 DEF Iterates
  <2>1. q[i - 1] \in S OBVIOUS
  <2>2. <<q[i - 1], i>> \in S \X (1..n) BY <2>1
  <2>3. g[<<q[i - 1], i>>] = After(q[i - 1], obs[i]) BY <2>2
  <2> HIDE DEF g
  <2>4. QED BY <1>4, <2>3 DEF Iterates
<1> HIDE DEF g
<1>6. q = [i \in 0..n |-> Val(q, i)]
  <2>0. \A f : Val(f, 0) = None OBVIOUS
  <2> HIDE DEF Val
  <2>1. \A i \in 0..n : q[i] = Val(q, i) BY <1>1, <1>5, <2>0
  <2>2. QED BY <2>1
<1>7. run = [i \in 0..n |-> Val(run, i)]
  <2> HIDE DEF Val
  <2>1. QED BY <1>6
<1>8. Replay(obs) = run[n] BY DEF Replay
<1> HIDE DEF run
<1>9. run[0] = None BY <1>7
<1>10. \A i \in 1..n : run[i] = After(run[i - 1], obs[i])
  <2> HIDE DEF Val
  <2>1. \A i \in 1..n : run[i] = Val(run, i) BY <1>7
  <2>2. QED BY <1>1, <2>1
<1>11. \A i \in 0..n : run[i] \in S
  <2> DEFINE T == {i \in 0..n : run[i] \in S}
  <2>1. 0 \in T BY <1>9 DEF S
  <2>2. ASSUME NEW i \in 1..n, i - 1 \in T PROVE i \in T BY <2>2, <1>2, <1>10
  <2> HIDE DEF T
  <2>3. \A i \in 0..n : i \in T BY <2>1, <2>2, UpTo
  <2>4. QED BY <2>3 DEF T
<1>12. run \in [0..n -> S]
  <2> HIDE DEF Val
  <2>1. run = [i \in 0..n |-> run[i]] BY <1>7
  <2>2. QED BY <2>1, <1>11
<1>13. ReplaySteps(run, n, obs) BY <1>8, <1>9, <1>10 DEF ReplaySteps
<1>14. QED BY <1>12, <1>13 DEF S

(* What the collector's state is recomputed from, in order.                *)
Logged(S, k) ==
  /\ S \in SUBSET Segments /\ IsFiniteSet(S) /\ Disjoint(S)
  /\ \A o \in OwnIn(S, k) : o.kind # "tombstone"

LEMMA OwnObsIs ==
  ASSUME NEW S, NEW k, Logged(S, k)
  PROVE  LET n == Cardinality(OwnIn(S, k))
         IN  /\ n \in Nat /\ Len(OwnObs(S, k)) = n
             /\ OwnIn(S, k) # {} => n >= 1
             /\ \A i \in 1..n : OwnObs(S, k)[i] \in OwnIn(S, k)
             /\ n >= 1 => \A p \in OwnIn(S, k) :
                            OwnObs(S, k)[1].seq <= p.seq /\ p.seq <= OwnObs(S, k)[n].seq
<1> DEFINE own == OwnIn(S, k)
           n == Cardinality(own)
           R == {x \in own \X own : x[1].seq < x[2].seq}
           At(i) == CHOOSE o \in own : Cardinality({p \in own : p.seq < o.seq}) = i - 1
<1>1. /\ \A o \in own : o \in ObsFor(S, k) /\ o.dev = Self /\ o.seq \in Nat
      /\ own = {o \in ObsFor(S, k) : o.dev = Self /\ o.kind # "tombstone"}
  BY ObsForTyped DEF Logged, OwnIn
<1>2. IsFiniteSet(own)
  <2>1. own \in SUBSET ObsFor(S, k) BY DEF OwnIn
  <2> HIDE DEF own
  <2>2. QED BY <2>1, ObsForFinite, FS_Subset DEF Logged
<1>3. \A o, p \in own : o.seq = p.seq => o = p BY <1>1, ObsForDistinct DEF Logged
<1> HIDE DEF own
<1>4. \A o, p \in own : <<o, p>> \in R <=> o.seq < p.seq OBVIOUS
<1>5. \A o \in own : Below(own, R, o) = {p \in own : p.seq < o.seq} BY <1>4 DEF Below
<1> HIDE DEF R
<1>6. /\ n \in Nat
      /\ \A i \in 1..n : \E o \in own : Cardinality(Below(own, R, o)) = i - 1
      /\ \A o \in own : Cardinality(Below(own, R, o)) = n - 1 =>
           \A p \in own : p = o \/ <<p, o>> \in R
  <2>1. \A o \in own : <<o, o>> \notin R BY <1>1, <1>4
  <2>2. \A o, p \in own : o = p \/ <<o, p>> \in R \/ <<p, o>> \in R
    <3> SUFFICES ASSUME NEW o \in own, NEW p \in own, o # p
                 PROVE  <<o, p>> \in R \/ <<p, o>> \in R
      OBVIOUS
    <3>1. o.seq \in Nat /\ p.seq \in Nat BY <1>1
    <3>2. o.seq # p.seq BY <1>3
    <3>3. o.seq < p.seq \/ p.seq < o.seq BY <3>1, <3>2
    <3>4. QED BY <1>4, <3>3
  <2>3. \A o, p, q \in own : <<o, p>> \in R /\ <<p, q>> \in R => <<o, q>> \in R BY <1>1, <1>4
  <2>4. n \in Nat BY <1>2, FS_CardinalityType
  <2>5. Ranked(own, R) BY ONLY <1>2, <2>1, <2>2, <2>3, RanksAre
  <2>6. QED BY <2>4, <2>5 DEF Ranked
<1>7. OwnObs(S, k) = [i \in 1..n |-> At(i)] BY <1>1 DEF OwnObs
<1> HIDE DEF n
<1>8. \A i \in 1..n : At(i) \in own /\ Cardinality(Below(own, R, At(i))) = i - 1
  <2> SUFFICES ASSUME NEW i \in 1..n
               PROVE  At(i) \in own /\ Cardinality(Below(own, R, At(i))) = i - 1
    OBVIOUS
  <2>1. \E o \in own : Cardinality({p \in own : p.seq < o.seq}) = i - 1 BY <1>5, <1>6
  <2>2. At(i) \in own /\ Cardinality({p \in own : p.seq < At(i).seq}) = i - 1 BY <2>1
  <2> HIDE DEF At
  <2>3. QED BY <1>5, <2>2
<1> HIDE DEF At
<1>9. Len(OwnObs(S, k)) = n /\ \A i \in 1..n : OwnObs(S, k)[i] = At(i) BY <1>6, <1>7
<1>10. ASSUME n >= 1, NEW p \in own PROVE At(1).seq <= p.seq /\ p.seq <= At(n).seq
  <2>1. 1 \in 1..n /\ n \in 1..n BY <1>6, <1>10
  <2>2. At(1) \in own /\ Cardinality(Below(own, R, At(1))) = 0 BY <1>8, <2>1
  <2>3. IsFiniteSet(Below(own, R, At(1))) BY <1>2, FS_Subset DEF Below
  <2>4. Below(own, R, At(1)) = {} BY <2>2, <2>3, FS_EmptySet
  <2>5. ~(p.seq < At(1).seq) BY <1>5, <2>2, <2>4
  <2>6. At(n) \in own /\ Cardinality(Below(own, R, At(n))) = n - 1 BY <1>8, <2>1
  <2>7. p = At(n) \/ p.seq < At(n).seq BY <1>4, <1>6, <2>6
  <2>8. p.seq \in Nat /\ At(1).seq \in Nat /\ At(n).seq \in Nat BY <1>1, <2>2, <2>6
  <2>9. QED BY <2>5, <2>7, <2>8
<1>11. own # {} => n >= 1
  <2>1. n = 0 => own = {} BY <1>2, FS_EmptySet DEF n
  <2>2. QED BY <1>6, <2>1
<1>12. n >= 1 => 1 \in 1..n /\ n \in 1..n BY <1>6
<1>13. QED BY <1>6, <1>8, <1>9, <1>10, <1>11, <1>12 DEF own, n

(* A set of contents that the observations start in and lead back to.      *)
LEMMA ReplayOwn ==
  ASSUME NEW S, NEW k, Logged(S, k),
         \A o \in OwnIn(S, k) : o.off = 0 \/ \E p \in OwnIn(S, k) : p.seq < o.seq,
         NEW V \in SUBSET Nonempty(Lines),
         \A o \in OwnIn(S, k) : o.off = 0 \/ o.kind = "snapshot" => o.data \in V,
         \A v \in V : \A o \in OwnIn(S, k) :
           o.off <= Len(v) => SubSeq(v, 1, o.off) \o o.data \in V
  PROVE  /\ OwnIn(S, k) = {} => Replay(OwnObs(S, k)) = None
         /\ OwnIn(S, k) # {} => Replay(OwnObs(S, k)) \in V
<1> DEFINE own == OwnIn(S, k)
           obs == OwnObs(S, k)
           n   == Cardinality(own)
<1>1. /\ n \in Nat /\ Len(obs) = n /\ (own # {} => n >= 1)
      /\ \A i \in 1..n : obs[i] \in own
      /\ n >= 1 => \A p \in own : obs[1].seq <= p.seq /\ p.seq <= obs[n].seq
  BY OwnObsIs
<1>2. own = {} => n = 0 BY FS_EmptySet
<1>3. \A o \in own :
        /\ o.off \in Nat /\ o.data \in Seq(Lines) /\ o.seq \in Nat
        /\ o.kind \in {"append", "snapshot"}
  BY ObsForTyped DEF OwnIn, Logged
<1>4. \A o \in own : o.off = 0 \/ \E p \in own : p.seq < o.seq OBVIOUS
<1>5. \A o \in own : o.off = 0 \/ o.kind = "snapshot" => o.data \in V OBVIOUS
<1>6. \A v \in V : \A o \in own : o.off <= Len(v) => SubSeq(v, 1, o.off) \o o.data \in V
  OBVIOUS
<1> HIDE DEF own, obs, n
<1>7. PICK r \in [0..n -> {None} \cup Seq(Lines)] : ReplaySteps(r, n, obs)
  <2>1. \A i \in 1..n : obs[i].off \in Nat /\ obs[i].data \in Seq(Lines) BY <1>1, <1>3
  <2>2. QED BY <1>1, <2>1, ReplayRun
<1>8. CASE own = {} BY <1>2, <1>7, <1>8 DEF ReplaySteps, own, obs
<1>9. CASE own # {}
  <2> DEFINE T == {i \in 0..n : i = 0 \/ r[i] \in V}
  <2>1. 0 \in T BY <1>1
  <2>2. ASSUME NEW i \in 1..n, i - 1 \in T PROVE i \in T
    <3> DEFINE o == obs[i]
    <3>1. o \in own /\ r[i] = After(r[i - 1], o) BY <1>1, <1>7 DEF ReplaySteps
    <3> HIDE DEF o
    <3>2. /\ o.off \in Nat /\ o.data \in Seq(Lines) /\ o.kind \in {"append", "snapshot"}
      BY <1>3, <3>1
    <3>3. CASE i = 1
      <4>1. o.off = 0
        <5>1. n >= 1 BY <1>1, <1>9
        <5>2. \A p \in own : o.seq <= p.seq BY <1>1, <3>3, <5>1 DEF o
        <5>3. ~\E p \in own : p.seq < o.seq BY <1>3, <3>1, <5>2
        <5>4. QED BY <1>4, <3>1, <5>3
      <4>2. o.data \in V BY <1>5, <3>1, <4>1
      <4>3. r[i - 1] = None BY <1>7, <3>3 DEF ReplaySteps
      <4>4. SubSeq(<< >>, 1, 0) \o o.data = o.data
        <5>1. SubSeq(<< >>, 1, 0) = << >> BY SubSeqEmpty
        <5>2. QED BY <3>2, <5>1, ConcatEmptySeq
      <4>5. r[i] = o.data
        <5>1. After(None, o) = IF o.kind = "snapshot" THEN o.data
                               ELSE IF 0 <= Len(<< >>) THEN SubSeq(<< >>, 1, 0) \o o.data
                               ELSE << >>
          BY <3>2, <4>1 DEF After
        <5>2. 0 <= Len(<< >>) OBVIOUS
        <5>3. After(None, o) = o.data BY <4>4, <5>1, <5>2
        <5>4. QED BY <3>1, <4>3, <5>3
      <4>6. QED BY <4>2, <4>5
    <3>4. CASE i # 1
      <4>1. r[i - 1] \in V BY <2>2, <3>4
      <4>2. r[i - 1] \in Nonempty(Lines) /\ r[i - 1] # None
        BY <4>1, ArchiveAssumption DEF Nonempty
      <4>3. CASE o.kind = "snapshot" BY <1>5, <3>1, <4>3 DEF After
      <4>4. CASE o.kind = "append" /\ o.off <= Len(r[i - 1])
        <5> DEFINE v == r[i - 1]
                   w == SubSeq(v, 1, o.off) \o o.data
        <5>1. r[i] = w BY <3>1, <4>2, <4>4 DEF After
        <5>2. w \in V BY <1>6, <3>1, <4>1, <4>4
        <5> HIDE DEF w
        <5>3. QED BY <5>1, <5>2
      <4>5. CASE o.kind = "append" /\ ~(o.off <= Len(r[i - 1]))
        BY <3>1, <4>1, <4>2, <4>5 DEF After
      <4>6. QED BY <3>2, <4>3, <4>4, <4>5
    <3>5. QED BY <3>3, <3>4
  <2> HIDE DEF T
  <2>3. \A i \in 0..n : i \in T BY <1>1, <2>1, <2>2, UpTo
  <2>4. n \in T /\ n # 0 BY <1>1, <1>9, <2>3
  <2>5. r[n] \in V BY <2>4 DEF T
  <2>6. QED BY <1>7, <1>9, <2>5 DEF ReplaySteps, own, obs
<1>10. QED BY <1>8, <1>9

(* Of snapshots the last is what is recomputed.                            *)
LEMMA ReplaySnapshots ==
  ASSUME NEW S, NEW k, Logged(S, k), \A o \in OwnIn(S, k) : o.kind = "snapshot",
         NEW o \in OwnIn(S, k), \A p \in OwnIn(S, k) : p.seq <= o.seq
  PROVE  Replay(OwnObs(S, k)) = o.data
<1> DEFINE own == OwnIn(S, k)
           obs == OwnObs(S, k)
           n   == Cardinality(own)
<1>1. /\ n \in Nat /\ Len(obs) = n /\ n >= 1
      /\ \A i \in 1..n : obs[i] \in own
      /\ \A p \in own : p.seq <= obs[n].seq
  BY OwnObsIs
<1>2. \A p \in own :
        /\ p \in ObsFor(S, k) /\ p.dev = Self
        /\ p.off \in Nat /\ p.data \in Seq(Lines) /\ p.seq \in Nat /\ p.kind = "snapshot"
  BY ObsForTyped DEF OwnIn, Logged
<1>3. o \in own /\ \A p \in own : p.seq <= o.seq OBVIOUS
<1> HIDE DEF own, obs, n
<1>4. n \in 1..n BY <1>1
<1>5. obs[n] = o
  <2>1. obs[n].seq <= o.seq /\ o.seq <= obs[n].seq BY <1>1, <1>3, <1>4
  <2>2. obs[n].seq = o.seq BY <1>1, <1>2, <1>3, <1>4, <2>1
  <2>3. QED BY <1>1, <1>2, <1>3, <1>4, <2>2, ObsForDistinct DEF Logged
<1>6. PICK r \in [0..n -> {None} \cup Seq(Lines)] : ReplaySteps(r, n, obs)
  <2>1. \A i \in 1..n : obs[i].off \in Nat /\ obs[i].data \in Seq(Lines) BY <1>1, <1>2
  <2>2. QED BY <1>1, <2>1, ReplayRun
<1>7. r[n] = After(r[n - 1], o) BY <1>4, <1>5, <1>6 DEF ReplaySteps
<1>8. r[n] = o.data BY <1>2, <1>3, <1>7 DEF After
<1>9. QED BY <1>6, <1>8 DEF ReplaySteps, obs

-----------------------------------------------------------------------------
(* Files.                                                                  *)

LEMMA CompleteOf ==
  ASSUME NEW c \in Seq(Lines)
  PROVE  CompleteLines(c) = c
<1>1. CASE c = << >> BY <1>1 DEF CompleteLines
<1>2. CASE c # << >>
  <2>1. Len(c) \in 1..Len(c) BY <1>2
  <2>2. c[Len(c)] \in Lines BY <2>1
  <2>3. Last(c) # Torn BY <2>2, ArchiveAssumption DEF Last
  <2>4. QED BY <2>3 DEF CompleteLines
<1>3. QED BY <1>1, <1>2

LEMMA CompleteTorn ==
  ASSUME NEW c \in Seq(Lines)
  PROVE  /\ Append(c, Torn) \in Seq(Lines \cup {Torn})
         /\ CompleteLines(Append(c, Torn)) = c
<1> DEFINE d == Append(c, Torn)
<1>1. c \in Seq(Lines \cup {Torn}) /\ Len(c) \in Nat BY SeqMonotonic
<1>2. /\ d \in Seq(Lines \cup {Torn}) /\ d # << >> /\ Len(d) = Len(c) + 1
      /\ \A i \in 1..Len(c) : d[i] = c[i]
      /\ d[Len(c) + 1] = Torn
  BY <1>1, AppendProperties
<1> HIDE DEF d
<1>3. Last(d) = Torn BY <1>2 DEF Last
<1>4. CompleteLines(d) = SubSeq(d, 1, Len(d) - 1) BY <1>2, <1>3 DEF CompleteLines, Front
<1> DEFINE t == SubSeq(d, 1, Len(c))
<1>5. Len(d) - 1 = Len(c) BY <1>1, <1>2
<1>6. CompleteLines(d) = t BY <1>4, <1>5
<1>7. \A i \in 1..Len(c) : d[i] \in Lines BY <1>2
<1>8. /\ t \in Seq(Lines) /\ Len(t) = IF 1 <= Len(c) THEN Len(c) - 1 + 1 ELSE 0
      /\ \A i \in 1..Len(c) - 1 + 1 : t[i] = d[1 + i - 1]
  BY <1>1, <1>7, SubSeqProperties
<1> HIDE DEF t
<1>9. Len(t) = Len(c) /\ \A i \in 1..Len(t) : t[i] = c[i] BY <1>1, <1>2, <1>8
<1>10. t = c BY <1>8, <1>9, SeqEqual
<1>11. QED BY <1>2, <1>6, <1>10 DEF d

(* What a file is changed to: a file again, whose complete lines go on     *)
(* from those there were unless it is one that may be rewritten.           *)
Becomes(k, d) ==
  /\ d \in Seq(Lines \cup {Torn}) /\ CompleteLines(d) \in Seq(Lines)
  /\ ~appendOnly => d = CompleteLines(d)
  /\ k \in Rewritable \/ Continues(CompleteLines(d), Hist(k))

(* The others but the file.                                                *)
others == <<appendOnly, segs, database, pc, memory, history>>

LEMMA NowIs ==
  ASSUME TypeInv, Keys # {}
  PROVE  Now \in 0..MaxEdits /\ \A k \in Keys : file[k].mtime <= Now
<1> DEFINE T == {file[k].mtime : k \in Keys}
<1>1. \A k \in Keys : file[k].mtime \in 0..MaxEdits BY DEF TypeInv
<1>2. MaxEdits \in Nat BY ArchiveAssumption
<1>3. T \in SUBSET (0..MaxEdits) /\ T # {} BY <1>1
<1> HIDE DEF T
<1>4. \E x \in T : \A y \in T : y <= x BY <1>2, <1>3, GreatestOf
<1>5. \A x, y \in T : y <= x <=> x >= y BY <1>2, <1>3
<1>6. \E x \in T : \A y \in T : x >= y BY <1>4, <1>5
<1>7. Max(T) \in T /\ \A y \in T : Max(T) >= y BY <1>6 DEF Max
<1>8. \A y \in T : y <= Max(T) BY <1>5, <1>7
<1>9. Now = Max(T) BY DEF Now, T
<1>10. \A k \in Keys : file[k].mtime \in T BY DEF T
<1>11. QED BY <1>3, <1>7, <1>8, <1>9, <1>10

LEMMA EditIs ==
  ASSUME TypeInv, Edit
  PROVE  \E k \in Keys : \E d :
           /\ Becomes(k, d)
           /\ Now + 1 \in 0..MaxEdits
           /\ file' = [file EXCEPT ![k] = [data |-> d, mtime |-> Now + 1]]
           /\ UNCHANGED others
<1>1. PICK k \in Keys : (\E l \in Lines : Write(k, l)) \/ WriteTorn(k) \/ Rewrite(k) BY DEF Edit
<1>2. /\ file[k].data \in Seq(Lines \cup {Torn}) /\ Hist(k) \in Seq(Lines)
      /\ ~appendOnly => file[k].data = Hist(k)
  BY DEF TypeInv
<1>3. Hist(k) = IF EndsTorn(k) THEN Front(file[k].data) ELSE file[k].data
  BY DEF Hist, CompleteLines, EndsTorn
<1>4. \A d : Change(k, d) =>
        /\ Now + 1 \in 0..MaxEdits
        /\ file' = [file EXCEPT ![k] = [data |-> d, mtime |-> Now + 1]]
        /\ UNCHANGED others
  <2>1. Now \in 0..MaxEdits /\ MaxEdits \in Nat BY NowIs, ArchiveAssumption
  <2>2. Now < MaxEdits => Now + 1 \in 0..MaxEdits BY <2>1
  <2>3. QED BY <2>2 DEF Change, others
<1>5. \E d : Becomes(k, d) /\ Change(k, d)
  <2>1. ASSUME NEW l \in Lines, Write(k, l) PROVE \E d : Becomes(k, d) /\ Change(k, d)
    <3> DEFINE d == Append(Hist(k), l)
    <3>1. Change(k, d) BY <1>3, <2>1 DEF Write
    <3>2. /\ d \in Seq(Lines) /\ Len(d) = Len(Hist(k)) + 1
          /\ \A i \in 1..Len(Hist(k)) : d[i] = Hist(k)[i]
      BY <1>2, AppendProperties
    <3> HIDE DEF d
    <3>3. CompleteLines(d) = d BY <3>2, CompleteOf
    <3>4. d \in Seq(Lines \cup {Torn}) BY <3>2, SeqMonotonic
    <3>5. Len(Hist(k)) \in Nat BY <1>2
    <3>6. Continues(d, Hist(k)) BY <3>2, <3>5 DEF Continues
    <3>7. Becomes(k, d) BY <3>2, <3>3, <3>4, <3>6 DEF Becomes
    <3>8. QED BY <3>1, <3>7
  <2>2. ASSUME WriteTorn(k) PROVE \E d : Becomes(k, d) /\ Change(k, d)
    <3> DEFINE d == Append(Hist(k), Torn)
    <3>1. Change(k, d) /\ appendOnly BY <1>3, <2>2 DEF WriteTorn
    <3>2. d \in Seq(Lines \cup {Torn}) /\ CompleteLines(d) = Hist(k) BY <1>2, CompleteTorn
    <3> HIDE DEF d
    <3>3. Len(Hist(k)) \in Nat BY <1>2
    <3>4. Continues(Hist(k), Hist(k)) BY <3>3 DEF Continues
    <3>5. Becomes(k, d) BY <1>2, <3>1, <3>2, <3>4 DEF Becomes
    <3>6. QED BY <3>1, <3>5
  <2>3. ASSUME Rewrite(k) PROVE \E d : Becomes(k, d) /\ Change(k, d)
    <3>1. k \in Rewritable /\ \E n \in 1..MaxLen : \E d \in [1..n -> Lines] : Change(k, d)
      BY <2>3 DEF Rewrite
    <3>2. PICK n \in 1..MaxLen : \E d \in [1..n -> Lines] : Change(k, d) BY <3>1
    <3>3. PICK d \in [1..n -> Lines] : Change(k, d) BY <3>2
    <3>4. n \in Nat BY ArchiveAssumption
    <3>5. d \in Seq(Lines) BY <3>4, SeqDef
    <3>6. d \in Seq(Lines \cup {Torn}) BY <3>5, SeqMonotonic
    <3>7. CompleteLines(d) = d BY <3>5, CompleteOf
    <3>8. Becomes(k, d) BY <3>1, <3>5, <3>6, <3>7 DEF Becomes
    <3>9. QED BY <3>3, <3>8
  <2>4. QED BY <1>1, <2>1, <2>2, <2>3
<1>6. QED BY <1>4, <1>5

LEMMA CompleteIs ==
  ASSUME TypeInv, NEW k \in Keys
  PROVE  Complete(k) = Hist(k) /\ Hist(k) \in Seq(Lines)
BY DEF Complete, Hist, TypeInv

-----------------------------------------------------------------------------
(* What is made of a file.                                                 *)

(* An observation of data, all of it or what goes on from off.             *)
Observes(o, off, data) ==
  /\ o \in [kind : {"append", "snapshot"}, off : Nat, data : Nonempty(Lines)]
  /\ o.off = off /\ off + Len(o.data) = Len(data)
  /\ \A i \in 1..Len(o.data) : data[off + i] = o.data[i]

(* Nothing to log, all of it, or what came after the lines logged.         *)
Made(o, ao, prev, data) ==
  \/ o = None /\ (data = << >> \/ prev = data)
  \/ /\ o # None /\ data # << >> /\ prev # data
     /\ Observes(o, 0, data) /\ o.data = data /\ (~ao => o.kind = "snapshot")
  \/ /\ o # None /\ data # << >> /\ prev # data /\ prev # None
     /\ Observes(o, Len(prev), data) /\ ao /\ o.kind = "append" /\ Continues(data, prev)

LEMMA ObserveIs ==
  ASSUME NEW ao, NEW data \in Seq(Lines), NEW prev \in {None} \cup Nonempty(Lines)
  PROVE  Made(Observe(ao, prev, data), ao, prev, data)
<1> USE DEF Made
<1> DEFINE o == Observe(ao, prev, data)
<1>1. \A x \in [kind : {"append", "snapshot"}, off : Nat, data : Nonempty(Lines)] : x # None
  BY ArchiveAssumption DEF Nonempty
<1>2. CASE data = << >> \/ prev = data BY <1>2 DEF Observe
<1>3. CASE ~(data = << >> \/ prev = data)
  <2>1. data \in Nonempty(Lines) /\ Len(data) \in Nat BY <1>3 DEF Nonempty
  <2>2. ASSUME NEW kind \in {"append", "snapshot"}, o = [kind |-> kind, off |-> 0, data |-> data]
        PROVE  o # None /\ Observes(o, 0, data) /\ o.data = data /\ o.kind = kind
    <3> HIDE DEF o
    <3>1. o \in [kind : {"append", "snapshot"}, off : Nat, data : Nonempty(Lines)]
      BY <2>1, <2>2
    <3>2. o.kind = kind /\ o.off = 0 /\ o.data = data BY <2>2
    <3>3. \A i \in 1..Len(data) : data[0 + i] = data[i] OBVIOUS
    <3>4. QED BY <1>1, <2>1, <3>1, <3>2, <3>3 DEF Observes
  <2>3. CASE ao /\ prev # None /\ Grew(prev, data)
    <3> DEFINE m == Len(prev) + 1
               t == SubSeq(data, m, Len(data))
    <3>1. o = [kind |-> "append", off |-> Len(prev), data |-> t]
      BY <1>3, <2>3 DEF Observe, Delta
    <3>2. prev \in Nonempty(Lines) /\ prev \in Seq(Lines) /\ Len(prev) \in Nat
      BY <2>3 DEF Nonempty
    <3>3. Continues(data, prev) BY <2>1, <2>3, <3>2, PrefixIs DEF Grew, IsStrictPrefix
    <3>4. Len(prev) < Len(data)
      <4>1. Len(prev) <= Len(data) /\ \A i \in 1..Len(prev) : data[i] = prev[i]
        BY <3>3 DEF Continues
      <4>2. CASE Len(prev) = Len(data)
        <5>1. prev = data BY <3>2, <4>1, <4>2, SeqEqual
        <5>2. QED BY <1>3, <5>1
      <4>3. QED BY <2>1, <3>2, <4>1, <4>2
    <3>5. \A i \in m..Len(data) : data[i] \in Lines BY <2>1, <3>2
    <3>6. m \in Int /\ Len(data) \in Int /\ m <= Len(data) BY <2>1, <3>2, <3>4
    <3> HIDE DEF m
    <3>7. /\ t \in Seq(Lines) /\ Len(t) = Len(data) - m + 1
          /\ \A i \in 1..Len(data) - m + 1 : t[i] = data[m + i - 1]
      BY <3>5, <3>6, SubSeqProperties
    <3> HIDE DEF t, o
    <3>8. Len(t) = Len(data) - Len(prev) /\ Len(t) \in Nat \ {0}
      BY <2>1, <3>2, <3>4, <3>7 DEF m
    <3>9. \A i \in 1..Len(t) : data[Len(prev) + i] = t[i]
      <4> SUFFICES ASSUME NEW i \in 1..Len(t) PROVE data[Len(prev) + i] = t[i] OBVIOUS
      <4>1. t[i] = data[m + i - 1] BY <3>7
      <4>2. m + i - 1 = Len(prev) + i BY <3>2, <3>8 DEF m
      <4>3. QED BY <4>1, <4>2
    <3>10. t \in Nonempty(Lines) BY <3>7, <3>8 DEF Nonempty
    <3>11. o \in [kind : {"append", "snapshot"}, off : Nat, data : Nonempty(Lines)]
      BY <3>1, <3>2, <3>10
    <3>12. o.off = Len(prev) /\ o.data = t /\ o.kind = "append" BY <3>1
    <3>13. Len(prev) + Len(t) = Len(data) BY <2>1, <3>2, <3>8
    <3>14. Observes(o, Len(prev), data) BY <3>9, <3>11, <3>12, <3>13 DEF Observes
    <3>15. QED BY <1>1, <1>3, <2>3, <3>3, <3>11, <3>12, <3>14 DEF o
  <2>4. CASE ~(ao /\ prev # None /\ Grew(prev, data))
    <3>1. CASE ao /\ prev = None
      <4>1. o = [kind |-> "append", off |-> 0, data |-> data] BY <1>3, <3>1 DEF Observe
      <4> HIDE DEF o
      <4>2. QED BY <1>3, <2>2, <3>1, <4>1 DEF o
    <3>2. CASE ~(ao /\ prev = None)
      <4>1. o = [kind |-> "snapshot", off |-> 0, data |-> data] BY <1>3, <2>4, <3>2 DEF Observe
      <4> HIDE DEF o
      <4>2. QED BY <1>3, <2>2, <4>1 DEF o
    <3>3. QED BY <3>1, <3>2
  <2>5. QED BY <2>3, <2>4
<1>4. QED BY <1>2, <1>3

-----------------------------------------------------------------------------
(* Which steps change what.                                                *)

LEMMA FileSteps ==
  [Next]_vars => file' = file \/ Edit
<1>1. SUFFICES ASSUME Next, ~Edit PROVE file' = file BY DEF vars
<1>2. CASE \E s \in Foreign : Import(s) BY <1>2 DEF Import
<1>3. CASE CatchUp
  BY <1>3 DEF CatchUp, StartCatchUp, EndIndexing, EndCatchUp, IndexSegment, BeginReplace, Project
<1>4. CASE Collect
  BY <1>4 DEF Collect, StartCollect, AppendSegment, EndAppend, EndCollect, Stat, Read, SaveState
<1>5. QED BY <1>1, <1>2, <1>3, <1>4 DEF Next, ProjectFails, Unreadable, Close, Crash, Rebuild

LEMMA SegsSteps ==
  [Next]_vars => segs' = segs \/ (\E s \in Foreign : Import(s)) \/ AppendSegment
<1>1. SUFFICES ASSUME Next, ~AppendSegment, ~(\E s \in Foreign : Import(s)) PROVE segs' = segs
  BY DEF vars
<1>2. CASE Edit BY <1>2 DEF Edit, Write, WriteTorn, Rewrite, Change
<1>3. CASE CatchUp
  BY <1>3 DEF CatchUp, StartCatchUp, EndIndexing, EndCatchUp, IndexSegment, BeginReplace, Project
<1>4. CASE Collect
  BY <1>1, <1>4 DEF Collect, StartCollect, EndAppend, EndCollect, Stat, Read, SaveState
<1>5. QED BY <1>1, <1>2, <1>3, <1>4 DEF Next, ProjectFails, Unreadable, Close, Crash, Rebuild

LEMMA IndexedSteps ==
  [Next]_vars =>
    \/ indexed' = indexed
    \/ \E s \in segs : IndexSegment(s)
    \/ \E F \in SUBSET Keys : Rebuild(F)
<1>1. SUFFICES ASSUME Next, ~(\E s \in segs : IndexSegment(s)), ~(\E F \in SUBSET Keys : Rebuild(F))
               PROVE  indexed' = indexed
  BY DEF vars, database
<1>2. CASE Edit BY <1>2 DEF Edit, Write, WriteTorn, Rewrite, Change, database
<1>3. CASE CatchUp
  BY <1>1, <1>3 DEF CatchUp, StartCatchUp, EndIndexing, EndCatchUp, BeginReplace, Project, database
<1>4. CASE Collect
  BY <1>4 DEF Collect, StartCollect, AppendSegment, EndAppend, EndCollect, Stat, Read, SaveState, database
<1>5. QED BY <1>1, <1>2, <1>3, <1>4 DEF Next, Import, ProjectFails, Unreadable, Close, Crash, database

LEMMA StateSteps ==
  [Next]_vars =>
    \/ state' = state
    \/ \E k \in Keys : SaveState(k)
    \/ \E F \in SUBSET Keys : Rebuild(F)
<1>1. SUFFICES ASSUME Next, ~(\E k \in Keys : SaveState(k)), ~(\E F \in SUBSET Keys : Rebuild(F))
               PROVE  state' = state
  BY DEF vars, database
<1>2. CASE Edit BY <1>2 DEF Edit, Write, WriteTorn, Rewrite, Change, database
<1>3. CASE CatchUp
  BY <1>3 DEF CatchUp, StartCatchUp, EndIndexing, EndCatchUp, IndexSegment, BeginReplace, Project, database
<1>4. CASE Collect
  BY <1>1, <1>4 DEF Collect, StartCollect, AppendSegment, EndAppend, EndCollect, Stat, Read, database
<1>5. QED BY <1>1, <1>2, <1>3, <1>4 DEF Next, Import, ProjectFails, Unreadable, Close, Crash, database

LEMMA RowSteps ==
  [Next]_vars =>
    \/ row' = row
    \/ \E k \in Keys : BeginReplace(k) \/ Project(k)
    \/ \E F \in SUBSET Keys : Rebuild(F)
<1>1. SUFFICES ASSUME Next, ~(\E k \in Keys : BeginReplace(k) \/ Project(k)),
                      ~(\E F \in SUBSET Keys : Rebuild(F))
               PROVE  row' = row
  BY DEF vars, database
<1>2. CASE Edit BY <1>2 DEF Edit, Write, WriteTorn, Rewrite, Change, database
<1>3. CASE CatchUp
  BY <1>1, <1>3 DEF CatchUp, StartCatchUp, EndIndexing, EndCatchUp, IndexSegment, database
<1>4. CASE Collect
  BY <1>4 DEF Collect, StartCollect, AppendSegment, EndAppend, EndCollect, Stat, Read, SaveState, database
<1>5. QED BY <1>1, <1>2, <1>3, <1>4 DEF Next, Import, ProjectFails, Unreadable, Close, Crash, database

(* What the collector works with changes in its own steps, or is forgotten. *)
working == <<queue, stats, fresh, batch>>

Emptied == queue' = {} /\ stats' = NoKeys /\ fresh' = NoKeys /\ batch' = << >>

LEMMA WorkSteps ==
  [Next]_vars =>
    \/ UNCHANGED working
    \/ StartCollect \/ AppendSegment
    \/ \E k \in Keys : Stat(k) \/ Read(k) \/ SaveState(k) \/ Unreadable(k)
    \/ Emptied /\ (Close \/ Crash)
<1>1. SUFFICES ASSUME Next, ~StartCollect, ~AppendSegment,
                      ~(\E k \in Keys : Stat(k) \/ Read(k) \/ SaveState(k) \/ Unreadable(k)),
                      ~(Emptied /\ (Close \/ Crash))
               PROVE  UNCHANGED working
  BY DEF vars, working
<1>2. CASE Edit BY <1>2 DEF Edit, Write, WriteTorn, Rewrite, Change, memory, working
<1>3. CASE CatchUp
  BY <1>3 DEF CatchUp, StartCatchUp, EndIndexing, EndCatchUp, IndexSegment, BeginReplace, Project,
     memory, working
<1>4. CASE Collect BY <1>1, <1>4 DEF Collect, EndAppend, EndCollect, memory, working
<1>5. ~Close /\ ~Crash BY <1>1 DEF Close, Crash, Forget, Emptied
<1>6. QED BY <1>1, <1>2, <1>3, <1>4, <1>5 DEF Next, Import, ProjectFails, Rebuild, memory, working

LEMMA KindSteps == [Next]_vars => appendOnly' = appendOnly
<1>1. SUFFICES ASSUME Next PROVE appendOnly' = appendOnly BY DEF vars
<1>2. CASE Edit BY <1>2 DEF Edit, Write, WriteTorn, Rewrite, Change
<1>3. CASE CatchUp
  BY <1>3 DEF CatchUp, StartCatchUp, EndIndexing, EndCatchUp, IndexSegment, BeginReplace, Project
<1>4. CASE Collect
  BY <1>4 DEF Collect, StartCollect, AppendSegment, EndAppend, EndCollect, Stat, Read, SaveState
<1>5. QED BY <1>1, <1>2, <1>3, <1>4 DEF Next, Import, ProjectFails, Unreadable, Close, Crash, Rebuild

-----------------------------------------------------------------------------
(* The log.                                                                *)

LEMMA OwnIs ==
  ASSUME NEW S, NEW k, NEW o
  PROVE  o \in OwnIn(S, k) <=>
           \E s \in S : \E i \in DOMAIN s.obs :
             s.dev = Self /\ s.obs[i].key = k /\ o = ObsAt(s, i)
<1>1. \A s, i : ObsAt(s, i).dev = s.dev BY DEF ObsAt
<1>2. QED BY <1>1, ObsForIs DEF OwnIn

LEMMA LoggedIs ==
  ASSUME TypeInv, NumberInv, NEW k
  PROVE  Logged(segs, k)
<1>1. ASSUME NEW o \in OwnIn(segs, k) PROVE o.kind # "tombstone"
  <2> PICK s \in segs : \E i \in DOMAIN s.obs : s.dev = Self /\ o = ObsAt(s, i) BY OwnIs
  <2>1. PICK i \in DOMAIN s.obs : s.dev = Self /\ o = ObsAt(s, i) OBVIOUS
  <2>2. s.obs \in Seq(Entries) BY <2>1 DEF NumberInv
  <2>3. s.obs[i] \in Entries BY <2>2
  <2>4. s.obs[i].kind # "tombstone" BY <2>3 DEF Entries
  <2>5. o.kind = s.obs[i].kind BY <2>1 DEF ObsAt
  <2>6. QED BY <2>4, <2>5
<1>2. QED BY <1>1 DEF Logged, TypeInv, NumberInv

(* The numbers this device has used.                                       *)
OwnSegs(S) == {s \in S : s.dev = Self}
Pairs(S)   == UNION {{<<s.first, i>> : i \in DOMAIN s.obs} : s \in OwnSegs(S)}

LEMMA PairsFinite ==
  ASSUME NEW S \in SUBSET Segments, IsFiniteSet(S)
  PROVE  IsFiniteSet(Pairs(S))
<1> DEFINE own == OwnSegs(S)
           A(s) == {<<s.first, i>> : i \in DOMAIN s.obs}
           U == {A(s) : s \in own}
<1>1. own \in SUBSET S BY DEF OwnSegs
<1>2. IsFiniteSet(own) BY <1>1, FS_Subset
<1> HIDE DEF own
<1>3. ASSUME NEW s \in own PROVE IsFiniteSet(A(s))
  <2> DEFINE D == DOMAIN s.obs
             f == [i \in D |-> <<s.first, i>>]
  <2>1. s \in Segments BY <1>1
  <2>2. D = 1..Len(s.obs) /\ Len(s.obs) \in Nat BY <2>1, SegmentTyped
  <2>3. IsFiniteSet(D) BY <2>2, FS_Interval
  <2>4. f \in [D -> A(s)] /\ \A y \in A(s) : \E x \in D : f[x] = y OBVIOUS
  <2> HIDE DEF A, f, D
  <2>5. QED BY <2>3, <2>4, ImageFinite
<1>4. IsFiniteSet(U)
  <2> DEFINE f == [s \in own |-> A(s)]
  <2> HIDE DEF A
  <2>1. f \in [own -> U] /\ \A y \in U : \E x \in own : f[x] = y OBVIOUS
  <2> HIDE DEF f, U
  <2>2. QED BY <1>2, <2>1, ImageFinite
<1>5. \A x \in U : IsFiniteSet(x)
  <2> HIDE DEF A
  <2>1. QED BY <1>3
<1>6. IsFiniteSet(UNION U)
  <2> HIDE DEF U
  <2>1. QED BY <1>4, <1>5, FS_UNION
<1>7. Pairs(S) = UNION U BY DEF Pairs, own
<1> HIDE DEF U
<1>8. QED BY <1>6, <1>7

LEMMA NextSeqIs == NextSeq = 1 + Cardinality(Pairs(segs))
BY DEF NextSeq, Pairs, OwnSegs

LEMMA NextSeqPrimed == NextSeq' = 1 + Cardinality(Pairs(segs'))
BY DEF NextSeq, Pairs, OwnSegs

(* n numbers more.                                                         *)
LEMMA PairsAdded ==
  ASSUME NEW S \in SUBSET Segments, IsFiniteSet(S), NEW s \in Segments, s.dev = Self,
         \A t \in S : t.dev = Self => t.first + Len(t.obs) <= s.first
  PROVE  Cardinality(Pairs(S \cup {s})) = Cardinality(Pairs(S)) + Len(s.obs)
<1> DEFINE n == Len(s.obs)
           T == {<<s.first, i>> : i \in 1..n}
           P == Pairs(S)
<1>1. s.first \in Nat /\ n \in Nat /\ DOMAIN s.obs = 1..n BY SegmentTyped
<1>2. Pairs(S \cup {s}) = P \cup T BY <1>1 DEF Pairs, OwnSegs
<1>3. IsFiniteSet(P) /\ Cardinality(P) \in Nat BY PairsFinite, FS_CardinalityType
<1>4. P \cap T = {}
  <2> SUFFICES ASSUME NEW t \in S, t.dev = Self, NEW i \in DOMAIN t.obs, NEW j \in 1..n,
                      <<t.first, i>> = <<s.first, j>>
               PROVE  FALSE
    BY DEF Pairs, OwnSegs
  <2>1. t.first = s.first OBVIOUS
  <2>2. t \in Segments OBVIOUS
  <2>3. t.first \in Nat /\ i \in 1..Len(t.obs) /\ Len(t.obs) \in Nat BY <2>2, SegmentTyped
  <2>4. t.first + Len(t.obs) <= s.first OBVIOUS
  <2>5. Len(t.obs) >= 1 BY <2>3
  <2>6. QED BY ONLY <1>1, <2>1, <2>3, <2>4, <2>5
<1>5. IsFiniteSet(T) /\ Cardinality(T) = n
  <2> DEFINE f == [i \in 1..n |-> <<s.first, i>>]
  <2> HIDE DEF n
  <2>1. f \in [1..n -> T] /\ (\A x, y \in 1..n : f[x] = f[y] => x = y)
        /\ \A y \in T : \E x \in 1..n : f[x] = y
    OBVIOUS
  <2> HIDE DEF f, T
  <2>2. f \in Injection(1..n, T) BY <2>1 DEF Injection, IsInjective
  <2>3. f \in Surjection(1..n, T) BY <2>1 DEF Surjection
  <2>4. f \in Bijection(1..n, T) BY <2>2, <2>3 DEF Bijection
  <2>5. ExistsBijection(1..n, T) BY <2>4 DEF ExistsBijection
  <2>6. IsFiniteSet(1..n) /\ Cardinality(1..n) = n BY <1>1, FS_Interval
  <2>7. QED BY <2>5, <2>6, FS_Bijection
<1> HIDE DEF T, P, n
<1>6. Cardinality(P \cup T) = Cardinality(P) + Cardinality(T) - Cardinality(P \cap T)
  BY <1>3, <1>5, FS_Union
<1>7. Cardinality(P \cap T) = 0 BY <1>4, FS_EmptySet
<1>8. Cardinality(P \cup T) = Cardinality(P) + n BY <1>1, <1>3, <1>5, <1>6, <1>7 DEF n
<1>9. QED BY <1>2, <1>8 DEF P, n

(* The segment appended, and what is left.                                 *)
Appends(n, new) ==
  /\ new.dev = Self /\ new.first = NextSeq /\ new.obs \in Seq(Entries) /\ Len(new.obs) = n
  /\ \A i \in 1..n : new.obs[i] = batch[i]
  /\ segs' = segs \cup {new}
  /\ batch' \in Seq(Entries) /\ Len(batch') = Len(batch) - n
  /\ \A i \in 1..Len(batch) - n : batch'[i] = batch[n + i]

LEMMA AppendIs ==
  ASSUME TypeInv, NumberInv, AppendSegment
  PROVE  \E n \in 1..Len(batch) : \E new \in Segments : Appends(n, new)
<1>1. PICK n \in 1..Len(batch) :
        /\ segs' = segs \cup {[dev |-> Self, first |-> NextSeq, obs |-> SubSeq(batch, 1, n)]}
        /\ batch' = SubSeq(batch, n + 1, Len(batch))
  BY DEF AppendSegment
<1> DEFINE b == SubSeq(batch, 1, n)
           r == SubSeq(batch, n + 1, Len(batch))
           new == [dev |-> Self, first |-> NextSeq, obs |-> b]
<1>2. batch \in Seq(Entries) /\ Len(batch) \in Nat /\ NextSeq \in Nat BY DEF TypeInv, NumberInv
<1>3. n \in Nat /\ 1 <= n /\ n <= Len(batch) /\ n \in Int /\ n + 1 \in Int BY <1>2
<1>4. \A i \in 1..Len(batch) : batch[i] \in Entries BY <1>2
<1>5. /\ b \in Seq(Entries) /\ Len(b) = n
      /\ \A i \in 1..n : b[i] = batch[i]
  <2>1. \A i \in 1..n : batch[i] \in Entries BY <1>3, <1>4
  <2>2. /\ b \in Seq(Entries) /\ Len(b) = IF 1 <= n THEN n - 1 + 1 ELSE 0
        /\ \A i \in 1..n - 1 + 1 : b[i] = batch[1 + i - 1]
    BY <1>3, <2>1, SubSeqProperties
  <2> HIDE DEF b
  <2>3. QED BY <1>3, <2>2
<1>6. /\ r \in Seq(Entries) /\ Len(r) = Len(batch) - n
      /\ \A i \in 1..Len(batch) - n : r[i] = batch[n + i]
  <2> DEFINE m == n + 1
  <2>1. m \in Int /\ Len(batch) \in Int /\ \A i \in m..Len(batch) : batch[i] \in Entries
    BY <1>2, <1>3, <1>4
  <2> HIDE DEF m
  <2>2. /\ r \in Seq(Entries) /\ Len(r) = IF m <= Len(batch) THEN Len(batch) - m + 1 ELSE 0
        /\ \A i \in 1..Len(batch) - m + 1 : r[i] = batch[m + i - 1]
    BY <2>1, SubSeqProperties DEF m
  <2> HIDE DEF r
  <2>3. Len(r) = Len(batch) - n BY <1>2, <1>3, <2>2 DEF m
  <2>4. Len(batch) - m + 1 = Len(batch) - n BY <1>2, <1>3 DEF m
  <2>5. \A i \in 1..Len(batch) - n : m + i - 1 = n + i BY <1>3 DEF m
  <2>6. QED BY <2>2, <2>3, <2>4, <2>5
<1>7. Self \in Nat BY DEF Self
<1>8. b \in Seq(Observation) BY <1>5, SeqMonotonic DEF Entries
<1> HIDE DEF b, r
<1>9. new \in Segments BY <1>2, <1>7, <1>8 DEF Segments
<1>10. new.dev = Self /\ new.first = NextSeq /\ new.obs = b OBVIOUS
<1>11. segs' = segs \cup {new} BY <1>1 DEF b
<1>12. batch' = r BY <1>1 DEF r
<1> HIDE DEF new
<1>13. /\ new.dev = Self /\ new.first = NextSeq /\ new.obs \in Seq(Entries) /\ Len(new.obs) = n
       /\ \A i \in 1..n : new.obs[i] = batch[i]
  BY <1>5, <1>10
<1>14. Appends(n, new) BY <1>6, <1>11, <1>12, <1>13 DEF Appends
<1>15. QED BY <1>9, <1>14

LEMMA LogStep ==
  ASSUME TypeInv, NumberInv, [Next]_vars
  PROVE  /\ segs' \in SUBSET Segments /\ IsFiniteSet(segs') /\ segs \subseteq segs'
         /\ NumberInv'
<1>1. segs \in SUBSET Segments /\ IsFiniteSet(segs) BY DEF TypeInv
<1>2. /\ NextSeq \in Nat /\ Disjoint(segs)
      /\ \A s \in segs : IF s.dev = Self
                         THEN s.first + Len(s.obs) <= NextSeq /\ s.obs \in Seq(Entries)
                         ELSE s \in Foreign
  BY DEF NumberInv
<1>3. CASE segs' = segs
  <2>1. NextSeq' = NextSeq BY <1>3, NextSeqIs, NextSeqPrimed
  <2>2. QED BY <1>1, <1>2, <1>3, <2>1 DEF NumberInv
<1>4. ASSUME NEW s \in Foreign, Import(s)
      PROVE  /\ segs' \in SUBSET Segments /\ IsFiniteSet(segs') /\ segs \subseteq segs'
             /\ NumberInv'
  <2>1. segs' = segs \cup {s} BY <1>4 DEF Import
  <2>2. s \in Segments /\ s.dev # Self BY ArchiveAssumption DEF Segments
  <2>3. IsFiniteSet(segs') BY <1>1, <2>1, FS_AddElement
  <2>4. OwnSegs(segs') = OwnSegs(segs) BY <2>1, <2>2 DEF OwnSegs
  <2>5. NextSeq' = NextSeq BY <2>4, NextSeqIs, NextSeqPrimed DEF Pairs
  <2>6. Disjoint(segs')
    <3> SUFFICES ASSUME NEW u \in segs', NEW t \in segs', u.dev = t.dev
                 PROVE  \/ u = t \/ u.first + Len(u.obs) <= t.first
                        \/ t.first + Len(t.obs) <= u.first
      BY DEF Disjoint
    <3>1. CASE u \in segs /\ t \in segs BY <1>2, <3>1 DEF Disjoint
    <3>2. CASE u = s \/ t = s
      <4>1. u.dev # Self /\ t.dev # Self BY <2>2, <3>2
      <4>2. u \in Foreign /\ t \in Foreign BY <1>2, <2>1, <4>1
      <4>3. QED BY <4>2, ArchiveAssumption
    <3>3. QED BY <2>1, <3>1, <3>2
  <2>7. \A t \in segs' : IF t.dev = Self
                         THEN t.first + Len(t.obs) <= NextSeq' /\ t.obs \in Seq(Entries)
                         ELSE t \in Foreign
    BY <1>2, <2>1, <2>2, <2>5
  <2>8. QED BY <1>1, <1>2, <2>1, <2>2, <2>3, <2>5, <2>6, <2>7 DEF NumberInv
<1>5. CASE AppendSegment
  <2> PICK n \in 1..Len(batch) : \E new \in Segments : Appends(n, new) BY <1>5, AppendIs
  <2> PICK new \in Segments : Appends(n, new) OBVIOUS
  <2>1. /\ new.dev = Self /\ new.first = NextSeq /\ new.obs \in Seq(Entries) /\ Len(new.obs) = n
        /\ segs' = segs \cup {new}
    BY DEF Appends
  <2>2. n \in Nat
    <3>1. Len(batch) \in Nat BY DEF TypeInv
    <3>2. QED BY <3>1
  <2>3. IsFiniteSet(segs') BY <1>1, <2>1, FS_AddElement
  <2>4. \A t \in segs : t.dev = Self => t.first + Len(t.obs) <= new.first BY <1>2, <2>1
  <2>5. NextSeq' = NextSeq + n
    <3>1. Cardinality(Pairs(segs')) = Cardinality(Pairs(segs)) + n
      BY <1>1, <2>1, <2>4, PairsAdded
    <3>2. Cardinality(Pairs(segs)) \in Nat BY <1>1, PairsFinite, FS_CardinalityType
    <3>3. QED BY <2>2, <3>1, <3>2, NextSeqIs, NextSeqPrimed
  <2>6. Disjoint(segs')
    <3> SUFFICES ASSUME NEW u \in segs', NEW t \in segs', u.dev = t.dev
                 PROVE  \/ u = t \/ u.first + Len(u.obs) <= t.first
                        \/ t.first + Len(t.obs) <= u.first
      BY DEF Disjoint
    <3>1. CASE u \in segs /\ t \in segs BY <1>2, <3>1 DEF Disjoint
    <3>2. CASE u = new /\ t \in segs BY <2>1, <2>4, <3>2
    <3>3. CASE t = new /\ u \in segs BY <2>1, <2>4, <3>3
    <3>4. CASE u = new /\ t = new BY <3>4
    <3>5. QED BY <2>1, <3>1, <3>2, <3>3, <3>4
  <2>7. \A t \in segs' : IF t.dev = Self
                         THEN t.first + Len(t.obs) <= NextSeq' /\ t.obs \in Seq(Entries)
                         ELSE t \in Foreign
    <3> SUFFICES ASSUME NEW t \in segs'
                 PROVE  IF t.dev = Self
                        THEN t.first + Len(t.obs) <= NextSeq' /\ t.obs \in Seq(Entries)
                        ELSE t \in Foreign
      OBVIOUS
    <3>1. CASE t \in segs
      <4>1. t \in Segments BY <1>1, <3>1
      <4>2. t.first \in Nat /\ Len(t.obs) \in Nat BY <4>1, SegmentTyped
      <4>3. t.dev = Self => t.first + Len(t.obs) <= NextSeq /\ t.obs \in Seq(Entries)
        BY <1>2, <3>1
      <4>4. t.dev # Self => t \in Foreign BY <1>2, <3>1
      <4>5. t.first + Len(t.obs) <= NextSeq => t.first + Len(t.obs) <= NextSeq'
        BY ONLY <1>2, <2>2, <2>5, <4>2
      <4>6. QED BY <4>3, <4>4, <4>5
    <3>2. CASE t = new
      <4>1. NextSeq + n <= NextSeq' BY ONLY <1>2, <2>2, <2>5
      <4>2. QED BY <2>1, <3>2, <4>1
    <3>3. QED BY <2>1, <3>1, <3>2
  <2>8. NextSeq' \in Nat BY ONLY <1>2, <2>2, <2>5
  <2>9. QED BY <1>1, <2>1, <2>3, <2>6, <2>7, <2>8 DEF NumberInv
<1>6. QED BY <1>3, <1>4, <1>5, SegsSteps

-----------------------------------------------------------------------------
(* Phases.                                                                 *)

LEMMA PhaseInit == Init => PhaseInv
BY DEF Init, PhaseInv, NoKeys

LEMMA PhaseStep ==
  ASSUME PhaseInv, [Next]_vars
  PROVE  PhaseInv'
<1> USE DEF PhaseInv
<1>1. CASE UNCHANGED vars BY <1>1 DEF vars
<1>2. CASE Edit BY <1>2 DEF Edit, Write, WriteTorn, Rewrite, Change, memory
<1>3. CASE \E s \in Foreign : Import(s) BY <1>3 DEF Import, memory
<1>4. CASE StartCatchUp BY <1>4 DEF StartCatchUp
<1>5. CASE EndIndexing BY <1>5 DEF EndIndexing
<1>6. CASE EndCatchUp BY <1>6 DEF EndCatchUp, memory
<1>7. CASE \E s \in segs : IndexSegment(s) BY <1>7 DEF IndexSegment
<1>8. CASE \E k \in Keys : BeginReplace(k) BY <1>8 DEF BeginReplace, memory
<1>9. CASE \E k \in Keys : Project(k) BY <1>9 DEF Project
<1>10. CASE StartCollect BY <1>10 DEF StartCollect
<1>11. CASE AppendSegment BY <1>11 DEF AppendSegment
<1>12. CASE EndAppend BY <1>12 DEF EndAppend, Appended, memory
<1>13. CASE EndCollect BY <1>13 DEF EndCollect, memory
<1>14. CASE \E k \in Keys : Stat(k) BY <1>14 DEF Stat
<1>15. CASE \E k \in Keys : Read(k) BY <1>15 DEF Read
<1>16. CASE \E k \in Keys : SaveState(k) BY <1>16 DEF SaveState
<1>17. CASE \E k \in Keys : ProjectFails(k) BY <1>17 DEF ProjectFails
<1>18. CASE \E k \in Keys : Unreadable(k) BY <1>18 DEF Unreadable
<1>19. CASE Close BY <1>19 DEF Close, Forget, NoKeys
<1>20. CASE Crash BY <1>20 DEF Crash, Forget, NoKeys
<1>21. CASE \E F \in SUBSET Keys : Rebuild(F) BY <1>21 DEF Rebuild, memory
<1>22. QED
  BY <1>1, <1>2, <1>3, <1>4, <1>5, <1>6, <1>7, <1>8, <1>9, <1>10, <1>11, <1>12, <1>13,
     <1>14, <1>15, <1>16, <1>17, <1>18, <1>19, <1>20, <1>21
  DEF Next, CatchUp, Collect

-----------------------------------------------------------------------------
(* Types.                                                                  *)

FileType ==
  /\ file \in [Keys -> [data : Seq(Lines \cup {Torn}), mtime : 0..MaxEdits]]
  /\ \A k \in Keys : Hist(k) \in Seq(Lines) /\ (~appendOnly => file[k].data = Hist(k))

LEMMA FileStep ==
  ASSUME TypeInv, [Next]_vars
  PROVE  FileType'
<1>1. /\ file \in [Keys -> [data : Seq(Lines \cup {Torn}), mtime : 0..MaxEdits]]
      /\ \A k \in Keys : Hist(k) \in Seq(Lines) /\ (~appendOnly => file[k].data = Hist(k))
      /\ appendOnly' = appendOnly
  BY KindSteps DEF TypeInv
<1>2. CASE file' = file BY <1>1, <1>2 DEF FileType, Hist
<1>3. CASE Edit
  <2> PICK k \in Keys : \E d :
        /\ Becomes(k, d)
        /\ Now + 1 \in 0..MaxEdits
        /\ file' = [file EXCEPT ![k] = [data |-> d, mtime |-> Now + 1]]
    BY <1>3, EditIs
  <2>1. PICK d :
        /\ Becomes(k, d)
        /\ Now + 1 \in 0..MaxEdits
        /\ file' = [file EXCEPT ![k] = [data |-> d, mtime |-> Now + 1]]
    OBVIOUS
  <2>2. [data |-> d, mtime |-> Now + 1] \in [data : Seq(Lines \cup {Torn}), mtime : 0..MaxEdits]
    BY <2>1 DEF Becomes
  <2>3. file' \in [Keys -> [data : Seq(Lines \cup {Torn}), mtime : 0..MaxEdits]]
    BY <1>1, <2>1, <2>2
  <2>4. \A j \in Keys : file'[j] = IF j = k THEN [data |-> d, mtime |-> Now + 1] ELSE file[j]
    BY <1>1, <2>1
  <2>5. \A j \in Keys : file'[j].data = IF j = k THEN d ELSE file[j].data BY <2>4
  <2>6. \A j \in Keys : Hist(j)' = IF j = k THEN CompleteLines(d) ELSE Hist(j)
    BY <2>5 DEF Hist
  <2>7. QED BY <1>1, <2>1, <2>3, <2>5, <2>6 DEF Becomes, FileType
<1>4. QED BY <1>2, <1>3, FileSteps

LEMMA GainedIs ==
  ASSUME NEW s \in Segments
  PROVE  Gained(s) \subseteq Keys
<1>1. \A i \in DOMAIN s.obs : s.obs[i].key \in Keys BY SegmentTyped
<1>2. QED BY <1>1 DEF Gained

(* The rest of what a command and its history are.                         *)
PhaseType ==
  /\ indexed \subseteq segs /\ listing \subseteq segs
  /\ pc \in {"idle", "indexing", "projecting", "ready", "collecting", "saving",
             "saved", "done"}
  /\ affected \cup lost \cup failed \subseteq Keys
  /\ faults \in Nat

LEMMA PhaseTypeStep ==
  ASSUME TypeInv, segs \subseteq segs', [Next]_vars
  PROVE  PhaseType'
<1>0. PhaseType /\ segs \in SUBSET Segments BY DEF TypeInv, PhaseType
<1> USE <1>0 DEF PhaseType
<1>1. CASE UNCHANGED vars BY <1>1 DEF vars
<1>2. CASE Edit BY <1>2 DEF Edit, Write, WriteTorn, Rewrite, Change, memory, history, database
<1>3. CASE \E s \in Foreign : Import(s) BY <1>3 DEF Import, memory, history, database
<1>4. CASE StartCatchUp BY <1>4 DEF StartCatchUp, history, database
<1>5. CASE EndIndexing BY <1>5 DEF EndIndexing, history, database
<1>6. CASE EndCatchUp BY <1>6 DEF EndCatchUp, memory, history, database
<1>7. ASSUME NEW s \in segs, IndexSegment(s) PROVE PhaseType'
  <2>1. s \in Segments OBVIOUS
  <2>2. Gained(s) \subseteq Keys BY <2>1, GainedIs
  <2>3. QED BY <1>7, <2>2 DEF IndexSegment, history
<1>8. CASE \E k \in Keys : BeginReplace(k) BY <1>8 DEF BeginReplace, memory, history
<1>9. CASE \E k \in Keys : Project(k) BY <1>9 DEF Project
<1>10. CASE StartCollect BY <1>10 DEF StartCollect, history, database
<1>11. CASE AppendSegment BY <1>11 DEF AppendSegment, history, database
<1>12. CASE EndAppend BY <1>12 DEF EndAppend, memory, history, database
<1>13. CASE EndCollect BY <1>13 DEF EndCollect, memory, history, database
<1>14. CASE \E k \in Keys : Stat(k) BY <1>14 DEF Stat, history, database
<1>15. CASE \E k \in Keys : Read(k) BY <1>15 DEF Read, history, database
<1>16. CASE \E k \in Keys : SaveState(k) BY <1>16 DEF SaveState, history
<1>17. CASE \E k \in Keys : ProjectFails(k) BY <1>17 DEF ProjectFails, database
<1>18. CASE \E k \in Keys : Unreadable(k) BY <1>18 DEF Unreadable, history, database
<1>19. CASE Close BY <1>19 DEF Close, Forget, history, database
<1>20. CASE Crash BY <1>20 DEF Crash, Forget, database
<1>21. ASSUME NEW F \in SUBSET Keys, Rebuild(F) PROVE PhaseType'
  <2>1. faults + 1 \in Nat OBVIOUS
  <2>2. QED BY <1>21, <2>1 DEF Rebuild, memory
<1>22. QED
  BY <1>1, <1>2, <1>3, <1>4, <1>5, <1>6, <1>7, <1>8, <1>9, <1>10, <1>11, <1>12, <1>13,
     <1>14, <1>15, <1>16, <1>17, <1>18, <1>19, <1>20, <1>21
  DEF Next, CatchUp, Collect

(* What the collector works with.                                          *)
WorkType ==
  /\ queue \subseteq Keys
  /\ DOMAIN stats \subseteq Keys /\ \A k \in DOMAIN stats : stats[k] \in 0..MaxEdits
  /\ DOMAIN fresh \subseteq Keys
  /\ \A k \in DOMAIN fresh : fresh[k] \in [data : Nonempty(Lines), mtime : 0..MaxEdits]
  /\ batch \in Seq(Entries)

(* What a worker makes of a file it reads.                                 *)
Prev(k) == IF state[k] = None THEN None ELSE state[k].data
New(k)  == Observe(appendOnly, Prev(k), Complete(k))
Entry(k) == [key |-> k, kind |-> New(k).kind, off |-> New(k).off, data |-> New(k).data]

LEMMA ReadIs ==
  ASSUME NEW k, Read(k)
  PROVE  /\ k \in DOMAIN stats
         /\ fresh' = IF Complete(k) = << >> THEN fresh
                     ELSE With(fresh, k, [data |-> Complete(k), mtime |-> stats[k]])
         /\ batch' = IF New(k) = None THEN batch ELSE Append(batch, Entry(k))
         /\ stats' = Without(stats, k)
         /\ UNCHANGED <<appendOnly, file, segs, indexed, state, row, queue, affected, pc, lost, failed, faults>>
BY DEF Read, Prev, New, Entry, database, history

LEMMA PrevIs ==
  ASSUME TypeInv, NEW k \in Keys
  PROVE  Prev(k) \in {None} \cup Nonempty(Lines) /\ (Prev(k) = None <=> state[k] = None)
<1>1. state[k] \in {None} \cup [data : Nonempty(Lines), mtime : {None} \cup 0..MaxEdits]
  BY DEF TypeInv
<1>2. None \notin Nonempty(Lines) BY ArchiveAssumption DEF Nonempty
<1>3. QED BY <1>1, <1>2 DEF Prev

LEMMA NewIs ==
  ASSUME TypeInv, NEW k \in Keys
  PROVE  Made(New(k), appendOnly, Prev(k), Complete(k))
BY CompleteIs, PrevIs, ObserveIs DEF New

LEMMA EntryIs ==
  ASSUME TypeInv, NEW k \in Keys, New(k) # None
  PROVE  /\ Entry(k) \in Entries /\ Entry(k).key = k /\ Entry(k).kind = New(k).kind
         /\ Entry(k).off = New(k).off /\ Entry(k).data = New(k).data
<1>1. New(k) \in [kind : {"append", "snapshot"}, off : Nat, data : Nonempty(Lines)]
  BY NewIs DEF Observes, Made
<1>2. QED BY <1>1 DEF Entry, Entries, Observation, Nonempty

LEMMA WorkStep ==
  ASSUME TypeInv, NumberInv, [Next]_vars
  PROVE  WorkType'
<1>0. WorkType BY DEF TypeInv, WorkType
<1>1. CASE UNCHANGED working BY <1>0, <1>1 DEF WorkType, working
<1>2. CASE StartCollect BY <1>0, <1>2 DEF WorkType, StartCollect, Collectable
<1>3. CASE AppendSegment
  <2> PICK n \in 1..Len(batch) : \E new \in Segments : Appends(n, new) BY <1>3, AppendIs
  <2>1. batch' \in Seq(Entries) BY DEF Appends
  <2>2. UNCHANGED <<queue, stats, fresh>> BY <1>3 DEF AppendSegment
  <2>3. QED BY <1>0, <2>1, <2>2 DEF WorkType
<1>4. ASSUME NEW k \in Keys, Stat(k) PROVE WorkType'
  <2>1. UNCHANGED <<fresh, batch>> /\ queue' = queue \ {k} BY <1>4 DEF Stat
  <2>2. stats' = With(stats, k, file[k].mtime) \/ stats' = stats BY <1>4 DEF Stat
  <2>3. file[k].mtime \in 0..MaxEdits BY DEF TypeInv
  <2>4. /\ DOMAIN With(stats, k, file[k].mtime) = DOMAIN stats \cup {k}
        /\ \A j \in DOMAIN stats \cup {k} : With(stats, k, file[k].mtime)[j] \in 0..MaxEdits
    BY <1>0, <2>3 DEF WorkType, With
  <2>5. QED BY <1>0, <2>1, <2>2, <2>4 DEF WorkType
<1>5. ASSUME NEW k \in Keys, Read(k) PROVE WorkType'
  <2> DEFINE fr == [data |-> Complete(k), mtime |-> stats[k]]
  <2>1. /\ k \in DOMAIN stats /\ stats' = Without(stats, k) /\ queue' = queue
        /\ Complete(k) = << >> => fresh' = fresh
        /\ Complete(k) # << >> => fresh' = With(fresh, k, fr)
        /\ batch' = IF New(k) = None THEN batch ELSE Append(batch, Entry(k))
    BY <1>5, ReadIs
  <2>2. DOMAIN stats' \subseteq Keys /\ \A j \in DOMAIN stats' : stats'[j] \in 0..MaxEdits
    BY <1>0, <2>1 DEF WorkType, Without
  <2>3. batch' \in Seq(Entries)
    <3>1. CASE New(k) = None BY <1>0, <2>1, <3>1 DEF WorkType
    <3>2. CASE New(k) # None
      <4>1. Entry(k) \in Entries BY <3>2, EntryIs
      <4>2. QED BY <1>0, <2>1, <3>2, <4>1, AppendProperties DEF WorkType
    <3>3. QED BY <3>1, <3>2
  <2>4. CASE Complete(k) = << >> BY <1>0, <2>1, <2>2, <2>3, <2>4 DEF WorkType
  <2>5. CASE Complete(k) # << >>
    <3>1. Complete(k) \in Seq(Lines) BY CompleteIs
    <3>2. fr \in [data : Nonempty(Lines), mtime : 0..MaxEdits]
      BY <1>0, <2>1, <2>5, <3>1 DEF WorkType, Nonempty
    <3> HIDE DEF fr
    <3>3. /\ DOMAIN fresh' = DOMAIN fresh \cup {k} /\ fresh'[k] = fr
          /\ \A j \in DOMAIN fresh : j # k => fresh'[j] = fresh[j]
      <4>1. fresh' = With(fresh, k, fr) BY <2>1, <2>5
      <4>2. QED BY <4>1 DEF With
    <3>4. QED BY <1>0, <2>1, <2>2, <2>3, <3>2, <3>3 DEF WorkType
  <2>6. QED BY <2>4, <2>5
<1>6. ASSUME NEW k \in Keys, SaveState(k) PROVE WorkType'
  <2>1. UNCHANGED <<queue, stats, batch>> /\ fresh' = Without(fresh, k) BY <1>6 DEF SaveState
  <2>2. QED BY <1>0, <2>1 DEF WorkType, Without
<1>7. ASSUME NEW k \in Keys, Unreadable(k) PROVE WorkType'
  <2>1. UNCHANGED <<fresh, batch>> /\ queue' = queue \ {k} /\ stats' = Without(stats, k)
    BY <1>7 DEF Unreadable
  <2>2. QED BY <1>0, <2>1 DEF WorkType, Without
<1>8. CASE Emptied BY <1>8 DEF Emptied, WorkType, NoKeys
<1>9. QED BY <1>1, <1>2, <1>3, <1>4, <1>5, <1>6, <1>7, <1>8, WorkSteps

(* What is recomputed of a conversation is in the set.                     *)
LEMMA RecomputedTyped ==
  ASSUME TypeInv, NumberInv, LogInv, NEW k \in Keys
  PROVE  Replay(OwnObs(segs, k)) \in {None} \cup Nonempty(Lines)
<1> DEFINE V == Nonempty(Lines)
<1>1. Logged(segs, k) BY LoggedIs
<1>2. \A o \in OwnIn(segs, k) :
        /\ o.data \in V /\ o.off \in Nat
        /\ o.off = 0 \/ \E p \in OwnIn(segs, k) : p.seq < o.seq
  <2> SUFFICES ASSUME NEW o \in OwnIn(segs, k)
               PROVE  /\ o.data \in V /\ o.off \in Nat
                      /\ o.off = 0 \/ \E p \in OwnIn(segs, k) : p.seq < o.seq
    OBVIOUS
  <2>1. o.kind # "tombstone" BY <1>1 DEF Logged
  <2>2. o.data \in V /\ o.off \in Nat BY <1>1, <2>1, ObsForTyped DEF Logged, OwnIn
  <2>3. o.off = 0 \/ \E p \in OwnIn(segs, k) : p.seq < o.seq BY DEF LogInv, OwnLog, Linked
  <2>4. QED BY <2>2, <2>3
<1>3. \A v \in V : \A o \in OwnIn(segs, k) :
        o.off <= Len(v) => SubSeq(v, 1, o.off) \o o.data \in V
  <2> SUFFICES ASSUME NEW v \in V, NEW o \in OwnIn(segs, k), o.off <= Len(v)
               PROVE  SubSeq(v, 1, o.off) \o o.data \in V
    OBVIOUS
  <2> DEFINE w == SubSeq(v, 1, o.off) \o o.data
  <2>1. v \in Seq(Lines) /\ o.data \in Seq(Lines) /\ o.data # << >> /\ o.off \in Nat
    BY <1>2 DEF Nonempty
  <2>2. o.off \in 0..Len(v) BY <2>1
  <2>3. w \in Seq(Lines) /\ Len(w) = o.off + Len(o.data) BY <2>1, <2>2, SpliceIs
  <2>4. Len(o.data) \in Nat \ {0} BY <2>1
  <2> HIDE DEF w
  <2>5. w \in V BY <2>1, <2>3, <2>4 DEF Nonempty
  <2>6. QED BY <2>5 DEF w
<1>4. V \in SUBSET Nonempty(Lines) OBVIOUS
<1> HIDE DEF V
<1>5. QED BY <1>1, <1>2, <1>3, <1>4, ReplayOwn

StateType == state \in [Keys -> {None} \cup [data : Nonempty(Lines), mtime : {None} \cup 0..MaxEdits]]

LEMMA StateStep ==
  ASSUME TypeInv, NumberInv, LogInv, [Next]_vars
  PROVE  StateType'
<1>0. StateType BY DEF TypeInv, StateType
<1>1. CASE state' = state BY <1>0, <1>1 DEF StateType
<1>2. ASSUME NEW k \in Keys, SaveState(k) PROVE StateType'
  <2>1. k \in DOMAIN fresh /\ state' = [state EXCEPT ![k] = fresh[k]]
    BY <1>2 DEF SaveState, NewState
  <2>2. fresh[k] \in [data : Nonempty(Lines), mtime : 0..MaxEdits] BY <2>1 DEF TypeInv
  <2>3. fresh[k] \in [data : Nonempty(Lines), mtime : {None} \cup 0..MaxEdits] BY <2>2
  <2>4. QED BY <1>0, <2>1, <2>3 DEF StateType
<1>3. ASSUME NEW F \in SUBSET Keys, Rebuild(F) PROVE StateType'
  <2> DEFINE r(k) == Replay(OwnObs(segs, k))
  <2>1. state' = [k \in Keys |-> IF r(k) = None THEN None ELSE [data |-> r(k), mtime |-> None]]
    BY <1>3 DEF Rebuild
  <2>2. \A k \in Keys : r(k) \in {None} \cup Nonempty(Lines) BY RecomputedTyped
  <2> HIDE DEF r
  <2>3. QED BY <2>1, <2>2 DEF StateType
<1>4. QED BY <1>1, <1>2, <1>3, StateSteps

RowType == row \in [Keys -> {None, Half} \cup SUBSET Nonempty(Lines)]

LEMMA RowStep ==
  ASSUME TypeInv, NumberInv, [Next]_vars
  PROVE  RowType'
<1>0. RowType BY DEF TypeInv, RowType
<1>1. /\ segs \in SUBSET Segments /\ IsFiniteSet(segs) /\ Disjoint(segs)
      /\ indexed \subseteq segs
  BY DEF TypeInv, NumberInv
<1>2. indexed \in SUBSET Segments /\ IsFiniteSet(indexed) /\ Disjoint(indexed)
  BY <1>1, FS_Subset DEF Disjoint
<1>3. CASE row' = row BY <1>0, <1>3 DEF RowType
<1>4. ASSUME NEW k \in Keys, BeginReplace(k) PROVE RowType'
  BY <1>0, <1>4 DEF RowType, BeginReplace
<1>5. ASSUME NEW k \in Keys, Project(k) PROVE RowType'
  <2>1. row' = [row EXCEPT ![k] = Projected(indexed, k, row[k])] BY <1>5 DEF Project
  <2>2. row[k] \in {None, Half} \cup SUBSET Nonempty(Lines) BY <1>0 DEF RowType
  <2>3. Projected(indexed, k, row[k]) \in {None, Half} \cup SUBSET Nonempty(Lines)
    BY <1>2, <2>2, ProjectedTyped
  <2>4. QED BY <1>0, <2>1, <2>3 DEF RowType
<1>6. ASSUME NEW F \in SUBSET Keys, Rebuild(F) PROVE RowType'
  <2>1. row' = [k \in Keys |-> IF k \in F THEN None ELSE Projected(segs, k, None)]
    BY <1>6 DEF Rebuild
  <2>2. \A k : Projected(segs, k, None) \in {None, Half} \cup SUBSET Nonempty(Lines)
    BY <1>1, ProjectedTyped
  <2>3. QED BY <2>1, <2>2 DEF RowType
<1>7. QED BY <1>3, <1>4, <1>5, <1>6, RowSteps

LEMMA TypeInit == Init => TypeInv /\ NumberInv
<1> SUFFICES ASSUME Init PROVE TypeInv /\ NumberInv OBVIOUS
<1>1. /\ file = [k \in Keys |-> [data |-> << >>, mtime |-> 0]] /\ MaxEdits \in Nat
      /\ appendOnly \in BOOLEAN
  BY ArchiveAssumption DEF Init
<1>2. \A k \in Keys : Hist(k) = << >> /\ file[k].data = << >>
  BY <1>1 DEF Hist, CompleteLines
<1>3. file \in [Keys -> [data : Seq(Lines \cup {Torn}), mtime : 0..MaxEdits]]
  BY <1>1
<1>4. segs = {} /\ IsFiniteSet(segs) BY FS_EmptySet DEF Init
<1>5. /\ stats = NoKeys /\ fresh = NoKeys /\ DOMAIN NoKeys = {}
  BY DEF Init, NoKeys
<1>6. FileType /\ WorkType /\ StateType /\ RowType /\ PhaseType
  <2>1. FileType
    <3>1. << >> \in Seq(Lines) OBVIOUS
    <3>2. \A k \in Keys : Hist(k) \in Seq(Lines) /\ file[k].data = Hist(k) BY <1>2, <3>1
    <3>3. QED BY <1>3, <3>2 DEF FileType
  <2>2. WorkType BY <1>5 DEF Init, WorkType
  <2>3. StateType /\ RowType BY DEF Init, StateType, RowType
  <2>4. PhaseType BY <1>4 DEF Init, PhaseType
  <2>5. QED BY <2>1, <2>2, <2>3, <2>4
<1>7. Pairs(segs) = {} BY <1>4 DEF Pairs, OwnSegs
<1>8. NextSeq \in Nat BY <1>7, NextSeqIs, FS_EmptySet
<1>9. NumberInv BY <1>4, <1>8 DEF NumberInv, Disjoint
<1>10. TypeInv
  BY <1>1, <1>4, <1>6 DEF TypeInv, FileType, WorkType, StateType, RowType, PhaseType
<1>11. QED BY <1>9, <1>10

LEMMA TypeStep ==
  ASSUME TypeInv, NumberInv, LogInv, [Next]_vars
  PROVE  TypeInv' /\ NumberInv' /\ segs \subseteq segs'
<1>1. /\ segs' \in SUBSET Segments /\ IsFiniteSet(segs') /\ segs \subseteq segs'
      /\ NumberInv'
  BY LogStep
<1>2. FileType' /\ WorkType' /\ StateType' /\ RowType'
  BY FileStep, WorkStep, StateStep, RowStep
<1>3. PhaseType' BY <1>1, PhaseTypeStep
<1>4. (appendOnly \in BOOLEAN)' BY KindSteps DEF TypeInv
<1>5. QED
  BY <1>1, <1>2, <1>3, <1>4 DEF TypeInv, FileType, WorkType, StateType, RowType, PhaseType

-----------------------------------------------------------------------------
(* What is remembered as logged is.                                        *)

(* The same but for where it is in the log.                                *)
Same(o, w) == o.kind = w.kind /\ o.off = w.off /\ o.data = w.data

LEMMA HasSame ==
  ASSUME NEW O, NEW P, \A o \in O : \E p \in P : Same(p, o),
         NEW i, NEW line, Has(O, i, line)
  PROVE  Has(P, i, line)
BY DEF Has, Same, End

LEMMA SameSelf == \A o : Same(o, o)
BY DEF Same

LEMMA OwnTyped ==
  ASSUME TypeInv, NumberInv, NEW k, NEW o \in OwnIn(segs, k)
  PROVE  /\ o \in ObsFor(segs, k) /\ o.dev = Self /\ o.seq \in Nat /\ o.seq < NextSeq
         /\ o.kind \in {"append", "snapshot"} /\ o.off \in Nat /\ o.data \in Nonempty(Lines)
         /\ Len(o.data) \in Nat \ {0} /\ End(o) = o.off + Len(o.data) /\ o.off < End(o)
<1>1. Logged(segs, k) /\ segs \in SUBSET Segments BY LoggedIs DEF Logged
<1>2. o.kind # "tombstone" /\ o \in ObsFor(segs, k) /\ o.dev = Self BY <1>1 DEF Logged, OwnIn
<1>3. /\ o.seq \in Nat /\ o.kind \in {"append", "snapshot"} /\ o.off \in Nat
      /\ o.data \in Nonempty(Lines)
  BY <1>1, <1>2, ObsForTyped
<1>4. Len(o.data) \in Nat \ {0} BY <1>3 DEF Nonempty
<1>5. o.seq < NextSeq
  <2> PICK s \in segs : \E i \in DOMAIN s.obs : s.dev = Self /\ o = ObsAt(s, i) BY OwnIs
  <2>1. PICK i \in DOMAIN s.obs : s.dev = Self /\ o = ObsAt(s, i) OBVIOUS
  <2>2. s \in Segments BY <1>1
  <2>3. s.first \in Nat /\ i \in 1..Len(s.obs) /\ Len(s.obs) \in Nat BY <2>2, SegmentTyped
  <2>4. o.seq = s.first + i - 1 BY <2>1 DEF ObsAt
  <2>5. s.first + Len(s.obs) <= NextSeq /\ NextSeq \in Nat BY <2>1 DEF NumberInv
  <2>6. QED BY ONLY <2>3, <2>4, <2>5
<1>6. QED BY <1>2, <1>3, <1>4, <1>5 DEF End

LEMMA WaitingTyped ==
  ASSUME TypeInv, NEW k, NEW o \in Waiting(k)
  PROVE  /\ o.kind \in {"append", "snapshot"} /\ o.off \in Nat /\ o.data \in Nonempty(Lines)
         /\ o \in Entries /\ o.key = k
<1>1. batch \in Seq(Entries) BY DEF TypeInv
<1>2. PICK j \in DOMAIN batch : o = batch[j] /\ batch[j].key = k BY DEF Waiting
<1>3. batch[j] \in Entries BY <1>1
<1>4. QED BY <1>2, <1>3 DEF Entries, Observation, Nonempty

(* The log's observations of this device change when it appends.           *)
LEMMA OwnSteps ==
  ASSUME TypeInv, NumberInv, [Next]_vars, NEW k
  PROVE  /\ OwnIn(segs, k) \subseteq OwnIn(segs', k)
         /\ AppendSegment \/ OwnIn(segs', k) = OwnIn(segs, k)
<1>1. segs \subseteq segs' BY LogStep
<1>2. OwnIn(segs, k) \subseteq OwnIn(segs', k) BY <1>1, ObsForMonotone DEF OwnIn
<1>3. ASSUME NEW s \in Foreign, Import(s) PROVE OwnIn(segs', k) = OwnIn(segs, k)
  <2>1. segs' = segs \cup {s} /\ s.dev # Self BY <1>3, ArchiveAssumption DEF Import
  <2>2. \A o : o \in OwnIn(segs', k) => o \in OwnIn(segs, k) BY <2>1, OwnIs
  <2>3. QED BY <1>2, <2>2
<1>4. QED BY <1>2, <1>3, SegsSteps

(* What is appended was waiting, and comes after all there was.            *)
LEMMA AppendedIs ==
  ASSUME TypeInv, NumberInv, AppendSegment, NEW k
  PROVE  /\ \A o \in OwnIn(segs', k) :
              \/ o \in OwnIn(segs, k)
              \/ /\ \E w \in Waiting(k) : Same(o, w)
                 /\ \A p \in OwnIn(segs, k) : p.seq < o.seq
         /\ \A w \in Waiting(k) :
              w \in Waiting(k)' \/ \E o \in OwnIn(segs', k) : Same(o, w) /\ o \notin OwnIn(segs, k)
         /\ Waiting(k)' \subseteq Waiting(k)
<1> PICK n \in 1..Len(batch) : \E new \in Segments : Appends(n, new) BY AppendIs
<1> PICK new \in Segments : Appends(n, new) OBVIOUS
<1>1. /\ new.dev = Self /\ new.first = NextSeq /\ new.obs \in Seq(Entries) /\ Len(new.obs) = n
      /\ \A i \in 1..n : new.obs[i] = batch[i]
      /\ segs' = segs \cup {new}
      /\ batch' \in Seq(Entries) /\ Len(batch') = Len(batch) - n
      /\ \A i \in 1..Len(batch) - n : batch'[i] = batch[n + i]
  BY DEF Appends
<1>2. Len(batch) \in Nat /\ n \in 1..Len(batch) /\ NextSeq \in Nat BY DEF TypeInv, NumberInv
<1>3. DOMAIN new.obs = 1..n /\ DOMAIN batch = 1..Len(batch) /\ DOMAIN batch' = 1..(Len(batch) - n)
  <2>1. batch \in Seq(Entries) BY DEF TypeInv
  <2>2. QED BY <1>1, <1>2, <2>1
<1>4. \A i \in 1..n : /\ ObsAt(new, i).seq = NextSeq + i - 1 /\ ObsAt(new, i).kind = batch[i].kind
                      /\ ObsAt(new, i).off = batch[i].off /\ ObsAt(new, i).data = batch[i].data
  BY <1>1 DEF ObsAt
<1>5. ASSUME NEW o \in OwnIn(segs', k), o \notin OwnIn(segs, k)
      PROVE  /\ \E w \in Waiting(k) : Same(o, w)
             /\ \A p \in OwnIn(segs, k) : p.seq < o.seq
  <2>1. \E i \in DOMAIN new.obs : new.obs[i].key = k /\ o = ObsAt(new, i)
    BY <1>1, <1>5, OwnIs
  <2>2. PICK i \in 1..n : new.obs[i].key = k /\ o = ObsAt(new, i) BY <1>3, <2>1
  <2>3. i \in 1..Len(batch) /\ batch[i].key = k BY <1>1, <1>2, <2>2
  <2>4. batch[i] \in Waiting(k) BY <1>3, <2>3 DEF Waiting
  <2>5. Same(o, batch[i]) BY <1>4, <2>2 DEF Same
  <2>6. o.seq = NextSeq + i - 1 BY <1>4, <2>2
  <2>7. ASSUME NEW p \in OwnIn(segs, k) PROVE p.seq < o.seq
    <3>1. p.seq \in Nat /\ p.seq < NextSeq BY OwnTyped
    <3>2. i \in Nat /\ i >= 1 BY <1>2
    <3>3. QED BY ONLY <1>2, <2>6, <3>1, <3>2
  <2>8. QED BY <2>4, <2>5, <2>7
<1>6. ASSUME NEW w \in Waiting(k), w \notin Waiting(k)'
      PROVE  \E o \in OwnIn(segs', k) : Same(o, w) /\ o \notin OwnIn(segs, k)
  <2>1. PICK j \in 1..Len(batch) : w = batch[j] /\ batch[j].key = k BY <1>3 DEF Waiting
  <2>2. CASE j <= n
    <3>1. j \in 1..n BY <1>2, <2>2
    <3>2. ObsAt(new, j) \in OwnIn(segs', k)
      <4>1. new \in segs' /\ new.dev = Self /\ new.obs[j].key = k /\ j \in DOMAIN new.obs
        BY <1>1, <1>3, <2>1, <3>1
      <4>2. QED BY <4>1, OwnIs
    <3>3. Same(ObsAt(new, j), w) BY <1>4, <2>1, <3>1 DEF Same
    <3>4. ObsAt(new, j) \notin OwnIn(segs, k)
      <4>1. ObsAt(new, j).seq = NextSeq + j - 1 /\ j \in Nat /\ j >= 1 BY <1>2, <1>4, <3>1
      <4>2. ~(ObsAt(new, j).seq < NextSeq) BY ONLY <1>2, <4>1
      <4>3. QED BY <4>2, OwnTyped
    <3>5. QED BY <3>2, <3>3, <3>4
  <2>3. CASE ~(j <= n)
    <3>1. j - n \in 1..(Len(batch) - n) /\ n + (j - n) = j BY <1>2, <2>3
    <3>2. batch'[j - n] = w BY <1>1, <2>1, <3>1
    <3>3. w \in Waiting(k)' BY <1>3, <2>1, <3>1, <3>2 DEF Waiting
    <3>4. QED BY <1>6, <3>3
  <2>4. QED BY <2>2, <2>3
<1>7. ASSUME NEW w \in Waiting(k)' PROVE w \in Waiting(k)
  <2>1. PICK j \in 1..(Len(batch) - n) : w = batch'[j] /\ batch'[j].key = k BY <1>3 DEF Waiting
  <2>2. batch'[j] = batch[n + j] /\ n + j \in 1..Len(batch) BY <1>1, <1>2
  <2>3. QED BY <1>3, <2>1, <2>2 DEF Waiting
<1>8. QED BY <1>5, <1>6, <1>7

LEMMA WaitingSame ==
  ASSUME batch' = batch, NEW k PROVE Waiting(k)' = Waiting(k)
BY DEF Waiting

LEMMA WaitingNone ==
  ASSUME batch = << >>, NEW k PROVE Waiting(k) = {}
BY DEF Waiting

LEMMA WaitingRead ==
  ASSUME TypeInv, NEW k \in Keys, Read(k), NEW j \in Keys
  PROVE  Waiting(j)' = IF j = k /\ New(k) # None THEN Waiting(j) \cup {Entry(k)} ELSE Waiting(j)
<1>1. batch' = IF New(k) = None THEN batch ELSE Append(batch, Entry(k)) BY ReadIs
<1>2. CASE New(k) = None BY <1>1, <1>2, WaitingSame
<1>3. CASE New(k) # None
  <2> DEFINE e == Entry(k)
  <2>1. e \in Entries /\ e.key = k BY <1>3, EntryIs
  <2>2. batch \in Seq(Entries) /\ Len(batch) \in Nat /\ DOMAIN batch = 1..Len(batch) BY DEF TypeInv
  <2>3. batch' = Append(batch, e) BY <1>1, <1>3
  <2> HIDE DEF e
  <2>4. /\ batch' \in Seq(Entries) /\ Len(batch') = Len(batch) + 1
        /\ \A i \in 1..Len(batch) : batch'[i] = batch[i]
        /\ batch'[Len(batch) + 1] = e
    BY <2>1, <2>2, <2>3, AppendProperties
  <2>5. DOMAIN batch' = 1..(Len(batch) + 1) BY <2>4
  <2>6. \A i \in DOMAIN batch' : (i \in DOMAIN batch /\ batch'[i] = batch[i]) \/ batch'[i] = e
    BY <2>2, <2>4, <2>5
  <2>7. \A i \in DOMAIN batch : i \in DOMAIN batch' /\ batch'[i] = batch[i]
    BY <2>2, <2>4, <2>5
  <2>8. Len(batch) + 1 \in DOMAIN batch' BY <2>2, <2>5
  <2>9. Waiting(j)' = {batch'[i] : i \in {i \in DOMAIN batch' : batch'[i].key = j}} BY DEF Waiting
  <2>10. CASE j = k
    <3>1. \A w \in Waiting(j)' : w \in Waiting(j) \/ w = e BY <2>6, <2>9 DEF Waiting
    <3>2. \A w \in Waiting(j) : w \in Waiting(j)' BY <2>7, <2>9 DEF Waiting
    <3>3. e \in Waiting(j)' BY <2>1, <2>4, <2>8, <2>9, <2>10
    <3>4. QED BY <1>3, <2>10, <3>1, <3>2, <3>3 DEF e
  <2>11. CASE j # k
    <3>1. \A w \in Waiting(j)' : w \in Waiting(j) BY <2>1, <2>6, <2>9, <2>11 DEF Waiting
    <3>2. \A w \in Waiting(j) : w \in Waiting(j)' BY <2>7, <2>9 DEF Waiting
    <3>3. QED BY <2>11, <3>1, <3>2
  <2>12. QED BY <2>10, <2>11
<1>4. QED BY <1>2, <1>3

(* Looking at what is logged from the beginning up to a line.              *)
LEMMA HasWaiting ==
  ASSUME TypeInv, NumberInv, AppendSegment, NEW k, NEW i, NEW line,
         Has(OwnIn(segs, k) \cup Waiting(k), i, line)
  PROVE  Has(OwnIn(segs', k) \cup Waiting(k)', i, line)
<1>1. OwnIn(segs, k) \subseteq OwnIn(segs', k)
  <2>1. [Next]_vars BY DEF Next, Collect
  <2>2. QED BY <2>1, OwnSteps
<1>2. \A o \in OwnIn(segs, k) \cup Waiting(k) :
        \E p \in OwnIn(segs', k) \cup Waiting(k)' : Same(p, o)
  BY <1>1, AppendedIs, SameSelf
<1>3. QED BY <1>2, HasSame

LEMMA HasMore ==
  ASSUME NEW O, NEW P, O \subseteq P, NEW i, NEW line, Has(O, i, line)
  PROVE  Has(P, i, line)
BY DEF Has

(* What a read file holds is in the log or in what is to be appended.      *)
LEMMA ReadLogged ==
  ASSUME TypeInv, NumberInv, NEW k \in Keys, StateLog(k), Read(k), Complete(k) # << >>,
         NEW i \in 1..Len(Complete(k))
  PROVE  Has(OwnIn(segs', k) \cup Waiting(k)', i, Complete(k)[i])
<1> DEFINE data == Complete(k)
           o == New(k)
           P == OwnIn(segs', k) \cup Waiting(k)'
<1>1. data \in Seq(Lines) /\ Len(data) \in Nat BY CompleteIs
<1>2. Prev(k) \in {None} \cup Nonempty(Lines) /\ (Prev(k) = None <=> state[k] = None) BY PrevIs
<1>3. segs' = segs BY ReadIs
<1>4. OwnIn(segs, k) \subseteq P BY <1>3
<1>5. o # None => Entry(k) \in P BY WaitingRead
<1>6. state[k] # None => state[k].data = Prev(k) /\ state[k].data \in Seq(Lines)
  BY <1>2 DEF Prev, Nonempty
<1>7. o = Observe(appendOnly, Prev(k), data) BY DEF New
<1>8. \A off \in Nat : o # None /\ Observes(o, off, data) /\ off < i => Has(P, i, data[i])
  <2> SUFFICES ASSUME NEW off \in Nat, o # None, Observes(o, off, data), off < i
               PROVE  Has(P, i, data[i])
    OBVIOUS
  <2> DEFINE e == Entry(k)
  <2>1. e \in P /\ e.off = o.off /\ e.data = o.data BY <1>5, EntryIs
  <2>2. /\ o.off = off /\ off + Len(o.data) = Len(data) /\ o.data \in Seq(Lines)
        /\ \A j \in 1..Len(o.data) : data[off + j] = o.data[j]
    BY DEF Observes, Nonempty
  <2> HIDE DEF e, P, o
  <2>3. i \in Nat /\ i <= Len(data) /\ Len(o.data) \in Nat BY <1>1, <2>2
  <2>4. i - off \in 1..Len(o.data) /\ off + (i - off) = i BY ONLY <2>2, <2>3, <1>1, off < i, off \in Nat
  <2>5. data[i] = o.data[i - off] BY <2>2, <2>4
  <2>6. e.off < i /\ i <= End(e) /\ e.data[i - e.off] = data[i]
    BY <2>1, <2>2, <2>3, <2>5 DEF End
  <2>7. QED BY <2>1, <2>6 DEF Has
<1>9. \A j \in 1..Len(Prev(k)) : Prev(k) # None => Has(P, j, Prev(k)[j])
  BY <1>2, <1>4, <1>6, HasMore DEF StateLog
<1> HIDE DEF data, P
<1>10. data # << >> BY DEF data
<1>11. i \in 1..Len(data) BY DEF data
<1>12. \/ o = None /\ (data = << >> \/ Prev(k) = data)
       \/ o # None /\ Observes(o, 0, data)
       \/ o # None /\ Prev(k) # None /\ Observes(o, Len(Prev(k)), data) /\ Continues(data, Prev(k))
  BY NewIs DEF data, Made
<1>13. CASE o = None /\ Prev(k) = data
  <2>1. data # None BY <1>1, ArchiveAssumption
  <2>2. QED BY <1>9, <1>11, <1>13, <2>1 DEF data, P
<1>14. CASE o # None /\ Observes(o, 0, data)
  <2>1. 0 < i BY <1>1, <1>11
  <2>2. QED BY <1>8, <1>14, <2>1 DEF data, P
<1>15. CASE o # None /\ Prev(k) # None /\ Observes(o, Len(Prev(k)), data) /\ Continues(data, Prev(k))
  <2>1. Len(Prev(k)) \in Nat BY <1>2, <1>15 DEF Nonempty
  <2>2. CASE Len(Prev(k)) < i BY <1>8, <1>15, <2>1, <2>2 DEF data, P
  <2>3. CASE ~(Len(Prev(k)) < i)
    <3>1. i \in 1..Len(Prev(k)) BY <1>1, <1>11, <2>1, <2>3
    <3>2. data[i] = Prev(k)[i] BY <1>15, <3>1 DEF Continues
    <3>3. Has(P, i, Prev(k)[i]) BY <1>9, <1>15, <3>1
    <3>4. QED BY <3>2, <3>3 DEF data, P
  <2>4. QED BY <2>2, <2>3
<1>16. QED BY <1>10, <1>12, <1>13, <1>14, <1>15

(* And what it goes on from is in the log.                                 *)
LEMMA ReadLinked ==
  ASSUME TypeInv, NumberInv, NEW k \in Keys, StateLog(k), New(k) # None
  PROVE  Linked(OwnIn(segs, k), Entry(k))
<1> DEFINE data == Complete(k)
           o == New(k)
           m == Len(Prev(k))
<1>1. data \in Seq(Lines) BY CompleteIs
<1>2. Prev(k) \in {None} \cup Nonempty(Lines) /\ (Prev(k) = None <=> state[k] = None) BY PrevIs
<1>3. o = Observe(appendOnly, Prev(k), data) BY DEF New
<1>4. Entry(k).off = o.off /\ Entry(k).kind = o.kind BY EntryIs
<1> HIDE DEF data
<1>5. \/ o = None
      \/ Observes(o, 0, data)
      \/ Prev(k) # None /\ Observes(o, m, data) /\ o.kind = "append"
  BY NewIs DEF data, Made
<1>6. CASE Observes(o, 0, data) BY <1>4, <1>6 DEF Observes, Linked
<1>7. CASE Prev(k) # None /\ Observes(o, m, data) /\ o.kind = "append"
  <2>1. m \in Nat \ {0} /\ m \in 1..m /\ o.off = m BY <1>2, <1>7 DEF Nonempty, Observes
  <2>2. Has(OwnIn(segs, k), m, Prev(k)[m]) BY <1>2, <1>7, <2>1 DEF StateLog, Prev
  <2>3. QED BY <1>4, <1>7, <2>1, <2>2 DEF Has, Linked
<1>8. QED BY <1>5, <1>6, <1>7

LEMMA FreshLogStep ==
  ASSUME TypeInv, NumberInv, [Next]_vars, NEW k \in Keys, FreshLog(k), StateLog(k)
  PROVE  FreshLog(k)'
<1>1. OwnIn(segs, k) \subseteq OwnIn(segs', k) BY OwnSteps
<1>2. CASE fresh' = fresh /\ batch' = batch
  <2>1. OwnIn(segs, k) \cup Waiting(k) \subseteq OwnIn(segs', k) \cup Waiting(k)'
    BY <1>1, <1>2, WaitingSame
  <2>2. QED BY <1>2, <2>1, HasMore DEF FreshLog
<1>3. CASE UNCHANGED working BY <1>2, <1>3 DEF working
<1>4. CASE StartCollect BY <1>2, <1>4 DEF StartCollect
<1>5. CASE AppendSegment
  <2>1. fresh' = fresh BY <1>5 DEF AppendSegment
  <2>2. QED BY <1>5, <2>1, HasWaiting DEF FreshLog
<1>6. CASE \E j \in Keys : Stat(j) BY <1>2, <1>6 DEF Stat
<1>7. ASSUME NEW j \in Keys, Read(j) PROVE FreshLog(k)'
  <2> DEFINE fr == [data |-> Complete(j), mtime |-> stats[j]]
  <2>1. /\ Complete(j) = << >> => fresh' = fresh
        /\ Complete(j) # << >> => fresh' = With(fresh, j, fr)
    BY <1>7, ReadIs
  <2>2. Waiting(k) \subseteq Waiting(k)' BY <1>7, WaitingRead
  <2>3. OwnIn(segs, k) \cup Waiting(k) \subseteq OwnIn(segs', k) \cup Waiting(k)'
    BY <1>1, <2>2
  <2>4. CASE k \in DOMAIN fresh' /\ ~(k = j /\ Complete(j) # << >>)
    <3>1. k \in DOMAIN fresh /\ fresh'[k] = fresh[k]
      <4>1. CASE Complete(j) = << >> BY <2>1, <2>4, <4>1
      <4>2. CASE Complete(j) # << >> BY <2>1, <2>4, <4>2 DEF With
      <4>3. QED BY <4>1, <4>2
    <3>2. QED BY <2>3, <3>1, HasMore DEF FreshLog
  <2>5. CASE k = j /\ Complete(j) # << >>
    <3>1. fr.data = Complete(k) /\ fresh' = With(fresh, j, fr) BY <2>1, <2>5
    <3> HIDE DEF fr
    <3>2. fresh'[k] = fr BY <2>5, <3>1 DEF With
    <3>3. \A i \in 1..Len(Complete(k)) : Has(OwnIn(segs', k) \cup Waiting(k)', i, Complete(k)[i])
      BY <1>7, <2>5, ReadLogged
    <3>4. QED BY <3>1, <3>2, <3>3 DEF FreshLog
  <2>6. QED BY <2>4, <2>5 DEF FreshLog
<1>8. ASSUME NEW j \in Keys, SaveState(j) PROVE FreshLog(k)'
  <2>1. batch' = batch /\ fresh' = Without(fresh, j) BY <1>8 DEF SaveState
  <2>2. k \in DOMAIN fresh' => k \in DOMAIN fresh /\ fresh'[k] = fresh[k] BY <2>1 DEF Without
  <2>3. OwnIn(segs, k) \cup Waiting(k) \subseteq OwnIn(segs', k) \cup Waiting(k)'
    BY <1>1, <2>1, WaitingSame
  <2>4. QED BY <2>2, <2>3, HasMore DEF FreshLog
<1>9. CASE \E j \in Keys : Unreadable(j) BY <1>2, <1>9 DEF Unreadable
<1>10. CASE Emptied BY <1>10 DEF Emptied, NoKeys, FreshLog
<1>11. QED BY <1>3, <1>4, <1>5, <1>6, <1>7, <1>8, <1>9, <1>10, WorkSteps

LEMMA OwnLogStep ==
  ASSUME TypeInv, NumberInv, [Next]_vars, NEW k \in Keys, OwnLog(k), WaitLog(k)
  PROVE  OwnLog(k)'
<1>1. OwnIn(segs, k) \subseteq OwnIn(segs', k) BY OwnSteps
<1>2. CASE OwnIn(segs', k) = OwnIn(segs, k) BY <1>2 DEF OwnLog, Linked
<1>3. CASE AppendSegment
  <2> SUFFICES ASSUME NEW o \in OwnIn(segs', k), o.off # 0
               PROVE  /\ o.kind = "append"
                      /\ \E p \in OwnIn(segs', k) : p.off < o.off /\ o.off <= End(p) /\ p.seq < o.seq
    BY DEF OwnLog, Linked
  <2>1. CASE o \in OwnIn(segs, k) BY <1>1, <2>1 DEF OwnLog, Linked
  <2>2. CASE o \notin OwnIn(segs, k)
    <3>1. /\ \E w \in Waiting(k) : Same(o, w)
          /\ \A p \in OwnIn(segs, k) : p.seq < o.seq
      BY <1>3, <2>2, AppendedIs
    <3>2. PICK w \in Waiting(k) : Same(o, w) BY <3>1
    <3>3. o.kind = "append" /\ \E p \in OwnIn(segs, k) : p.off < o.off /\ o.off <= End(p)
      BY <3>2 DEF WaitLog, Linked, Same
    <3>4. QED BY <1>1, <3>1, <3>3
  <2>3. QED BY <2>1, <2>2
<1>4. QED BY <1>2, <1>3, OwnSteps

LEMMA WaitLogStep ==
  ASSUME TypeInv, NumberInv, [Next]_vars, NEW k \in Keys, StateLog(k), WaitLog(k)
  PROVE  WaitLog(k)'
<1>1. OwnIn(segs, k) \subseteq OwnIn(segs', k) BY OwnSteps
<1>2. \A o : Linked(OwnIn(segs, k), o) => Linked(OwnIn(segs', k), o) BY <1>1 DEF Linked
<1>3. CASE Waiting(k)' \subseteq Waiting(k) BY <1>2, <1>3 DEF WaitLog
<1>4. CASE UNCHANGED working BY <1>3, <1>4, WaitingSame DEF working
<1>5. CASE StartCollect BY <1>3, <1>5, WaitingSame DEF StartCollect
<1>6. CASE AppendSegment BY <1>3, <1>6, AppendedIs
<1>7. CASE \E j \in Keys : Stat(j) BY <1>3, <1>7, WaitingSame DEF Stat
<1>8. ASSUME NEW j \in Keys, Read(j) PROVE WaitLog(k)'
  <2>1. Waiting(k)' = IF k = j /\ New(j) # None THEN Waiting(k) \cup {Entry(j)} ELSE Waiting(k)
    BY <1>8, WaitingRead
  <2>2. k = j /\ New(j) # None => Linked(OwnIn(segs, k), Entry(j)) BY ReadLinked
  <2>3. QED BY <1>2, <2>1, <2>2 DEF WaitLog
<1>9. CASE \E j \in Keys : SaveState(j) BY <1>3, <1>9, WaitingSame DEF SaveState
<1>10. CASE \E j \in Keys : Unreadable(j) BY <1>3, <1>10, WaitingSame DEF Unreadable
<1>11. CASE Emptied BY <1>11 DEF Emptied, Waiting, WaitLog
<1>12. QED BY <1>4, <1>5, <1>6, <1>7, <1>8, <1>9, <1>10, <1>11, WorkSteps

(* The contents whose every line is in the log.                            *)
InLog(k) == {v \in Nonempty(Lines) : \A i \in 1..Len(v) : Has(OwnIn(segs, k), i, v[i])}

LEMMA RecomputedLogged ==
  ASSUME TypeInv, NumberInv, NEW k \in Keys, OwnLog(k)
  PROVE  /\ OwnIn(segs, k) = {} => Replay(OwnObs(segs, k)) = None
         /\ OwnIn(segs, k) # {} => Replay(OwnObs(segs, k)) \in InLog(k)
<1> DEFINE V == InLog(k)
           own == OwnIn(segs, k)
<1>1. Logged(segs, k) BY LoggedIs
<1>2. \A o \in own :
        /\ o.kind \in {"append", "snapshot"} /\ o.off \in Nat /\ o.data \in Nonempty(Lines)
        /\ o.data \in Seq(Lines) /\ Len(o.data) \in Nat \ {0} /\ End(o) = o.off + Len(o.data)
  BY OwnTyped DEF Nonempty
<1>3. \A o \in own : o.off = 0 \/ (o.kind = "append" /\ \E p \in own : p.seq < o.seq)
  BY DEF OwnLog, Linked
<1>4. ASSUME NEW o \in own, NEW i \in 1..Len(o.data) PROVE Has(own, o.off + i, o.data[i])
  <2>1. /\ o.off < o.off + i /\ o.off + i <= End(o) /\ (o.off + i) - o.off = i
    BY <1>2, <1>4
  <2>2. QED BY <2>1 DEF Has
<1>5. ASSUME NEW o \in own, o.off = 0 \/ o.kind = "snapshot" PROVE o.data \in V
  <2>1. o.off = 0 BY <1>3, <1>5
  <2>2. \A i \in 1..Len(o.data) : 0 + i = i /\ Has(own, 0 + i, o.data[i]) BY <1>4, <2>1
  <2>3. QED BY <1>2, <2>2 DEF InLog
<1>6. ASSUME NEW v \in V, NEW o \in own, o.off <= Len(v)
      PROVE  SubSeq(v, 1, o.off) \o o.data \in V
  <2> DEFINE w == SubSeq(v, 1, o.off) \o o.data
  <2>1. /\ v \in Seq(Lines) /\ Len(v) \in Nat
        /\ \A i \in 1..Len(v) : Has(own, i, v[i])
    BY DEF InLog, Nonempty
  <2>2. o.off \in 0..Len(v) BY <1>2, <1>6, <2>1
  <2>3. /\ w \in Seq(Lines) /\ Len(w) = o.off + Len(o.data)
        /\ \A i \in 1..Len(w) : w[i] = IF i <= o.off THEN v[i] ELSE o.data[i - o.off]
    BY <1>2, <2>1, <2>2, SpliceIs
  <2> HIDE DEF w, V, own
  <2>4. ASSUME NEW i \in 1..Len(w) PROVE Has(own, i, w[i])
    <3>0. o.off \in Nat /\ Len(o.data) \in Nat /\ i \in 1..(o.off + Len(o.data))
      BY <1>2, <2>3
    <3>1. CASE i <= o.off
      <4>1. i \in 1..Len(v) BY <2>1, <2>2, <3>0, <3>1
      <4>2. QED BY <2>1, <2>3, <3>1, <4>1
    <3>2. CASE ~(i <= o.off)
      <4>1. i - o.off \in 1..Len(o.data) /\ o.off + (i - o.off) = i BY <3>0, <3>2
      <4>2. Has(own, o.off + (i - o.off), o.data[i - o.off]) BY <1>4, <4>1
      <4>3. QED BY <2>3, <3>2, <4>1, <4>2
    <3>3. QED BY <3>1, <3>2
  <2>5. w # << >>
    <3>1. Len(w) \in Nat \ {0} BY <1>2, <2>3
    <3>2. QED BY <3>1
  <2>6. w \in V BY <2>3, <2>4, <2>5 DEF V, own, InLog, Nonempty
  <2>7. QED BY <2>6 DEF w
<1>7. V \in SUBSET Nonempty(Lines) BY DEF InLog
<1> HIDE DEF V
<1>8. QED BY <1>1, <1>3, <1>5, <1>6, <1>7, ReplayOwn DEF V

LEMMA StateLogStep ==
  ASSUME TypeInv, PhaseInv, NumberInv, [Next]_vars, NEW k \in Keys,
         StateLog(k), FreshLog(k), OwnLog(k)
  PROVE  StateLog(k)'
<1>0. state \in [Keys -> {None} \cup [data : Nonempty(Lines), mtime : {None} \cup 0..MaxEdits]]
  BY DEF TypeInv
<1>1. OwnIn(segs, k) \subseteq OwnIn(segs', k) BY OwnSteps
<1>2. CASE state'[k] = state[k] BY <1>1, <1>2, HasMore DEF StateLog
<1>3. CASE state' = state BY <1>2, <1>3
<1>4. ASSUME NEW j \in Keys, SaveState(j) PROVE StateLog(k)'
  <2>1. /\ pc = "saving" /\ j \in DOMAIN fresh /\ state' = [state EXCEPT ![j] = fresh[j]]
    BY <1>4 DEF SaveState, NewState
  <2>2. Waiting(k) = {} BY <2>1, WaitingNone DEF PhaseInv
  <2>3. CASE j = k
    <3>1. state'[k] = fresh[k] BY <1>0, <2>1, <2>3
    <3>2. \A i \in 1..Len(fresh[k].data) : Has(OwnIn(segs, k), i, fresh[k].data[i])
      BY <2>1, <2>2, <2>3 DEF FreshLog
    <3>3. QED BY <1>1, <3>1, <3>2, HasMore DEF StateLog
  <2>4. CASE j # k BY <1>0, <1>2, <2>1, <2>4
  <2>5. QED BY <2>3, <2>4
<1>5. ASSUME NEW F \in SUBSET Keys, Rebuild(F) PROVE StateLog(k)'
  <2> DEFINE r == Replay(OwnObs(segs, k))
  <2>1. state'[k] = IF r = None THEN None ELSE [data |-> r, mtime |-> None]
    BY <1>5 DEF Rebuild
  <2>2. r = None \/ r \in InLog(k) BY RecomputedLogged
  <2> HIDE DEF r
  <2>3. state'[k] # None => state'[k].data = r /\ r \in InLog(k) BY <2>1, <2>2
  <2>4. QED BY <1>1, <2>3, HasMore DEF InLog, StateLog
<1>6. QED BY <1>3, <1>4, <1>5, StateSteps

-----------------------------------------------------------------------------
(* The invariant the others rest on.                                       *)

BaseInv == TypeInv /\ PhaseInv /\ NumberInv /\ LogInv

LEMMA BaseInit == Init => BaseInv
<1> SUFFICES ASSUME Init PROVE BaseInv OBVIOUS
<1>1. TypeInv /\ NumberInv /\ PhaseInv BY TypeInit, PhaseInit
<1>2. segs = {} /\ state = [k \in Keys |-> None] /\ fresh = NoKeys /\ batch = << >>
  BY DEF Init
<1>3. \A k : OwnIn(segs, k) = {} /\ Waiting(k) = {} BY <1>2, WaitingNone DEF OwnIn, ObsFor
<1>4. LogInv BY <1>2, <1>3 DEF LogInv, StateLog, FreshLog, OwnLog, WaitLog, NoKeys
<1>5. QED BY <1>1, <1>4 DEF BaseInv

LEMMA BaseStep == BaseInv /\ [Next]_vars => BaseInv'
<1> SUFFICES ASSUME TypeInv, PhaseInv, NumberInv, LogInv, [Next]_vars PROVE BaseInv'
  BY DEF BaseInv
<1>1. TypeInv' /\ NumberInv' BY TypeStep
<1>2. PhaseInv' BY PhaseStep
<1>3. ASSUME NEW k \in Keys PROVE StateLog(k)' /\ FreshLog(k)' /\ OwnLog(k)' /\ WaitLog(k)'
  <2>1. StateLog(k) /\ FreshLog(k) /\ OwnLog(k) /\ WaitLog(k) BY DEF LogInv
  <2>2. QED BY <2>1, StateLogStep, FreshLogStep, OwnLogStep, WaitLogStep
<1>4. LogInv' BY <1>3 DEF LogInv
<1>5. QED BY <1>1, <1>2, <1>4 DEF BaseInv

LEMMA Base == Spec => []BaseInv
<1>1. Init => BaseInv BY BaseInit
<1>2. BaseInv /\ [Next]_vars => BaseInv' BY BaseStep
<1>3. QED BY <1>1, <1>2, PTL DEF Spec

(* The archive's variables keep their types: what a command works with is   *)
(* gone with its phase, and the database only indexes segments there are.   *)
THEOREM ArchiveTyped == Spec => []TypeOK
<1>1. BaseInv => TypeOK
  <2> SUFFICES ASSUME BaseInv PROVE TypeOK OBVIOUS
  <2>1. TypeInv /\ PhaseInv BY DEF BaseInv
  <2>2. ASSUME NEW k \in Keys
        PROVE  /\ state[k] = None \/ state[k].data \in Seq(Lines) \ {<< >>}
               /\ row[k] \in {None, Half} \/ row[k] \subseteq Seq(Lines) \ {<< >>}
    BY <2>1 DEF TypeInv, Nonempty
  <2>3. QED BY <2>1, <2>2 DEF TypeInv, PhaseInv, TypeOK
<1>2. QED BY <1>1, Base, PTL

(* Whatever the process died between, and however the archive was rebuilt, *)
(* every line the collector remembers as logged is in a segment this       *)
(* device wrote, where the file had it.                                    *)
THEOREM ArchiveStateLogged == Spec => []StateLogged
<1>1. BaseInv => StateLogged
  <2> SUFFICES ASSUME BaseInv, NEW k \in Keys, state[k] # None, NEW i \in DOMAIN state[k].data
               PROVE  \E o \in ObsFor(segs, k) :
                        /\ o.dev = Self
                        /\ o.off < i /\ i <= End(o)
                        /\ o.data[i - o.off] = state[k].data[i]
    BY DEF StateLogged
  <2>1. state[k].data \in Seq(Lines) BY DEF BaseInv, TypeInv, Nonempty
  <2>2. i \in 1..Len(state[k].data) BY <2>1
  <2>3. Has(OwnIn(segs, k), i, state[k].data[i]) BY <2>2 DEF BaseInv, LogInv, StateLog
  <2>4. QED BY <2>3 DEF Has, OwnIn
<1>2. QED BY <1>1, Base, PTL

-----------------------------------------------------------------------------
(* Skipping files.                                                         *)

LEMMA SkipInit == Init => SkipInv
BY DEF Init, SkipInv, SkipOf, NoKeys

(* A change of the file makes what was known older.                        *)
LEMMA SkipEdit ==
  ASSUME TypeInv, Edit, NEW k \in Keys, SkipOf(k)
  PROVE  SkipOf(k)'
<1> PICK j \in Keys : \E d :
      /\ Now + 1 \in 0..MaxEdits
      /\ file' = [file EXCEPT ![j] = [data |-> d, mtime |-> Now + 1]]
      /\ UNCHANGED others
  BY EditIs
<1>1. PICK d :
      /\ Now + 1 \in 0..MaxEdits
      /\ file' = [file EXCEPT ![j] = [data |-> d, mtime |-> Now + 1]]
      /\ UNCHANGED others
  OBVIOUS
<1>2. UNCHANGED <<stats, fresh, state, appendOnly>> BY <1>1 DEF others, memory, database
<1>3. /\ Now \in 0..MaxEdits /\ file[k].mtime <= Now /\ file[k].mtime \in 0..MaxEdits
      /\ MaxEdits \in Nat
  BY NowIs, ArchiveAssumption DEF TypeInv
<1>4. CASE j # k
  <2>1. file'[k] = file[k] BY <1>1, <1>4 DEF TypeInv
  <2>2. Complete(k)' = Complete(k) BY <1>2, <2>1 DEF Complete
  <2>3. QED BY <1>2, <2>1, <2>2 DEF SkipOf, Knows
<1>5. CASE j = k
  <2>1. file'[k].mtime = Now + 1 BY <1>1, <1>5 DEF TypeInv
  <2>2. \A m \in 0..MaxEdits : m <= file[k].mtime => m <= Now + 1 /\ m # Now + 1 BY <1>3
  <2>3. k \in DOMAIN stats' => stats'[k] <= file'[k].mtime
    BY <1>2, <2>1, <2>2 DEF SkipOf, TypeInv
  <2>4. k \in DOMAIN fresh' => Knows(fresh[k], k)'
    BY <1>2, <2>1, <2>2 DEF SkipOf, TypeInv, Knows
  <2>5. state'[k] # None /\ state'[k].mtime # None => Knows(state[k], k)'
    <3>1. state[k] # None /\ state[k].mtime # None => state[k].mtime \in 0..MaxEdits
      BY DEF TypeInv
    <3>2. QED BY <1>2, <2>1, <2>2, <3>1 DEF SkipOf, Knows
  <2>6. QED BY <1>2, <2>3, <2>4, <2>5 DEF SkipOf
<1>6. QED BY <1>4, <1>5

LEMMA KnowsSame ==
  ASSUME file' = file, appendOnly' = appendOnly, NEW k, NEW st, Knows(st, k)
  PROVE  st.mtime <= file'[k].mtime /\ (st.mtime = file'[k].mtime => st.data = Complete(k)')
BY DEF Knows, Complete

LEMMA SkipStep ==
  ASSUME TypeInv, [Next]_vars, NEW k \in Keys, SkipOf(k)
  PROVE  SkipOf(k)'
<1> DEFINE Known(st) == st.mtime <= file'[k].mtime /\ (st.mtime = file'[k].mtime => st.data = Complete(k)')
<1>0. CASE Edit BY <1>0, SkipEdit
<1>1. CASE file' = file
  <2>0. appendOnly' = appendOnly BY KindSteps
  <2>1. \A st : Knows(st, k) => Known(st) BY <1>1, <2>0, KnowsSame
  <2>2. Complete(k)' = Complete(k) BY <1>1, <2>0 DEF Complete
  <2>3. ASSUME NEW f, f = stats' PROVE k \in DOMAIN f => f[k] <= file'[k].mtime
    <3>1. CASE stats' = stats BY <1>1, <2>3, <3>1 DEF SkipOf
    <3>2. CASE \E j \in Keys : stats' = Without(stats, j)
      BY <1>1, <2>3, <3>2 DEF SkipOf, Without
    <3>3. CASE \E j \in Keys : stats' = With(stats, j, file[j].mtime)
      <4>1. PICK j \in Keys : stats' = With(stats, j, file[j].mtime) BY <3>3
      <4>2. CASE j = k
        <5>1. f[k] = file[k].mtime BY <2>3, <4>1, <4>2 DEF With
        <5>2. file[k].mtime \in Int BY DEF TypeInv
        <5>3. QED BY <1>1, <5>1, <5>2
      <4>3. CASE j # k BY <1>1, <2>3, <4>1, <4>3 DEF SkipOf, With
      <4>4. QED BY <4>2, <4>3
    <3>4. CASE stats' = NoKeys BY <2>3, <3>4 DEF NoKeys
    <3>5. QED
      BY <3>1, <3>2, <3>3, <3>4, WorkSteps
      DEF working, StartCollect, AppendSegment, Stat, Read, SaveState, Unreadable, Emptied
  <2>4. ASSUME NEW f, f = fresh' PROVE k \in DOMAIN f => Known(f[k])
    <3>1. CASE fresh' = fresh BY <2>1, <2>4, <3>1 DEF SkipOf
    <3>2. CASE \E j \in Keys : fresh' = Without(fresh, j)
      BY <2>1, <2>4, <3>2 DEF SkipOf, Without
    <3>3. ASSUME NEW j \in Keys, Read(j) PROVE k \in DOMAIN f => Known(f[k])
      <4> DEFINE fr == [data |-> Complete(j), mtime |-> stats[j]]
      <4>1. j \in DOMAIN stats /\ (fresh' = fresh \/ fresh' = With(fresh, j, fr)) BY <3>3, ReadIs
      <4>2. CASE fresh' = With(fresh, j, fr) /\ j = k
        <5>1. f[k] = fr BY <2>4, <4>2 DEF With
        <5>2. stats[k] <= file[k].mtime BY <4>1, <4>2 DEF SkipOf
        <5>3. QED BY <1>1, <2>2, <4>2, <5>1, <5>2
      <4>3. CASE fresh' = With(fresh, j, fr) /\ j # k
        BY <2>1, <2>4, <4>3 DEF SkipOf, With
      <4>4. QED BY <3>1, <4>1, <4>2, <4>3
    <3>4. CASE fresh' = NoKeys BY <2>4, <3>4 DEF NoKeys
    <3>5. QED
      BY <3>1, <3>2, <3>3, <3>4, WorkSteps
      DEF working, StartCollect, AppendSegment, Stat, SaveState, Unreadable, Emptied
  <2>5. ASSUME NEW st, st = state'[k] PROVE st # None /\ st.mtime # None => Known(st)
    <3>0. state \in [Keys -> {None} \cup [data : Nonempty(Lines), mtime : {None} \cup 0..MaxEdits]]
      BY DEF TypeInv
    <3>1. CASE state'[k] = state[k] BY <2>1, <2>5, <3>1 DEF SkipOf
    <3>2. ASSUME NEW j \in Keys, SaveState(j) PROVE st # None /\ st.mtime # None => Known(st)
      <4>1. j \in DOMAIN fresh /\ state' = [state EXCEPT ![j] = fresh[j]]
        BY <3>2 DEF SaveState, NewState
      <4>2. CASE j = k
        <5>1. st = fresh[k] BY <2>5, <3>0, <4>1, <4>2
        <5>2. QED BY <2>1, <4>1, <4>2, <5>1 DEF SkipOf
      <4>3. CASE j # k BY <3>0, <3>1, <4>1, <4>3
      <4>4. QED BY <4>2, <4>3
    <3>3. ASSUME NEW F \in SUBSET Keys, Rebuild(F)
          PROVE  st # None /\ st.mtime # None => Known(st)
      <4>1. st = None \/ st.mtime = None BY <2>5, <3>3 DEF Rebuild
      <4>2. QED BY <4>1
    <3>4. QED BY <3>1, <3>2, <3>3, StateSteps
  <2>6. QED BY <2>3, <2>4, <2>5 DEF SkipOf, Knows
<1>2. QED BY <1>0, <1>1, FileSteps

(* The collector passes over a file whose modification time it has saved   *)
(* with nothing lost: the lines it saved are all the file's complete       *)
(* lines, though it looked at the time before it read the file, and the    *)
(* file may have been written to in between.                               *)
THEOREM ArchiveSkipSafe == Spec => []SkipSafe
<1>1. Init => SkipInv BY SkipInit
<1>2. BaseInv /\ SkipInv /\ [Next]_vars => SkipInv'
  <2> SUFFICES ASSUME TypeInv, SkipInv, [Next]_vars PROVE SkipInv' BY DEF BaseInv
  <2>1. \A k \in Keys : SkipOf(k) BY DEF SkipInv, SkipOf
  <2>2. \A k \in Keys : SkipOf(k)' BY <2>1, SkipStep
  <2>3. QED BY <2>2 DEF SkipInv, SkipOf
<1>3. BaseInv /\ SkipInv => SkipSafe
  <2> SUFFICES ASSUME BaseInv, SkipInv, NEW k \in Keys, state[k] # None,
                      state[k].mtime = file[k].mtime
               PROVE  state[k].data = Complete(k)
    BY DEF SkipSafe
  <2>1. file[k].mtime \in 0..MaxEdits BY DEF BaseInv, TypeInv
  <2>2. state[k].mtime # None BY <2>1, ArchiveAssumption
  <2>3. QED BY <2>2 DEF SkipInv, SkipOf, Knows
<1>4. QED BY <1>1, <1>2, <1>3, Base, PTL DEF Spec

-----------------------------------------------------------------------------
(* Deleted conversations.                                                  *)

LEMMA TombstonedMore ==
  ASSUME NEW S, NEW T, S \subseteq T, NEW k, Tombstoned(S, k)
  PROVE  Tombstoned(T, k)
BY DEF Tombstoned

LEMMA DeletedInit == Init => DeletedInv
BY DEF Init, DeletedInv, DeletedOf, NoKeys

(* Conversations are deleted while nothing is being collected.             *)
LEMMA DeletedSteps ==
  ASSUME PhaseInv, [Next]_vars
  PROVE  \/ Deleted' = Deleted
         \/ queue' = {} /\ DOMAIN stats' = {} /\ batch' = << >>
<1>1. indexed' = indexed => Deleted' = Deleted BY DEF Deleted
<1>2. CASE \E s \in segs : IndexSegment(s)
  <2>1. pc = "indexing" /\ UNCHANGED <<queue, stats, batch>> BY <1>2 DEF IndexSegment
  <2>2. QED BY <2>1 DEF PhaseInv
<1>3. CASE \E F \in SUBSET Keys : Rebuild(F)
  <2>1. pc = "idle" /\ UNCHANGED <<queue, stats, batch>> BY <1>3 DEF Rebuild, memory
  <2>2. QED BY <2>1 DEF PhaseInv
<1>4. QED BY <1>1, <1>2, <1>3, IndexedSteps

LEMMA DeletedStep ==
  ASSUME TypeInv, PhaseInv, NumberInv, DeletedInv, [Next]_vars
  PROVE  DeletedInv'
<1>1. CASE queue' = {} /\ DOMAIN stats' = {} /\ batch' = << >> BY <1>1 DEF DeletedInv, DeletedOf
<1>2. CASE Deleted' = Deleted
  <2> SUFFICES ASSUME NEW k \in Deleted PROVE DeletedOf(k)' BY <1>2 DEF DeletedInv, DeletedOf
  <2>0. DeletedOf(k) /\ k \in Keys BY DEF DeletedInv, DeletedOf, Deleted
  <2>1. CASE UNCHANGED working BY <2>0, <2>1 DEF working, DeletedOf
  <2>2. CASE StartCollect
    <3>1. queue' = Collectable /\ stats' = stats /\ batch' = batch BY <2>2 DEF StartCollect
    <3>2. k \notin Collectable BY DEF Collectable, Deleted
    <3>3. QED BY <2>0, <3>1, <3>2 DEF DeletedOf
  <2>3. CASE AppendSegment
    <3>1. UNCHANGED <<queue, stats>> BY <2>3 DEF AppendSegment
    <3>2. Waiting(k)' \subseteq Waiting(k) BY <2>3, AppendedIs
    <3>3. Waiting(k) = {} BY <2>0 DEF DeletedOf, Waiting
    <3>4. \A j \in DOMAIN batch' : batch'[j].key # k BY <3>2, <3>3 DEF Waiting
    <3>5. QED BY <2>0, <3>1, <3>4 DEF DeletedOf
  <2>4. ASSUME NEW j \in Keys, Stat(j) PROVE DeletedOf(k)'
    <3>1. j \in queue /\ queue' = queue \ {j} /\ batch' = batch BY <2>4 DEF Stat
    <3>2. DOMAIN stats' \subseteq DOMAIN stats \cup {j} BY <2>4 DEF Stat, With
    <3>3. QED BY <2>0, <3>1, <3>2 DEF DeletedOf
  <2>5. ASSUME NEW j \in Keys, Read(j) PROVE DeletedOf(k)'
    <3>1. j \in DOMAIN stats /\ stats' = Without(stats, j) /\ queue' = queue BY <2>5, ReadIs
    <3>2. j # k BY <2>0, <3>1 DEF DeletedOf
    <3>3. Waiting(k) = {} BY <2>0 DEF DeletedOf, Waiting
    <3>4. Waiting(k)' = {} BY <2>0, <2>5, <3>2, <3>3, WaitingRead
    <3>5. \A i \in DOMAIN batch' : batch'[i].key # k BY <3>4 DEF Waiting
    <3>6. k \notin queue' \cup DOMAIN stats' BY <2>0, <3>1 DEF DeletedOf, Without
    <3>7. QED BY <3>5, <3>6 DEF DeletedOf
  <2>6. ASSUME NEW j \in Keys, SaveState(j) PROVE DeletedOf(k)'
    BY <2>0, <2>6 DEF SaveState, DeletedOf
  <2>7. ASSUME NEW j \in Keys, Unreadable(j) PROVE DeletedOf(k)'
    BY <2>0, <2>7 DEF Unreadable, Without, DeletedOf
  <2>8. CASE Emptied BY <2>8 DEF Emptied, NoKeys, DeletedOf
  <2>9. QED BY <2>1, <2>2, <2>3, <2>4, <2>5, <2>6, <2>7, <2>8, WorkSteps
<1>3. QED BY <1>1, <1>2, DeletedSteps

LEMMA DeletedAlways == Spec => [](BaseInv /\ DeletedInv)
<1>1. Init => DeletedInv BY DeletedInit
<1>2. BaseInv /\ DeletedInv /\ [Next]_vars => DeletedInv' BY DeletedStep DEF BaseInv
<1>3. QED BY <1>1, <1>2, Base, PTL DEF Spec

(* Once a tombstone is indexed and its conversation's row is gone, no step *)
(* brings the row back: neither a projection, however many observations    *)
(* other devices or this one still have of it, nor a rebuild.              *)
THEOREM ArchiveNoResurrection == Spec => NoResurrection
<1>1. BaseInv /\ [Next]_vars => [\A k \in Deleted : row[k] = None => row'[k] = None]_vars
  <2> SUFFICES ASSUME TypeInv, [Next]_vars, NEW k \in Deleted, row[k] = None
               PROVE  row'[k] = None
    BY DEF BaseInv
  <2>1. k \in Keys /\ Tombstoned(indexed, k) BY DEF Deleted
  <2>2. indexed \subseteq segs /\ row \in [Keys -> {None, Half} \cup SUBSET Nonempty(Lines)]
    BY DEF TypeInv
  <2>3. ASSUME NEW j \in Keys, BeginReplace(j) PROVE row'[k] = None
    <3>1. row[j] # None /\ row' = [row EXCEPT ![j] = Half] BY <2>3 DEF BeginReplace
    <3>2. QED BY <2>1, <2>2, <3>1
  <2>4. ASSUME NEW j \in Keys, Project(j) PROVE row'[k] = None
    <3>1. row' = [row EXCEPT ![j] = Projected(indexed, j, row[j])] BY <2>4 DEF Project
    <3>2. Projected(indexed, k, row[k]) = None BY <2>1, ProjectedIs
    <3>3. QED BY <2>1, <2>2, <3>1, <3>2
  <2>5. ASSUME NEW F \in SUBSET Keys, Rebuild(F) PROVE row'[k] = None
    <3>1. row'[k] = IF k \in F THEN None ELSE Projected(segs, k, None) BY <2>1, <2>5 DEF Rebuild
    <3>2. Tombstoned(segs, k) BY <2>1, <2>2, TombstonedMore
    <3>3. QED BY <3>1, <3>2, ProjectedIs
  <2>6. QED BY <2>3, <2>4, <2>5, RowSteps
<1>2. QED BY <1>1, Base, PTL DEF Spec, NoResurrection

(* And this device writes no more of it to its log, though the tombstone   *)
(* may have been imported and indexed at any time.                         *)
THEOREM ArchiveDeletedNotRecorded == Spec => DeletedNotRecorded
<1>1. BaseInv /\ DeletedInv /\ [Next]_vars =>
        [\A k \in Deleted : \A s \in segs' \ segs :
           s.dev = Self => \A i \in DOMAIN s.obs : s.obs[i].key # k]_vars
  <2> SUFFICES ASSUME TypeInv, NumberInv, DeletedInv, [Next]_vars, NEW k \in Deleted,
                      NEW s \in segs' \ segs, s.dev = Self, NEW i \in DOMAIN s.obs
               PROVE  s.obs[i].key # k
    BY DEF BaseInv
  <2>1. ASSUME NEW t \in Foreign, Import(t) PROVE FALSE
    <3>1. s = t BY <2>1 DEF Import
    <3>2. QED BY <3>1, ArchiveAssumption
  <2>2. CASE AppendSegment
    <3> PICK n \in 1..Len(batch) : \E new \in Segments : Appends(n, new) BY <2>2, AppendIs
    <3> PICK new \in Segments : Appends(n, new) OBVIOUS
    <3>1. s = new /\ new.obs \in Seq(Entries) /\ Len(new.obs) = n
          /\ \A j \in 1..n : new.obs[j] = batch[j]
      BY DEF Appends
    <3>2. batch \in Seq(Entries) BY DEF TypeInv
    <3>3. i \in 1..n /\ i \in DOMAIN batch BY <3>1, <3>2
    <3>4. QED BY <3>1, <3>3 DEF DeletedInv, DeletedOf
  <2>3. QED BY <2>1, <2>2, SegsSteps
<1>2. QED BY <1>1, DeletedAlways, PTL DEF Spec, DeletedNotRecorded

-----------------------------------------------------------------------------
(* What the database shows.                                                *)

(* A segment with nothing of a conversation makes no difference to it.     *)
LEMMA ProjectedGained ==
  ASSUME NEW S, NEW s, NEW k, k \notin Gained(s), NEW there
  PROVE  /\ Projected(S \cup {s}, k, there) = Projected(S, k, there)
         /\ Tombstoned(S \cup {s}, k) <=> Tombstoned(S, k)
<1>1. \A i \in DOMAIN s.obs : s.obs[i].key # k BY DEF Gained
<1>2. \A o : o \in ObsFor(S \cup {s}, k) <=> o \in ObsFor(S, k) BY <1>1, ObsForIs
<1>3. ObsFor(S \cup {s}, k) = ObsFor(S, k) BY <1>2
<1>4. Tombstoned(S \cup {s}, k) <=> Tombstoned(S, k) BY <1>1 DEF Tombstoned
<1>5. Live(S \cup {s}, k) = Live(S, k) BY <1>3 DEF Live
<1>6. VersionsOf(S \cup {s}, k) = VersionsOf(S, k) BY <1>5 DEF VersionsOf
<1>7. QED BY <1>4, <1>6 DEF Projected

NotMissed(k) ==
  LET shown == Projected(indexed, k, None)
  IN  k \in Settled /\ (shown # None \/ k \in Deleted) => row[k] = shown

LEMMA VersionsNone ==
  ASSUME NEW k
  PROVE  VersionsOf({}, k) = {}
<1>1. Live({}, k) = {} BY DEF Live, ObsFor
<1>2. VersionsOf({}, k) = Contents({}) BY <1>1 DEF VersionsOf
<1>3. Given(Lines, {}) BY FS_EmptySet DEF Given, Numbered
<1> DEFINE H == << >>
           F == {}
<1>4. H \in Seq(Lines) /\ Len(H) = 0 /\ Given(Lines, F) /\ (\A f \in F : Holds(H, f)) BY <1>3
<1> HIDE DEF H, F
<1>5. Contents(F) = {} \/ Beginning(H, Contents(F)) BY <1>4, OneVersion
<1>6. QED BY <1>2, <1>4, <1>5 DEF F, Beginning

LEMMA MissedInit == Init => \A k \in Keys : NotMissed(k)
<1> SUFFICES ASSUME Init, NEW k \in Keys PROVE NotMissed(k) OBVIOUS
<1>1. indexed = {} /\ row[k] = None BY DEF Init
<1>2. Projected(indexed, k, None) = None
  BY <1>1, VersionsNone DEF Projected, HasMessages
<1>3. QED BY <1>1, <1>2 DEF NotMissed

LEMMA MissedStep ==
  ASSUME TypeInv, PhaseInv, [Next]_vars, NEW k \in Keys, NotMissed(k)
  PROVE  NotMissed(k)'
<1>0. row \in [Keys -> {None, Half} \cup SUBSET Nonempty(Lines)] BY DEF TypeInv
<1>a. appendOnly' = appendOnly BY KindSteps
<1>b. indexed' = indexed =>
        /\ Projected(indexed, k, None)' = Projected(indexed, k, None)
        /\ k \in Deleted' <=> k \in Deleted
  BY <1>a DEF Projected, VersionsOf, Live, Deleted
<1>1. CASE indexed' = indexed /\ row'[k] = row[k] /\ (k \in Settled' => k \in Settled)
  BY <1>1, <1>b DEF NotMissed
<1>2. CASE UNCHANGED vars BY <1>1, <1>2 DEF vars, Settled
<1>3. CASE Edit
  BY <1>1, <1>3 DEF Edit, Write, WriteTorn, Rewrite, Change, memory, history, database, Settled
<1>4. CASE \E s \in Foreign : Import(s)
  BY <1>1, <1>4 DEF Import, memory, history, database, Settled
<1>5. CASE StartCatchUp \/ EndIndexing
  BY <1>1, <1>5 DEF StartCatchUp, EndIndexing, history, database, Settled
<1>6. CASE EndCatchUp \/ EndAppend \/ EndCollect
  BY <1>1, <1>6 DEF EndCatchUp, EndAppend, EndCollect, memory, history, database, Settled
<1>7. ASSUME NEW s \in segs, IndexSegment(s) PROVE NotMissed(k)'
  <2>1. /\ indexed' = indexed \cup {s} /\ affected' = affected \cup Gained(s) /\ row' = row
        /\ lost' = lost /\ failed' = failed
    BY <1>7 DEF IndexSegment, history
  <2>2. CASE k \in Gained(s) BY <2>1, <2>2 DEF NotMissed, Settled
  <2>3. CASE k \notin Gained(s)
    <3>1. /\ Projected(indexed, k, None)' = Projected(indexed \cup {s}, k, None)
          /\ k \in Deleted' <=> Tombstoned(indexed \cup {s}, k)
      BY <1>a, <2>1 DEF Projected, VersionsOf, Live, Deleted
    <3>2. /\ Projected(indexed, k, None)' = Projected(indexed, k, None)
          /\ k \in Deleted' <=> k \in Deleted
      BY <2>3, <3>1, ProjectedGained DEF Deleted
    <3>3. k \in Settled' => k \in Settled BY <2>1 DEF Settled
    <3>4. QED BY <2>1, <3>2, <3>3 DEF NotMissed
  <2>4. QED BY <2>2, <2>3
<1>8. ASSUME NEW j \in Keys, BeginReplace(j) PROVE NotMissed(k)'
  <2>1. /\ indexed' = indexed /\ row' = [row EXCEPT ![j] = Half] /\ j \in affected
        /\ UNCHANGED <<affected, lost, failed>>
    BY <1>8 DEF BeginReplace, memory, history
  <2>2. CASE j = k BY <2>1, <2>2 DEF NotMissed, Settled
  <2>3. CASE j # k BY <1>0, <1>1, <2>1, <2>3 DEF Settled
  <2>4. QED BY <2>2, <2>3
<1>9. ASSUME NEW j \in Keys, Project(j) PROVE NotMissed(k)'
  <2>1. /\ indexed' = indexed /\ row' = [row EXCEPT ![j] = Projected(indexed, j, row[j])]
        /\ affected' = affected \ {j} /\ lost' = lost \ {j} /\ failed' = failed \ {j}
    BY <1>9 DEF Project
  <2>2. CASE j = k
    <3>1. row'[k] = Projected(indexed, k, row[k]) BY <1>0, <2>1, <2>2
    <3>2. Projected(indexed, k, None) # None \/ k \in Deleted =>
            Projected(indexed, k, row[k]) = Projected(indexed, k, None)
      BY ProjectedIs DEF Deleted
    <3>3. QED BY <1>b, <2>1, <3>1, <3>2 DEF NotMissed
  <2>3. CASE j # k BY <1>0, <1>1, <2>1, <2>3 DEF Settled
  <2>4. QED BY <2>2, <2>3
<1>10. CASE \E j \in Keys : ProjectFails(j)
  BY <1>1, <1>10 DEF ProjectFails, database, Settled
<1>11. CASE StartCollect \/ AppendSegment
  BY <1>1, <1>11 DEF StartCollect, AppendSegment, history, database, Settled
<1>12. CASE \E j \in Keys : Stat(j) \/ Read(j) \/ Unreadable(j)
  BY <1>1, <1>12 DEF Stat, Read, Unreadable, history, database, Settled
<1>13. CASE \E j \in Keys : SaveState(j) BY <1>1, <1>13 DEF SaveState, history, Settled
<1>14. CASE Close
  <2>1. affected = {} BY <1>14 DEF Close, PhaseInv
  <2>2. QED BY <1>1, <1>14, <2>1 DEF Close, history, database, Settled
<1>15. CASE Crash BY <1>1, <1>15 DEF Crash, Forget, database, Settled
<1>16. ASSUME NEW F \in SUBSET Keys, Rebuild(F) PROVE NotMissed(k)'
  <2>1. /\ indexed' = segs /\ failed' = F
        /\ row'[k] = IF k \in F THEN None ELSE Projected(segs, k, None)
    BY <1>16 DEF Rebuild
  <2>2. Projected(indexed, k, None)' = Projected(segs, k, None)
    BY <1>a, <2>1 DEF Projected, VersionsOf, Live
  <2>3. QED BY <2>1, <2>2 DEF NotMissed, Settled
<1>17. QED
  BY <1>2, <1>3, <1>4, <1>5, <1>6, <1>7, <1>8, <1>9, <1>10, <1>11, <1>12, <1>13, <1>14,
     <1>15, <1>16
  DEF Next, CatchUp, Collect

LEMMA MissedAlways == Spec => [](BaseInv /\ \A k \in Keys : NotMissed(k))
<1>1. BaseInv /\ (\A k \in Keys : NotMissed(k)) /\ [Next]_vars => (\A k \in Keys : NotMissed(k))'
  BY MissedStep DEF BaseInv
<1>2. QED BY <1>1, MissedInit, Base, PTL DEF Spec

(* After catch-up the database shows of every conversation that has        *)
(* anything to show, or was deleted, exactly what its indexed observations *)
(* make of it; but for those a crash took from catch-up once they were     *)
(* indexed, and those whose last projection failed.                        *)
THEOREM ArchiveCurrentUnlessMissed == Spec => []CurrentUnlessMissed
<1>1. (\A k \in Keys : NotMissed(k)) => CurrentUnlessMissed
  BY DEF CurrentUnlessMissed, NotMissed, Settled
<1>2. QED BY <1>1, MissedAlways, PTL

-----------------------------------------------------------------------------
(* Files that only grow.                                                   *)

(* Continuing is transitive, and what a content holds its continuations do. *)
LEMMA ContinuesOn ==
  ASSUME NEW c \in Seq(Lines), NEW d \in Seq(Lines), Continues(d, c)
  PROVE  /\ \A f : f.off \in Nat /\ f.data \in Seq(Lines) /\ Holds(c, f) => Holds(d, f)
         /\ \A b \in Seq(Lines) : Continues(c, b) => Continues(d, b)
<1>1. Len(c) \in Nat /\ Len(d) \in Nat /\ Len(c) <= Len(d) /\ \A i \in 1..Len(c) : d[i] = c[i]
  BY DEF Continues
<1>2. ASSUME NEW f, f.off \in Nat, f.data \in Seq(Lines), Holds(c, f) PROVE Holds(d, f)
  <2>1. /\ Len(f.data) \in Nat /\ End(f) = f.off + Len(f.data) /\ End(f) <= Len(c)
        /\ \A i \in 1..Len(f.data) : c[f.off + i] = f.data[i]
    BY <1>2 DEF Holds, End
  <2>2. ASSUME NEW i \in 1..Len(f.data) PROVE d[f.off + i] = f.data[i]
    <3>1. f.off + i \in 1..Len(c) BY <1>1, <1>2, <2>1
    <3>2. QED BY <1>1, <2>1, <3>1
  <2>3. End(f) <= Len(d) BY <1>1, <1>2, <2>1
  <2>4. QED BY <2>2, <2>3 DEF Holds
<1>3. ASSUME NEW b \in Seq(Lines), Continues(c, b) PROVE Continues(d, b)
  <2>1. Len(b) \in Nat /\ Len(b) <= Len(c) /\ \A i \in 1..Len(b) : c[i] = b[i]
    BY <1>3 DEF Continues
  <2>2. Len(b) <= Len(d) BY <1>1, <2>1
  <2>3. \A i \in 1..Len(b) : i \in 1..Len(c) BY <1>1, <2>1
  <2>4. QED BY <1>1, <2>1, <2>2, <2>3 DEF Continues
<1>4. QED BY <1>2, <1>3

LEMMA BeginningOn ==
  ASSUME NEW c \in Seq(Lines), NEW d \in Seq(Lines \cup {Torn}), Continues(d, c),
         NEW V, Beginning(c, V)
  PROVE  Beginning(d, V)
<1>1. Len(c) \in Nat /\ Len(d) \in Nat /\ Len(c) <= Len(d) /\ \A i \in 1..Len(c) : d[i] = c[i]
  BY DEF Continues
<1>2. PICK n \in 1..Len(c) : V = {SubSeq(c, 1, n)} BY DEF Beginning
<1>3. n \in 1..Len(d) /\ n \in Nat BY <1>1
<1> DEFINE s == SubSeq(c, 1, n)
           t == SubSeq(d, 1, n)
<1>4. s = t
  <2>1. \A i \in 1..n : c[i] \in Lines /\ d[i] \in Lines \cup {Torn} /\ d[i] = c[i]
    BY <1>1, <1>3
  <2>2. /\ s \in Seq(Lines) /\ Len(s) = IF 1 <= n THEN n - 1 + 1 ELSE 0
        /\ \A i \in 1..n - 1 + 1 : s[i] = c[1 + i - 1]
    BY <1>3, <2>1, SubSeqProperties
  <2>3. /\ t \in Seq(Lines \cup {Torn}) /\ Len(t) = IF 1 <= n THEN n - 1 + 1 ELSE 0
        /\ \A i \in 1..n - 1 + 1 : t[i] = d[1 + i - 1]
    BY <1>3, <2>1, SubSeqProperties
  <2> HIDE DEF s, t
  <2>4. s \in Seq(Lines \cup {Torn}) BY <2>2, SeqMonotonic
  <2>5. Len(s) = Len(t) /\ \A i \in 1..Len(s) : s[i] = t[i] BY <1>3, <2>1, <2>2, <2>3
  <2>6. QED BY <2>3, <2>4, <2>5, SeqEqual
<1>5. QED BY <1>2, <1>3, <1>4 DEF Beginning

(* Nobody else has it.                                                     *)
LEMMA OwnOnly ==
  ASSUME TypeInv, NumberInv, NEW k \in Own
  PROVE  ObsFor(segs, k) = OwnIn(segs, k) /\ ObsFor(indexed, k) \subseteq OwnIn(segs, k)
<1>1. ASSUME NEW o \in ObsFor(segs, k) PROVE o.dev = Self
  <2> PICK s \in segs : \E i \in DOMAIN s.obs : s.obs[i].key = k /\ o = ObsAt(s, i) BY ObsForIs
  <2>1. PICK i \in DOMAIN s.obs : s.obs[i].key = k /\ o = ObsAt(s, i) OBVIOUS
  <2>2. s \notin Foreign BY <2>1 DEF Own
  <2>3. s.dev = Self BY <2>2 DEF NumberInv
  <2>4. QED BY <2>1, <2>3 DEF ObsAt
<1>2. indexed \subseteq segs BY DEF TypeInv
<1>3. ObsFor(indexed, k) \subseteq ObsFor(segs, k) BY <1>2, ObsForMonotone
<1>4. QED BY <1>1, <1>3 DEF OwnIn

(* What is projected of it.                                                *)
LEMMA ProjectedGrows ==
  ASSUME TypeInv, NumberInv, NEW k \in Own, \A o \in OwnIn(segs, k) : Holds(Hist(k), o),
         NEW S, S = segs \/ S = indexed, NEW there
  PROVE  \/ Projected(S, k, there) \in {None, there}
         \/ Beginning(Hist(k), Projected(S, k, there))
<1> SUFFICES ASSUME ~Tombstoned(S, k), HasMessages(VersionsOf(S, k))
             PROVE  Beginning(Hist(k), VersionsOf(S, k))
  BY DEF Projected
<1>1. /\ segs \in SUBSET Segments /\ IsFiniteSet(segs) /\ Disjoint(segs)
      /\ indexed \subseteq segs
  BY DEF TypeInv, NumberInv
<1>2. S \in SUBSET Segments /\ IsFiniteSet(S) /\ Disjoint(S)
  BY <1>1, FS_Subset DEF Disjoint
<1>3. VersionsOf(S, k) = Contents(Frags(S, k)) /\ Given(Lines, Frags(S, k))
  BY <1>2, VersionsGiven
<1>4. k \in Keys /\ Hist(k) \in Seq(Lines) BY DEF Own, TypeInv
<1>5. \A o \in Live(S, k) : Holds(Hist(k), o) BY OwnOnly, LiveIn
<1>6. \A f \in Frags(S, k) : Holds(Hist(k), f) BY <1>5 DEF Frags, FragmentAt, Holds, End
<1>7. VersionsOf(S, k) # {} BY DEF HasMessages
<1>8. QED BY <1>3, <1>4, <1>6, <1>7, OneVersion

(* What is recomputed of it.                                               *)
LEMMA RecomputedGrows ==
  ASSUME TypeInv, NumberInv, NEW k \in Keys, OwnLog(k), \A o \in OwnIn(segs, k) : Holds(Hist(k), o)
  PROVE  LET r == Replay(OwnObs(segs, k))
         IN  r = None \/ r \in {v \in Nonempty(Lines) : Continues(Hist(k), v)}
<1> DEFINE H == Hist(k)
           V == {v \in Nonempty(Lines) : Continues(H, v)}
           own == OwnIn(segs, k)
<1>0. H \in Seq(Lines) /\ Len(H) \in Nat BY DEF TypeInv
<1>1. Logged(segs, k) BY LoggedIs
<1>2. \A o \in own :
        /\ o.kind \in {"append", "snapshot"} /\ o.off \in Nat /\ o.data \in Nonempty(Lines)
        /\ o.data \in Seq(Lines) /\ Len(o.data) \in Nat \ {0} /\ End(o) = o.off + Len(o.data)
  BY OwnTyped DEF Nonempty
<1>3. \A o \in own : o.off = 0 \/ (o.kind = "append" /\ \E p \in own : p.seq < o.seq)
  BY DEF OwnLog, Linked
<1>4. \A o \in own : End(o) <= Len(H) /\ \A i \in 1..Len(o.data) : H[o.off + i] = o.data[i]
  BY DEF Holds
<1> HIDE DEF H, own
<1>5. ASSUME NEW o \in own, o.off = 0 \/ o.kind = "snapshot" PROVE o.data \in V
  <2>1. o.off = 0 BY <1>3, <1>5
  <2>2. Len(o.data) <= Len(H) BY <1>2, <1>4, <2>1
  <2>3. \A i \in 1..Len(o.data) : 0 + i = i /\ H[0 + i] = o.data[i] BY <1>4, <2>1
  <2>4. Continues(H, o.data) BY <2>2, <2>3 DEF Continues
  <2>5. QED BY <1>2, <2>4
<1>6. ASSUME NEW v \in V, NEW o \in own, o.off <= Len(v)
      PROVE  SubSeq(v, 1, o.off) \o o.data \in V
  <2> DEFINE w == SubSeq(v, 1, o.off) \o o.data
  <2>1. v \in Seq(Lines) /\ Len(v) \in Nat /\ \A i \in 1..Len(v) : H[i] = v[i]
    BY DEF Nonempty, Continues
  <2>2. o.off \in 0..Len(v) BY <1>2, <1>6, <2>1
  <2>3. /\ w \in Seq(Lines) /\ Len(w) = o.off + Len(o.data)
        /\ \A i \in 1..Len(w) : w[i] = IF i <= o.off THEN v[i] ELSE o.data[i - o.off]
    BY <1>2, <2>1, <2>2, SpliceIs
  <2> HIDE DEF w, V
  <2>4. ASSUME NEW i \in 1..Len(w) PROVE H[i] = w[i]
    <3>0. o.off \in Nat /\ Len(o.data) \in Nat /\ i \in 1..(o.off + Len(o.data))
      BY <1>2, <2>3
    <3>1. CASE i <= o.off
      <4>1. i \in 1..Len(v) BY <2>1, <2>2, <3>0, <3>1
      <4>2. QED BY <2>1, <2>3, <3>1, <4>1
    <3>2. CASE ~(i <= o.off)
      <4>1. i - o.off \in 1..Len(o.data) /\ o.off + (i - o.off) = i BY <3>0, <3>2
      <4>2. H[o.off + (i - o.off)] = o.data[i - o.off] BY <1>4, <4>1
      <4>3. QED BY <2>3, <3>2, <4>1, <4>2
    <3>3. QED BY <3>1, <3>2
  <2>5. Len(w) <= Len(H) /\ Continues(H, w)
    <3>1. Len(w) <= Len(H) BY <1>2, <1>4, <2>3
    <3>2. QED BY <2>4, <3>1 DEF Continues
  <2>6. w # << >>
    <3>1. Len(w) \in Nat \ {0} BY <1>2, <2>3
    <3>2. QED BY <3>1
  <2>7. w \in V BY <2>3, <2>5, <2>6 DEF V, Nonempty
  <2>8. QED BY <2>7 DEF w
<1>7. V \in SUBSET Nonempty(Lines) OBVIOUS
<1> HIDE DEF V
<1>8. \/ Replay(OwnObs(segs, k)) = None
      \/ Replay(OwnObs(segs, k)) \in V
  BY <1>1, <1>3, <1>5, <1>6, <1>7, ReplayOwn DEF own
<1>9. QED BY <1>8 DEF V, H

LEMMA GrowInit == Init => GrowInv
<1> SUFFICES ASSUME Init PROVE GrowInv OBVIOUS
<1>1. /\ segs = {} /\ state = [k \in Keys |-> None] /\ row = [k \in Keys |-> None]
      /\ fresh = NoKeys /\ batch = << >>
  BY DEF Init
<1>2. \A k : OwnIn(segs, k) = {} /\ Waiting(k) = {} BY <1>1, WaitingNone DEF OwnIn, ObsFor
<1>3. \A k \in Keys : GrowOf(k) BY <1>1, <1>2 DEF GrowOf, NoKeys
<1>4. QED BY <1>3 DEF GrowInv, Own

(* A file that is not rewritten keeps its lines.                           *)
LEMMA GrowEdit ==
  ASSUME TypeInv, NumberInv, Edit, NEW k \in Own \ Rewritable, GrowOf(k)
  PROVE  GrowOf(k)'
<1>0. k \in Keys /\ Hist(k) \in Seq(Lines) BY DEF Own, TypeInv
<1> PICK j \in Keys : \E d :
      /\ Becomes(j, d)
      /\ file' = [file EXCEPT ![j] = [data |-> d, mtime |-> Now + 1]]
      /\ UNCHANGED others
  BY EditIs
<1>1. PICK d :
      /\ Becomes(j, d)
      /\ file' = [file EXCEPT ![j] = [data |-> d, mtime |-> Now + 1]]
      /\ UNCHANGED others
  OBVIOUS
<1>2. UNCHANGED <<segs, batch, fresh, state, row>> BY <1>1 DEF others, memory, database
<1>3. Hist(k)' \in Seq(Lines) /\ Continues(Hist(k)', Hist(k))
  <2>1. CASE j = k
    <3>1. file'[k].data = d BY <1>0, <1>1, <2>1 DEF TypeInv
    <3>2. Hist(k)' = CompleteLines(d) BY <3>1 DEF Hist
    <3>3. QED BY <1>1, <2>1, <3>2 DEF Becomes
  <2>2. CASE j # k
    <3>1. file'[k] = file[k] BY <1>0, <1>1, <2>2 DEF TypeInv
    <3>2. Hist(k)' = Hist(k) BY <3>1 DEF Hist
    <3>3. Continues(Hist(k), Hist(k)) BY <1>0 DEF Continues
    <3>4. QED BY <1>0, <3>2, <3>3
  <2>3. QED BY <2>1, <2>2
<1> DEFINE H == Hist(k)
           G == Hist(k)'
<1>4. H \in Seq(Lines) /\ G \in Seq(Lines) /\ Continues(G, H) /\ G \in Seq(Lines \cup {Torn})
  BY <1>0, <1>3, SeqMonotonic
<1>5. \A o \in OwnIn(segs, k) \cup Waiting(k) : o.off \in Nat /\ o.data \in Seq(Lines)
  BY OwnTyped, WaitingTyped DEF Nonempty
<1>6. /\ \A o \in OwnIn(segs, k) \cup Waiting(k) : Holds(H, o)
      /\ state[k] # None => Continues(H, state[k].data)
      /\ k \in DOMAIN fresh => Continues(H, fresh[k].data)
      /\ row[k] \notin {None, Half} => Beginning(H, row[k])
  BY DEF GrowOf
<1>7. /\ state[k] # None => state[k].data \in Seq(Lines)
      /\ k \in DOMAIN fresh => fresh[k].data \in Seq(Lines)
  BY <1>0 DEF TypeInv, Nonempty
<1>8. OwnIn(segs', k) = OwnIn(segs, k) /\ Waiting(k)' = Waiting(k) BY <1>2, WaitingSame
<1> HIDE DEF H, G
<1>9. /\ \A o \in OwnIn(segs, k) \cup Waiting(k) : Holds(G, o)
      /\ state[k] # None => Continues(G, state[k].data)
      /\ k \in DOMAIN fresh => Continues(G, fresh[k].data)
  BY <1>4, <1>5, <1>6, <1>7, ContinuesOn
<1>10. row[k] \notin {None, Half} => Beginning(G, row[k]) BY <1>4, <1>6, BeginningOn
<1>11. QED BY <1>2, <1>8, <1>9, <1>10 DEF GrowOf, G

LEMMA GrowStep ==
  ASSUME TypeInv, PhaseInv, NumberInv, [Next]_vars, NEW k \in Own \ Rewritable,
         OwnLog(k), GrowOf(k)
  PROVE  GrowOf(k)'
<1> DEFINE H == Hist(k)
<1>0. k \in Keys /\ H \in Seq(Lines) BY DEF Own, TypeInv
<1>1. CASE Edit BY <1>1, GrowEdit
<1>2. CASE file' = file
  <2>1. Hist(k)' = H BY <1>2 DEF Hist
  <2>2. \A o \in OwnIn(segs, k) \cup Waiting(k) : Holds(H, o) BY DEF GrowOf
  <2>3. Complete(k) = H BY <1>0, CompleteIs
  <2>4. \A o \in OwnIn(segs', k) : Holds(H, o)
    <3>1. CASE OwnIn(segs', k) = OwnIn(segs, k) BY <2>2, <3>1
    <3>2. CASE AppendSegment
      <4> SUFFICES ASSUME NEW o \in OwnIn(segs', k) PROVE Holds(H, o) OBVIOUS
      <4>1. o \in OwnIn(segs, k) \/ \E w \in Waiting(k) : Same(o, w) BY <3>2, AppendedIs
      <4>2. QED BY <2>2, <4>1 DEF Same, Holds, End
    <3>3. QED BY <3>1, <3>2, OwnSteps
  <2>5. \A o \in Waiting(k)' : Holds(H, o)
    <3>1. CASE Waiting(k)' \subseteq Waiting(k) BY <2>2, <3>1
    <3>2. CASE batch' = batch BY <3>1, <3>2, WaitingSame
    <3>3. CASE AppendSegment BY <3>1, <3>3, AppendedIs
    <3>4. ASSUME NEW j \in Keys, Read(j) PROVE \A o \in Waiting(k)' : Holds(H, o)
      <4>1. Waiting(k)' = IF k = j /\ New(j) # None THEN Waiting(k) \cup {Entry(j)} ELSE Waiting(k)
        BY <1>0, <3>4, WaitingRead
      <4>2. ASSUME k = j, New(j) # None PROVE Holds(H, Entry(k))
        <5>1. PICK off : Observes(New(k), off, H) BY <1>0, <2>3, <4>2, NewIs DEF Made
        <5>2. Entry(k).off = New(k).off /\ Entry(k).data = New(k).data BY <1>0, <4>2, EntryIs
        <5>3. /\ New(k).off = off /\ off + Len(New(k).data) = Len(H)
              /\ \A i \in 1..Len(New(k).data) : H[off + i] = New(k).data[i]
          BY <5>1 DEF Observes
        <5>4. Len(H) \in Nat BY <1>0
        <5> HIDE DEF H
        <5>5. QED BY <5>2, <5>3, <5>4 DEF Holds, End
      <4>3. QED BY <2>2, <4>1, <4>2
    <3>5. CASE Emptied BY <3>5 DEF Emptied, Waiting
    <3>6. QED
      BY <3>2, <3>3, <3>4, <3>5, WorkSteps
      DEF working, StartCollect, Stat, SaveState, Unreadable
  <2>6. state'[k] # None => Continues(H, state'[k].data)
    <3>0. state \in [Keys -> {None} \cup [data : Nonempty(Lines), mtime : {None} \cup 0..MaxEdits]]
      BY DEF TypeInv
    <3>1. CASE state'[k] = state[k] BY <3>1 DEF GrowOf
    <3>2. ASSUME NEW j \in Keys, SaveState(j) PROVE state'[k] # None => Continues(H, state'[k].data)
      <4>1. j \in DOMAIN fresh /\ state' = [state EXCEPT ![j] = fresh[j]]
        BY <3>2 DEF SaveState, NewState
      <4>2. CASE j = k BY <1>0, <3>0, <4>1, <4>2 DEF GrowOf
      <4>3. CASE j # k BY <1>0, <3>0, <3>1, <4>1, <4>3
      <4>4. QED BY <4>2, <4>3
    <3>3. ASSUME NEW F \in SUBSET Keys, Rebuild(F)
          PROVE  state'[k] # None => Continues(H, state'[k].data)
      <4> DEFINE r == Replay(OwnObs(segs, k))
      <4>1. state'[k] = IF r = None THEN None ELSE [data |-> r, mtime |-> None]
        BY <1>0, <3>3 DEF Rebuild
      <4>2. r = None \/ r \in {v \in Nonempty(Lines) : Continues(H, v)}
        BY <1>0, <2>2, RecomputedGrows
      <4> HIDE DEF r
      <4>3. QED BY <4>1, <4>2
    <3>4. QED BY <3>1, <3>2, <3>3, StateSteps
  <2>7. ASSUME NEW f, f = fresh', k \in DOMAIN f PROVE Continues(H, f[k].data)
    <3>1. CASE fresh' = fresh BY <2>7, <3>1 DEF GrowOf
    <3>2. CASE \E j \in Keys : fresh' = Without(fresh, j) BY <2>7, <3>2 DEF GrowOf, Without
    <3>3. ASSUME NEW j \in Keys, Read(j) PROVE Continues(H, f[k].data)
      <4> DEFINE fr == [data |-> Complete(j), mtime |-> stats[j]]
      <4>1. fresh' = fresh \/ fresh' = With(fresh, j, fr) BY <3>3, ReadIs
      <4>2. CASE fresh' = With(fresh, j, fr) /\ j = k
        <5>1. f[k].data = H BY <2>3, <2>7, <4>2 DEF With
        <5>2. Continues(H, H) BY <1>0 DEF Continues
        <5>3. QED BY <5>1, <5>2
      <4>3. CASE fresh' = With(fresh, j, fr) /\ j # k BY <2>7, <4>3 DEF GrowOf, With
      <4>4. QED BY <3>1, <4>1, <4>2, <4>3
    <3>4. CASE fresh' = NoKeys BY <2>7, <3>4 DEF NoKeys
    <3>5. QED
      BY <3>1, <3>2, <3>3, <3>4, WorkSteps
      DEF working, StartCollect, AppendSegment, Stat, SaveState, Unreadable, Emptied
  <2>8. row'[k] \notin {None, Half} => Beginning(H, row'[k])
    <3>0. row \in [Keys -> {None, Half} \cup SUBSET Nonempty(Lines)] BY DEF TypeInv
    <3>1. CASE row'[k] = row[k] BY <3>1 DEF GrowOf
    <3>2. ASSUME NEW j \in Keys, BeginReplace(j)
          PROVE  row'[k] \notin {None, Half} => Beginning(H, row'[k])
      <4>1. row' = [row EXCEPT ![j] = Half] BY <3>2 DEF BeginReplace
      <4>2. row'[k] = Half \/ row'[k] = row[k] BY <1>0, <3>0, <4>1
      <4>3. QED BY <3>1, <4>2
    <3>3. ASSUME NEW j \in Keys, Project(j)
          PROVE  row'[k] \notin {None, Half} => Beginning(H, row'[k])
      <4>1. row' = [row EXCEPT ![j] = Projected(indexed, j, row[j])] BY <3>3 DEF Project
      <4>2. CASE j = k
        <5>1. row'[k] = Projected(indexed, k, row[k]) BY <1>0, <3>0, <4>1, <4>2
        <5>2. row'[k] = None \/ row'[k] = row[k] \/ Beginning(H, row'[k])
          BY <2>2, <5>1, ProjectedGrows
        <5>3. QED BY <3>1, <5>2
      <4>3. CASE j # k BY <1>0, <3>0, <3>1, <4>1, <4>3
      <4>4. QED BY <4>2, <4>3
    <3>4. ASSUME NEW F \in SUBSET Keys, Rebuild(F)
          PROVE  row'[k] \notin {None, Half} => Beginning(H, row'[k])
      <4>1. row'[k] = None \/ row'[k] = Projected(segs, k, None) BY <1>0, <3>4 DEF Rebuild
      <4>2. Projected(segs, k, None) = None \/ Beginning(H, Projected(segs, k, None))
        BY <2>2, ProjectedGrows
      <4>3. QED BY <4>1, <4>2
    <3>5. QED BY <3>1, <3>2, <3>3, <3>4, RowSteps
  <2>9. QED BY <2>1, <2>4, <2>5, <2>6, <2>7, <2>8 DEF GrowOf
<1>3. QED BY <1>1, <1>2, FileSteps

(* A conversation only this device has, in a file that is only appended    *)
(* to, is shown as one version, a beginning of the file: whatever was half *)
(* written when it was read, however often a crash had the same lines      *)
(* logged again, no divergence is invented.                                *)
THEOREM ArchiveNoFalseDivergence == Spec => []NoFalseDivergence
<1>1. BaseInv /\ GrowInv /\ [Next]_vars => GrowInv'
  <2> SUFFICES ASSUME TypeInv, PhaseInv, NumberInv, LogInv, GrowInv, [Next]_vars PROVE GrowInv'
    BY DEF BaseInv
  <2>1. ASSUME NEW k \in Own \ Rewritable PROVE GrowOf(k)'
    <3>1. OwnLog(k) /\ GrowOf(k) BY DEF LogInv, GrowInv, Own
    <3>2. QED BY <3>1, GrowStep
  <2>2. QED BY <2>1 DEF GrowInv
<1>2. BaseInv /\ GrowInv => NoFalseDivergence
  <2> SUFFICES ASSUME TypeInv, GrowInv, NEW k \in Own \ Rewritable, row[k] \notin {None, Half}
               PROVE  Beginning(file[k].data, row[k])
    BY DEF BaseInv, NoFalseDivergence, Beginning
  <2> DEFINE d == file[k].data
             c == Hist(k)
  <2>1. k \in Keys /\ d \in Seq(Lines \cup {Torn}) /\ c \in Seq(Lines) BY DEF Own, TypeInv
  <2>2. Beginning(c, row[k]) BY DEF GrowInv, GrowOf
  <2>3. Continues(d, c)
    <3>1. CASE c = d BY <2>1, <3>1 DEF Continues
    <3>2. CASE c # d
      <4>1. d # << >> /\ c = SubSeq(d, 1, Len(d) - 1) BY <3>2 DEF Hist, CompleteLines, Front
      <4>2. Len(d) \in Nat \ {0} /\ Len(d) - 1 \in Nat BY <2>1, <4>1
      <4> DEFINE n == Len(d) - 1
                 t == SubSeq(d, 1, n)
      <4>3. \A i \in 1..n : d[i] \in Lines \cup {Torn} BY <2>1, <4>2
      <4>4. n \in Nat BY <4>2
      <4>5. n <= Len(d) BY <4>2
      <4>6. c = t BY <4>1
      <4> HIDE DEF n, d
      <4>7. Len(t) = (IF 1 <= n THEN n - 1 + 1 ELSE 0) /\ \A i \in 1..n - 1 + 1 : t[i] = d[1 + i - 1]
        BY <4>3, <4>4, SubSeqProperties
      <4> HIDE DEF t, c
      <4>8. Len(c) = n /\ \A i \in 1..Len(c) : d[i] = c[i] BY <4>4, <4>6, <4>7
      <4>9. QED BY <4>5, <4>8 DEF Continues
    <3>3. QED BY <3>1, <3>2
  <2> HIDE DEF c, d
  <2>4. Beginning(d, row[k]) BY <2>1, <2>2, <2>3, BeginningOn
  <2>5. QED BY <2>4 DEF d
<1>3. QED BY <1>1, <1>2, GrowInit, Base, PTL DEF Spec

-----------------------------------------------------------------------------
(* Snapshots.                                                              *)

LEMMA SnapshotStep ==
  ASSUME TypeInv, NumberInv, [Next]_vars, ~appendOnly, NEW k \in Keys, SnapshotOf(k)
  PROVE  SnapshotOf(k)'
<1> DEFINE Snap(o) == o.kind = "snapshot" /\ o.off = 0
<1>0. \A o \in OwnIn(segs, k) \cup Waiting(k) : Snap(o) BY DEF SnapshotOf
<1>1. \A o \in OwnIn(segs', k) : Snap(o)
  <2>1. CASE OwnIn(segs', k) = OwnIn(segs, k) BY <1>0, <2>1
  <2>2. CASE AppendSegment
    <3> SUFFICES ASSUME NEW o \in OwnIn(segs', k) PROVE Snap(o) OBVIOUS
    <3>1. o \in OwnIn(segs, k) \/ \E w \in Waiting(k) : Same(o, w) BY <2>2, AppendedIs
    <3>2. QED BY <1>0, <3>1 DEF Same
  <2>3. QED BY <2>1, <2>2, OwnSteps
<1>2. \A o \in Waiting(k)' : Snap(o)
  <2>1. CASE Waiting(k)' \subseteq Waiting(k) BY <1>0, <2>1
  <2>2. CASE batch' = batch BY <2>1, <2>2, WaitingSame
  <2>3. CASE AppendSegment BY <2>1, <2>3, AppendedIs
  <2>4. ASSUME NEW j \in Keys, Read(j) PROVE \A o \in Waiting(k)' : Snap(o)
    <3>1. Waiting(k)' = IF k = j /\ New(j) # None THEN Waiting(k) \cup {Entry(j)} ELSE Waiting(k)
      BY <2>4, WaitingRead
    <3>2. New(k) # None => Snap(Entry(k))
      <4> SUFFICES ASSUME New(k) # None PROVE Snap(Entry(k)) OBVIOUS
      <4>1. Observes(New(k), 0, Complete(k)) /\ New(k).kind = "snapshot" BY NewIs DEF Made
      <4>2. Entry(k).off = New(k).off /\ Entry(k).kind = New(k).kind BY EntryIs
      <4>3. QED BY <4>1, <4>2 DEF Observes
    <3>3. QED BY <1>0, <3>1, <3>2
  <2>5. CASE Emptied BY <2>5 DEF Emptied, Waiting
  <2>6. QED
    BY <2>2, <2>3, <2>4, <2>5, WorkSteps
    DEF working, StartCollect, Stat, SaveState, Unreadable
<1>3. QED BY <1>1, <1>2 DEF SnapshotOf

(* What waits is the only one of its conversation.                         *)
Alone(k) == \A i, j \in DOMAIN batch : batch[i].key = k /\ batch[j].key = k => i = j

LEMMA AppendedAlone ==
  ASSUME TypeInv, NumberInv, AppendSegment, NEW k, Alone(k)
  PROVE  /\ Alone(k)'
         /\ Waiting(k)' # {} => OwnIn(segs', k) = OwnIn(segs, k)
<1> PICK n \in 1..Len(batch) : \E new \in Segments : Appends(n, new) BY AppendIs
<1> PICK new \in Segments : Appends(n, new) OBVIOUS
<1>1. /\ new.dev = Self /\ new.obs \in Seq(Entries) /\ Len(new.obs) = n
      /\ \A i \in 1..n : new.obs[i] = batch[i]
      /\ segs' = segs \cup {new}
      /\ batch' \in Seq(Entries) /\ Len(batch') = Len(batch) - n
      /\ \A i \in 1..Len(batch) - n : batch'[i] = batch[n + i]
  BY DEF Appends
<1>2. Len(batch) \in Nat /\ n \in 1..Len(batch) BY DEF TypeInv
<1>3. DOMAIN new.obs = 1..n /\ DOMAIN batch = 1..Len(batch) /\ DOMAIN batch' = 1..(Len(batch) - n)
  <2>1. batch \in Seq(Entries) BY DEF TypeInv
  <2>2. QED BY <1>1, <1>2, <2>1
<1>4. \A i \in DOMAIN batch' : n + i \in DOMAIN batch /\ batch'[i] = batch[n + i] /\ i \in Nat
  BY <1>1, <1>2, <1>3
<1>5. ASSUME NEW i \in DOMAIN batch', NEW j \in DOMAIN batch', batch'[i].key = k, batch'[j].key = k
      PROVE  i = j
  <2>1. n + i = n + j BY <1>4, <1>5 DEF Alone
  <2>2. i \in Nat /\ j \in Nat /\ n \in Nat BY <1>2, <1>4
  <2>3. QED BY ONLY <2>1, <2>2
<1>6. ASSUME NEW i \in DOMAIN batch', batch'[i].key = k, NEW o \in OwnIn(segs', k)
      PROVE  o \in OwnIn(segs, k)
  <2>1. SUFFICES ASSUME o \notin OwnIn(segs, k) PROVE FALSE OBVIOUS
  <2>2. \E j \in DOMAIN new.obs : new.obs[j].key = k BY <1>1, <2>1, OwnIs
  <2>3. PICK j \in 1..n : new.obs[j].key = k BY <1>3, <2>2
  <2>4. j \in DOMAIN batch /\ batch[j].key = k /\ j \in Nat /\ j <= n /\ n \in Nat
    BY <1>1, <1>2, <1>3, <2>3
  <2>5. n + i \in DOMAIN batch /\ batch[n + i].key = k BY <1>4, <1>6
  <2>6. j = n + i BY <2>4, <2>5 DEF Alone
  <2>7. i \in Nat /\ i >= 1 BY <1>2, <1>3
  <2>8. QED BY ONLY <2>4, <2>6, <2>7
<1>7. [Next]_vars BY DEF Next, Collect
<1>8. OwnIn(segs, k) \subseteq OwnIn(segs', k) BY <1>7, OwnSteps
<1>9. QED BY <1>5, <1>6, <1>8 DEF Alone, Waiting

LEMMA OnceStep ==
  ASSUME TypeInv, PhaseInv, NumberInv, [Next]_vars, ~appendOnly, NEW k \in Keys, OnceOf(k)
  PROVE  OnceOf(k)'
<1>0. /\ \A o \in Waiting(k) : k \in DOMAIN fresh /\ fresh[k].data = o.data
      /\ Alone(k)
      /\ k \in DOMAIN fresh => k \notin queue \cup DOMAIN stats
      /\ k \in queue => k \notin DOMAIN stats
  BY DEF OnceOf, Alone
<1>1. CASE UNCHANGED working BY <1>0, <1>1, WaitingSame DEF working, OnceOf, Alone
<1>2. CASE StartCollect
  <2>1. /\ pc = "ready" /\ UNCHANGED <<stats, fresh, batch>> BY <1>2 DEF StartCollect
  <2>2. DOMAIN fresh = {} /\ DOMAIN stats = {} /\ Waiting(k)' = Waiting(k)
    BY <2>1, WaitingSame DEF PhaseInv
  <2>3. QED BY <1>0, <2>1, <2>2 DEF OnceOf, Alone
<1>3. CASE AppendSegment
  <2>1. UNCHANGED <<queue, stats, fresh>> BY <1>3 DEF AppendSegment
  <2>2. Alone(k)' /\ Waiting(k)' \subseteq Waiting(k) BY <1>0, <1>3, AppendedAlone, AppendedIs
  <2>3. QED BY <1>0, <2>1, <2>2 DEF OnceOf, Alone
<1>4. ASSUME NEW j \in Keys, Stat(j) PROVE OnceOf(k)'
  <2>1. /\ j \in queue /\ queue' = queue \ {j} /\ UNCHANGED <<fresh, batch>>
        /\ stats' = stats \/ DOMAIN stats' = DOMAIN stats \cup {j}
    BY <1>4 DEF Stat, With
  <2>2. Waiting(k)' = Waiting(k) BY <2>1, WaitingSame
  <2>3. QED BY <1>0, <2>1, <2>2 DEF OnceOf, Alone
<1>5. ASSUME NEW j \in Keys, Read(j) PROVE OnceOf(k)'
  <2> DEFINE fr == [data |-> Complete(j), mtime |-> stats[j]]
  <2>1. /\ j \in DOMAIN stats /\ queue' = queue /\ DOMAIN stats' = DOMAIN stats \ {j}
        /\ fresh' = IF Complete(j) = << >> THEN fresh ELSE With(fresh, j, fr)
        /\ batch' = IF New(j) = None THEN batch ELSE Append(batch, Entry(j))
    BY <1>5, ReadIs DEF Without
  <2>2. Waiting(k)' = IF k = j /\ New(j) # None THEN Waiting(k) \cup {Entry(j)} ELSE Waiting(k)
    BY <1>5, WaitingRead
  <2>3. j # k => /\ k \in DOMAIN fresh' <=> k \in DOMAIN fresh
                 /\ k \in DOMAIN fresh => fresh'[k] = fresh[k]
    BY <2>1 DEF With
  <2>4. Alone(k)'
    <3>1. CASE New(j) = None BY <1>0, <2>1, <3>1 DEF Alone
    <3>2. CASE New(j) # None
      <4> DEFINE e == Entry(j)
      <4>1. e \in Entries /\ e.key = j BY <3>2, EntryIs
      <4>2. batch \in Seq(Entries) /\ Len(batch) \in Nat /\ DOMAIN batch = 1..Len(batch)
        BY DEF TypeInv
      <4>3. batch' = Append(batch, e) BY <2>1, <3>2
      <4> HIDE DEF e
      <4>4. /\ batch' \in Seq(Entries) /\ Len(batch') = Len(batch) + 1
            /\ \A i \in 1..Len(batch) : batch'[i] = batch[i]
            /\ batch'[Len(batch) + 1] = e
        BY <4>1, <4>2, <4>3, AppendProperties
      <4>5. \A i \in DOMAIN batch' :
              (i \in DOMAIN batch /\ batch'[i] = batch[i]) \/ (i = Len(batch) + 1 /\ batch'[i] = e)
        BY <4>2, <4>4
      <4>6. j = k => \A i \in DOMAIN batch : batch[i].key # k
        BY <1>0, <2>1 DEF Waiting
      <4>7. QED BY <1>0, <4>1, <4>5, <4>6 DEF Alone
    <3>3. QED BY <3>1, <3>2
  <2>5. CASE j # k BY <1>0, <2>1, <2>2, <2>3, <2>4, <2>5 DEF OnceOf, Alone
  <2>6. CASE j = k
    <3>1. k \notin DOMAIN fresh /\ Waiting(k) = {} /\ k \notin queue BY <1>0, <2>1, <2>6
    <3>2. k \notin queue' \cup DOMAIN stats' BY <2>1, <2>6, <3>1
    <3>3. ASSUME New(k) # None PROVE k \in DOMAIN fresh' /\ fresh'[k].data = Entry(k).data
      <4>1. New(k).data = Complete(k) /\ Complete(k) # << >> BY <3>3, NewIs DEF Made
      <4>2. Entry(k).data = New(k).data BY <3>3, EntryIs
      <4>3. fresh' = With(fresh, k, fr) BY <2>1, <2>6, <4>1
      <4>4. k \in DOMAIN fresh' /\ fresh'[k] = fr BY <4>3 DEF With
      <4>5. QED BY <2>6, <4>1, <4>2, <4>4
    <3>4. \A o \in Waiting(k)' : k \in DOMAIN fresh' /\ fresh'[k].data = o.data
      BY <2>2, <2>6, <3>1, <3>3
    <3>5. QED BY <2>4, <3>2, <3>4 DEF OnceOf, Alone
  <2>7. QED BY <2>5, <2>6
<1>6. ASSUME NEW j \in Keys, SaveState(j) PROVE OnceOf(k)'
  <2>1. pc = "saving" /\ UNCHANGED <<queue, stats, batch>> BY <1>6 DEF SaveState
  <2>2. queue = {} /\ DOMAIN stats = {} /\ batch = << >> BY <2>1 DEF PhaseInv
  <2>3. Waiting(k)' = {} BY <2>1, <2>2 DEF Waiting
  <2>4. QED BY <2>1, <2>2, <2>3 DEF OnceOf
<1>7. ASSUME NEW j \in Keys, Unreadable(j) PROVE OnceOf(k)'
  <2>1. queue' = queue \ {j} /\ UNCHANGED <<fresh, batch>> /\ DOMAIN stats' = DOMAIN stats \ {j}
    BY <1>7 DEF Unreadable, Without
  <2>2. Waiting(k)' = Waiting(k) BY <2>1, WaitingSame
  <2>3. QED BY <1>0, <2>1, <2>2 DEF OnceOf, Alone
<1>8. CASE Emptied BY <1>8 DEF Emptied, NoKeys, OnceOf, Waiting
<1>9. QED BY <1>1, <1>2, <1>3, <1>4, <1>5, <1>6, <1>7, <1>8, WorkSteps

LEMMA FaultSteps ==
  ASSUME faults \in Nat, [Next]_vars
  PROVE  faults' \in Nat /\ (faults' = 0 => faults = 0 /\ ~Crash)
<1>1. CASE UNCHANGED <<faults>> /\ ~Crash BY <1>1
<1>2. ASSUME faults' = faults + 1 PROVE faults' \in Nat /\ faults' # 0 BY <1>2
<1>3. CASE Crash BY <1>2, <1>3 DEF Crash
<1>4. CASE \E k \in Keys : ProjectFails(k) BY <1>2, <1>4 DEF ProjectFails
<1>5. CASE \E F \in SUBSET Keys : Rebuild(F)
  <2>1. faults' = faults \/ faults' = faults + 1 BY <1>5 DEF Rebuild
  <2>2. CASE Crash BY <1>3, <2>2
  <2>3. CASE ~Crash BY <1>2, <2>1, <2>3
  <2>4. QED BY <2>2, <2>3
<1>6. ASSUME ~Crash, ~(\E k \in Keys : ProjectFails(k)), ~(\E F \in SUBSET Keys : Rebuild(F))
      PROVE  faults' = faults
  <2>1. CASE UNCHANGED vars BY <2>1 DEF vars
  <2>2. CASE Edit BY <2>2 DEF Edit, Write, WriteTorn, Rewrite, Change, history
  <2>3. CASE CatchUp
    BY <2>3 DEF CatchUp, StartCatchUp, EndIndexing, EndCatchUp, IndexSegment, BeginReplace,
       Project, history
  <2>4. CASE Collect
    BY <2>4 DEF Collect, StartCollect, AppendSegment, EndAppend, EndCollect, Stat, Read,
       SaveState, history
  <2>5. QED BY <1>6, <2>1, <2>2, <2>3, <2>4 DEF Next, Import, Unreadable, Close, history
<1>7. QED BY <1>1, <1>3, <1>4, <1>5, <1>6

LEMMA NewestStep ==
  ASSUME TypeInv, PhaseInv, NumberInv, [Next]_vars, ~appendOnly, NEW k \in Keys,
         SnapshotOf(k), OnceOf(k), NewestOf(k), faults' = 0
  PROVE  NewestOf(k)'
<1>0. state \in [Keys -> {None} \cup [data : Nonempty(Lines), mtime : {None} \cup 0..MaxEdits]]
  BY DEF TypeInv
<1>a. ~Crash BY FaultSteps DEF TypeInv
<1> SUFFICES ASSUME NEW o \in OwnIn(segs', k), \A p \in OwnIn(segs', k) : p.seq <= o.seq
             PROVE  /\ Saved(k, o)' \/ o \notin ObsFor(indexed', k)
                    /\ IF Waiting(k)' = {} /\ k \in DOMAIN fresh' THEN fresh'[k].data = o.data
                       ELSE Saved(k, o)'
  BY DEF NewestOf, Newest
<1> DEFINE Goal == /\ Saved(k, o)' \/ o \notin ObsFor(indexed', k)
                   /\ IF Waiting(k)' = {} /\ k \in DOMAIN fresh' THEN fresh'[k].data = o.data
                      ELSE Saved(k, o)'
<1>1. OwnIn(segs, k) \subseteq OwnIn(segs', k) BY OwnSteps
<1>2. o \in OwnIn(segs, k) =>
        /\ Saved(k, o) \/ o \notin ObsFor(indexed, k)
        /\ IF Waiting(k) = {} /\ k \in DOMAIN fresh THEN fresh[k].data = o.data ELSE Saved(k, o)
  BY <1>1 DEF NewestOf, Newest
<1>3. state'[k] = state[k] => (Saved(k, o)' <=> Saved(k, o)) BY DEF Saved
<1>4. ASSUME indexed' = indexed, state'[k] = state[k], OwnIn(segs', k) = OwnIn(segs, k),
             Waiting(k)' = Waiting(k), k \in DOMAIN fresh' <=> k \in DOMAIN fresh,
             k \in DOMAIN fresh => fresh'[k] = fresh[k]
      PROVE  Goal
  BY <1>2, <1>3, <1>4
<1>5. CASE AppendSegment
  <2>1. UNCHANGED <<indexed, state, fresh>> BY <1>5 DEF AppendSegment, database
  <2>2. /\ Alone(k) /\ \A w \in Waiting(k) : k \in DOMAIN fresh /\ fresh[k].data = w.data
    BY DEF OnceOf, Alone
  <2>3. /\ \/ o \in OwnIn(segs, k)
           \/ \E w \in Waiting(k) : Same(o, w)
        /\ \A w \in Waiting(k) :
             w \in Waiting(k)' \/ \E p \in OwnIn(segs', k) : Same(p, w) /\ p \notin OwnIn(segs, k)
        /\ Waiting(k)' \subseteq Waiting(k)
    BY <1>5, AppendedIs
  <2>4. Waiting(k)' # {} => OwnIn(segs', k) = OwnIn(segs, k)
    BY <1>5, <2>2, AppendedAlone
  <2>5. CASE o \notin OwnIn(segs, k)
    <3>1. k \in DOMAIN fresh /\ fresh[k].data = o.data /\ Waiting(k)' = {}
      BY <2>2, <2>3, <2>4, <2>5 DEF Same
    <3>2. o \notin ObsFor(indexed, k)
      <4>1. indexed \subseteq segs BY DEF TypeInv
      <4>2. o.dev = Self BY DEF OwnIn
      <4>3. QED BY <2>5, <4>1, <4>2, ObsForMonotone DEF OwnIn
    <3>3. QED BY <2>1, <3>1, <3>2
  <2>6. CASE o \in OwnIn(segs, k)
    <3>1. Waiting(k) # {} => Waiting(k)' # {}
      <4> SUFFICES ASSUME NEW w \in Waiting(k), Waiting(k)' = {} PROVE FALSE OBVIOUS
      <4>1. PICK p \in OwnIn(segs', k) : p \notin OwnIn(segs, k) BY <2>3
      <4>2. o.seq < p.seq BY <1>5, <2>6, <4>1, AppendedIs
      <4>3. p.seq <= o.seq OBVIOUS
      <4>4. o.seq \in Nat BY <2>6, OwnTyped
      <4>5. p.seq \in Nat
        <5>1. segs' \in SUBSET Segments BY LogStep
        <5>2. QED BY <5>1, ObsForTyped DEF OwnIn
      <4>6. QED BY <4>2, <4>3, <4>4, <4>5
    <3>2. Waiting(k)' = {} <=> Waiting(k) = {} BY <2>3, <3>1
    <3>3. QED BY <1>2, <1>3, <2>1, <2>6, <3>2
  <2>7. QED BY <2>5, <2>6
<1>6. ASSUME NEW j \in Keys, Read(j) PROVE Goal
  <2> DEFINE fr == [data |-> Complete(j), mtime |-> stats[j]]
  <2>1. /\ j \in DOMAIN stats /\ UNCHANGED <<segs, indexed, state>>
        /\ fresh' = IF Complete(j) = << >> THEN fresh ELSE With(fresh, j, fr)
    BY <1>6, ReadIs
  <2>2. Waiting(k)' = IF k = j /\ New(j) # None THEN Waiting(k) \cup {Entry(j)} ELSE Waiting(k)
    BY <1>6, WaitingRead
  <2>3. CASE j # k
    <3>1. /\ k \in DOMAIN fresh' <=> k \in DOMAIN fresh
          /\ k \in DOMAIN fresh => fresh'[k] = fresh[k]
      BY <2>1, <2>3 DEF With
    <3>2. QED BY <1>4, <2>1, <2>2, <2>3, <3>1
  <2>4. CASE j = k
    <3>1. k \notin DOMAIN fresh /\ Waiting(k) = {} BY <2>1, <2>4 DEF OnceOf
    <3>2. Saved(k, o) /\ o \in OwnIn(segs, k) BY <1>2, <2>1, <3>1
    <3>3. Saved(k, o)' BY <1>3, <2>1, <3>2
    <3>4. CASE New(k) # None BY <2>2, <2>4, <3>3, <3>4
    <3>5. CASE New(k) = None
      <4>1. Complete(k) = << >> \/ Prev(k) = Complete(k) BY <3>5, NewIs DEF Made
      <4>2. Prev(k) = o.data BY <3>2 DEF Prev, Saved
      <4>3. CASE Complete(k) = << >> BY <2>1, <2>4, <3>1, <3>3, <4>3
      <4>4. CASE Complete(k) # << >>
        <5>1. fresh' = With(fresh, k, fr) BY <2>1, <2>4, <4>4
        <5>2. fresh'[k].data = Complete(k) BY <2>4, <5>1 DEF With
        <5>3. QED BY <3>3, <4>1, <4>2, <4>4, <5>2
      <4>5. QED BY <4>3, <4>4
    <3>6. QED BY <3>4, <3>5
  <2>5. QED BY <2>3, <2>4
<1>7. ASSUME NEW j \in Keys, SaveState(j) PROVE Goal
  <2>1. /\ pc = "saving" /\ j \in DOMAIN fresh /\ state' = [state EXCEPT ![j] = fresh[j]]
        /\ fresh' = Without(fresh, j) /\ UNCHANGED <<segs, indexed, batch>>
    BY <1>7 DEF SaveState, NewState
  <2>2. Waiting(k)' = {} /\ Waiting(k) = {} BY <2>1, WaitingNone DEF PhaseInv, Waiting
  <2>3. CASE j = k
    <3>1. state'[k] = fresh[k] /\ k \notin DOMAIN fresh' BY <1>0, <2>1, <2>3 DEF Without
    <3>2. fresh[k].data = o.data BY <1>2, <2>1, <2>2, <2>3
    <3>3. fresh[k] # None
      <4>1. fresh[k] \in [data : Nonempty(Lines), mtime : 0..MaxEdits] BY <2>1, <2>3 DEF TypeInv
      <4>2. 0..MaxEdits \subseteq Nat BY ArchiveAssumption
      <4>3. fresh[k] \in [data : Seq(Lines), mtime : Nat \cup {None}]
        BY <4>1, <4>2 DEF Nonempty
      <4>4. QED BY <4>3, ArchiveAssumption
    <3>4. QED BY <3>1, <3>2, <3>3 DEF Saved
  <2>4. CASE j # k
    <3>1. /\ state'[k] = state[k] /\ (k \in DOMAIN fresh' <=> k \in DOMAIN fresh)
          /\ k \in DOMAIN fresh => fresh'[k] = fresh[k]
      BY <1>0, <2>1, <2>4 DEF Without
    <3>2. QED BY <1>4, <2>1, <2>2, <3>1
  <2>5. QED BY <2>3, <2>4
<1>8. ASSUME NEW F \in SUBSET Keys, Rebuild(F) PROVE Goal
  <2>1. /\ pc = "idle" /\ UNCHANGED <<segs, fresh, batch>>
        /\ state'[k] = IF Replay(OwnObs(segs, k)) = None THEN None
                       ELSE [data |-> Replay(OwnObs(segs, k)), mtime |-> None]
    BY <1>8 DEF Rebuild, memory
  <2>2. DOMAIN fresh' = {} BY <2>1 DEF PhaseInv
  <2>3. o \in OwnIn(segs, k) /\ \A p \in OwnIn(segs, k) : p.seq <= o.seq BY <2>1
  <2>4. Logged(segs, k) /\ \A p \in OwnIn(segs, k) : p.kind = "snapshot"
    BY LoggedIs DEF SnapshotOf
  <2> DEFINE r == Replay(OwnObs(segs, k))
  <2>5. r = o.data BY <2>3, <2>4, ReplaySnapshots
  <2>6. r # None BY <2>3, <2>5, OwnTyped, ArchiveAssumption DEF Nonempty
  <2> HIDE DEF r
  <2>7. state'[k] = [data |-> r, mtime |-> None] BY <2>1, <2>6 DEF r
  <2>8. [data |-> r, mtime |-> None] # None
    <3>1. r \in Nonempty(Lines) BY <2>3, <2>5, OwnTyped
    <3>2. [data |-> r, mtime |-> None] \in [data : Seq(Lines), mtime : Nat \cup {None}]
      BY <3>1 DEF Nonempty
    <3>3. QED BY <3>2, ArchiveAssumption
  <2>9. Saved(k, o)' BY <2>5, <2>7, <2>8 DEF Saved
  <2>10. QED BY <2>2, <2>9
<1>9. ASSUME NEW s \in segs, IndexSegment(s) PROVE Goal
  <2>1. /\ pc = "indexing" /\ UNCHANGED <<segs, state, fresh, batch>> BY <1>9 DEF IndexSegment
  <2>2. DOMAIN fresh' = {} /\ DOMAIN fresh = {} BY <2>1 DEF PhaseInv
  <2>3. o \in OwnIn(segs, k) BY <2>1
  <2>4. Saved(k, o) BY <1>2, <2>2, <2>3
  <2>5. QED BY <1>3, <2>1, <2>2, <2>4
<1>10. CASE Close
  <2>1. pc \in {"ready", "done"} /\ UNCHANGED <<segs, indexed, state>> /\ Emptied
    BY <1>10 DEF Close, Forget, Emptied, database
  <2>2. DOMAIN fresh = {} /\ batch = << >> BY <2>1 DEF PhaseInv
  <2>3. batch' = batch /\ DOMAIN fresh' = {} BY <2>1, <2>2 DEF Emptied, NoKeys
  <2>4. Waiting(k)' = Waiting(k) BY <2>3, WaitingSame
  <2>5. QED BY <1>4, <2>1, <2>2, <2>3, <2>4
<1>11. ASSUME ~AppendSegment, ~(\E j \in Keys : Read(j)), ~(\E j \in Keys : SaveState(j)),
              ~(\E F \in SUBSET Keys : Rebuild(F)), ~(\E s \in segs : IndexSegment(s)), ~Close
       PROVE  Goal
  <2>1. indexed' = indexed /\ state' = state BY <1>11, IndexedSteps, StateSteps
  <2>2. OwnIn(segs', k) = OwnIn(segs, k) BY <1>11, OwnSteps
  <2>3. fresh' = fresh /\ batch' = batch
    BY <1>a, <1>11, WorkSteps DEF working, StartCollect, Stat, Unreadable
  <2>4. Waiting(k)' = Waiting(k) BY <2>3, WaitingSame
  <2>5. QED BY <1>4, <2>1, <2>2, <2>3, <2>4
<1>12. QED BY <1>5, <1>6, <1>7, <1>8, <1>9, <1>10, <1>11

LEMMA NewestInit == Init => SnapshotInv /\ NewestInv
<1> SUFFICES ASSUME Init, NEW k \in Keys PROVE SnapshotOf(k) /\ OnceOf(k) /\ NewestOf(k)
  BY DEF SnapshotInv, NewestInv
<1>1. /\ segs = {} /\ batch = << >> /\ fresh = NoKeys /\ queue = {} /\ DOMAIN fresh = {}
  BY DEF Init, NoKeys
<1>2. OwnIn(segs, k) = {} BY <1>1 DEF OwnIn, ObsFor
<1>3. Waiting(k) = {} BY <1>1 DEF Waiting
<1>4. DOMAIN batch = {} BY <1>1
<1>5. QED BY <1>1, <1>2, <1>3, <1>4 DEF SnapshotOf, OnceOf, NewestOf

LEMMA NewestInvStep ==
  BaseInv /\ SnapshotInv /\ NewestInv /\ [Next]_vars => SnapshotInv' /\ NewestInv'
<1> SUFFICES ASSUME BaseInv, SnapshotInv, NewestInv, [Next]_vars PROVE SnapshotInv' /\ NewestInv'
  OBVIOUS
<1>1. TypeInv /\ PhaseInv /\ NumberInv /\ faults \in Nat BY DEF BaseInv, TypeInv
<1>2. appendOnly' = appendOnly BY KindSteps
<1>3. ASSUME ~appendOnly, NEW k \in Keys
      PROVE  SnapshotOf(k)' /\ OnceOf(k)' /\ (faults' = 0 => NewestOf(k)')
  <2>1. SnapshotOf(k) BY <1>3 DEF SnapshotInv
  <2>2. OnceOf(k) /\ (faults = 0 => NewestOf(k)) BY <1>3 DEF NewestInv
  <2>3. SnapshotOf(k)' BY <1>1, <1>3, <2>1, SnapshotStep
  <2>4. OnceOf(k)' BY <1>1, <1>3, <2>2, OnceStep
  <2>5. ASSUME faults' = 0 PROVE NewestOf(k)'
    <3>1. NewestOf(k) BY <1>1, <2>2, <2>5, FaultSteps
    <3>2. QED BY <1>1, <1>3, <2>1, <2>2, <2>5, <3>1, NewestStep
  <2>6. QED BY <2>3, <2>4, <2>5
<1>4. SnapshotInv' BY <1>2, <1>3 DEF SnapshotInv
<1>5. NewestInv' BY <1>2, <1>3 DEF NewestInv
<1>6. QED BY <1>4, <1>5

-----------------------------------------------------------------------------
(* What is remembered is shown.                                            *)

Shown(k, o) == \E v \in VersionsOf(segs, k) : Holds(v, o)

LEMMA LiveShown ==
  ASSUME TypeInv, NumberInv, NEW k, ~Tombstoned(segs, k), NEW o \in Live(segs, k)
  PROVE  Shown(k, o) \/ (o.off # 0 /\ \A v \in VersionsOf(segs, k) : Len(v) < o.off)
<1> DEFINE V == VersionsOf(segs, k)
           f == FragmentAt(o)
<1>1. V = Contents(Frags(segs, k)) /\ Given(Lines, Frags(segs, k))
  BY VersionsGiven DEF TypeInv, NumberInv
<1>2. f \in Frags(segs, k) BY DEF Frags
<1>3. f.off = o.off /\ f.data = o.data BY DEF FragmentAt
<1> HIDE DEF f, V
<1>4. (\E v \in V : Holds(v, f)) \/ (f.off # 0 /\ \A v \in V : Len(v) < f.off)
  BY <1>1, <1>2, ShownOrWaits
<1>5. \A v : Holds(v, f) => Holds(v, o) BY <1>3 DEF Holds, End
<1>6. QED BY <1>3, <1>4, <1>5 DEF Shown, V

(* Nothing this device logged of an append-only source waits: it goes on   *)
(* from what it logged before.                                             *)
LEMMA OwnShown ==
  ASSUME TypeInv, NumberInv, appendOnly, NEW k, OwnLog(k), ~Tombstoned(segs, k),
         NEW o \in OwnIn(segs, k)
  PROVE  Shown(k, o)
<1> DEFINE W == {p \in OwnIn(segs, k) : ~Shown(k, p)}
           T == {p.off : p \in W}
<1> SUFFICES ASSUME o \in W PROVE FALSE OBVIOUS
<1>1. T \in SUBSET Nat /\ T # {} BY OwnTyped
<1> HIDE DEF T
<1>2. PICK m \in T : \A n \in T : m <= n BY <1>1, LeastOf
<1>3. PICK w \in W : w.off = m BY <1>2 DEF T
<1>4. w \in OwnIn(segs, k) /\ ~Shown(k, w) OBVIOUS
<1>5. w \in Live(segs, k) BY <1>4 DEF Live, OwnIn
<1>6. w.off # 0 /\ \A v \in VersionsOf(segs, k) : Len(v) < w.off BY <1>4, <1>5, LiveShown
<1>7. PICK p \in OwnIn(segs, k) : p.off < w.off /\ w.off <= End(p)
  BY <1>4, <1>6 DEF OwnLog, Linked
<1>8. Shown(k, p)
  <2> SUFFICES ASSUME ~Shown(k, p) PROVE FALSE OBVIOUS
  <2>1. p.off \in T BY DEF T
  <2>2. w.off <= p.off BY <1>2, <1>3, <2>1
  <2>3. w.off \in Nat /\ p.off \in Nat BY <1>4, OwnTyped
  <2>4. QED BY ONLY <1>7, <2>2, <2>3
<1>9. PICK v \in VersionsOf(segs, k) : Holds(v, p) BY <1>8 DEF Shown
<1>10. v \in Nonempty(Lines) BY VersionsTyped DEF TypeInv, NumberInv
<1>11. Len(v) \in Nat BY <1>10 DEF Nonempty
<1>12. End(p) <= Len(v) /\ Len(v) < w.off BY <1>6, <1>9 DEF Holds
<1>13. w.off \in Nat /\ End(p) \in Nat BY <1>4, OwnTyped
<1>14. QED BY ONLY <1>7, <1>11, <1>12, <1>13

(* There is a last one.                                                    *)
LEMMA NewestThere ==
  ASSUME TypeInv, NumberInv, NEW k, OwnIn(segs, k) # {}
  PROVE  \E o \in OwnIn(segs, k) : Newest(k, o)
<1> DEFINE T == {o.seq : o \in OwnIn(segs, k)}
           n == NextSeq
<1>1. n \in Nat BY DEF NumberInv
<1>2. ASSUME NEW o \in OwnIn(segs, k) PROVE o.seq \in 0..n
  <2>1. o.seq \in Nat /\ o.seq < n BY OwnTyped
  <2>2. QED BY ONLY <1>1, <2>1
<1>3. T \in SUBSET (0..n) /\ T # {} BY <1>2
<1> HIDE DEF T, n
<1>4. PICK m \in T : \A s \in T : s <= m BY <1>1, <1>3, GreatestOf
<1>5. QED BY <1>4 DEF T, Newest

(* Every line the collector remembers as logged, and will not log again,   *)
(* is in a version that the database shows, once it has indexed the log    *)
(* and dealt with the conversation.  Of a source logged as snapshots, when *)
(* no process died: after a death there may be a newer snapshot than the   *)
(* one remembered.                                                         *)
THEOREM ArchiveStateShown == Spec => []StateShown
<1>1. BaseInv /\ SnapshotInv /\ NewestInv /\ (\A k \in Keys : NotMissed(k)) => StateShown
  <2> SUFFICES ASSUME BaseInv, SnapshotInv, NewestInv, \A k \in Keys : NotMissed(k),
                      segs = indexed, appendOnly \/ faults = 0,
                      NEW k \in Settled, state[k] # None, Projected(indexed, k, None) # None
               PROVE  /\ row[k] # None
                      /\ \A i \in DOMAIN state[k].data :
                           \E v \in row[k] : i <= Len(v) /\ v[i] = state[k].data[i]
    BY DEF StateShown
  <2>1. TypeInv /\ NumberInv /\ k \in Keys BY DEF BaseInv, Settled
  <2>2. StateLog(k) /\ OwnLog(k) BY <2>1 DEF BaseInv, LogInv
  <2>3. row[k] = VersionsOf(segs, k) /\ ~Tombstoned(segs, k) /\ row[k] # None
    BY <2>1, ProjectedIs DEF NotMissed
  <2>4. state[k].data \in Nonempty(Lines) BY <2>1 DEF TypeInv
  <2>5. Len(state[k].data) \in Nat \ {0} /\ DOMAIN state[k].data = 1..Len(state[k].data)
    BY <2>4 DEF Nonempty
  <2>6. \A i \in DOMAIN state[k].data : Has(OwnIn(segs, k), i, state[k].data[i])
    BY <2>2, <2>5 DEF StateLog
  <2>7. ASSUME NEW i \in DOMAIN state[k].data, NEW o \in OwnIn(segs, k), Shown(k, o),
               o.off < i, i <= End(o), o.data[i - o.off] = state[k].data[i]
        PROVE  \E v \in row[k] : i <= Len(v) /\ v[i] = state[k].data[i]
    <3>1. PICK v \in VersionsOf(segs, k) : Holds(v, o) BY <2>7 DEF Shown
    <3>2. v \in Nonempty(Lines) BY <2>1, <2>3, VersionsTyped DEF TypeInv, NumberInv
    <3>3. Len(v) \in Nat BY <3>2 DEF Nonempty
    <3>4. /\ o.off \in Nat /\ Len(o.data) \in Nat /\ End(o) = o.off + Len(o.data)
      BY <2>1, OwnTyped
    <3>5. i \in Nat BY <2>5
    <3>6. i - o.off \in 1..Len(o.data) /\ o.off + (i - o.off) = i
      BY ONLY <2>7, <3>4, <3>5
    <3>7. End(o) <= Len(v) /\ v[i] = o.data[i - o.off] BY <3>1, <3>6 DEF Holds
    <3>8. i <= Len(v)
      <4>1. i <= End(o) /\ End(o) \in Nat BY <2>7, <3>4
      <4>2. QED BY ONLY <3>3, <3>5, <3>7, <4>1
    <3>9. QED BY <2>3, <2>7, <3>7, <3>8
  <2>8. CASE appendOnly
    <3>1. \A o \in OwnIn(segs, k) : Shown(k, o) BY <2>1, <2>2, <2>3, <2>8, OwnShown
    <3>2. QED BY <2>3, <2>6, <2>7, <3>1 DEF Has
  <2>9. CASE ~appendOnly
    <3>1. SnapshotOf(k) /\ OnceOf(k) /\ NewestOf(k) BY <2>1, <2>9 DEF NewestInv, SnapshotInv
    <3>2. OwnIn(segs, k) # {}
      <4>1. 1 \in DOMAIN state[k].data BY <2>5
      <4>2. QED BY <2>6, <4>1 DEF Has
    <3>3. PICK o \in OwnIn(segs, k) : Newest(k, o) BY <2>1, <3>2, NewestThere
    <3>4. o \in Live(segs, k)
      <4>1. \A p \in ObsFor(segs, k) : p.dev = o.dev => p.seq <= o.seq
        BY <3>3 DEF Newest, OwnIn
      <4>2. QED BY <2>9, <4>1 DEF Live, OwnIn
    <3>5. o.off = 0 BY <3>1 DEF SnapshotOf
    <3>6. Shown(k, o) BY <2>1, <2>3, <3>4, <3>5, LiveShown
    <3>7. o \in ObsFor(indexed, k) BY DEF OwnIn
    <3>8. state[k].data = o.data BY <3>1, <3>3, <3>7 DEF NewestOf, Saved
    <3>9. End(o) = Len(o.data) /\ Len(o.data) \in Nat BY <2>1, <3>5, OwnTyped
    <3>10. ASSUME NEW i \in DOMAIN state[k].data
           PROVE  o.off < i /\ i <= End(o) /\ o.data[i - o.off] = state[k].data[i]
      <4>1. i \in 1..Len(o.data) BY <2>5, <3>8
      <4>2. 0 < i /\ i <= Len(o.data) /\ i - 0 = i BY ONLY <3>9, <4>1
      <4>3. QED BY <3>5, <3>8, <3>9, <4>2
    <3>11. QED BY <2>3, <2>7, <3>6, <3>10
  <2>10. QED BY <2>8, <2>9
<1>2. Spec => [](BaseInv /\ SnapshotInv /\ NewestInv)
  BY NewestInit, NewestInvStep, Base, PTL DEF Spec
<1>3. QED BY <1>1, <1>2, MissedAlways, PTL

=============================================================================
