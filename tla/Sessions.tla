------------------------------ MODULE Sessions ------------------------------
(***************************************************************************)
(* What the archive shows of a session (Projector.Project in               *)
(* internal/project/project.go): the delivered observations become         *)
(* versions, the source's adapter makes a conversation of each, and merge  *)
(* makes one of all.                                                       *)
(***************************************************************************)
EXTENDS Histories

INSTANCE Merge

-----------------------------------------------------------------------------
(* latestSnapshots: of a source that is logged as snapshots, only each     *)
(* device's latest counts.                                                 *)
Live(S) ==
  IF AppendOnly(source) THEN S
  ELSE {f \in S : \A g \in S : g.dev = f.dev => g.seq <= f.seq}

(* The length of a content: lines are of one length, a document has its. *)
Size(content) ==
  IF "size" \in DOMAIN content[1] THEN content[1].size ELSE Len(content)

Candidate(legacy, content, first, devices) ==
  Parse(source, content) @@
  [legacy |-> legacy, size |-> Size(content), first |-> first, devices |-> devices]

LiveCandidate(v, first) ==
  Candidate(FALSE, v.content, <<first.dev, first.seq>>, {f.dev : f \in v.contributors})

LiveCandidatesOf(vs) ==
  [i \in DOMAIN vs |-> LiveCandidate(vs[i], Sorted(vs[i].contributors)[1])]

LiveCandidates(S) == LiveCandidatesOf(VersionSeq(Live(S)))

(* Imports are positions in imports; of those with equal content the first *)
(* in the order of ObservationsFor counts.                                 *)
Content(p) == imports[p[1]][p[2]]

FirstImports(I) == {p \in I : \A q \in I : Earlier(q, p) => Content(q) # Content(p)}

LegacyCandidates(I) ==
  LET Imported(p) == Candidate(TRUE, Content(p), p, {p[1]})
  IN  Each(SetToSortSeq(FirstImports(I), Earlier), Imported)

Candidates(S, I) == Ordered(LiveCandidates(S) \o LegacyCandidates(I))

(* Project stores what merge makes of the versions.  Without a message it  *)
(* leaves what is there.                                                   *)
ShownOf(merged) == IF merged.messages = << >> THEN None ELSE merged

Shown(S, I) ==
  IF Candidates(S, I) = << >> THEN None ELSE ShownOf(Merged(Candidates(S, I)))

-----------------------------------------------------------------------------
(* Properties.  They are about every part of the observations and imports  *)
(* that may have been delivered.                                           *)
ForAllDelivered(P(_, _)) ==
  \A S \in Delivered, I \in SUBSET Positions(imports) :
    \A versions \in {Candidates(S, I)} :
      versions # << >> => \A shown \in {Merged(versions)} : P(versions, shown)

Ids(ms) == {ms[i].id : i \in DOMAIN ms} \ {None}

Named(versions) == \A v \in ToSet(versions) : None \notin {m.id : m \in ToSet(v.messages)}

(* How often a message is shown. *)
Count(ms, id) == Cardinality({i \in DOMAIN ms : ms[i].id = id})

(* In no version two messages share an id, as a codex call and its output  *)
(* do, or the parts of an opencode message.                                *)
Distinct(versions) ==
  \A v \in ToSet(versions) : \A id \in Ids(v.messages) : Count(v.messages, id) = 1

(* "messages only other versions have are kept": every message with an id  *)
(* that some version has is shown, and once, whichever versions share it.  *)
EachOnce ==
  LET Once(versions, shown) ==
        Distinct(versions) =>
          \A v \in ToSet(versions) : \A id \in Ids(v.messages) : Count(shown.messages, id) = 1
  IN  ForAllDelivered(Once)

(* Two live versions that go on differently after what they share: that is *)
(* shown, then the continuation that began first, then the other, whatever *)
(* is longer and however the devices are called.                           *)
BranchesInOrder ==
  LET Forked(us, vs, n) ==
        /\ SubSeq(us, 1, n) = SubSeq(vs, 1, n)
        /\ us[n + 1].time < vs[n + 1].time
        /\ Ids(SubSeq(us, n + 1, Len(us))) \cap Ids(vs) = {}
      InOrder(versions, shown) ==
        Len(versions) = 2 /\ Distinct(versions) /\ Named(versions) =>
          \A i, j \in DOMAIN versions :
            LET us == versions[i].messages
                vs == versions[j].messages
            IN  \A n \in 0..(Min({Len(us), Len(vs)}) - 1) : Forked(us, vs, n) =>
                  shown.messages = us \o SubSeq(vs, n + 1, Len(vs))
  IN  ForAllDelivered(InOrder)

(* "A divergence is two live versions disagreeing. Legacy imports only     *)
(* fill in history and are not reported."  Divergences are reported if and *)
(* only if no live version has all messages of the live versions.          *)
Flagged ==
  LET Right(versions, shown) ==
        LET live == {v \in ToSet(versions) : ~v.legacy}
            all  == UNION {Ids(v.messages) : v \in live}
        IN  Named(versions) /\ Distinct(versions) =>
              ((shown.divergences = {}) <=>
                 (live = {} \/ \E v \in live : Ids(v.messages) = all))
  IN  ForAllDelivered(Right)

(* "compared as JSON values so re-serialized legacy events match their     *)
(* originals": importing what a live version has already changes nothing   *)
(* that is shown, and its title, which an import may lack, stays.          *)
LegacyAddsNothing ==
  \A S \in Delivered, p \in Positions(imports) :
    \A live \in {Candidates(S, {})}, legacy \in {Parse(source, Content(p))} :
      (\E v \in ToSet(live) : /\ IsPrefix(legacy.events, v.events)
                              /\ IsPrefix(legacy.messages, v.messages)) =>
        Merged(Candidates(S, {p})) = Merged(live)

(* A live version that has every message of every version, and more than   *)
(* each other, is what is shown, even if another has more content.         *)
WholeShownAsIs ==
  LET Whole(v, w) ==
        w = v \/ (Len(w.messages) < Len(v.messages) /\ Ids(w.messages) \subseteq Ids(v.messages))
      AsIs(versions, shown) ==
        \A v \in ToSet(versions) :
          ~v.legacy /\ Named(versions) /\ (\A w \in ToSet(versions) : Whole(v, w))
          => shown.messages = v.messages
  IN  ForAllDelivered(AsIs)

(* spec/projection/scenarios.json: "Two devices saw different              *)
(* continuations of the same session. Keep both; neither overwrites the    *)
(* other."  What a device logged of its copy last is shown, with all its   *)
(* blocks.                                                                 *)
KeepBoth ==
  \A d \in Devices : logged[d] # None =>
    \A m \in ToSet(Parse(source, logged[d]).messages) :
      m \in ToSet(Shown(Fragments, {}).messages)

=============================================================================
