---------------------------- MODULE Reconstruct ----------------------------
(***************************************************************************)
(* How the projection assembles the versions of a source file from the     *)
(* byte ranges its observations describe (internal/project/reconstruct.go).*)
(*                                                                         *)
(* A fragment is [off, data, dev, seq]: data is a sequence of lines, off   *)
(* counts lines (lines stand for runs of bytes of one length), dev and seq *)
(* say which observation it is from.  Devices are numbers, ordered as the  *)
(* code orders their ids.                                                  *)
(***************************************************************************)
EXTENDS Integers, Sequences, FiniteSets, SequencesExt

End(f) == f.off + Len(f.data)

(* The order reconstruct sorts fragments in.  No two are equal in it, as   *)
(* no two observations have the same device and sequence number.           *)
Before(f, g) ==
  \/ f.off < g.off
  \/ f.off = g.off /\ Len(f.data) > Len(g.data)
  \/ f.off = g.off /\ Len(f.data) = Len(g.data) /\ f.dev < g.dev
  \/ f.off = g.off /\ Len(f.data) = Len(g.data) /\ f.dev = g.dev /\ f.seq < g.seq

Sorted(frags) ==
  [i \in 1..Cardinality(frags) |->
     CHOOSE f \in frags : Cardinality({g \in frags : Before(g, f)}) = i - 1]

(* A fragment starts within content and matches it where they overlap;     *)
(* where they do not, as at the very end, there is nothing to contradict.  *)
Agrees(content, f) ==
  /\ f.off <= Len(content)
  /\ \A i \in 1..Len(f.data) :
       f.off + i <= Len(content) => content[f.off + i] = f.data[i]

(* Mutant of Extended: an overlapping fragment is appended whole. *)
ExtendedWhole(content, f) ==
  IF Agrees(content, f) /\ End(f) > Len(content)
  THEN content \o f.data
  ELSE content

(* Mutant of Extended: a shorter fragment takes the place of what is there. *)
ExtendedShort(content, f) ==
  IF Agrees(content, f) THEN SubSeq(content, 1, f.off) \o f.data ELSE content

Extended(content, f) ==
  IF Agrees(content, f) /\ End(f) > Len(content)
  THEN content \o SubSeq(f.data, Len(content) - f.off + 1, Len(f.data))
  ELSE content

(* The first version with at least off lines, or 0. *)
FirstReaching(cands, off) ==
  LET Reaches(content) == Len(content) >= off
  IN  SelectInSeq(cands, Reaches)

(* Mutant of Waits: a fragment after a gap is dropped into the first version. *)
WaitsNever(cands, f) == FALSE

(* Nothing reaches the start of the fragment yet. *)
Waits(cands, f) == f.off # 0 /\ FirstReaching(cands, f.off) = 0

(* One fragment: it extends every version it agrees with; if there is none *)
(* it starts a version, or forks the first one that reaches it.            *)
Place(st, f) ==
  LET cands == st.cands
      fits  == \E i \in DOMAIN cands : Agrees(cands[i], f)
      fork  == IF f.off = 0 \/ FirstReaching(cands, f.off) = 0 THEN << >>
               ELSE SubSeq(cands[FirstReaching(cands, f.off)], 1, f.off)
  IN  IF f \in st.placed \/ (~fits /\ Waits(cands, f))
      THEN st
      ELSE [placed |-> st.placed \cup {f},
            cands  |-> IF fits
                       THEN [i \in DOMAIN cands |-> Extended(cands[i], f)]
                       ELSE Append(cands, fork \o f.data)]

(* A pass over the sorted fragments.  Binding st to the element of a set   *)
(* has TLC evaluate it once.                                               *)
Pass(fs, st0) ==
  LET run[i \in 0..Len(fs)] ==
        IF i = 0 THEN st0
        ELSE CHOOSE new \in {Place(st, fs[i]) : st \in {run[i - 1]}} : TRUE
  IN  run[Len(fs)]

(* The loop: passes until one places nothing, as when all are placed.      *)
(* There are never more useful passes than fragments.                      *)
Placement(frags) ==
  LET fs == Sorted(frags)
      pass[k \in 0..Len(fs)] ==
        IF k = 0 THEN [cands |-> << >>, placed |-> {}]
        ELSE CHOOSE new \in {IF st.placed = frags THEN st ELSE Pass(fs, st) :
                               st \in {pass[k - 1]}} : TRUE
  IN  pass[Len(fs)]

(* Versions contained in a longer one, or in an equal one before, go. *)
Kept(cands) ==
  {i \in DOMAIN cands :
     ~\E j \in DOMAIN cands :
        /\ i # j
        /\ IsPrefix(cands[i], cands[j])
        /\ Len(cands[j]) > Len(cands[i]) \/ j < i}

Ascending(K) ==
  [n \in 1..Cardinality(K) |-> CHOOSE i \in K : Cardinality({j \in K : j < i}) = n - 1]

(* Mutant of Contributors: the fragment a version ends with is not one. *)
ContributorsBefore(content, placed) ==
  {f \in placed : End(f) < Len(content) /\ Agrees(content, f)}

(* The fragments a version is attributed to. *)
Contributors(content, placed) ==
  {f \in placed : End(f) <= Len(content) /\ Agrees(content, f)}

(* The versions reconstruct returns, in its order, with their contributors. *)
Selected(p, kept) ==
  [k \in DOMAIN kept |->
     [content |-> p.cands[kept[k]],
      contributors |-> Contributors(p.cands[kept[k]], p.placed)]]

Returned(p) == Selected(p, Ascending(Kept(p.cands)))

VersionSeq(frags) == Returned(Placement(frags))

Versions(frags) == ToSet(VersionSeq(frags))

(* Their contents alone. *)
Contents(frags) ==
  LET p == Placement(frags)
  IN  {p.cands[i] : i \in Kept(p.cands)}

=============================================================================
