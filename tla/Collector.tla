----------------------------- MODULE Collector -----------------------------
(***************************************************************************)
(* What the collector makes of one source file (observe and completeLines  *)
(* in internal/project/collect.go), and what recomputeOwnState makes of    *)
(* the observations again (internal/project/catchup.go).                   *)
(*                                                                         *)
(* A file is a sequence of lines.  The collector remembers the length and  *)
(* the hash of what it last logged; the model remembers the lines          *)
(* themselves, hashes being taken to be injective.                         *)
(***************************************************************************)
EXTENDS Integers, Sequences, SequencesExt

CONSTANTS
  Torn,   \* the end of a file whose last line is still being written
  None    \* nothing

(* Mutant of CompleteLines: the line still being written is logged too. *)
AllLines(data) == data

(* An append-only file without the line still being written. *)
CompleteLines(data) ==
  IF data # << >> /\ Last(data) = Torn THEN Front(data) ELSE data

(* Mutant of Grew: a longer file has grown. *)
Longer(prev, data) == Len(prev) < Len(data)

(* The file's bytes still begin with the logged ones. *)
Grew(prev, data) == IsStrictPrefix(prev, data)

(* Mutant of Delta: offsets that count from one. *)
DeltaFromOne(prev, data) ==
  [kind |-> "append", off |-> Len(prev) + 1, data |-> SubSeq(data, Len(prev) + 1, Len(data))]

(* The lines that came after the logged ones. *)
Delta(prev, data) ==
  [kind |-> "append", off |-> Len(prev), data |-> SubSeq(data, Len(prev) + 1, Len(data))]

(* What to log for a file holding data when prev was logged last, or None  *)
(* when there is nothing new.                                              *)
Observe(appendOnly, prev, data) ==
  IF data = << >> \/ prev = data THEN None
  ELSE IF appendOnly /\ prev = None THEN [kind |-> "append", off |-> 0, data |-> data]
  ELSE IF appendOnly /\ Grew(prev, data) THEN Delta(prev, data)
  ELSE [kind |-> "snapshot", off |-> 0, data |-> data]

(* The file as this device's observations of it, in order, leave it; None  *)
(* when it has none.                                                       *)
Replay(obs) ==
  LET run[n \in 0..Len(obs)] ==
        IF n = 0 THEN None
        ELSE LET o    == obs[n]
                 prev == IF run[n - 1] = None THEN << >> ELSE run[n - 1]
             IN  IF o.kind = "tombstone" THEN run[n - 1]
                 ELSE IF o.kind = "snapshot" THEN o.data
                 ELSE IF o.off <= Len(prev) THEN SubSeq(prev, 1, o.off) \o o.data
                 ELSE prev
  IN  run[Len(obs)]

=============================================================================
