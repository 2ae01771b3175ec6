----------------------------- MODULE Histories -----------------------------
(***************************************************************************)
(* The copies of one session's file on several devices, what each device's *)
(* collector logs of its copy, and what the projection reconstructs from   *)
(* every set of those observations that may have been delivered.  Between  *)
(* two collections a copy grows, becomes what another device's is (a       *)
(* session resumed elsewhere) or is rewritten (a compaction); one of a     *)
(* source that is logged as snapshots changes at will.  A collector may    *)
(* stop between writing the log and saving its state, and a device may     *)
(* import what the Python archive had of the session.                      *)
(***************************************************************************)
EXTENDS Collector, Reconstruct

INSTANCE Adapters

CONSTANTS
  Devices,      \* numbers, as the code orders device ids
  Copies,       \* for each source, what a copy of the session may hold
  Rewriting,    \* the devices whose copy may be rewritten
  MaxObs        \* bound: observations of a source's session, in all

ASSUME HistoriesAssumption ==
  /\ Devices \subseteq Nat /\ IsFiniteSet(Devices) /\ Rewriting \subseteq Devices
  /\ \A s \in DOMAIN Copies : \A c \in Copies[s] :
       c # << >> /\ c \in Seq({c[i] : i \in DOMAIN c})
  /\ \A s \in DOMAIN Copies : MaxObs[s] \in Nat

VARIABLES
  source,   \* the session's source
  file,     \* each device's copy, as it was last read
  logged,   \* collector_state: what the device last logged, or None
  log,      \* each device's observations of its copy, in order
  imports   \* what each device imported from a Python archive, in order

vars == <<source, file, logged, log, imports>>

Init ==
  /\ source \in DOMAIN Copies
  /\ file = [d \in Devices |-> << >>]
  /\ logged = [d \in Devices |-> None]
  /\ log = [d \in Devices |-> << >>]
  /\ imports = [d \in Devices |-> << >>]

(* What has become of a copy since it was read: it has grown, by itself or *)
(* to what another device has, or was rewritten.                           *)
Becomes(d, data) ==
  AppendOnly(source) => IsPrefix(file[d], data) \/ d \in Rewriting

Positions(logs) == {x \in Devices \X (1..MaxObs[source]) : x[2] \in DOMAIN logs[x[1]]}

Room == Cardinality(Positions(log)) + Cardinality(Positions(imports)) < MaxObs[source]

(* A collection of a copy; saved says whether it got as far as saving the  *)
(* collector's state.                                                      *)
Collect(d, data, saved) ==
  LET o == Observe(AppendOnly(source), logged[d], data)
  IN  /\ o # None
      /\ Room
      /\ file' = [file EXCEPT ![d] = data]
      /\ log' = [log EXCEPT ![d] = Append(@, o)]
      /\ logged' = IF saved THEN [logged EXCEPT ![d] = data] ELSE logged
      /\ UNCHANGED <<source, imports>>

(* import-legacy: readLegacy passes over what was imported already.        *)
ImportLegacy(d, data) ==
  /\ Importable(source, data)
  /\ Legacy(source, data) \notin ToSet(imports[d])
  /\ Room
  /\ imports' = [imports EXCEPT ![d] = Append(@, Legacy(source, data))]
  /\ UNCHANGED <<source, file, logged, log>>

Next ==
  \E d \in Devices : \E data \in Copies[source] :
    \/ \E saved \in BOOLEAN : Becomes(d, data) /\ Collect(d, data, saved)
    \/ ImportLegacy(d, data)

Spec == Init /\ [][Next]_vars

-----------------------------------------------------------------------------
(* fragmentOf: an observation and where it comes from. *)
Fragment(d, n) ==
  [off |-> log[d][n].off, data |-> log[d][n].data, dev |-> d, seq |-> n]

Fragments == {Fragment(x[1], x[2]) : x \in Positions(log)}

(* What the catch-up of some device may have indexed so far. *)
Delivered == SUBSET Fragments

TypeOK ==
  /\ file \in [Devices -> Copies[source] \cup {<< >>}]
  /\ logged \in [Devices -> Copies[source] \cup {None}]
  /\ \A d \in Devices : \A n \in DOMAIN log[d] :
       \E c \in Copies[source] :
         log[d][n].data = SubSeq(c, log[d][n].off + 1, Len(c))
  /\ \A d \in Devices : IsInjective(imports[d])

(* Whatever has been delivered, every fragment is part of a version, with  *)
(* its device among those that saw it, unless no version reaches it yet;   *)
(* and every version has a contributor, which project.order relies on.     *)
NothingDropped ==
  \A S \in Delivered :
    LET vs == Versions(S)
    IN  /\ \A f \in S : \/ \E v \in vs : f \in v.contributors
                        \/ \A v \in vs : Len(v.content) < f.off
        /\ \A v \in vs : v.contributors # {}

(* Logging the same bytes again, as a collector does that stopped before   *)
(* saving its state, changes no version.                                   *)
RelogIgnored ==
  \A S \in Delivered : \A f \in S :
    Contents(S \cup {[f EXCEPT !.seq = MaxObs[source] + 1]}) = Contents(S)

(* A fragment that comes, in reconstruct's order, after one that starts    *)
(* where it does and has all of it, such as a stale copy logged whole,     *)
(* changes no version.                                                     *)
StaleIgnored ==
  \A S \in Delivered : \A f \in Fragments \ S :
    (\E g \in S : g.off = f.off /\ Before(g, f) /\ IsPrefix(f.data, g.data))
      => Contents(S \cup {f}) = Contents(S)

(* Fragments of one history, logged on however many devices and however    *)
(* they overlap, make one version: its lines up to the first that was not  *)
(* delivered.                                                              *)
OneHistory ==
  AppendOnly(source) => \A S \in Delivered : \A d \in Devices :
    (\A f \in S : End(f) <= Len(file[d]) /\ Agrees(file[d], f)) =>
      LET Reached(n) == \A i \in 1..n : \E f \in S : f.off < i /\ i <= End(f)
          n == Max({m \in 0..Len(file[d]) : Reached(m)})
      IN  Contents(S) = IF n = 0 THEN {} ELSE {SubSeq(file[d], 1, n)}

=============================================================================
