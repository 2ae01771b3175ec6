-------------------------- MODULE HistoriesProofs --------------------------
(***************************************************************************)
(* Proofs about Histories: what any number of devices log of the copies of *)
(* a session, whatever the copies hold and become, is what a               *)
(* reconstruction takes; so whatever part of it was delivered, nothing of  *)
(* it is dropped, and a history that every copy is a beginning of makes    *)
(* one version.                                                            *)
(***************************************************************************)
EXTENDS Histories, ReconstructProofs

-----------------------------------------------------------------------------
(* The inductive invariant.                                                *)

(* The lines copies are made of.                                           *)
Lines == UNION {{c[i] : i \in DOMAIN c} : c \in Copies[source]}

(* An observation is all of a copy or its end.                             *)
EndOf(c, o) == o.data = SubSeq(c, o.off + 1, Len(c))

Observations ==
  {o \in [kind : {"append", "snapshot"}, off : Nat, data : Nonempty(Lines)] :
     \E c \in Copies[source] : EndOf(c, o)}

Legacies == {Legacy(source, c) : c \in Copies[source]}

IInv ==
  /\ source \in DOMAIN Copies
  /\ file \in [Devices -> Copies[source] \cup {<< >>}]
  /\ logged \in [Devices -> Copies[source] \cup {None}]
  /\ log \in [Devices -> Seq(Observations)]
  /\ imports \in [Devices -> Seq(Legacies)]
  /\ \A d \in Devices : IsInjective(imports[d])

LEMMA CopyTyped ==
  ASSUME source \in DOMAIN Copies, NEW c \in Copies[source]
  PROVE  c \in Nonempty(Lines) /\ c \in Seq(Lines) /\ Len(c) \in Nat \ {0}
<1> DEFINE R == {c[i] : i \in DOMAIN c}
<1>1. c # << >> /\ c \in Seq(R) BY HistoriesAssumption
<1>2. R \subseteq Lines BY DEF Lines
<1> HIDE DEF R
<1>3. c \in Seq(Lines) BY <1>1, <1>2, SeqMonotonic
<1>4. QED BY <1>1, <1>3 DEF Nonempty

(* What a collector makes of a copy.                                       *)
LEMMA ObserveIs ==
  ASSUME source \in DOMAIN Copies, NEW data \in Copies[source],
         NEW prev \in Copies[source] \cup {None},
         NEW ao, Observe(ao, prev, data) # None
  PROVE  Observe(ao, prev, data) \in Observations
<1> DEFINE o == Observe(ao, prev, data)
           n == Len(data)
<1>1. data \in Nonempty(Lines) /\ data \in Seq(Lines) /\ n \in Nat \ {0} BY CopyTyped
<1>2. data # << >> /\ prev # data BY DEF Observe
<1>3. ASSUME NEW kind \in {"append", "snapshot"}, o = [kind |-> kind, off |-> 0, data |-> data]
      PROVE  o \in Observations
  <2> HIDE DEF o
  <2>1. SubSeq(data, 1, Len(data)) = data BY <1>1, SubSeqFull
  <2>2. o.off = 0 /\ o.data = data BY <1>3
  <2>3. EndOf(data, o) BY <2>1, <2>2 DEF EndOf
  <2>4. o \in [kind : {"append", "snapshot"}, off : Nat, data : Nonempty(Lines)]
    BY <1>1, <1>3
  <2>5. QED BY <2>3, <2>4 DEF Observations
<1>4. CASE ao /\ prev # None /\ Grew(prev, data)
  <2> DEFINE m == Len(prev) + 1
             t == SubSeq(data, m, n)
  <2>1. o = [kind |-> "append", off |-> Len(prev), data |-> t]
    BY <1>2, <1>4 DEF Observe, Delta
  <2>2. prev \in Nonempty(Lines) /\ prev \in Seq(Lines) /\ Len(prev) \in Nat
    BY <1>4, CopyTyped
  <2>3. Continues(data, prev) BY <1>1, <1>4, <2>2, PrefixIs DEF Grew, IsStrictPrefix
  <2>4. Len(prev) < n
    <3>1. Len(prev) <= n /\ \A i \in 1..Len(prev) : data[i] = prev[i] BY <2>3 DEF Continues
    <3>2. CASE Len(prev) = n
      <4>1. prev = data BY <1>1, <2>2, <3>1, <3>2, SeqEqual
      <4>2. QED BY <1>2, <4>1
    <3>3. QED BY <1>1, <2>2, <3>1, <3>2
  <2>5. \A i \in m..n : data[i] \in Lines BY <1>1, <2>2
  <2>6. m \in Int /\ n \in Int /\ m <= n BY <1>1, <2>2, <2>4
  <2> HIDE DEF m, n
  <2>7. t \in Seq(Lines) /\ Len(t) = n - m + 1 BY <2>5, <2>6, SubSeqProperties
  <2> HIDE DEF o
  <2>8. t = SubSeq(data, Len(prev) + 1, Len(data)) BY DEF m, n
  <2> HIDE DEF t
  <2>9. Len(t) # 0 BY <2>6, <2>7
  <2>10. t \in Nonempty(Lines) BY <2>7, <2>9 DEF Nonempty
  <2>11. o \in [kind : {"append", "snapshot"}, off : Nat, data : Nonempty(Lines)]
    BY <2>1, <2>2, <2>10
  <2>12. EndOf(data, o) BY <2>1, <2>8 DEF EndOf
  <2>13. QED BY <2>11, <2>12 DEF o, Observations
<1>5. CASE ~(ao /\ prev # None /\ Grew(prev, data))
  <2>1. CASE ao /\ prev = None
    <3>1. o = [kind |-> "append", off |-> 0, data |-> data] BY <1>2, <2>1 DEF Observe
    <3> HIDE DEF o
    <3>2. QED BY <1>3, <3>1 DEF o
  <2>2. CASE ~(ao /\ prev = None)
    <3>1. o = [kind |-> "snapshot", off |-> 0, data |-> data] BY <1>2, <1>5, <2>2 DEF Observe
    <3> HIDE DEF o
    <3>2. QED BY <1>3, <3>1 DEF o
  <2>3. QED BY <2>1, <2>2
<1>6. QED BY <1>4, <1>5

LEMMA HistoriesInit == Init => IInv
<1> SUFFICES ASSUME Init PROVE IInv OBVIOUS
<1>1. << >> \in Seq(Observations) /\ << >> \in Seq(Legacies) OBVIOUS
<1>2. IsInjective(<< >>) BY DEF IsInjective
<1>3. QED BY <1>1, <1>2 DEF Init, IInv

LEMMA CollectStep ==
  ASSUME IInv, NEW d \in Devices, NEW data \in Copies[source], NEW saved \in BOOLEAN,
         Collect(d, data, saved)
  PROVE  IInv'
<1> DEFINE o == Observe(AppendOnly(source), logged[d], data)
<1>1. /\ o # None /\ file' = [file EXCEPT ![d] = data] /\ log' = [log EXCEPT ![d] = Append(@, o)]
      /\ logged' = IF saved THEN [logged EXCEPT ![d] = data] ELSE logged
      /\ source' = source /\ imports' = imports
  BY DEF Collect
<1>2. source \in DOMAIN Copies /\ logged[d] \in Copies[source] \cup {None} BY DEF IInv
<1>3. o \in Observations BY <1>1, <1>2, ObserveIs
<1> HIDE DEF o
<1>4. Observations' = Observations /\ Legacies' = Legacies
  BY <1>1 DEF Observations, Lines, Legacies
<1>5. log' \in [Devices -> Seq(Observations)]
  <2>1. log \in [Devices -> Seq(Observations)] BY DEF IInv
  <2>2. Append(log[d], o) \in Seq(Observations) BY <1>3, <2>1, AppendProperties
  <2>3. QED BY <1>1, <2>1, <2>2
<1>6. file' \in [Devices -> Copies[source] \cup {<< >>}] BY <1>1 DEF IInv
<1>7. logged' \in [Devices -> Copies[source] \cup {None}] BY <1>1 DEF IInv
<1>8. QED BY <1>1, <1>4, <1>5, <1>6, <1>7 DEF IInv

LEMMA ImportStep ==
  ASSUME IInv, NEW d \in Devices, NEW data \in Copies[source], ImportLegacy(d, data)
  PROVE  IInv'
<1> DEFINE l == Legacy(source, data)
           old == imports[d]
           new == Append(old, l)
<1>1. /\ l \notin ToSet(old) /\ imports' = [imports EXCEPT ![d] = new]
      /\ source' = source /\ file' = file /\ logged' = logged /\ log' = log
  BY DEF ImportLegacy
<1>2. Observations' = Observations /\ Legacies' = Legacies
  BY <1>1 DEF Observations, Lines, Legacies
<1>3. l \in Legacies BY DEF Legacies
<1>4. imports \in [Devices -> Seq(Legacies)] /\ old \in Seq(Legacies) /\ IsInjective(old)
      /\ Len(old) \in Nat
  BY DEF IInv
<1> HIDE DEF l, old
<1>5. /\ new \in Seq(Legacies) /\ Len(new) = Len(old) + 1
      /\ \A i \in 1..Len(old) : new[i] = old[i]
      /\ new[Len(old) + 1] = l
  BY <1>3, <1>4, AppendProperties
<1>6. \A i \in 1..Len(old) : old[i] # l BY <1>1, <1>4 DEF ToSet
<1>7. IsInjective(new)
  <2>1. DOMAIN new = 1..(Len(old) + 1) /\ DOMAIN old = 1..Len(old) BY <1>4, <1>5
  <2> HIDE DEF new
  <2> SUFFICES ASSUME NEW i \in 1..(Len(old) + 1), NEW j \in 1..(Len(old) + 1), new[i] = new[j]
               PROVE  i = j
    BY <2>1 DEF IsInjective
  <2>2. i \in 1..Len(old) \/ i = Len(old) + 1 BY <1>4
  <2>3. j \in 1..Len(old) \/ j = Len(old) + 1 BY <1>4
  <2>4. CASE i \in 1..Len(old) /\ j \in 1..Len(old) BY <1>4, <1>5, <2>1, <2>4 DEF IsInjective
  <2>5. QED BY <1>5, <1>6, <2>2, <2>3, <2>4
<1> HIDE DEF new
<1>8. imports' \in [Devices -> Seq(Legacies)] BY <1>1, <1>4, <1>5
<1>9. \A e \in Devices : IsInjective(imports'[e])
  <2>1. \A e \in Devices : imports'[e] = IF e = d THEN new ELSE imports[e] BY <1>1, <1>4
  <2>2. \A e \in Devices : IsInjective(imports[e]) BY DEF IInv
  <2>3. QED BY <1>7, <2>1, <2>2
<1>10. QED BY <1>1, <1>2, <1>8, <1>9 DEF IInv

LEMMA HistoriesStep == IInv /\ [Next]_vars => IInv'
<1> SUFFICES ASSUME IInv, [Next]_vars PROVE IInv' OBVIOUS
<1>1. CASE Next BY <1>1, CollectStep, ImportStep DEF Next
<1>2. CASE UNCHANGED vars
  BY <1>2 DEF vars, IInv, Observations, Lines, Legacies
<1>3. QED BY <1>1, <1>2

LEMMA Invariant == Spec => []IInv
BY HistoriesInit, HistoriesStep, PTL DEF Spec

(* A copy is one of those it may be, the collector remembers such a one,   *)
(* every observation is all of a copy or its end, and no import is twice   *)
(* there.                                                                  *)
THEOREM HistoriesTyped == Spec => []TypeOK
<1>1. IInv => TypeOK
  <2> SUFFICES ASSUME IInv PROVE TypeOK OBVIOUS
  <2>1. \A d \in Devices : \A n \in DOMAIN log[d] : \E c \in Copies[source] :
          log[d][n].data = SubSeq(c, log[d][n].off + 1, Len(c))
    <3> SUFFICES ASSUME NEW d \in Devices, NEW n \in DOMAIN log[d]
                 PROVE  \E c \in Copies[source] : EndOf(c, log[d][n])
      BY DEF EndOf
    <3>1. log[d] \in Seq(Observations) BY DEF IInv
    <3>2. log[d][n] \in Observations BY <3>1
    <3>3. QED BY <3>2 DEF Observations
  <2>2. QED BY <2>1 DEF IInv, TypeOK
<1>2. QED BY <1>1, Invariant, PTL

-----------------------------------------------------------------------------
(* What is delivered.                                                      *)

LEMMA DeliveredGiven ==
  ASSUME IInv, NEW S \in Delivered
  PROVE  Given(Lines, S)
<1> DEFINE N == 1..MaxObs[source]
<1>1. MaxObs[source] \in Nat /\ IsFiniteSet(Devices) BY HistoriesAssumption DEF IInv
<1>2. \A x \in Positions(log) : x[1] \in Devices /\ x[2] \in N /\ x[2] \in DOMAIN log[x[1]]
  BY DEF Positions
<1>3. IsFiniteSet(Positions(log))
  <2>1. IsFiniteSet(N) BY <1>1, FS_Interval
  <2> HIDE DEF N
  <2>2. IsFiniteSet(Devices \X N) BY <1>1, <2>1, FS_Product
  <2>3. Positions(log) \subseteq Devices \X N BY DEF Positions, N
  <2>4. QED BY <2>2, <2>3, FS_Subset
<1>4. IsFiniteSet(Fragments)
  <2> DEFINE P == Positions(log)
             f == [x \in P |-> Fragment(x[1], x[2])]
  <2>1. Fragments = {Fragment(x[1], x[2]) : x \in P} BY DEF Fragments
  <2> HIDE DEF P
  <2>2. f \in [P -> Fragments] BY <2>1
  <2>3. \A y \in Fragments : \E x \in P : f[x] = y BY <2>1
  <2> HIDE DEF f
  <2>4. f \in Surjection(P, Fragments) BY <2>2, <2>3 DEF Surjection
  <2>5. QED BY <1>3, <2>4, FS_Surjection DEF P
<1>5. S \subseteq Fragments BY DEF Delivered
<1>6. IsFiniteSet(S) BY <1>4, <1>5, FS_Subset
<1>7. \A f \in S : \E x \in Positions(log) : f = Fragment(x[1], x[2]) BY <1>5 DEF Fragments
<1>8. S \in SUBSET FragmentsOver(Lines)
  <2> SUFFICES ASSUME NEW x \in Positions(log) PROVE Fragment(x[1], x[2]) \in FragmentsOver(Lines)
    BY <1>7
  <2>1. x[1] \in Devices /\ x[2] \in N /\ x[2] \in DOMAIN log[x[1]] BY <1>2
  <2>2. log[x[1]] \in Seq(Observations) BY <2>1 DEF IInv
  <2>3. log[x[1]][x[2]] \in Observations BY <2>1, <2>2
  <2>4. log[x[1]][x[2]].off \in Nat /\ log[x[1]][x[2]].data \in Seq(Lines) \ {<< >>}
    BY <2>3 DEF Observations, Nonempty
  <2>5. x[1] \in Nat BY <2>1, HistoriesAssumption
  <2>6. x[2] \in Nat
    <3>1. x[2] \in 1..MaxObs[source] BY ONLY <2>1 DEF N
    <3>2. QED BY ONLY <1>1, <3>1
  <2>7. QED BY <2>4, <2>5, <2>6 DEF Fragment, FragmentsOver
<1>9. Numbered(S)
  <2> SUFFICES ASSUME NEW f \in S, NEW g \in S, f.dev = g.dev, f.seq = g.seq PROVE f = g
    BY DEF Numbered
  <2>1. PICK x \in Positions(log) : f = Fragment(x[1], x[2]) BY <1>7
  <2>2. PICK y \in Positions(log) : g = Fragment(y[1], y[2]) BY <1>7
  <2>3. x[1] = y[1] /\ x[2] = y[2] BY <2>1, <2>2 DEF Fragment
  <2>4. QED BY <2>1, <2>2, <2>3
<1>10. QED BY <1>6, <1>8, <1>9 DEF Given

(* Whatever part of what any number of devices logged has been delivered:  *)
(* every fragment is part of a version, with its device among those that   *)
(* saw it, unless it comes after a gap no version reaches across; and      *)
(* every version has a device that saw it.                                 *)
THEOREM HistoriesNothingDropped == Spec => []NothingDropped
<1>1. IInv => NothingDropped
  <2> SUFFICES ASSUME IInv, NEW S \in Delivered
               PROVE  LET vs == Versions(S)
                      IN  /\ \A f \in S : \/ \E v \in vs : f \in v.contributors
                                          \/ \A v \in vs : Len(v.content) < f.off
                          /\ \A v \in vs : v.contributors # {}
    BY DEF NothingDropped
  <2>1. Given(Lines, S) BY DeliveredGiven
  <2>2. QED BY <2>1, Attributed
<1>2. QED BY <1>1, Invariant, PTL

(* Of an append-only source, whatever was delivered of the history that a  *)
(* device's copy holds, from however many devices and however their        *)
(* observations overlap, makes one version: the lines of that copy up to   *)
(* the first one not delivered.  No divergence is reported where the       *)
(* copies do not differ.                                                   *)
THEOREM HistoriesOneHistory == Spec => []OneHistory
<1>1. IInv => OneHistory
  <2> SUFFICES ASSUME IInv, NEW S \in Delivered, NEW d \in Devices,
                      \A f \in S : End(f) <= Len(file[d]) /\ Agrees(file[d], f)
               PROVE  LET R(n) == \A i \in 1..n : \E f \in S : f.off < i /\ i <= End(f)
                          n == Max({m \in 0..Len(file[d]) : R(m)})
                      IN  Contents(S) = IF n = 0 THEN {} ELSE {SubSeq(file[d], 1, n)}
    BY DEF OneHistory
  <2> DEFINE H == file[d]
             T == {m \in 0..Len(H) : Reached(S, m)}
             n == Max(T)
  <2>1. Given(Lines, S) BY DeliveredGiven
  <2>2. H \in Seq(Lines) /\ Len(H) \in Nat
    <3>1. H \in Copies[source] \/ H = << >> BY DEF IInv
    <3>2. CASE H = << >> BY <3>2
    <3>3. CASE H \in Copies[source] BY <3>3, CopyTyped DEF IInv
    <3>4. QED BY <3>1, <3>2, <3>3
  <2>3. \A f \in S : Holds(H, f)
    <3> SUFFICES ASSUME NEW f \in S PROVE Holds(H, f) OBVIOUS
    <3>1. f.off \in Nat /\ Len(f.data) \in Nat /\ End(f) = f.off + Len(f.data)
      BY <2>1 DEF Given, FragmentsOver, End
    <3>2. End(f) <= Len(H) /\ Agrees(H, f) OBVIOUS
    <3> HIDE DEF H
    <3>3. QED BY <2>2, <3>1, <3>2 DEF Agrees, Holds
  <2> HIDE DEF H
  <2>4. T \in SUBSET (0..Len(H)) /\ 0 \in T
    <3>1. Reached(S, 0) BY DEF Reached
    <3>2. QED BY <2>2, <3>1
  <2> HIDE DEF T
  <2>5. n \in T /\ \A m \in T : m <= n
    <3>1. PICK x \in T : \A y \in T : y <= x BY <2>2, <2>4, GreatestOf
    <3>2. \A x1, y1 \in T : y1 <= x1 <=> x1 >= y1 BY <2>2, <2>4
    <3>3. \E x1 \in T : \A y1 \in T : x1 >= y1 BY <3>1, <3>2
    <3>4. Max(T) \in T /\ \A y1 \in T : Max(T) >= y1 BY <3>3 DEF Max
    <3>5. QED BY <3>2, <3>4
  <2>6. n = Max({m \in 0..Len(file[d]) : \A i \in 1..m : \E f \in S : f.off < i /\ i <= End(f)})
    BY DEF T, H, Reached
  <2> HIDE DEF n
  <2>7. n \in 0..Len(H) /\ Reached(S, n) /\ \A m \in 0..Len(H) : Reached(S, m) => m <= n
    BY <2>5 DEF T
  <2>8. Contents(S) = IF n = 0 THEN {} ELSE {SubSeq(H, 1, n)}
    BY <2>1, <2>2, <2>3, <2>7, BeginningReached
  <2>9. QED BY <2>6, <2>8 DEF H
<1>2. QED BY <1>1, Invariant, PTL

(* Bytes a device logs again, as a collector does that stopped before      *)
(* saving its state, change no version, whatever else was delivered.       *)
THEOREM HistoriesRelogIgnored == Spec => []RelogIgnored
<1>1. IInv => RelogIgnored
  <2> SUFFICES ASSUME IInv, NEW S \in Delivered, NEW f \in S
               PROVE  Contents(S \cup {[f EXCEPT !.seq = MaxObs[source] + 1]}) = Contents(S)
    BY DEF RelogIgnored
  <2> DEFINE m == MaxObs[source]
             x == [f EXCEPT !.seq = m + 1]
  <2>1. Given(Lines, S) BY DeliveredGiven
  <2>2. m \in Nat BY HistoriesAssumption DEF IInv
  <2>3. \A g \in S : g.seq \in 1..m
    <3>1. \A y \in Positions(log) : y[2] \in 1..m BY DEF Positions
    <3> HIDE DEF m
    <3>2. \A g \in S : \E y \in Positions(log) : g = Fragment(y[1], y[2])
      BY DEF Delivered, Fragments
    <3>3. QED BY <3>1, <3>2 DEF Fragment
  <2>4. f \in FragmentsOver(Lines) /\ f.seq \in Nat /\ f.seq <= m
    BY <2>1, <2>2, <2>3 DEF Given
  <2> HIDE DEF m
  <2>5. x \in FragmentsOver(Lines) /\ x.seq = m + 1 /\ x.off = f.off /\ x.data = f.data
        /\ x.dev = f.dev
    BY <2>2, <2>4 DEF FragmentsOver
  <2> HIDE DEF x
  <2>6. \A g \in S : g.seq # x.seq BY <2>2, <2>3, <2>5
  <2>7. x \notin S BY <2>6
  <2>8. Given(Lines, S \cup {x})
    <3>1. IsFiniteSet(S \cup {x}) BY <2>1, FS_AddElement DEF Given
    <3>2. Numbered(S \cup {x}) BY <2>1, <2>6 DEF Given, Numbered
    <3>3. QED BY <2>1, <2>5, <3>1, <3>2 DEF Given
  <2>9. Before(f, x)
    <3>1. f.seq < x.seq BY <2>2, <2>4, <2>5
    <3>2. QED BY <2>5, <3>1 DEF Before
  <2>10. Restates(x, f)
    <3>1. Len(f.data) \in Nat BY <2>4 DEF FragmentsOver
    <3>2. QED BY <2>5, <3>1 DEF Restates
  <2>11. Contents(S \cup {x}) = Contents(S) BY <2>1, <2>7, <2>8, <2>9, <2>10, Restated
  <2>12. QED BY <2>11 DEF x, m
<1>2. QED BY <1>1, Invariant, PTL

(* A fragment that comes after one that starts where it does and has all   *)
(* of it, such as a stale copy logged whole, changes no version, whatever  *)
(* else was delivered and in whichever order.                              *)
THEOREM HistoriesStaleIgnored == Spec => []StaleIgnored
<1>1. IInv => StaleIgnored
  <2> SUFFICES ASSUME IInv, NEW S \in Delivered, NEW f \in Fragments \ S, NEW g \in S,
                      g.off = f.off, Before(g, f), IsPrefix(f.data, g.data)
               PROVE  Contents(S \cup {f}) = Contents(S)
    BY DEF StaleIgnored
  <2>1. Given(Lines, S) BY DeliveredGiven
  <2>2. Given(Lines, S \cup {f})
    <3>1. S \cup {f} \in Delivered BY DEF Delivered
    <3>2. QED BY <3>1, DeliveredGiven
  <2>3. f.data \in Nonempty(Lines) /\ g.data \in Nonempty(Lines)
    BY <2>2 DEF Given, FragmentsOver, Nonempty
  <2>4. Restates(f, g)
    <3>1. Len(f.data) <= Len(g.data) /\ \A i \in 1..Len(f.data) : g.data[i] = f.data[i]
      BY <2>3, PrefixIs DEF Continues
    <3>2. QED BY <3>1 DEF Restates
  <2>5. QED BY <2>1, <2>2, <2>4, Restated
<1>2. QED BY <1>1, Invariant, PTL

=============================================================================
