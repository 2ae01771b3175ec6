------------------------- MODULE ReconstructProofs -------------------------
(***************************************************************************)
(* Proofs about Reconstruct, for fragments of any number, length and       *)
(* origin: that its recursive functions are what their equations say, and  *)
(* from that what placing the fragments keeps, and where it ends.          *)
(***************************************************************************)
EXTENDS Reconstruct, FiniteSetTheorems, SequenceTheorems, WellFoundedInduction, TLAPS

-----------------------------------------------------------------------------
(* Numbers.  Sets take the place of predicates, which the provers cannot   *)
(* instantiate.                                                            *)

LEMMA LeastOf ==
  ASSUME NEW T \in SUBSET Nat, T # {}
  PROVE  \E k \in T : \A m \in T : k <= m
<1> DEFINE R == {ss \in Nat \X Nat : ss[1] < ss[2]}
<1>1. IsWellFoundedOn(R, Nat) BY NatLessThanWellFounded DEF OpToRel
<1> HIDE DEF R
<1>2. PICK k \in T : \A m \in T : ~ (<<m, k>> \in R) BY <1>1, WFMin
<1> USE DEF R
<1>3. ASSUME NEW m \in T PROVE k <= m
  <2>1. <<m, k>> \in Nat \X Nat /\ <<m, k>>[1] = m /\ <<m, k>>[2] = k BY <1>2, <1>3
  <2>2. ~(m < k) BY <1>2, <1>3, <2>1
  <2>3. m \in Nat /\ k \in Nat BY <1>2, <1>3
  <2>4. QED BY <2>2, <2>3
<1>4. QED BY <1>3

LEMMA GreatestOf ==
  ASSUME NEW n \in Nat, NEW T \in SUBSET (0..n), T # {}
  PROVE  \E k \in T : \A m \in T : m <= k
<1> DEFINE U == {n - m : m \in T}
<1>1. U \in SUBSET Nat /\ U # {}
  <2>1. \A m \in T : m \in 0..n /\ n - m \in Nat OBVIOUS
  <2>2. QED BY <2>1
<1> HIDE DEF U
<1>2. PICK u \in U : \A m \in U : u <= m BY <1>1, LeastOf
<1>3. PICK k \in T : u = n - k BY <1>2 DEF U
<1>4. ASSUME NEW m \in T PROVE m <= k
  <2>1. n - m \in U BY DEF U
  <2>2. u <= n - m BY <1>2, <2>1
  <2>3. m \in Nat /\ k \in Nat OBVIOUS
  <2>4. QED BY <1>3, <2>2, <2>3
<1>5. QED BY <1>4

(* Induction up to n.                                                      *)
LEMMA UpTo ==
  ASSUME NEW n \in Nat, NEW T, 0 \in T, \A i \in 1..n : i - 1 \in T => i \in T
  PROVE  \A i \in 0..n : i \in T
<1> SUFFICES ASSUME NEW j \in 0..n, j \notin T PROVE FALSE OBVIOUS
<1> DEFINE U == {i \in 0..n : i \notin T}
<1>1. U \in SUBSET Nat /\ U # {} OBVIOUS
<1> HIDE DEF U
<1>2. PICK k \in U : \A m \in U : k <= m BY <1>1, LeastOf
<1>3. k \in 0..n /\ k \notin T BY <1>2 DEF U
<1>4. k \in 1..n /\ k - 1 \in 0..n /\ ~(k <= k - 1) BY <1>3
<1>5. k - 1 \in T BY <1>2, <1>4 DEF U
<1>6. QED BY <1>3, <1>4, <1>5

(* r is what n steps of g make of a.                                       *)
Iterates(r, n, a, g) == r[0] = a /\ \A i \in 1..n : r[i] = g[<<r[i - 1], i>>]

LEMMA Steps ==
  ASSUME NEW n \in Nat, NEW S, NEW a \in S, NEW g \in [S \X (1..n) -> S]
  PROVE  \E r \in [0..n -> S] : Iterates(r, n, a, g)
<1> SUFFICES \E r \in [0..n -> S] : r[0] = a /\ \A i \in 1..n : r[i] = g[<<r[i - 1], i>>]
  BY DEF Iterates
<1> DEFINE Run(m, r) == r[0] = a /\ \A i \in 1..m : r[i] = g[<<r[i - 1], i>>]
           T == {m \in 0..n : \E r \in [0..m -> S] : Run(m, r)}
<1>1. 0 \in T
  <2>1. [i \in 0..0 |-> a] \in [0..0 -> S] OBVIOUS
  <2>2. Run(0, [i \in 0..0 |-> a]) OBVIOUS
  <2> HIDE DEF Run
  <2>3. \E r \in [0..0 -> S] : Run(0, r) BY <2>1, <2>2
  <2>4. QED BY <2>3
<1>2. ASSUME NEW i \in 1..n, i - 1 \in T PROVE i \in T
  <2>1. PICK r \in [0..(i - 1) -> S] : Run(i - 1, r) BY <1>2
  <2> DEFINE q == [j \in 0..i |-> IF j = i THEN g[<<r[i - 1], i>>] ELSE r[j]]
  <2>2. <<r[i - 1], i>> \in S \X (1..n) BY <2>1
  <2>3. q \in [0..i -> S] BY <2>1, <2>2
  <2>4. q[0] = a BY <2>1
  <2>5. ASSUME NEW j \in 1..i PROVE q[j] = g[<<q[j - 1], j>>]
    <3>1. CASE j = i BY <3>1, <2>1
    <3>2. CASE j # i BY <3>2, <2>1
    <3>3. QED BY <3>1, <3>2
  <2>6. Run(i, q) BY <2>4, <2>5
  <2> HIDE DEF Run, q
  <2>7. QED BY <2>3, <2>6
<1> HIDE DEF T
<1>3. n \in T BY <1>1, <1>2, UpTo
<1>4. QED BY <1>3 DEF T

-----------------------------------------------------------------------------
(* One pass.                                                               *)

(* r is what the pass goes through.                                        *)
PassSteps(r, n, fs, st0) ==
  /\ r[0] = st0
  /\ \A i \in 1..n : r[i] = Place(r[i - 1], fs[i])
  /\ Pass(fs, st0) = r[n]

LEMMA PassRun ==
  ASSUME NEW fs, NEW n \in Nat, Len(fs) = n, NEW S, NEW st0 \in S,
         \A st \in S : \A i \in 1..n : Place(st, fs[i]) \in S
  PROVE  \E r \in [0..n -> S] : PassSteps(r, n, fs, st0)
<1> DEFINE Val(f, i) == IF i = 0 THEN st0
                        ELSE CHOOSE new \in {Place(st, fs[i]) : st \in {f[i - 1]}} : TRUE
           g == [x \in S \X (1..n) |-> Place(x[1], fs[x[2]])]
           run == CHOOSE f : f = [i \in 0..n |-> Val(f, i)]
<1>1. \A f : \A i \in 1..n : Val(f, i) = Place(f[i - 1], fs[i])
  <2> SUFFICES ASSUME NEW f, NEW i \in 1..n PROVE Val(f, i) = Place(f[i - 1], fs[i]) OBVIOUS
  <2>1. {Place(st, fs[i]) : st \in {f[i - 1]}} = {Place(f[i - 1], fs[i])} OBVIOUS
  <2>2. QED BY <2>1
<1>2. g \in [S \X (1..n) -> S]
  <2>1. \A x \in S \X (1..n) : x[1] \in S /\ x[2] \in 1..n OBVIOUS
  <2>2. QED BY <2>1
<1>3. PICK q \in [0..n -> S] : Iterates(q, n, st0, g)
  <2> HIDE DEF g
  <2>1. QED BY <1>2, Steps
<1>4. \A i \in 1..n : q[i] = Place(q[i - 1], fs[i])
  <2> SUFFICES ASSUME NEW i \in 1..n PROVE q[i] = Place(q[i - 1], fs[i]) OBVIOUS
  <2>1. q[i - 1] \in S OBVIOUS
  <2>2. <<q[i - 1], i>> \in S \X (1..n) BY <2>1
  <2>3. g[<<q[i - 1], i>>] = Place(q[i - 1], fs[i]) BY <2>2
  <2>4. QED BY <1>3, <2>3 DEF Iterates
<1>5. q = [i \in 0..n |-> Val(q, i)]
  <2>1. \A i \in 0..n : q[i] = Val(q, i) BY <1>1, <1>3, <1>4 DEF Iterates
  <2> HIDE DEF Val
  <2>2. QED BY <2>1
<1>6. run = [i \in 0..n |-> Val(run, i)]
  <2> HIDE DEF Val
  <2>1. QED BY <1>5
<1>7. Pass(fs, st0) = run[n] BY DEF Pass
<1> HIDE DEF run
<1>8. run[0] = st0 BY <1>6
<1>9. \A i \in 1..n : run[i] = Place(run[i - 1], fs[i])
  <2> HIDE DEF Val
  <2>1. \A i \in 1..n : run[i] = Val(run, i) BY <1>6
  <2>2. QED BY <1>1, <2>1
<1>10. \A i \in 0..n : run[i] \in S
  <2> DEFINE T == {i \in 0..n : run[i] \in S}
  <2>1. 0 \in T BY <1>8
  <2>2. ASSUME NEW i \in 1..n, i - 1 \in T PROVE i \in T BY <2>2, <1>9
  <2> HIDE DEF T
  <2>3. \A i \in 0..n : i \in T BY <2>1, <2>2, UpTo
  <2>4. QED BY <2>3 DEF T
<1>11. run \in [0..n -> S]
  <2> HIDE DEF Val
  <2>1. run = [i \in 0..n |-> run[i]] BY <1>6
  <2>2. QED BY <2>1, <1>10
<1>12. PassSteps(run, n, fs, st0) BY <1>7, <1>8, <1>9 DEF PassSteps
<1>13. QED BY <1>11, <1>12

-----------------------------------------------------------------------------
(* A finite set in an order R: every rank below its size is some element's, *)
(* and the element of the last rank comes after all others.                *)

Below(S, R, x) == {y \in S : <<y, x>> \in R}

(* How many are below an element is its place among them.                  *)
Ranked(S, R) ==
  /\ Cardinality(S) \in Nat
  /\ \A x \in S : Cardinality(Below(S, R, x)) \in 0..(Cardinality(S) - 1)
  /\ \A i \in 1..Cardinality(S) :
       \E x \in S : Cardinality(Below(S, R, x)) = i - 1
  /\ \A x \in S : Cardinality(Below(S, R, x)) = Cardinality(S) - 1 =>
       \A y \in S : y = x \/ <<y, x>> \in R
  /\ \A x, y \in S :
       Cardinality(Below(S, R, x)) = Cardinality(Below(S, R, y)) => x = y

LEMMA RanksAre ==
  ASSUME NEW S, IsFiniteSet(S), NEW R,
         \A x \in S : <<x, x>> \notin R,
         \A x, y \in S : x = y \/ <<x, y>> \in R \/ <<y, x>> \in R,
         \A x, y, z \in S : <<x, y>> \in R /\ <<y, z>> \in R => <<x, z>> \in R
  PROVE  Ranked(S, R)
<1> DEFINE B(x) == {y \in S : <<y, x>> \in R}
           n == Cardinality(S)
<1>1. n \in Nat BY FS_CardinalityType
<1>2. \A x \in S : /\ IsFiniteSet(B(x)) /\ Cardinality(B(x)) \in 0..(n - 1)
                   /\ Cardinality(B(x)) = n - 1 => B(x) = S \ {x}
  <2> SUFFICES ASSUME NEW x \in S
               PROVE  /\ IsFiniteSet(B(x)) /\ Cardinality(B(x)) \in 0..(n - 1)
                      /\ Cardinality(B(x)) = n - 1 => B(x) = S \ {x}
    OBVIOUS
  <2>1. IsFiniteSet(S \ {x}) /\ Cardinality(S \ {x}) = n - 1 BY FS_RemoveElement
  <2>2. B(x) \in SUBSET (S \ {x}) OBVIOUS
  <2> HIDE DEF B, n
  <2>3. IsFiniteSet(B(x)) BY <2>1, <2>2, FS_Subset
  <2>4. Cardinality(B(x)) <= n - 1 BY <2>1, <2>2, FS_Subset
  <2>5. Cardinality(B(x)) = n - 1 => B(x) = S \ {x} BY <2>1, <2>2, FS_Subset
  <2>6. Cardinality(B(x)) \in Nat BY <2>3, FS_CardinalityType
  <2>7. QED BY <1>1, <2>3, <2>4, <2>5, <2>6
<1>3. \A x, y \in S : <<x, y>> \in R => Cardinality(B(x)) # Cardinality(B(y))
  <2> SUFFICES ASSUME NEW x \in S, NEW y \in S, <<x, y>> \in R,
                      Cardinality(B(x)) = Cardinality(B(y))
               PROVE  FALSE
    OBVIOUS
  <2>1. B(x) \in SUBSET B(y) OBVIOUS
  <2>2. x \in B(y) /\ x \notin B(x) OBVIOUS
  <2> HIDE DEF B, n
  <2>3. B(x) = B(y) BY <1>2, <2>1, FS_Subset
  <2>4. QED BY <2>2, <2>3
<1> DEFINE r == [x \in S |-> Cardinality(B(x))]
<1>4. r \in Injection(S, 0..(n - 1))
  <2> HIDE DEF B, n
  <2>1. r \in [S -> 0..(n - 1)] BY <1>2
  <2>2. ASSUME NEW x \in S, NEW y \in S, r[x] = r[y] PROVE x = y BY <1>3, <2>2
  <2> HIDE DEF r
  <2>3. QED BY <2>1, <2>2 DEF Injection, IsInjective
<1> HIDE DEF B, n, r
<1>5. IsFiniteSet(0..(n - 1)) /\ Cardinality(0..(n - 1)) = n
  BY <1>1, FS_Interval
<1>6. r \in Surjection(S, 0..(n - 1)) BY <1>4, <1>5, FS_Injection DEF n
<1>7. \A i \in 0..(n - 1) : \E x \in S : r[x] = i BY <1>6 DEF Surjection
<1>8. ASSUME NEW i \in 1..n PROVE \E x \in S : Cardinality(B(x)) = i - 1
  <2>1. i - 1 \in 0..(n - 1) BY <1>1
  <2>2. QED BY <1>7, <2>1 DEF r
<1>9. ASSUME NEW x \in S, Cardinality(B(x)) = n - 1, NEW y \in S PROVE y = x \/ <<y, x>> \in R
  BY <1>2, <1>9 DEF B
<1>10. ASSUME NEW x \in S, NEW y \in S, Cardinality(B(x)) = Cardinality(B(y)) PROVE x = y
  BY <1>3, <1>10
<1>11. QED BY <1>1, <1>2, <1>8, <1>9, <1>10 DEF B, n, Below, Ranked

-----------------------------------------------------------------------------
(* The fragments.                                                          *)

FragmentsOver(L) == [off : Nat, data : Seq(L) \ {<< >>}, dev : Nat, seq : Nat]

(* No two are of one observation.                                          *)
Numbered(frags) == \A f, g \in frags : f.dev = g.dev /\ f.seq = g.seq => f = g

(* Fragments as a reconstruction gets them.                                *)
Given(L, frags) == frags \in SUBSET FragmentsOver(L) /\ IsFiniteSet(frags) /\ Numbered(frags)

(* The order they are sorted in is a strict linear one.                    *)
LEMMA BeforeIs ==
  ASSUME NEW L, NEW frags, Given(L, frags)
  PROVE  /\ \A f \in frags : ~Before(f, f)
         /\ \A f, g \in frags : f = g \/ Before(f, g) \/ Before(g, f)
         /\ \A f, g, h \in frags : Before(f, g) /\ Before(g, h) => Before(f, h)
<1>1. \A f \in frags :
        /\ f.off \in Nat /\ Len(f.data) \in Nat /\ f.dev \in Nat /\ f.seq \in Nat
  BY DEF Given, FragmentsOver
<1>2. \A f \in frags : ~Before(f, f) BY <1>1 DEF Before
<1>3. \A f, g \in frags : f = g \/ Before(f, g) \/ Before(g, f)
  <2> SUFFICES ASSUME NEW f \in frags, NEW g \in frags, ~Before(f, g), ~Before(g, f)
               PROVE  f = g
    OBVIOUS
  <2>1. f.dev = g.dev /\ f.seq = g.seq BY <1>1 DEF Before
  <2>2. QED BY <2>1 DEF Given, Numbered
<1>4. \A f, g, h \in frags : Before(f, g) /\ Before(g, h) => Before(f, h)
  BY <1>1 DEF Before
<1>5. QED BY <1>2, <1>3, <1>4

(* The fragments before one.                                               *)
Preceding(frags, f) == {g \in frags : Before(g, f)}

(* Sorted lists them all, and nothing else, each after those before it.    *)
LEMMA SortedIs ==
  ASSUME NEW L, NEW frags \in SUBSET FragmentsOver(L), IsFiniteSet(frags), Numbered(frags)
  PROVE  /\ Cardinality(frags) \in Nat /\ Len(Sorted(frags)) = Cardinality(frags)
         /\ \A i \in 1..Cardinality(frags) : Sorted(frags)[i] \in frags
         /\ \A f \in frags : \E i \in 1..Cardinality(frags) : Sorted(frags)[i] = f
         /\ \A i \in 1..Cardinality(frags) :
              Cardinality(Preceding(frags, Sorted(frags)[i])) = i - 1
<1> DEFINE n == Cardinality(frags)
           R == {p \in frags \X frags : Before(p[1], p[2])}
           B(f) == {g \in frags : <<g, f>> \in R}
<1>1. \A f, g \in frags : <<f, g>> \in R <=> Before(f, g) OBVIOUS
<1>3. /\ \A f \in frags : ~Before(f, f)
      /\ \A f, g \in frags : f = g \/ Before(f, g) \/ Before(g, f)
      /\ \A f, g, h \in frags : Before(f, g) /\ Before(g, h) => Before(f, h)
  BY BeforeIs DEF Given
<1>6. \A f \in frags : B(f) = {g \in frags : Before(g, f)} BY <1>1
<1> HIDE DEF R
<1>7. /\ n \in Nat
      /\ \A f \in frags : Cardinality(B(f)) \in 0..(n - 1)
      /\ \A i \in 1..n : \E f \in frags : Cardinality(B(f)) = i - 1
      /\ \A f, g \in frags : Cardinality(B(f)) = Cardinality(B(g)) => f = g
  <2>1. \A f \in frags : <<f, f>> \notin R BY <1>1, <1>3
  <2>2. \A f, g \in frags : f = g \/ <<f, g>> \in R \/ <<g, f>> \in R BY <1>1, <1>3
  <2>3. \A f, g, h \in frags : <<f, g>> \in R /\ <<g, h>> \in R => <<f, h>> \in R
    BY <1>1, <1>3
  <2>4. IsFiniteSet(frags) OBVIOUS
  <2>5. \A f \in frags : B(f) = Below(frags, R, f) BY DEF Below
  <2> HIDE DEF B
  <2>6. n \in Nat BY <2>4, FS_CardinalityType
  <2>7. Ranked(frags, R) BY ONLY <2>1, <2>2, <2>3, <2>4, RanksAre
  <2>8. QED BY <2>5, <2>6, <2>7 DEF Ranked
<1> HIDE DEF B
<1> DEFINE At(i) == CHOOSE f \in frags : Cardinality({g \in frags : Before(g, f)}) = i - 1
<1>8. \A i \in 1..n : At(i) \in frags /\ Cardinality(B(At(i))) = i - 1
  <2> SUFFICES ASSUME NEW i \in 1..n
               PROVE  At(i) \in frags /\ Cardinality(B(At(i))) = i - 1
    OBVIOUS
  <2>1. \E f \in frags : Cardinality({g \in frags : Before(g, f)}) = i - 1
    BY <1>6, <1>7
  <2>2. At(i) \in frags /\ Cardinality({g \in frags : Before(g, At(i))}) = i - 1 BY <2>1
  <2> HIDE DEF At
  <2>3. QED BY <1>6, <2>2
<1> HIDE DEF At
<1>9. Sorted(frags) = [i \in 1..n |-> At(i)] BY DEF Sorted, At
<1> HIDE DEF n
<1>10. ASSUME NEW f \in frags PROVE \E i \in 1..n : Sorted(frags)[i] = f
  <2> DEFINE i == Cardinality(B(f)) + 1
  <2>1. i \in 1..n /\ Cardinality(B(f)) = i - 1 BY <1>7
  <2> HIDE DEF i
  <2>2. At(i) = f BY <1>7, <1>8, <2>1
  <2>3. QED BY <1>9, <2>1, <2>2
<1>11. Len(Sorted(frags)) = n BY <1>7, <1>9
<1>12. ASSUME NEW i \in 1..n PROVE Cardinality(Preceding(frags, Sorted(frags)[i])) = i - 1
  <2>1. Sorted(frags)[i] = At(i) BY <1>9
  <2>2. Preceding(frags, At(i)) = B(At(i)) BY <1>6, <1>8 DEF Preceding
  <2>3. QED BY <1>8, <2>1, <2>2
<1>13. QED BY <1>7, <1>8, <1>9, <1>10, <1>11, <1>12 DEF n

-----------------------------------------------------------------------------
(* What one fragment does to the versions.                                 *)

Nonempty(L) == Seq(L) \ {<< >>}

States(L, frags) == [cands : Seq(Nonempty(L)), placed : SUBSET frags]

LEMMA FirstReachingIs ==
  ASSUME NEW L, NEW cands \in Seq(Nonempty(L)), NEW off \in Nat
  PROVE  \/ /\ FirstReaching(cands, off) = 0
            /\ \A i \in DOMAIN cands : Len(cands[i]) < off
         \/ /\ FirstReaching(cands, off) \in DOMAIN cands
            /\ Len(cands[FirstReaching(cands, off)]) >= off
<1> DEFINE I == {i \in 1..Len(cands) : Len(cands[i]) >= off}
<1>1. FirstReaching(cands, off) = IF I # {} THEN Min(I) ELSE 0
  BY DEF FirstReaching, SelectInSeq
<1>2. DOMAIN cands = 1..Len(cands) /\ Len(cands) \in Nat OBVIOUS
<1>3. \A i \in DOMAIN cands : Len(cands[i]) \in Nat BY DEF Nonempty
<1>4. CASE I = {} BY <1>1, <1>2, <1>3, <1>4
<1>5. CASE I # {}
  <2>1. I \in SUBSET Nat BY <1>2
  <2> HIDE DEF I
  <2>2. Min(I) \in I BY <1>5, <2>1, LeastOf DEF Min
  <2>3. QED BY <1>1, <1>2, <1>5, <2>2 DEF I
<1>6. QED BY <1>4, <1>5

(* An extension keeps what is there, and ends in the fragment.             *)
LEMMA ExtendedIs ==
  ASSUME NEW L, NEW c \in Nonempty(L), NEW f \in FragmentsOver(L), Agrees(c, f)
  PROVE  /\ Extended(c, f) \in Nonempty(L)
         /\ Len(Extended(c, f)) = IF End(f) > Len(c) THEN End(f) ELSE Len(c)
         /\ \A i \in 1..Len(c) : Extended(c, f)[i] = c[i]
         /\ \A i \in 1..Len(f.data) : Extended(c, f)[f.off + i] = f.data[i]
<1>1. c \in Seq(L) /\ Len(c) \in Nat \ {0} BY DEF Nonempty
<1>2. f.data \in Seq(L) /\ Len(f.data) \in Nat \ {0} /\ f.off \in Nat BY DEF FragmentsOver
<1>3. f.off <= Len(c) /\ \A i \in 1..Len(f.data) :
        f.off + i <= Len(c) => c[f.off + i] = f.data[i]
  BY DEF Agrees
<1>4. CASE ~(End(f) > Len(c))
  <2>1. Extended(c, f) = c BY <1>4 DEF Extended
  <2>2. f.off + Len(f.data) <= Len(c) BY <1>1, <1>2, <1>4 DEF End
  <2>3. \A i \in 1..Len(f.data) : c[f.off + i] = f.data[i] BY <1>1, <1>2, <1>3, <2>2
  <2>4. QED BY <2>1, <2>3, <1>4
<1>5. CASE End(f) > Len(c)
  <2> DEFINE m == Len(c) - f.off + 1
             t == SubSeq(f.data, m, Len(f.data))
  <2>1. m \in 1..Len(f.data) BY <1>1, <1>2, <1>3, <1>5 DEF End
  <2>2. Extended(c, f) = c \o t BY <1>5 DEF Extended
  <2>3. /\ t \in Seq(L) /\ Len(t) = Len(f.data) - m + 1
        /\ \A i \in 1..Len(t) : t[i] = f.data[m + i - 1]
    <3>1. \A i \in m..Len(f.data) : f.data[i] \in L BY <1>2, <2>1
    <3>2. m \in Int /\ Len(f.data) \in Int /\ m <= Len(f.data) BY <1>2, <2>1
    <3> HIDE DEF m
    <3>3. /\ t \in Seq(L) /\ Len(t) = Len(f.data) - m + 1
          /\ \A i \in 1..Len(f.data) - m + 1 : t[i] = f.data[m + i - 1]
      BY <3>1, <3>2, SubSeqProperties
    <3>4. QED BY <3>3
  <2> HIDE DEF t
  <2> DEFINE d == c \o t
  <2>4. /\ d \in Seq(L) /\ Len(d) = Len(c) + Len(t)
        /\ \A i \in 1..Len(c) + Len(t) : d[i] = IF i <= Len(c) THEN c[i] ELSE t[i - Len(c)]
    BY <1>1, <2>3, ConcatProperties
  <2> HIDE DEF d
  <2>5. Len(d) = End(f) BY <1>1, <1>2, <2>3, <2>4 DEF End
  <2>6. d # << >> BY <1>1, <2>3, <2>4
  <2>7. ASSUME NEW i \in 1..Len(f.data) PROVE d[f.off + i] = f.data[i]
    <3>1. CASE f.off + i <= Len(c)
      <4>1. f.off + i \in 1..Len(c) + Len(t) BY <1>1, <1>2, <2>3, <3>1
      <4>2. d[f.off + i] = c[f.off + i] BY <2>4, <3>1, <4>1
      <4>3. QED BY <1>3, <3>1, <4>2
    <3>2. CASE ~(f.off + i <= Len(c))
      <4> DEFINE j == f.off + i - Len(c)
      <4>1. /\ f.off + i \in 1..Len(c) + Len(t) /\ j \in 1..Len(t)
            /\ m + j - 1 = i
        <5>1. i \in Nat /\ 1 <= i /\ i <= Len(f.data) BY <1>2
        <5>2. Len(t) = f.off + Len(f.data) - Len(c) BY <1>1, <1>2, <2>3
        <5>3. /\ Len(c) \in Nat /\ Len(f.data) \in Nat /\ f.off \in Nat
              /\ f.off + i > Len(c) /\ f.off <= Len(c)
          BY <1>1, <1>2, <1>3, <3>2, <5>1
        <5>4. f.off + i \in 1..Len(c) + Len(t) BY ONLY <5>1, <5>2, <5>3
        <5>5. j \in 1..Len(t) BY ONLY <5>1, <5>2, <5>3
        <5>6. m + j - 1 = i BY ONLY <5>1, <5>2, <5>3
        <5>7. QED BY <5>4, <5>5, <5>6
      <4>2. d[f.off + i] = t[j]
        <5>1. d[f.off + i] = IF f.off + i <= Len(c) THEN c[f.off + i] ELSE t[(f.off + i) - Len(c)]
          BY <2>4, <4>1
        <5>2. QED BY <1>1, <1>2, <3>2, <5>1
      <4>3. t[j] = f.data[m + j - 1] BY <2>3, <4>1
      <4>4. QED BY <4>1, <4>2, <4>3
    <3>3. QED BY <3>1, <3>2
  <2>8. \A i \in 1..Len(c) : d[i] = c[i] BY <1>1, <2>3, <2>4
  <2>9. Extended(c, f) = d BY <2>2 DEF d
  <2>10. QED BY <1>5, <2>9, <2>4, <2>5, <2>6, <2>7, <2>8 DEF Nonempty
<1>6. QED BY <1>4, <1>5

(* d begins with c; c has the lines of the fragment where they belong.     *)
Continues(d, c) == Len(c) <= Len(d) /\ \A i \in 1..Len(c) : d[i] = c[i]
Holds(c, f)  == End(f) <= Len(c) /\ \A i \in 1..Len(f.data) : c[f.off + i] = f.data[i]

(* The version a fragment starts or forks.                                 *)
LEMMA ForkIs ==
  ASSUME NEW L, NEW f \in FragmentsOver(L), NEW fork \in Seq(L), Len(fork) = f.off
  PROVE  fork \o f.data \in Nonempty(L) /\ Holds(fork \o f.data, f)
<1> DEFINE d == fork \o f.data
<1>1. f.data \in Seq(L) /\ Len(f.data) \in Nat \ {0} /\ f.off \in Nat BY DEF FragmentsOver
<1>2. /\ d \in Seq(L) /\ Len(d) = Len(fork) + Len(f.data)
      /\ \A i \in 1..Len(fork) + Len(f.data) :
           d[i] = IF i <= Len(fork) THEN fork[i] ELSE f.data[i - Len(fork)]
  BY <1>1, ConcatProperties
<1> HIDE DEF d
<1>3. d # << >> BY <1>1, <1>2
<1>4. End(f) <= Len(d) BY <1>1, <1>2 DEF End
<1>5. ASSUME NEW i \in 1..Len(f.data) PROVE d[f.off + i] = f.data[i]
  <2>1. f.off + i \in 1..f.off + Len(f.data) /\ ~(f.off + i <= f.off) /\ f.off + i - f.off = i
    BY <1>1
  <2>2. d[f.off + i] = IF f.off + i <= f.off THEN fork[f.off + i]
                       ELSE f.data[f.off + i - f.off]
    BY <1>2, <2>1
  <2>3. QED BY <1>1, <2>1, <2>2
<1>6. QED BY <1>2, <1>3, <1>4, <1>5 DEF Nonempty, Holds, d

(* One fragment: either nothing changes, as it is placed or has to wait,   *)
(* or it is placed, no version loses a line, and one has its lines.        *)
Stays(st, f) ==
  /\ Place(st, f) = st
  /\ f \in st.placed \/ (Waits(st.cands, f) /\ ~\E i \in DOMAIN st.cands : Agrees(st.cands[i], f))

Takes(st, f) ==
  LET new == Place(st, f)
  IN  /\ f \notin st.placed /\ new.placed = st.placed \cup {f}
      /\ Len(st.cands) <= Len(new.cands)
      /\ \A i \in 1..Len(st.cands) : Continues(new.cands[i], st.cands[i])
      /\ \E i \in 1..Len(new.cands) : Holds(new.cands[i], f)

LEMMA PlaceIs ==
  ASSUME NEW L, NEW frags \in SUBSET FragmentsOver(L), NEW st \in States(L, frags), NEW f \in frags
  PROVE  Place(st, f) \in States(L, frags) /\ (Stays(st, f) \/ Takes(st, f))
<1> DEFINE cands == st.cands
           new   == Place(st, f)
           fits  == \E i \in DOMAIN cands : Agrees(cands[i], f)
           r     == FirstReaching(cands, f.off)
           fork  == IF f.off = 0 \/ r = 0 THEN << >> ELSE SubSeq(cands[r], 1, f.off)
<1>1. /\ cands \in Seq(Nonempty(L)) /\ DOMAIN cands = 1..Len(cands) /\ Len(cands) \in Nat
      /\ st.placed \in SUBSET frags /\ st = [cands |-> cands, placed |-> st.placed]
      /\ f \in FragmentsOver(L)
  BY DEF States
<1>2. \A i \in 1..Len(cands) : cands[i] \in Nonempty(L) BY <1>1
<1>3. CASE f \in st.placed \/ (~fits /\ Waits(cands, f))
  <2>1. new = st BY <1>3 DEF Place
  <2>2. QED BY <1>3, <2>1 DEF Stays
<1>4. CASE ~(f \in st.placed \/ (~fits /\ Waits(cands, f))) /\ fits
  <2> DEFINE cs == [i \in DOMAIN cands |-> Extended(cands[i], f)]
  <2>1. new = [placed |-> st.placed \cup {f}, cands |-> cs] BY <1>4 DEF Place
  <2>2. \A i \in 1..Len(cands) :
          /\ cs[i] \in Nonempty(L) /\ Continues(cs[i], cands[i])
          /\ Agrees(cands[i], f) => Holds(cs[i], f)
    <3> SUFFICES ASSUME NEW i \in 1..Len(cands)
                 PROVE  /\ Extended(cands[i], f) \in Nonempty(L)
                        /\ Continues(Extended(cands[i], f), cands[i])
                        /\ Agrees(cands[i], f) => Holds(Extended(cands[i], f), f)
      BY <1>1
    <3> DEFINE c == cands[i]
    <3>1. c \in Nonempty(L) /\ Len(c) \in Nat BY <1>2 DEF Nonempty
    <3>2. End(f) \in Int BY <1>1 DEF End, FragmentsOver
    <3>3. CASE Agrees(c, f)
      <4> HIDE DEF c
      <4>1. /\ Extended(c, f) \in Nonempty(L)
            /\ Len(Extended(c, f)) = IF End(f) > Len(c) THEN End(f) ELSE Len(c)
            /\ \A j \in 1..Len(c) : Extended(c, f)[j] = c[j]
            /\ \A j \in 1..Len(f.data) : Extended(c, f)[f.off + j] = f.data[j]
        BY <1>1, <3>1, <3>3, ExtendedIs
      <4>2. Len(c) <= Len(Extended(c, f)) /\ End(f) <= Len(Extended(c, f))
        BY <3>1, <3>2, <4>1
      <4>3. QED BY <4>1, <4>2 DEF Continues, Holds, c
    <3>4. CASE ~Agrees(c, f)
      <4>1. Extended(c, f) = c BY <3>4 DEF Extended
      <4>2. QED BY <3>1, <3>4, <4>1 DEF Continues
    <3>5. QED BY <3>3, <3>4
  <2>3. cs \in Seq(Nonempty(L)) /\ Len(cs) = Len(cands)
    <3> HIDE DEF cands
    <3>1. cs \in [1..Len(cands) -> Nonempty(L)] BY <1>1, <2>2
    <3>2. QED BY <1>1, <3>1
  <2>4. PICK i \in 1..Len(cands) : Agrees(cands[i], f) BY <1>1, <1>4
  <2> HIDE DEF cs, cands, new
  <2>5. /\ new \in [cands : Seq(Nonempty(L)), placed : SUBSET frags]
        /\ new.placed = st.placed \cup {f} /\ new.cands = cs
    BY <1>1, <2>1, <2>3
  <2>6. Holds(cs[i], f) BY <2>2, <2>4
  <2>7. \E j \in 1..Len(cs) : Holds(cs[j], f) BY <2>3, <2>6
  <2>8. Len(cands) <= Len(cs) BY <1>1, <2>3
  <2>9. f \notin st.placed BY <1>4
  <2>10. QED BY <2>2, <2>5, <2>7, <2>8, <2>9 DEF Takes, States, cands, new
<1>5. CASE ~(f \in st.placed \/ (~fits /\ Waits(cands, f))) /\ ~fits
  <2> DEFINE v  == fork \o f.data
             cs == Append(cands, v)
  <2>1. new = [placed |-> st.placed \cup {f}, cands |-> cs] BY <1>5 DEF Place
  <2>2. f.off \in Nat BY <1>1 DEF FragmentsOver
  <2>3. f.off = 0 \/ (r \in 1..Len(cands) /\ Len(cands[r]) >= f.off)
    <3> HIDE DEF cands
    <3>1. f.off = 0 \/ r # 0 BY <1>5 DEF Waits, cands
    <3>2. r = 0 \/ (r \in DOMAIN cands /\ Len(cands[r]) >= f.off)
      BY <1>1, <2>2, FirstReachingIs
    <3>3. QED BY <1>1, <3>1, <3>2
  <2>4. fork \in Seq(L) /\ Len(fork) = f.off
    <3>1. CASE f.off = 0 BY <3>1
    <3>2. CASE f.off # 0
      <4> DEFINE c == cands[r]
      <4>1. c \in Seq(L) /\ Len(c) \in Nat /\ Len(c) >= f.off BY <1>2, <2>3, <3>2 DEF Nonempty
      <4>2. fork = SubSeq(c, 1, f.off)
        <5>1. r # 0 BY <2>3, <3>2, <1>1
        <5>2. QED BY <3>2, <5>1
      <4> HIDE DEF c, fork
      <4>3. \A i \in 1..f.off : c[i] \in L BY <2>2, <4>1
      <4>4. /\ SubSeq(c, 1, f.off) \in Seq(L)
            /\ Len(SubSeq(c, 1, f.off)) = IF 1 <= f.off THEN f.off - 1 + 1 ELSE 0
        BY <2>2, <4>3, SubSeqProperties
      <4>5. QED BY <2>2, <3>2, <4>2, <4>4
    <3>3. QED BY <3>1, <3>2
  <2> HIDE DEF fork, r
  <2>5. v \in Nonempty(L) /\ Holds(v, f) BY <1>1, <2>4, ForkIs
  <2> HIDE DEF v, cands
  <2>6. /\ cs \in Seq(Nonempty(L)) /\ Len(cs) = Len(cands) + 1
        /\ \A i \in 1..Len(cands) : cs[i] = cands[i]
        /\ cs[Len(cands) + 1] = v
    BY <1>1, <2>5, AppendProperties
  <2> HIDE DEF cs, new
  <2>7. /\ new \in [cands : Seq(Nonempty(L)), placed : SUBSET frags]
        /\ new.placed = st.placed \cup {f} /\ new.cands = cs
    BY <1>1, <2>1, <2>6
  <2>8. \A i \in 1..Len(cands) : Continues(cs[i], cands[i])
    <3>1. \A i \in 1..Len(cands) : Len(cands[i]) \in Nat BY <1>2 DEF Nonempty
    <3>2. QED BY <2>6, <3>1 DEF Continues
  <2>9. \E j \in 1..Len(cs) : Holds(cs[j], f)
    <3>1. Len(cands) + 1 \in 1..Len(cs) BY <1>1, <2>6
    <3>2. QED BY <2>5, <2>6, <3>1
  <2>10. Len(cands) <= Len(cs) BY <1>1, <2>6
  <2>11. f \notin st.placed BY <1>5
  <2>12. QED BY <2>7, <2>8, <2>9, <2>10, <2>11 DEF Takes, States, cands, new
<1>6. QED BY <1>3, <1>4, <1>5

-----------------------------------------------------------------------------
(* All passes.                                                             *)

Start == [cands |-> << >>, placed |-> {}]

LEMMA PassIn ==
  ASSUME NEW L, NEW frags, Given(L, frags), NEW S, NEW st0 \in S,
         \A st \in S : \A f \in frags : Place(st, f) \in S
  PROVE  Pass(Sorted(frags), st0) \in S
<1> DEFINE fs == Sorted(frags)
           n  == Cardinality(frags)
<1>1. n \in Nat /\ Len(fs) = n /\ \A i \in 1..n : fs[i] \in frags BY SortedIs DEF Given
<1> HIDE DEF fs, n
<1>2. \A st \in S : \A i \in 1..n : Place(st, fs[i]) \in S BY <1>1
<1>3. PICK r \in [0..n -> S] : PassSteps(r, n, fs, st0)
  BY <1>1, <1>2, PassRun
<1>4. QED BY <1>1, <1>3 DEF PassSteps, fs

(* q is what the passes go through.                                        *)
PlacementSteps(q, frags) ==
  /\ q[0] = Start
  /\ \A k \in 1..Cardinality(frags) :
       q[k] = IF q[k - 1].placed = frags THEN q[k - 1] ELSE Pass(Sorted(frags), q[k - 1])
  /\ Placement(frags) = q[Cardinality(frags)]

LEMMA PlacementRun ==
  ASSUME NEW L, NEW frags, Given(L, frags), NEW S, Start \in S,
         \A st \in S : \A f \in frags : Place(st, f) \in S
  PROVE  \E q \in [0..Cardinality(frags) -> S] : PlacementSteps(q, frags)
<1> DEFINE fs == Sorted(frags)
           n  == Cardinality(frags)
           G(st) == IF st.placed = frags THEN st ELSE Pass(fs, st)
           Val(f, k) == IF k = 0 THEN Start
                        ELSE CHOOSE new \in {G(st) : st \in {f[k - 1]}} : TRUE
           g == [x \in S \X (1..n) |-> G(x[1])]
           run == CHOOSE f : f = [k \in 0..n |-> Val(f, k)]
<1>0. n \in Nat /\ Len(fs) = n BY SortedIs DEF Given
<1>1. \A f : \A k \in 1..n : Val(f, k) = G(f[k - 1])
  <2> SUFFICES ASSUME NEW f, NEW k \in 1..n PROVE Val(f, k) = G(f[k - 1]) OBVIOUS
  <2> HIDE DEF G
  <2>1. {G(st) : st \in {f[k - 1]}} = {G(f[k - 1])} OBVIOUS
  <2>2. QED BY <1>0, <2>1
<1>2. \A st \in S : G(st) \in S BY PassIn
<1>3. g \in [S \X (1..n) -> S]
  <2> HIDE DEF G, n
  <2>1. \A x \in S \X (1..n) : x[1] \in S OBVIOUS
  <2>2. QED BY <1>2, <2>1
<1>4. PICK q \in [0..n -> S] : Iterates(q, n, Start, g)
  <2> HIDE DEF g, n
  <2>1. QED BY <1>0, <1>3, Steps
<1>5. q[0] = Start /\ \A k \in 1..n : q[k] = G(q[k - 1])
  <2> HIDE DEF G, n
  <2> SUFFICES ASSUME NEW k \in 1..n PROVE q[k] = G(q[k - 1]) BY <1>4 DEF Iterates
  <2>1. q[k - 1] \in S BY <1>0
  <2>2. <<q[k - 1], k>> \in S \X (1..n) BY <2>1
  <2>3. g[<<q[k - 1], k>>] = G(q[k - 1]) BY <2>2
  <2>4. QED BY <1>4, <2>3 DEF Iterates
<1>6. q = [k \in 0..n |-> Val(q, k)]
  <2> HIDE DEF G, n
  <2>1. \A k \in 0..n : q[k] = Val(q, k) BY <1>0, <1>1, <1>5
  <2> HIDE DEF Val
  <2>2. QED BY <2>1
<1>7. run = [k \in 0..n |-> Val(run, k)]
  <2> HIDE DEF Val
  <2>1. QED BY <1>6
<1>8. Placement(frags) = run[n] BY <1>0 DEF Placement, Start
<1> HIDE DEF run, n, G
<1>9. run[0] = Start BY <1>0, <1>7
<1>10. \A k \in 1..n : run[k] = G(run[k - 1])
  <2> HIDE DEF Val
  <2>1. \A k \in 1..n : run[k] = Val(run, k) BY <1>0, <1>7
  <2>2. QED BY <1>1, <2>1
<1>11. \A k \in 0..n : run[k] \in S
  <2> DEFINE T == {k \in 0..n : run[k] \in S}
  <2>1. 0 \in T BY <1>0, <1>9
  <2>2. ASSUME NEW k \in 1..n, k - 1 \in T PROVE k \in T BY <2>2, <1>2, <1>10
  <2> HIDE DEF T
  <2>3. \A k \in 0..n : k \in T BY <1>0, <2>1, <2>2, UpTo
  <2>4. QED BY <2>3 DEF T
<1>12. run \in [0..n -> S]
  <2> HIDE DEF Val
  <2>1. run = [k \in 0..n |-> run[k]] BY <1>7
  <2>2. QED BY <2>1, <1>11
<1>13. PlacementSteps(run, frags) BY <1>8, <1>9, <1>10 DEF n, G, PlacementSteps
<1>14. QED BY <1>12, <1>13 DEF n

(* What the empty reconstruction has, and placing a fragment keeps, the    *)
(* reconstruction has.                                                     *)
LEMMA PlacementIn ==
  ASSUME NEW L, NEW frags, Given(L, frags), NEW S, Start \in S,
         \A st \in S : \A f \in frags : Place(st, f) \in S
  PROVE  Placement(frags) \in S
<1>1. Cardinality(frags) \in Nat BY FS_CardinalityType DEF Given
<1>2. PICK q \in [0..Cardinality(frags) -> S] : PlacementSteps(q, frags)
  BY PlacementRun
<1>3. QED BY <1>1, <1>2 DEF PlacementSteps

LEMMA StartTyped ==
  ASSUME NEW L, NEW frags
  PROVE  Start \in States(L, frags)
<1>1. << >> \in Seq(Nonempty(L)) OBVIOUS
<1>2. QED BY <1>1 DEF Start, States

LEMMA PlacementTyped ==
  ASSUME NEW L, NEW frags, Given(L, frags)
  PROVE  Placement(frags) \in States(L, frags)
<1>1. \A st \in States(L, frags) : \A f \in frags : Place(st, f) \in States(L, frags)
  BY PlaceIs DEF Given
<1> DEFINE S == States(L, frags)
<1>2. Start \in S BY StartTyped
<1>3. \A st \in S : \A f \in frags : Place(st, f) \in S BY <1>1
<1> HIDE DEF S
<1>4. Placement(frags) \in S BY <1>2, <1>3, PlacementIn
<1>5. QED BY <1>4 DEF S

(* No fragment has anything left to do.                                    *)
Stuck(st, frags) == \A f \in frags : Stays(st, f)

(* A pass that places nothing changes nothing, and nothing is left to do.  *)
LEMMA PassProgress ==
  ASSUME NEW L, NEW frags, Given(L, frags), NEW st0 \in States(L, frags)
  PROVE  LET new == Pass(Sorted(frags), st0)
         IN  /\ new \in States(L, frags) /\ st0.placed \subseteq new.placed
             /\ Stuck(st0, frags) => new = st0
             /\ new.placed = st0.placed => Stuck(st0, frags)
<1> DEFINE fs  == Sorted(frags)
           n   == Cardinality(frags)
           new == Pass(fs, st0)
           S   == States(L, frags)
<1>1. /\ n \in Nat /\ Len(fs) = n /\ \A i \in 1..n : fs[i] \in frags
      /\ \A f \in frags : \E i \in 1..n : fs[i] = f
  BY SortedIs DEF Given
<1>2. \A st \in S : \A f \in frags : Place(st, f) \in S /\ (Stays(st, f) \/ Takes(st, f))
  BY PlaceIs DEF Given
<1> HIDE DEF fs, n, S
<1>3. \A st \in S : \A i \in 1..n : Place(st, fs[i]) \in S BY <1>1, <1>2
<1>4. st0 \in S BY DEF S
<1>5. PICK r \in [0..n -> S] : PassSteps(r, n, fs, st0) BY <1>1, <1>3, <1>4, PassRun
<1>6. /\ r[0] = st0 /\ new = r[n]
      /\ \A i \in 1..n : r[i] = Place(r[i - 1], fs[i]) /\ r[i - 1] \in S
  BY <1>1, <1>5 DEF PassSteps
<1>7. \A i \in 1..n : r[i - 1].placed \subseteq r[i].placed
  <2> SUFFICES ASSUME NEW i \in 1..n PROVE r[i - 1].placed \subseteq r[i].placed OBVIOUS
  <2>1. Stays(r[i - 1], fs[i]) \/ Takes(r[i - 1], fs[i]) BY <1>1, <1>2, <1>6
  <2>2. QED BY <1>6, <2>1 DEF Stays, Takes
<1>8. \A i \in 0..n : st0.placed \subseteq r[i].placed
  <2> DEFINE T == {i \in 0..n : st0.placed \subseteq r[i].placed}
  <2>1. 0 \in T BY <1>1, <1>6
  <2>2. ASSUME NEW i \in 1..n, i - 1 \in T PROVE i \in T BY <1>7, <2>2
  <2> HIDE DEF T
  <2>3. \A i \in 0..n : i \in T BY <1>1, <2>1, <2>2, UpTo
  <2>4. QED BY <2>3 DEF T
<1>9. Stuck(st0, frags) => new = st0
  <2> SUFFICES ASSUME Stuck(st0, frags) PROVE new = st0 OBVIOUS
  <2> DEFINE T == {i \in 0..n : r[i] = st0}
  <2>1. 0 \in T BY <1>1, <1>6
  <2>2. ASSUME NEW i \in 1..n, i - 1 \in T PROVE i \in T
    <3>1. r[i] = Place(st0, fs[i]) BY <1>6, <2>2
    <3>2. Place(st0, fs[i]) = st0 BY <1>1 DEF Stuck, Stays
    <3>3. QED BY <3>1, <3>2
  <2> HIDE DEF T
  <2>3. \A i \in 0..n : i \in T BY <1>1, <2>1, <2>2, UpTo
  <2>4. QED BY <1>1, <1>6, <2>3 DEF T
<1>10. new.placed = st0.placed => Stuck(st0, frags)
  <2> SUFFICES ASSUME new.placed = st0.placed PROVE Stuck(st0, frags) OBVIOUS
  <2> DEFINE D == {i \in 0..n : r[n - i].placed = st0.placed}
  <2>1. 0 \in D BY <1>1, <1>6
  <2>2. ASSUME NEW i \in 1..n, i - 1 \in D PROVE i \in D
    <3>1. n - i + 1 \in 1..n /\ n - (i - 1) = n - i + 1 /\ (n - i + 1) - 1 = n - i BY <1>1
    <3>2. r[n - i].placed \subseteq r[n - i + 1].placed BY <1>7, <3>1
    <3>3. n - i \in 0..n BY <1>1
    <3>4. st0.placed \subseteq r[n - i].placed BY <1>8, <3>3
    <3>5. r[n - i + 1].placed = st0.placed BY <2>2, <3>1
    <3>6. r[n - i].placed = st0.placed BY <3>2, <3>4, <3>5
    <3>7. QED BY <3>6
  <2>3. \A i \in 0..n : i \in D
    <3> HIDE DEF D
    <3>1. QED BY <1>1, <2>1, <2>2, UpTo
  <2>4. \A i \in 0..n : r[i].placed = st0.placed
    <3> SUFFICES ASSUME NEW i \in 0..n PROVE r[i].placed = st0.placed OBVIOUS
    <3>1. n - i \in 0..n /\ n - (n - i) = i BY <1>1
    <3>2. QED BY <2>3, <3>1
  <2>5. \A i \in 1..n : r[i] = r[i - 1] /\ Stays(r[i - 1], fs[i])
    <3> SUFFICES ASSUME NEW i \in 1..n PROVE r[i] = r[i - 1] /\ Stays(r[i - 1], fs[i]) OBVIOUS
    <3>1. r[i].placed = r[i - 1].placed BY <1>1, <2>4
    <3>2. Stays(r[i - 1], fs[i]) \/ Takes(r[i - 1], fs[i]) BY <1>1, <1>2, <1>6
    <3>3. ~Takes(r[i - 1], fs[i]) BY <1>6, <3>1 DEF Takes
    <3>4. QED BY <1>6, <3>2, <3>3 DEF Stays
  <2>6. \A i \in 0..n : r[i] = st0
    <3> DEFINE T == {i \in 0..n : r[i] = st0}
    <3>1. 0 \in T BY <1>1, <1>6
    <3>2. ASSUME NEW i \in 1..n, i - 1 \in T PROVE i \in T BY <2>5, <3>2
    <3> HIDE DEF T
    <3>3. \A i \in 0..n : i \in T BY <1>1, <3>1, <3>2, UpTo
    <3>4. QED BY <3>3 DEF T
  <2>7. ASSUME NEW f \in frags PROVE Stays(st0, f)
    <3>1. PICK i \in 1..n : fs[i] = f BY <1>1
    <3>2. i - 1 \in 0..n BY <1>1
    <3>3. QED BY <2>5, <2>6, <3>1, <3>2
  <2>8. QED BY <2>7 DEF Stuck
<1>11. new \in S /\ st0.placed \subseteq new.placed BY <1>1, <1>5, <1>6, <1>8
<1>12. QED BY <1>9, <1>10, <1>11 DEF S, fs

(* There are enough passes: in the end every fragment is placed, or waits  *)
(* for a start that no version reaches.                                    *)
LEMMA PlacementStuck ==
  ASSUME NEW L, NEW frags, Given(L, frags)
  PROVE  Stuck(Placement(frags), frags)
<1> DEFINE n == Cardinality(frags)
           S == States(L, frags)
<1>1. n \in Nat /\ IsFiniteSet(frags) BY FS_CardinalityType DEF Given
<1>2. Start \in S BY StartTyped
<1>3. \A st \in S : \A f \in frags : Place(st, f) \in S BY PlaceIs DEF Given
<1> HIDE DEF S
<1>4. PICK q \in [0..n -> S] : PlacementSteps(q, frags) BY <1>2, <1>3, PlacementRun
<1> HIDE DEF n
<1>5. /\ Placement(frags) = q[n]
      /\ \A k \in 1..n : q[k] = IF q[k - 1].placed = frags THEN q[k - 1]
                                ELSE Pass(Sorted(frags), q[k - 1])
  BY <1>4 DEF PlacementSteps, n
<1>6. \A k \in 0..n : q[k] \in S /\ IsFiniteSet(q[k].placed) /\ Cardinality(q[k].placed) \in Nat
  <2> SUFFICES ASSUME NEW k \in 0..n
               PROVE  q[k] \in S /\ IsFiniteSet(q[k].placed) /\ Cardinality(q[k].placed) \in Nat
    OBVIOUS
  <2>1. q[k] \in S OBVIOUS
  <2>2. q[k].placed \in SUBSET frags BY <2>1 DEF S, States
  <2>3. IsFiniteSet(q[k].placed) BY <1>1, <2>2, FS_Subset
  <2>4. QED BY <2>1, <2>3, FS_CardinalityType
<1>7. \A k \in 0..n : q[k].placed = frags => Stuck(q[k], frags)
  <2> SUFFICES ASSUME NEW k \in 0..n, q[k].placed = frags, NEW f \in frags
               PROVE  Stays(q[k], f)
    BY DEF Stuck
  <2>1. q[k] \in S BY <1>6
  <2>2. Stays(q[k], f) \/ Takes(q[k], f) BY <2>1, PlaceIs DEF S, Given
  <2>3. QED BY <2>2 DEF Takes
<1> DEFINE T == {k \in 0..n : Stuck(q[k], frags) \/ Cardinality(q[k].placed) >= k}
<1>8. 0 \in T BY <1>1, <1>6
<1>9. ASSUME NEW k \in 1..n, k - 1 \in T PROVE k \in T
  <2> DEFINE old == q[k - 1]
  <2>1. k - 1 \in 0..n /\ k \in 0..n /\ k \in Nat BY <1>1
  <2>2. old \in S BY <1>6, <2>1
  <2>3. CASE old.placed = frags
    <3>1. q[k] = old BY <1>5, <2>3
    <3>2. QED BY <1>7, <2>1, <2>3, <3>1
  <2>4. CASE old.placed # frags
    <3>1. q[k] = Pass(Sorted(frags), old) BY <1>5, <2>4
    <3> HIDE DEF old
    <3>2. /\ old.placed \subseteq q[k].placed
          /\ Stuck(old, frags) => q[k] = old
          /\ q[k].placed = old.placed => Stuck(old, frags)
      BY <2>2, <3>1, PassProgress DEF S
    <3>3. CASE Stuck(old, frags) BY <2>1, <3>2, <3>3
    <3>4. CASE ~Stuck(old, frags)
      <4>1. Cardinality(old.placed) >= k - 1 BY <1>9, <3>4 DEF old
      <4>2. IsFiniteSet(q[k].placed) /\ Cardinality(q[k].placed) \in Nat BY <1>6, <2>1
      <4>3. Cardinality(old.placed) \in Nat BY <1>6, <2>1 DEF old
      <4>4. /\ Cardinality(old.placed) <= Cardinality(q[k].placed)
            /\ Cardinality(old.placed) # Cardinality(q[k].placed)
        BY <3>2, <3>4, <4>2, FS_Subset
      <4>5. Cardinality(q[k].placed) >= k BY <2>1, <4>1, <4>2, <4>3, <4>4
      <4>6. QED BY <2>1, <4>5
    <3>5. QED BY <3>3, <3>4
  <2>5. QED BY <2>3, <2>4
<1>10. \A k \in 0..n : k \in T
  <2> HIDE DEF T
  <2>1. QED BY <1>1, <1>8, <1>9, UpTo
<1>11. Stuck(q[n], frags) \/ Cardinality(q[n].placed) >= n BY <1>1, <1>10
<1>12. CASE Cardinality(q[n].placed) >= n
  <2>1. n \in 0..n BY <1>1
  <2>2. q[n].placed \in SUBSET frags BY <1>6, <2>1 DEF S, States
  <2>3. Cardinality(q[n].placed) <= n BY <1>1, <2>2, FS_Subset DEF n
  <2>4. Cardinality(q[n].placed) = n BY <1>1, <1>6, <1>12, <2>1, <2>3
  <2>5. q[n].placed = frags BY <1>1, <2>2, <2>4, FS_Subset DEF n
  <2>6. QED BY <1>5, <1>7, <2>1, <2>5
<1>13. QED BY <1>5, <1>11, <1>12

(* A version never loses a fragment it has.                                *)
LEMMA PlacedContained ==
  ASSUME NEW L, NEW frags, Given(L, frags)
  PROVE  \A f \in Placement(frags).placed :
           \E i \in 1..Len(Placement(frags).cands) : Holds(Placement(frags).cands[i], f)
<1> DEFINE Has(st) == \A f \in st.placed : \E i \in 1..Len(st.cands) : Holds(st.cands[i], f)
           S == {st \in States(L, frags) : Has(st)}
<1>1. Start \in S BY StartTyped DEF Start
<1>2. ASSUME NEW st \in S, NEW g \in frags PROVE Place(st, g) \in S
  <2> DEFINE new == Place(st, g)
  <2>1. new \in States(L, frags) /\ (Stays(st, g) \/ Takes(st, g)) BY PlaceIs DEF Given
  <2>2. CASE Stays(st, g) BY <2>1, <2>2 DEF Stays
  <2>3. CASE Takes(st, g)
    <3>1. /\ new.placed = st.placed \cup {g}
          /\ Len(st.cands) <= Len(new.cands)
          /\ \A i \in 1..Len(st.cands) : Continues(new.cands[i], st.cands[i])
          /\ \E i \in 1..Len(new.cands) : Holds(new.cands[i], g)
      BY <2>3 DEF Takes
    <3>2. st \in States(L, frags) /\ Has(st) OBVIOUS
    <3>3. /\ st.cands \in Seq(Nonempty(L)) /\ Len(st.cands) \in Nat
          /\ new.cands \in Seq(Nonempty(L)) /\ Len(new.cands) \in Nat
      BY <2>1, <3>2 DEF States
    <3> HIDE DEF new, Has
    <3>4. ASSUME NEW f \in new.placed PROVE \E i \in 1..Len(new.cands) : Holds(new.cands[i], f)
      <4>1. CASE f = g BY <3>1, <4>1
      <4>2. CASE f # g
        <5>1. f \in st.placed BY <3>1, <4>2
        <5>2. PICK i \in 1..Len(st.cands) : Holds(st.cands[i], f) BY <3>2, <5>1 DEF Has
        <5>3. i \in 1..Len(new.cands) /\ Continues(new.cands[i], st.cands[i]) BY <3>1, <3>3
        <5>4. st.cands[i] \in Nonempty(L) /\ new.cands[i] \in Nonempty(L) BY <3>3, <5>3
        <5>5. f \in FragmentsOver(L) BY <3>2, <5>1 DEF Given, States
        <5>6. Holds(new.cands[i], f)
          <6> DEFINE c == st.cands[i]
                     d == new.cands[i]
          <6>1. Len(c) \in Nat /\ Len(d) \in Nat BY <5>4 DEF Nonempty
          <6>2. f.off \in Nat /\ Len(f.data) \in Nat BY <5>5 DEF FragmentsOver
          <6> HIDE DEF c, d
          <6>3. Continues(d, c) /\ Holds(c, f) BY <5>2, <5>3 DEF c, d
          <6>4. ASSUME NEW j \in 1..Len(f.data) PROVE d[f.off + j] = f.data[j]
            <7>1. f.off + j \in 1..Len(c) BY <6>1, <6>2, <6>3 DEF Holds, End
            <7>2. QED BY <6>3, <7>1 DEF Holds, Continues
          <6>5. End(f) <= Len(d) BY <6>1, <6>2, <6>3 DEF Holds, Continues, End
          <6>6. QED BY <6>4, <6>5 DEF Holds, d
        <5>7. QED BY <5>3, <5>6
      <4>3. QED BY <4>1, <4>2
    <3>5. Has(new) BY <3>4 DEF Has
    <3>6. QED BY <2>1, <3>5 DEF new
  <2>4. QED BY <2>1, <2>2, <2>3
<1> HIDE DEF S
<1>3. Placement(frags) \in S BY <1>1, <1>2, PlacementIn
<1>4. QED BY <1>3 DEF S

-----------------------------------------------------------------------------
(* What is kept.                                                           *)

LEMMA PrefixIs ==
  ASSUME NEW L, NEW c \in Nonempty(L), NEW d \in Nonempty(L)
  PROVE  IsPrefix(c, d) <=> Continues(d, c)
<1>1. c \in Seq(L) /\ d \in Seq(L) /\ Len(c) \in Nat /\ Len(d) \in Nat BY DEF Nonempty
<1>2. CASE Len(c) <= Len(d)
  <2> DEFINE s == SubSeq(c, 1, Len(c))
             t == SubSeq(d, 1, Len(c))
  <2>1. s = c BY <1>1, SubSeqFull
  <2>2. /\ t \in Seq(L) /\ Len(t) = Len(c)
        /\ \A i \in 1..Len(c) : t[i] = d[i]
    <3>1. \A i \in 1..Len(c) : d[i] \in L BY <1>1, <1>2
    <3>2. /\ t \in Seq(L) /\ Len(t) = IF 1 <= Len(c) THEN Len(c) - 1 + 1 ELSE 0
          /\ \A i \in 1..Len(c) - 1 + 1 : t[i] = d[1 + i - 1]
      BY <1>1, <3>1, SubSeqProperties
    <3> HIDE DEF t
    <3>3. QED BY <1>1, <3>2
  <2> HIDE DEF s, t
  <2>3. ASSUME \A i \in 1..Len(c) : d[i] = c[i] PROVE t = c
    <3>1. \A i \in 1..Len(t) : t[i] = c[i] BY <2>2, <2>3
    <3>2. QED BY <1>1, <2>2, <3>1, SeqEqual
  <2>4. t = c => \A i \in 1..Len(c) : d[i] = c[i] BY <2>2
  <2>5. s = t <=> \A i \in 1..Len(c) : d[i] = c[i] BY <2>1, <2>3, <2>4
  <2>6. QED BY <1>2, <2>5 DEF IsPrefix, Continues, s, t
<1>3. CASE ~(Len(c) <= Len(d)) BY <1>3 DEF IsPrefix, Continues
<1>4. QED BY <1>2, <1>3

(* The lengths of versions have a bound.                                   *)
LEMMA Longest ==
  ASSUME NEW L, NEW cands \in Seq(Nonempty(L))
  PROVE  \E m \in Nat : \A i \in 1..Len(cands) : Len(cands[i]) <= m
<1> DEFINE n == Len(cands)
           T == {k \in 0..n : \E m \in Nat : \A i \in 1..k : Len(cands[i]) <= m}
<1>1. n \in Nat /\ \A i \in 1..n : Len(cands[i]) \in Nat BY DEF Nonempty
<1> HIDE DEF n
<1>2. 0 \in T BY <1>1
<1>3. ASSUME NEW k \in 1..n, k - 1 \in T PROVE k \in T
  <2>1. PICK m \in Nat : \A i \in 1..(k - 1) : Len(cands[i]) <= m BY <1>3
  <2>2. Len(cands[k]) \in Nat BY <1>1
  <2> DEFINE b == IF Len(cands[k]) > m THEN Len(cands[k]) ELSE m
  <2>3. b \in Nat /\ m <= b /\ Len(cands[k]) <= b BY <2>2
  <2> HIDE DEF b
  <2>4. \A i \in 1..k : Len(cands[i]) <= b
    <3> SUFFICES ASSUME NEW i \in 1..k PROVE Len(cands[i]) <= b OBVIOUS
    <3>1. CASE i = k BY <2>3, <3>1
    <3>2. CASE i # k
      <4>1. i \in 1..(k - 1) /\ Len(cands[i]) \in Nat BY <1>1, <3>2
      <4>2. QED BY <2>1, <2>3, <4>1
    <3>3. QED BY <3>1, <3>2
  <2>5. QED BY <1>1, <2>3, <2>4
<1>4. \A k \in 0..n : k \in T
  <2> HIDE DEF T
  <2>1. QED BY <1>1, <1>2, <1>3, UpTo
<1>5. n \in T
  <2> HIDE DEF T
  <2>1. QED BY <1>1, <1>4
<1>6. QED BY <1>5 DEF n

(* Every version is the beginning of a kept one.                           *)
LEMMA KeptContinues ==
  ASSUME NEW L, NEW cands \in Seq(Nonempty(L)), NEW i \in 1..Len(cands)
  PROVE  \E j \in Kept(cands) : Continues(cands[j], cands[i])
<1> DEFINE J == {j \in 1..Len(cands) : Continues(cands[j], cands[i])}
           W == {Len(cands[j]) : j \in J}
<1>1. DOMAIN cands = 1..Len(cands) /\ Len(cands) \in Nat OBVIOUS
<1>2. \A j \in 1..Len(cands) : cands[j] \in Nonempty(L) /\ Len(cands[j]) \in Nat BY DEF Nonempty
<1>3. i \in J BY <1>2 DEF Continues
<1>4. PICK m \in Nat : \A j \in 1..Len(cands) : Len(cands[j]) <= m BY Longest
<1>5. W \in SUBSET (0..m) /\ W # {} BY <1>2, <1>3, <1>4
<1> HIDE DEF W
<1>6. PICK w \in W : \A v \in W : v <= w BY <1>5, GreatestOf
<1> DEFINE K == {j \in J : Len(cands[j]) = w}
<1>7. K \in SUBSET Nat /\ K # {} BY <1>1, <1>6 DEF W
<1> HIDE DEF K
<1>8. PICK j \in K : \A k \in K : j <= k BY <1>7, LeastOf
<1>9. j \in J /\ Len(cands[j]) = w BY <1>8 DEF K
<1>10. ASSUME NEW k \in DOMAIN cands, j # k, IsPrefix(cands[j], cands[k]),
              Len(cands[k]) > Len(cands[j]) \/ k < j
       PROVE  FALSE
  <2>1. Continues(cands[k], cands[j]) BY <1>1, <1>2, <1>9, <1>10, PrefixIs
  <2>2. Continues(cands[k], cands[i])
    <3>1. Len(cands[i]) \in Nat /\ Len(cands[j]) \in Nat /\ Len(cands[k]) \in Nat
      BY <1>1, <1>2, <1>9
    <3>2. Continues(cands[j], cands[i]) BY <1>9
    <3> HIDE DEF J
    <3>3. QED BY <2>1, <3>1, <3>2 DEF Continues
  <2>3. k \in J BY <1>1, <2>2
  <2>4. Len(cands[k]) \in W BY <2>3 DEF W
  <2>5. Len(cands[k]) <= w /\ Len(cands[j]) <= Len(cands[k]) BY <1>6, <2>1, <2>4 DEF Continues
  <2>6. /\ Len(cands[k]) \in Nat /\ Len(cands[j]) \in Nat /\ k \in Nat /\ j \in Nat
    BY <1>1, <1>2, <1>9
  <2>7. Len(cands[k]) = w /\ k < j BY <1>9, <1>10, <2>5, <2>6
  <2>8. k \in K BY <2>3, <2>7 DEF K
  <2>9. j <= k BY <1>8, <2>8
  <2>10. QED BY <2>6, <2>7, <2>9
<1>11. j \in Kept(cands) BY <1>1, <1>9, <1>10 DEF Kept
<1>12. QED BY <1>9, <1>11

-----------------------------------------------------------------------------
(* What a reconstruction returns.                                          *)

(* Every version is a nonempty sequence of the lines there are.            *)
THEOREM ContentsTyped ==
  ASSUME NEW L, NEW frags, Given(L, frags)
  PROVE  Contents(frags) \subseteq Nonempty(L)
<1> DEFINE p == Placement(frags)
<1>1. p \in States(L, frags) BY PlacementTyped
<1>2. \A i \in DOMAIN p.cands : p.cands[i] \in Nonempty(L) BY <1>1 DEF States
<1>3. Kept(p.cands) \subseteq DOMAIN p.cands BY DEF Kept
<1> HIDE DEF p
<1>4. QED BY <1>2, <1>3 DEF Contents, p

(* Nothing observed is dropped: every fragment has its lines, where they   *)
(* belong, in a version returned, unless it comes after a gap that no      *)
(* version returned reaches across.                                        *)
THEOREM ShownOrWaits ==
  ASSUME NEW L, NEW frags, Given(L, frags), NEW f \in frags
  PROVE  \/ \E v \in Contents(frags) : Holds(v, f)
         \/ f.off # 0 /\ \A v \in Contents(frags) : Len(v) < f.off
<1> DEFINE p == Placement(frags)
           cands == p.cands
<1>1. /\ p \in States(L, frags) /\ Stuck(p, frags)
      /\ \A g \in p.placed : \E i \in 1..Len(cands) : Holds(cands[i], g)
  BY PlacementTyped, PlacementStuck, PlacedContained
<1> HIDE DEF p
<1>2. cands \in Seq(Nonempty(L)) /\ Len(cands) \in Nat /\ DOMAIN cands = 1..Len(cands)
  BY <1>1 DEF States
<1>3. Contents(frags) = {cands[i] : i \in Kept(cands)} BY DEF Contents, p
<1>4. f \in FragmentsOver(L) /\ f.off \in Nat /\ Len(f.data) \in Nat BY DEF Given, FragmentsOver
<1> HIDE DEF cands
<1>5. Kept(cands) \subseteq 1..Len(cands) BY <1>2 DEF Kept
<1>6. CASE f \in p.placed
  <2>1. PICK i \in 1..Len(cands) : Holds(cands[i], f) BY <1>1, <1>6
  <2>2. PICK j \in Kept(cands) : Continues(cands[j], cands[i]) BY <1>2, KeptContinues
  <2> DEFINE c == cands[i]
             d == cands[j]
  <2>3. Len(c) \in Nat /\ Len(d) \in Nat BY <1>2, <1>5 DEF Nonempty
  <2>4. Continues(d, c) /\ Holds(c, f) /\ d \in Contents(frags) BY <1>3, <2>1, <2>2
  <2> HIDE DEF c, d
  <2>5. ASSUME NEW k \in 1..Len(f.data) PROVE d[f.off + k] = f.data[k]
    <3>1. f.off + k \in 1..Len(c) BY <1>4, <2>3, <2>4 DEF Holds, End
    <3>2. QED BY <2>4, <3>1 DEF Holds, Continues
  <2>6. End(f) <= Len(d) BY <1>4, <2>3, <2>4 DEF Holds, Continues, End
  <2>7. Holds(d, f) BY <2>5, <2>6 DEF Holds
  <2>8. QED BY <2>4, <2>7
<1>7. CASE f \notin p.placed
  <2>1. Waits(cands, f) BY <1>1, <1>7 DEF Stuck, Stays, cands
  <2>2. f.off # 0 /\ FirstReaching(cands, f.off) = 0 BY <2>1 DEF Waits
  <2>3. \A i \in 1..Len(cands) : Len(cands[i]) < f.off BY <1>2, <1>4, <2>2, FirstReachingIs
  <2>4. QED BY <1>3, <1>5, <2>2, <2>3
<1>8. QED BY <1>6, <1>7

(* The versions are one, a beginning of the history.                       *)
Beginning(H, versions) == \E n \in 1..Len(H) : versions = {SubSeq(H, 1, n)}

(* Fragments of one history make one version, its beginning as far as they *)
(* reach without a gap, or none: no divergence where there was none.       *)
THEOREM OneVersion ==
  ASSUME NEW L, NEW frags, Given(L, frags), NEW H \in Seq(L),
         \A f \in frags : Holds(H, f)
  PROVE  \/ Contents(frags) = {}
         \/ Beginning(H, Contents(frags))
<1> DEFINE One(st) == \/ st.cands = << >>
                      \/ \E v \in Nonempty(L) : st.cands = <<v>> /\ Continues(H, v)
           S == {st \in States(L, frags) : One(st)}
<1>0. Len(H) \in Nat OBVIOUS
<1>1. Start \in S BY StartTyped DEF Start
<1>2. ASSUME NEW st \in S, NEW f \in frags PROVE Place(st, f) \in S
  <2> DEFINE new == Place(st, f)
  <2>1. new \in States(L, frags) /\ (Stays(st, f) \/ Takes(st, f)) BY PlaceIs DEF Given
  <2>2. /\ f \in FragmentsOver(L) /\ f.off \in Nat /\ f.data \in Seq(L)
        /\ Len(f.data) \in Nat \ {0} /\ End(f) = f.off + Len(f.data)
    BY DEF Given, FragmentsOver, End
  <2>3. f.off + Len(f.data) <= Len(H) /\ \A i \in 1..Len(f.data) : H[f.off + i] = f.data[i]
    BY <2>2 DEF Holds
  <2>4. CASE new = st BY <2>4
  <2>5. CASE new # st
    <3>1. ~(f \in st.placed \/ (~(\E i \in DOMAIN st.cands : Agrees(st.cands[i], f)) /\ Waits(st.cands, f)))
      BY <2>5 DEF Place
    <3>2. CASE st.cands = << >>
      <4>1. FirstReaching(st.cands, f.off) = 0
        <5>1. st.cands \in Seq(Nonempty(L)) BY DEF States
        <5>2. FirstReaching(st.cands, f.off) = 0 \/ FirstReaching(st.cands, f.off) \in DOMAIN st.cands
          BY <2>2, <5>1, FirstReachingIs
        <5>3. DOMAIN st.cands = {} BY <3>2
        <5>4. QED BY <5>2, <5>3
      <4>2. ~\E i \in DOMAIN st.cands : Agrees(st.cands[i], f) BY <3>2
      <4>3. f.off = 0 BY <3>1, <4>1, <4>2 DEF Waits
      <4>4. new.cands = Append(st.cands, << >> \o f.data) BY <3>1, <4>2, <4>3 DEF Place
      <4>5. << >> \o f.data = f.data BY <2>2, ConcatEmptySeq
      <4>6. new.cands = <<f.data>> BY <3>2, <4>4, <4>5
      <4>7. Continues(H, f.data) BY <2>2, <2>3, <4>3 DEF Continues
      <4>8. f.data \in Nonempty(L) BY <2>2 DEF Nonempty
      <4>9. One(new) BY <4>6, <4>7, <4>8
      <4>10. QED BY <2>1, <4>9
    <3>3. ASSUME NEW v \in Nonempty(L), st.cands = <<v>>, Continues(H, v) PROVE One(new)
      <4>0. v \in Seq(L) /\ Len(v) \in Nat \ {0} BY DEF Nonempty
      <4>1. f.off <= Len(v)
        <5>1. CASE f.off = 0 BY <4>0, <5>1
        <5>2. CASE f.off # 0
          <6>1. CASE FirstReaching(st.cands, f.off) = 0
            <7>1. \E i \in DOMAIN st.cands : Agrees(st.cands[i], f)
              BY <3>1, <5>2, <6>1 DEF Waits
            <7>2. Agrees(v, f) BY <3>3, <7>1
            <7>3. QED BY <7>2 DEF Agrees
          <6>2. CASE FirstReaching(st.cands, f.off) # 0
            <7>1. st.cands \in Seq(Nonempty(L)) BY DEF States
            <7>2. /\ FirstReaching(st.cands, f.off) \in DOMAIN st.cands
                  /\ Len(st.cands[FirstReaching(st.cands, f.off)]) >= f.off
              BY <2>2, <6>2, <7>1, FirstReachingIs
            <7>3. FirstReaching(st.cands, f.off) = 1 BY <3>3, <7>2
            <7>4. Len(v) >= f.off BY <3>3, <7>2, <7>3
            <7>5. QED BY <2>2, <4>0, <7>4
          <6>3. QED BY <6>1, <6>2
        <5>3. QED BY <5>1, <5>2
      <4>2. ASSUME NEW i \in 1..Len(f.data), f.off + i <= Len(v)
            PROVE  v[f.off + i] = f.data[i]
        <5>1. f.off + i \in 1..Len(v) BY <2>2, <4>0, <4>2
        <5>2. H[f.off + i] = v[f.off + i] BY <3>3, <5>1 DEF Continues
        <5>3. QED BY <2>3, <5>2
      <4>3. Agrees(v, f) BY <4>1, <4>2 DEF Agrees
      <4>4. \E i \in DOMAIN st.cands : Agrees(st.cands[i], f)
        <5>1. 1 \in DOMAIN st.cands /\ st.cands[1] = v BY <3>3
        <5>2. QED BY <4>3, <5>1
      <4>5. new.cands = [i \in DOMAIN st.cands |-> Extended(st.cands[i], f)]
        BY <3>1, <4>4 DEF Place
      <4>6. new.cands = <<Extended(v, f)>> BY <3>3, <4>5
      <4> DEFINE w == Extended(v, f)
      <4>7. /\ w \in Nonempty(L)
            /\ Len(w) = IF End(f) > Len(v) THEN End(f) ELSE Len(v)
            /\ \A i \in 1..Len(v) : w[i] = v[i]
            /\ \A i \in 1..Len(f.data) : w[f.off + i] = f.data[i]
        BY <2>2, <4>3, ExtendedIs
      <4> HIDE DEF w
      <4>8. Len(v) <= Len(H) BY <3>3 DEF Continues
      <4>9. Len(w) <= Len(H) BY <1>0, <2>2, <2>3, <4>0, <4>7, <4>8
      <4>10. ASSUME NEW i \in 1..Len(w) PROVE H[i] = w[i]
        <5>1. i \in Nat /\ 1 <= i BY <2>2, <4>0, <4>7
        <5>2. CASE i <= Len(v)
          <6>1. i \in 1..Len(v) BY <4>0, <5>1, <5>2
          <6>2. QED BY <3>3, <4>7, <6>1 DEF Continues
        <5>3. CASE ~(i <= Len(v))
          <6> DEFINE j == i - f.off
          <6>1. i <= Len(w) BY <2>2, <4>0, <4>7
          <6>2. j \in 1..Len(f.data) /\ f.off + j = i
            BY <2>2, <4>0, <4>1, <4>7, <5>1, <5>3, <6>1
          <6> HIDE DEF j
          <6>3. H[f.off + j] = f.data[j] /\ w[f.off + j] = f.data[j] BY <2>3, <4>7, <6>2
          <6>4. QED BY <6>2, <6>3
        <5>4. QED BY <5>2, <5>3
      <4>11. Continues(H, w) BY <4>9, <4>10 DEF Continues
      <4>12. new.cands = <<w>> BY <4>6 DEF w
      <4> HIDE DEF new
      <4>13. QED BY <4>7, <4>11, <4>12
    <3>4. One(st) OBVIOUS
    <3>5. One(new) \/ st.cands = << >>
      <4> HIDE DEF new
      <4>1. QED BY <3>3, <3>4
    <3> HIDE DEF One, new
    <3>6. QED BY <2>1, <3>2, <3>5 DEF new
  <2>6. QED BY <2>4, <2>5
<1> HIDE DEF S
<1>3. Placement(frags) \in S BY <1>1, <1>2, PlacementIn
<1> DEFINE cands == Placement(frags).cands
<1>4. One(Placement(frags)) BY <1>3 DEF S
<1>5. Contents(frags) = {cands[i] : i \in Kept(cands)} BY DEF Contents
<1>6. CASE cands = << >>
  <2>1. Kept(cands) = {} BY <1>6 DEF Kept
  <2>2. QED BY <1>5, <2>1
<1>7. ASSUME NEW v \in Nonempty(L), cands = <<v>>, Continues(H, v)
      PROVE  \E n \in 1..Len(H) : Contents(frags) = {SubSeq(H, 1, n)}
  <2>1. Kept(cands) = {1} BY <1>7 DEF Kept
  <2>2. Contents(frags) = {v} BY <1>5, <1>7, <2>1
  <2>3. v \in Seq(L) /\ Len(v) \in Nat \ {0} BY DEF Nonempty
  <2>4. Len(v) \in 1..Len(H) BY <1>0, <1>7, <2>3 DEF Continues
  <2>5. SubSeq(H, 1, Len(v)) = v
    <3> DEFINE t == SubSeq(H, 1, Len(v))
    <3>1. \A i \in 1..Len(v) : H[i] \in L BY <1>0, <2>4
    <3>2. /\ t \in Seq(L) /\ Len(t) = IF 1 <= Len(v) THEN Len(v) - 1 + 1 ELSE 0
          /\ \A i \in 1..Len(v) - 1 + 1 : t[i] = H[1 + i - 1]
      BY <2>3, <3>1, SubSeqProperties
    <3> HIDE DEF t
    <3>3. Len(t) = Len(v) /\ \A i \in 1..Len(t) : t[i] = v[i]
      BY <1>7, <2>3, <3>2 DEF Continues
    <3>4. t = v BY <2>3, <3>2, <3>3, SeqEqual
    <3>5. QED BY <3>4 DEF t
  <2>6. QED BY <2>2, <2>4, <2>5
<1>8. QED BY <1>4, <1>6, <1>7 DEF Beginning

-----------------------------------------------------------------------------
(* What the versions are made of.                                          *)

(* A line of one of the fragments, where it belongs.                       *)
LineOf(frags, i, line) ==
  \E f \in frags : f.off < i /\ i <= End(f) /\ f.data[i - f.off] = line

(* The content is made of fragments, and has all of one of them.           *)
MadeOf(c, frags) ==
  /\ \A i \in 1..Len(c) : LineOf(frags, i, c[i])
  /\ \E f \in frags : Holds(c, f)

LEMMA MadeOfMore ==
  ASSUME NEW c, NEW P, NEW Q, P \subseteq Q, MadeOf(c, P)
  PROVE  MadeOf(c, Q)
BY DEF MadeOf, LineOf

(* A line of a fragment that a content holds.                              *)
LEMMA LineHeld ==
  ASSUME NEW L, NEW f \in FragmentsOver(L), NEW d, Holds(d, f), NEW i \in Nat, f.off < i, i <= End(f),
         NEW P, f \in P
  PROVE  LineOf(P, i, d[i])
<1>1. f.off \in Nat /\ Len(f.data) \in Nat /\ End(f) = f.off + Len(f.data)
  BY DEF FragmentsOver, End
<1> DEFINE j == i - f.off
<1>2. j \in 1..Len(f.data) /\ f.off + j = i BY <1>1
<1> HIDE DEF j
<1>3. d[f.off + j] = f.data[j] BY <1>2 DEF Holds
<1>4. d[i] = f.data[i - f.off] BY <1>2, <1>3 DEF j
<1>5. QED BY <1>4 DEF LineOf

LEMMA ExtendedMade ==
  ASSUME NEW L, NEW c \in Nonempty(L), NEW f \in FragmentsOver(L), NEW P, MadeOf(c, P)
  PROVE  MadeOf(Extended(c, f), P \cup {f})
<1> DEFINE d == Extended(c, f)
           Q == P \cup {f}
<1>1. MadeOf(c, Q) /\ f \in Q BY MadeOfMore
<1>2. Len(c) \in Nat BY DEF Nonempty
<1>3. f.off \in Nat /\ Len(f.data) \in Nat /\ End(f) = f.off + Len(f.data)
  BY DEF FragmentsOver, End
<1> HIDE DEF Q
<1>4. CASE d = c BY <1>1, <1>4 DEF Q
<1>5. CASE Agrees(c, f) /\ End(f) > Len(c)
  <2>1. /\ d \in Nonempty(L) /\ Len(d) = End(f)
        /\ \A i \in 1..Len(c) : d[i] = c[i]
        /\ \A i \in 1..Len(f.data) : d[f.off + i] = f.data[i]
    BY <1>5, ExtendedIs
  <2> HIDE DEF d
  <2>2. Holds(d, f) BY <1>3, <2>1 DEF Holds
  <2>3. ASSUME NEW i \in 1..Len(d) PROVE LineOf(Q, i, d[i])
    <3>1. i \in Nat /\ 1 <= i /\ i <= End(f) BY <1>3, <2>1
    <3>2. CASE i <= Len(c)
      <4>1. i \in 1..Len(c) BY <1>2, <3>1, <3>2
      <4>2. QED BY <1>1, <2>1, <4>1 DEF MadeOf
    <3>3. CASE ~(i <= Len(c))
      <4>1. f.off <= Len(c) BY <1>5 DEF Agrees
      <4>2. f.off < i BY <1>2, <1>3, <3>1, <3>3, <4>1
      <4>3. QED BY <1>1, <2>2, <3>1, <4>2, LineHeld
    <3>4. QED BY <3>2, <3>3
  <2>4. QED BY <1>1, <2>2, <2>3 DEF MadeOf, d, Q
<1>6. QED BY <1>4, <1>5 DEF Extended

(* A fork, or a version from the start when off is 0.                      *)
LEMMA ForkMade ==
  ASSUME NEW L, NEW f \in FragmentsOver(L), NEW P, NEW fork \in Seq(L), Len(fork) = f.off,
         \A i \in 1..Len(fork) : LineOf(P, i, fork[i])
  PROVE  MadeOf(fork \o f.data, P \cup {f})
<1> DEFINE d == fork \o f.data
           Q == P \cup {f}
<1>1. f.data \in Seq(L) /\ Len(f.data) \in Nat /\ f.off \in Nat /\ End(f) = f.off + Len(f.data)
  BY DEF FragmentsOver, End
<1>2. /\ d \in Seq(L) /\ Len(d) = Len(fork) + Len(f.data)
      /\ \A i \in 1..Len(fork) + Len(f.data) :
           d[i] = IF i <= Len(fork) THEN fork[i] ELSE f.data[i - Len(fork)]
  BY <1>1, ConcatProperties
<1>3. Holds(d, f) BY ForkIs
<1>4. f \in Q /\ \A i, l : LineOf(P, i, l) => LineOf(Q, i, l) BY DEF LineOf
<1> HIDE DEF d, Q
<1>5. ASSUME NEW i \in 1..Len(d) PROVE LineOf(Q, i, d[i])
  <2>1. i \in Nat /\ 1 <= i /\ i <= End(f) /\ i \in 1..Len(fork) + Len(f.data) BY <1>1, <1>2
  <2>2. CASE i <= f.off
    <3>1. i \in 1..Len(fork) BY <1>1, <2>1, <2>2
    <3>2. d[i] = fork[i] BY <1>2, <2>1, <2>2
    <3>3. QED BY <1>4, <3>1, <3>2
  <2>3. CASE ~(i <= f.off)
    <3>1. f.off < i BY <1>1, <2>1, <2>3
    <3>2. QED BY <1>3, <1>4, <2>1, <3>1, LineHeld
  <2>4. QED BY <2>2, <2>3
<1>6. QED BY <1>3, <1>4, <1>5 DEF MadeOf, d, Q

(* All versions there are of a state are made of what it has placed.       *)
AllMade(st) == \A i \in 1..Len(st.cands) : MadeOf(st.cands[i], st.placed)

LEMMA PlaceMade ==
  ASSUME NEW L, NEW frags \in SUBSET FragmentsOver(L), NEW st \in States(L, frags), NEW f \in frags,
         AllMade(st)
  PROVE  AllMade(Place(st, f))
<1> DEFINE cands == st.cands
           new   == Place(st, f)
           fits  == \E i \in DOMAIN cands : Agrees(cands[i], f)
           r     == FirstReaching(cands, f.off)
           fork  == IF f.off = 0 \/ r = 0 THEN << >> ELSE SubSeq(cands[r], 1, f.off)
<1>1. /\ cands \in Seq(Nonempty(L)) /\ DOMAIN cands = 1..Len(cands) /\ Len(cands) \in Nat
      /\ f \in FragmentsOver(L)
  BY DEF States
<1>2. \A i \in 1..Len(cands) : cands[i] \in Nonempty(L) /\ MadeOf(cands[i], st.placed)
  BY <1>1 DEF AllMade
<1>3. CASE f \in st.placed \/ (~fits /\ Waits(cands, f))
  <2>1. new = st BY <1>3 DEF Place
  <2>2. QED BY <2>1
<1>4. CASE ~(f \in st.placed \/ (~fits /\ Waits(cands, f))) /\ fits
  <2> DEFINE cs == [i \in DOMAIN cands |-> Extended(cands[i], f)]
  <2>1. new = [placed |-> st.placed \cup {f}, cands |-> cs] BY <1>4 DEF Place
  <2>2. \A i \in 1..Len(cands) : MadeOf(Extended(cands[i], f), st.placed \cup {f})
    BY <1>1, <1>2, ExtendedMade
  <2>3. Len(cs) = Len(cands) /\ \A i \in 1..Len(cands) : cs[i] = Extended(cands[i], f) BY <1>1
  <2> HIDE DEF cs, cands
  <2>4. new.cands = cs /\ new.placed = st.placed \cup {f} BY <2>1
  <2> HIDE DEF new
  <2>5. AllMade(new) BY <2>2, <2>3, <2>4 DEF AllMade
  <2>6. QED BY <2>5 DEF new
<1>5. CASE ~(f \in st.placed \/ (~fits /\ Waits(cands, f))) /\ ~fits
  <2> DEFINE v  == fork \o f.data
             cs == Append(cands, v)
  <2>1. new = [placed |-> st.placed \cup {f}, cands |-> cs] BY <1>5 DEF Place
  <2>2. f.off \in Nat BY <1>1 DEF FragmentsOver
  <2>3. f.off = 0 \/ (r \in 1..Len(cands) /\ Len(cands[r]) >= f.off)
    <3> HIDE DEF cands
    <3>1. f.off = 0 \/ r # 0 BY <1>5 DEF Waits, cands
    <3>2. r = 0 \/ (r \in DOMAIN cands /\ Len(cands[r]) >= f.off)
      BY <1>1, <2>2, FirstReachingIs
    <3>3. QED BY <1>1, <3>1, <3>2
  <2>4. /\ fork \in Seq(L) /\ Len(fork) = f.off
        /\ \A i \in 1..Len(fork) : LineOf(st.placed, i, fork[i])
    <3>1. CASE f.off = 0 BY <3>1
    <3>2. CASE f.off # 0
      <4> DEFINE c == cands[r]
      <4>1. c \in Seq(L) /\ Len(c) \in Nat /\ Len(c) >= f.off BY <1>2, <2>3, <3>2 DEF Nonempty
      <4>2. fork = SubSeq(c, 1, f.off)
        <5>1. r # 0 BY <2>3, <3>2, <1>1
        <5>2. QED BY <3>2, <5>1
      <4>3. MadeOf(c, st.placed) BY <1>2, <2>3, <3>2
      <4> HIDE DEF c, fork
      <4>4. \A i \in 1..f.off : c[i] \in L BY <2>2, <4>1
      <4>5. /\ fork \in Seq(L)
            /\ Len(fork) = IF 1 <= f.off THEN f.off - 1 + 1 ELSE 0
            /\ \A i \in 1..f.off - 1 + 1 : fork[i] = c[1 + i - 1]
        BY <2>2, <4>2, <4>4, SubSeqProperties
      <4>6. Len(fork) = f.off /\ \A i \in 1..f.off : fork[i] = c[i] BY <2>2, <3>2, <4>5
      <4>7. \A i \in 1..f.off : LineOf(st.placed, i, c[i]) BY <2>2, <4>1, <4>3 DEF MadeOf
      <4>8. QED BY <4>5, <4>6, <4>7
    <3>3. QED BY <3>1, <3>2
  <2> HIDE DEF fork, r
  <2>5. MadeOf(v, st.placed \cup {f}) BY <1>1, <2>4, ForkMade
  <2>6. v \in Nonempty(L) BY <1>1, <2>4, ForkIs
  <2> HIDE DEF v, cands
  <2>7. /\ Len(cs) = Len(cands) + 1
        /\ \A i \in 1..Len(cands) : cs[i] = cands[i]
        /\ cs[Len(cands) + 1] = v
    BY <1>1, <2>6, AppendProperties
  <2>8. \A i \in 1..Len(cands) : MadeOf(cands[i], st.placed \cup {f}) BY <1>2, MadeOfMore
  <2> HIDE DEF cs
  <2>9. \A i \in 1..Len(cs) : i \in 1..Len(cands) \/ i = Len(cands) + 1 BY <1>1, <2>7
  <2>10. new.cands = cs /\ new.placed = st.placed \cup {f} BY <2>1
  <2> HIDE DEF new
  <2>11. AllMade(new) BY <2>5, <2>7, <2>8, <2>9, <2>10 DEF AllMade
  <2>12. QED BY <2>11 DEF new
<1>6. QED BY <1>3, <1>4, <1>5

LEMMA PlacementMade ==
  ASSUME NEW L, NEW frags, Given(L, frags)
  PROVE  AllMade(Placement(frags))
<1> DEFINE S == {st \in States(L, frags) : AllMade(st)}
<1>1. Start \in S
  <2>1. AllMade(Start) BY DEF AllMade, Start
  <2>2. QED BY <2>1, StartTyped
<1>2. \A st \in S : \A f \in frags : Place(st, f) \in S BY PlaceIs, PlaceMade DEF Given
<1> HIDE DEF S
<1>3. Placement(frags) \in S BY <1>1, <1>2, PlacementIn
<1>4. QED BY <1>3 DEF S

(* Nothing shown is invented: every line of a version is one observed      *)
(* there, and every version has all of some observation.                   *)
THEOREM NothingInvented ==
  ASSUME NEW L, NEW frags, Given(L, frags), NEW v \in Contents(frags)
  PROVE  MadeOf(v, frags)
<1> DEFINE p == Placement(frags)
<1>1. p \in States(L, frags) /\ AllMade(p) BY PlacementTyped, PlacementMade
<1> HIDE DEF p
<1>2. PICK i \in Kept(p.cands) : v = p.cands[i] BY DEF Contents, p
<1>3. i \in 1..Len(p.cands) /\ p.placed \subseteq frags BY <1>1 DEF Kept, States
<1>4. QED BY <1>1, <1>2, <1>3, MadeOfMore DEF AllMade

(* Ascending lists them all, and nothing else.                             *)
LEMMA AscendingIs ==
  ASSUME NEW K \in SUBSET Nat, IsFiniteSet(K)
  PROVE  {Ascending(K)[n] : n \in DOMAIN Ascending(K)} = K
<1> DEFINE n == Cardinality(K)
           R == {p \in K \X K : p[1] < p[2]}
           B(x) == {j \in K : j < x}
<1>1. \A x, y \in K : <<x, y>> \in R <=> x < y OBVIOUS
<1> HIDE DEF R
<1>2. \A x \in K : Below(K, R, x) = B(x) BY <1>1 DEF Below
<1>3. /\ n \in Nat
      /\ \A x \in K : Cardinality(Below(K, R, x)) \in 0..(n - 1)
      /\ \A i \in 1..n : \E x \in K : Cardinality(Below(K, R, x)) = i - 1
      /\ \A x, y \in K : Cardinality(Below(K, R, x)) = Cardinality(Below(K, R, y)) => x = y
  <2>1. \A x \in K : <<x, x>> \notin R BY <1>1
  <2>2. \A x, y \in K : x = y \/ <<x, y>> \in R \/ <<y, x>> \in R
    <3>1. \A x, y \in Nat : x = y \/ x < y \/ y < x OBVIOUS
    <3>2. QED BY <1>1, <3>1
  <2>3. \A x, y, z \in K : <<x, y>> \in R /\ <<y, z>> \in R => <<x, z>> \in R BY <1>1
  <2>4. IsFiniteSet(K) OBVIOUS
  <2>5. n \in Nat BY <2>4, FS_CardinalityType
  <2> HIDE DEF B
  <2>6. Ranked(K, R) BY ONLY <2>1, <2>2, <2>3, <2>4, RanksAre
  <2>7. QED BY <2>5, <2>6 DEF Ranked
<1> DEFINE At(i) == CHOOSE x \in K : Cardinality(B(x)) = i - 1
<1>4. \A i \in 1..n : At(i) \in K /\ Cardinality(B(At(i))) = i - 1
  <2> SUFFICES ASSUME NEW i \in 1..n PROVE At(i) \in K /\ Cardinality(B(At(i))) = i - 1
    OBVIOUS
  <2> HIDE DEF B
  <2>1. \E x \in K : Cardinality(B(x)) = i - 1 BY <1>2, <1>3
  <2>2. QED BY <2>1
<1>5. Ascending(K) = [i \in 1..n |-> At(i)] BY DEF Ascending
<1> HIDE DEF At, B, n
<1>6. ASSUME NEW x \in K PROVE \E i \in 1..n : At(i) = x
  <2> DEFINE i == Cardinality(B(x)) + 1
  <2>1. i \in 1..n /\ Cardinality(B(x)) = i - 1 BY <1>2, <1>3
  <2> HIDE DEF i
  <2>2. At(i) = x BY <1>2, <1>3, <1>4, <2>1
  <2>3. QED BY <2>1, <2>2
<1>7. DOMAIN Ascending(K) = 1..n /\ \A i \in 1..n : Ascending(K)[i] = At(i) BY <1>5
<1>8. QED BY <1>4, <1>6, <1>7

(* The versions with their contributors.                                   *)
LEMMA VersionsAre ==
  ASSUME NEW L, NEW frags, Given(L, frags)
  PROVE  Versions(frags) =
           {[content |-> Placement(frags).cands[i],
             contributors |-> Contributors(Placement(frags).cands[i], Placement(frags).placed)] :
              i \in Kept(Placement(frags).cands)}
<1> DEFINE p == Placement(frags)
           K == Kept(p.cands)
           a == Ascending(K)
           V(i) == [content |-> p.cands[i], contributors |-> Contributors(p.cands[i], p.placed)]
<1>1. p \in States(L, frags) BY PlacementTyped
<1>2. DOMAIN p.cands = 1..Len(p.cands) /\ Len(p.cands) \in Nat BY <1>1 DEF States
<1>3. K \in SUBSET (1..Len(p.cands)) BY <1>2 DEF Kept
<1>4. K \in SUBSET Nat BY <1>2, <1>3
<1> HIDE DEF p
<1>5. IsFiniteSet(1..Len(p.cands)) BY <1>2, FS_Interval
<1>6. IsFiniteSet(K) BY <1>3, <1>5, FS_Subset
<1>7. {a[n] : n \in DOMAIN a} = K
  <2> HIDE DEF K
  <2>1. QED BY <1>4, <1>6, AscendingIs
<1>8. VersionSeq(frags) = [n \in DOMAIN a |-> V(a[n])]
  BY DEF VersionSeq, Returned, Selected, p
<1>9. Versions(frags) = {V(a[n]) : n \in DOMAIN a}
  <2> HIDE DEF V, a
  <2>1. QED BY <1>8 DEF Versions, ToSet
<1>10. {V(a[n]) : n \in DOMAIN a} = {V(i) : i \in K}
  <2> HIDE DEF V, a, K
  <2>1. QED BY <1>7
<1>11. QED BY <1>9, <1>10 DEF p

(* A version is attributed to the fragments it has all of; every fragment  *)
(* is attributed one, unless it comes after a gap that none reaches        *)
(* across; and every version has a fragment it is attributed to.           *)
THEOREM Attributed ==
  ASSUME NEW L, NEW frags, Given(L, frags)
  PROVE  /\ \A f \in frags : \/ \E v \in Versions(frags) : f \in v.contributors
                             \/ \A v \in Versions(frags) : Len(v.content) < f.off
         /\ \A v \in Versions(frags) : v.contributors # {}
<1> DEFINE p == Placement(frags)
           cands == p.cands
           C(i) == Contributors(cands[i], p.placed)
           V(i) == [content |-> cands[i], contributors |-> C(i)]
<1>1. p \in States(L, frags) /\ Stuck(p, frags) /\ AllMade(p)
  BY PlacementTyped, PlacementStuck, PlacementMade
<1>2. Versions(frags) = {V(i) : i \in Kept(cands)} BY VersionsAre
<1> HIDE DEF p
<1>3. /\ cands \in Seq(Nonempty(L)) /\ Len(cands) \in Nat /\ DOMAIN cands = 1..Len(cands)
      /\ p.placed \subseteq frags
  BY <1>1 DEF States
<1> HIDE DEF cands
<1>4. Kept(cands) \subseteq 1..Len(cands) BY <1>3 DEF Kept
<1>5. \A f \in frags : f.off \in Nat /\ Len(f.data) \in Nat /\ End(f) = f.off + Len(f.data)
  BY DEF Given, FragmentsOver, End
<1>6. \A i \in 1..Len(cands) : Len(cands[i]) \in Nat BY <1>3 DEF Nonempty
<1>7. \A f \in p.placed : \A i \in 1..Len(cands) : Holds(cands[i], f) => f \in C(i)
  <2> SUFFICES ASSUME NEW f \in p.placed, NEW i \in 1..Len(cands), Holds(cands[i], f)
               PROVE  f \in C(i)
    OBVIOUS
  <2>1. f.off <= Len(cands[i]) BY <1>3, <1>5, <1>6 DEF Holds
  <2>2. QED BY <2>1 DEF Contributors, Agrees, Holds
<1>8. ASSUME NEW f \in frags
      PROVE  \/ \E v \in Versions(frags) : f \in v.contributors
             \/ \A v \in Versions(frags) : Len(v.content) < f.off
  <2>1. (\E v \in Contents(frags) : Holds(v, f)) \/ (\A v \in Contents(frags) : Len(v) < f.off)
    BY ShownOrWaits
  <2>2. Contents(frags) = {cands[i] : i \in Kept(cands)} BY DEF Contents, cands, p
  <2>3. CASE \A v \in Contents(frags) : Len(v) < f.off BY <1>2, <2>2, <2>3
  <2>4. CASE \E v \in Contents(frags) : Holds(v, f)
    <3>1. PICK i \in Kept(cands) : Holds(cands[i], f) BY <2>2, <2>4
    <3>2. i \in 1..Len(cands) BY <1>4
    <3>3. f \in p.placed
      <4> SUFFICES ASSUME f \notin p.placed PROVE FALSE OBVIOUS
      <4>1. Waits(cands, f) BY <1>1 DEF Stuck, Stays, cands
      <4>2. FirstReaching(cands, f.off) = 0 BY <4>1 DEF Waits
      <4>3. Len(cands[i]) < f.off BY <1>3, <1>5, <3>2, <4>2, FirstReachingIs
      <4>4. End(f) <= Len(cands[i]) BY <3>1 DEF Holds
      <4>5. QED BY <1>5, <1>6, <3>2, <4>3, <4>4
    <3>4. f \in C(i) BY <1>7, <3>1, <3>2, <3>3
    <3> HIDE DEF C
    <3>5. V(i) \in Versions(frags) /\ V(i).contributors = C(i) BY <1>2
    <3>6. QED BY <3>4, <3>5
  <2>5. QED BY <2>1, <2>3, <2>4
<1>9. ASSUME NEW i \in Kept(cands) PROVE C(i) # {}
  <2>1. i \in 1..Len(cands) BY <1>4
  <2>2. MadeOf(cands[i], p.placed) BY <1>1, <2>1 DEF AllMade, cands
  <2>3. PICK f \in p.placed : Holds(cands[i], f) BY <2>2 DEF MadeOf
  <2>4. QED BY <1>7, <2>1, <2>3
<1>10. \A v \in Versions(frags) : v.contributors # {}
  <2> HIDE DEF C
  <2>1. QED BY <1>2, <1>9
<1>11. QED BY <1>8, <1>10

(* The fragments leave no gap before the n-th line.                        *)
Reached(frags, n) == \A i \in 1..n : \E f \in frags : f.off < i /\ i <= End(f)

(* Fragments of one history make its beginning up to the first line that   *)
(* none of them has, and nothing else.                                     *)
THEOREM BeginningReached ==
  ASSUME NEW L, NEW frags, Given(L, frags), NEW H \in Seq(L), \A f \in frags : Holds(H, f),
         NEW n \in 0..Len(H), Reached(frags, n),
         \A m \in 0..Len(H) : Reached(frags, m) => m <= n
  PROVE  Contents(frags) = IF n = 0 THEN {} ELSE {SubSeq(H, 1, n)}
<1>1. Len(H) \in Nat /\ n \in Nat /\ n <= Len(H) OBVIOUS
<1>2. \A f \in frags : f.off \in Nat /\ End(f) \in Nat
  BY DEF Given, FragmentsOver, End
<1>3. Contents(frags) = {} \/ Beginning(H, Contents(frags)) BY OneVersion
<1>4. CASE Contents(frags) = {}
  <2> SUFFICES ASSUME n # 0 PROVE FALSE BY <1>4
  <2>1. 1 \in 1..n BY <1>1
  <2>2. PICK f \in frags : f.off < 1 /\ 1 <= End(f) BY <2>1 DEF Reached
  <2>3. f.off = 0 BY <1>2, <2>2
  <2>4. QED BY <1>4, <2>3, ShownOrWaits
<1>5. CASE Beginning(H, Contents(frags))
  <2> PICK m \in 1..Len(H) : Contents(frags) = {SubSeq(H, 1, m)} BY <1>5 DEF Beginning
  <2> DEFINE v == SubSeq(H, 1, m)
  <2>1. Contents(frags) = {v} OBVIOUS
  <2>2. m \in Nat /\ 1 <= m /\ m <= Len(H) BY <1>1
  <2>3. Len(v) = m
    <3>1. \A i \in 1..m : H[i] \in L BY <1>1, <2>2
    <3>2. Len(v) = IF 1 <= m THEN m - 1 + 1 ELSE 0 BY <2>2, <3>1, SubSeqProperties
    <3> HIDE DEF v
    <3>3. QED BY <2>2, <3>2
  <2> HIDE DEF v
  <2>4. MadeOf(v, frags) BY <2>1, NothingInvented
  <2>5. Reached(frags, m) BY <2>3, <2>4 DEF MadeOf, LineOf, Reached
  <2>6. m <= n BY <1>1, <2>2, <2>5
  <2>7. ~(m < n)
    <3> SUFFICES ASSUME m < n PROVE FALSE OBVIOUS
    <3>1. m + 1 \in 1..n BY <1>1, <2>2
    <3>2. PICK f \in frags : f.off < m + 1 /\ m + 1 <= End(f) BY <3>1 DEF Reached
    <3>3. Holds(v, f) \/ Len(v) < f.off BY <2>1, ShownOrWaits
    <3>4. End(f) <= m \/ m < f.off BY <2>3, <3>3 DEF Holds
    <3>5. f.off \in Nat /\ End(f) \in Nat BY <1>2
    <3>6. QED BY ONLY <2>2, <3>2, <3>4, <3>5
  <2>8. m = n BY <1>1, <2>2, <2>6, <2>7
  <2>9. n # 0 BY <2>2, <2>8
  <2>10. QED BY <2>1, <2>8, <2>9 DEF v
<1>6. QED BY <1>3, <1>4, <1>5

-----------------------------------------------------------------------------
(* One pass is enough.                                                     *)

LEMMA PrecedingIs ==
  ASSUME NEW L, NEW frags, Given(L, frags), NEW f
  PROVE  IsFiniteSet(Preceding(frags, f)) /\ Cardinality(Preceding(frags, f)) \in Nat
<1>1. Preceding(frags, f) \in SUBSET frags BY DEF Preceding
<1>2. IsFiniteSet(Preceding(frags, f)) BY <1>1, FS_Subset DEF Given
<1>3. QED BY <1>2, FS_CardinalityType

(* The sorted fragments are in order.                                      *)
LEMMA SortedOrder ==
  ASSUME NEW L, NEW frags, Given(L, frags),
         NEW i \in 1..Cardinality(frags), NEW j \in 1..Cardinality(frags), i < j
  PROVE  Before(Sorted(frags)[i], Sorted(frags)[j])
<1> DEFINE f == Sorted(frags)[i]
           g == Sorted(frags)[j]
<1>1. /\ Cardinality(frags) \in Nat /\ f \in frags /\ g \in frags
      /\ Cardinality(Preceding(frags, f)) = i - 1 /\ Cardinality(Preceding(frags, g)) = j - 1
  BY SortedIs DEF Given
<1> HIDE DEF f, g
<1>2. i \in Nat /\ j \in Nat BY <1>1
<1>3. f # g BY <1>1, <1>2
<1>4. ~Before(g, f)
  <2> SUFFICES ASSUME Before(g, f) PROVE FALSE OBVIOUS
  <2>1. Preceding(frags, g) \in SUBSET Preceding(frags, f) BY <1>1, BeforeIs DEF Preceding
  <2>2. Cardinality(Preceding(frags, g)) <= Cardinality(Preceding(frags, f))
    BY <2>1, PrecedingIs, FS_Subset
  <2>3. QED BY <1>1, <1>2, <2>2
<1>5. QED BY <1>1, <1>3, <1>4, BeforeIs DEF f, g

(* Nothing reaches the start of the fragment.                              *)
Beyond(cands, f) == f.off # 0 /\ \A i \in 1..Len(cands) : Len(cands[i]) < f.off

(* What placing a fragment makes of the versions: those it agrees with get *)
(* its lines, the others stay as they are, or there is a new one that ends *)
(* with it.                                                                *)
Grown(old, new, f) ==
  /\ Len(old) <= Len(new)
  /\ \A i \in 1..Len(old) :
       IF Agrees(old[i], f) THEN Continues(new[i], old[i]) /\ Holds(new[i], f)
                            ELSE new[i] = old[i]
  /\ \A i \in 1..Len(new) : i \in 1..Len(old) \/ (Holds(new[i], f) /\ Len(new[i]) = End(f))
  /\ \E i \in 1..Len(new) : Holds(new[i], f)

LEMMA PlaceWaits ==
  ASSUME NEW L, NEW frags \in SUBSET FragmentsOver(L), NEW st \in States(L, frags),
         NEW f \in FragmentsOver(L), Beyond(st.cands, f)
  PROVE  Place(st, f) = st /\ Stays(st, f) /\ \A i \in DOMAIN st.cands : ~Agrees(st.cands[i], f)
<1> DEFINE cands == st.cands
<1>1. /\ cands \in Seq(Nonempty(L)) /\ DOMAIN cands = 1..Len(cands) /\ Len(cands) \in Nat
  BY DEF States
<1>2. \A i \in DOMAIN cands : Len(cands[i]) \in Nat BY <1>1 DEF Nonempty
<1>3. f.off \in Nat BY DEF FragmentsOver
<1>4. \A i \in DOMAIN cands : ~Agrees(cands[i], f) BY <1>1, <1>2, <1>3 DEF Agrees, Beyond
<1>5. FirstReaching(cands, f.off) = 0
  <2>1. \/ FirstReaching(cands, f.off) = 0
        \/ /\ FirstReaching(cands, f.off) \in DOMAIN cands
           /\ Len(cands[FirstReaching(cands, f.off)]) >= f.off
    BY <1>1, <1>3, FirstReachingIs
  <2>2. QED BY <1>1, <1>2, <1>3, <2>1 DEF Beyond
<1>6. Waits(cands, f) BY <1>5 DEF Waits, Beyond
<1>7. Place(st, f) = st BY <1>4, <1>6 DEF Place
<1>8. QED BY <1>4, <1>6, <1>7 DEF Stays

LEMMA PlaceGrows ==
  ASSUME NEW L, NEW frags \in SUBSET FragmentsOver(L), NEW st \in States(L, frags), NEW f \in frags,
         f \notin st.placed, ~Beyond(st.cands, f)
  PROVE  Place(st, f).placed = st.placed \cup {f} /\ Grown(st.cands, Place(st, f).cands, f)
<1> DEFINE cands == st.cands
           new   == Place(st, f)
           fits  == \E i \in DOMAIN cands : Agrees(cands[i], f)
           r     == FirstReaching(cands, f.off)
           fork  == IF f.off = 0 \/ r = 0 THEN << >> ELSE SubSeq(cands[r], 1, f.off)
<1>1. /\ cands \in Seq(Nonempty(L)) /\ DOMAIN cands = 1..Len(cands) /\ Len(cands) \in Nat
      /\ f \in FragmentsOver(L)
  BY DEF States
<1>2. \A i \in 1..Len(cands) : cands[i] \in Nonempty(L) BY <1>1
<1>3. f.off \in Nat /\ f.data \in Seq(L) /\ Len(f.data) \in Nat /\ End(f) = f.off + Len(f.data)
  BY <1>1 DEF FragmentsOver, End
<1>4. r = 0 \/ (r \in DOMAIN cands /\ Len(cands[r]) >= f.off) BY <1>1, <1>3, FirstReachingIs
<1>5. ~Waits(cands, f)
  <2>1. r = 0 => \A i \in DOMAIN cands : Len(cands[i]) < f.off
    <3>1. CASE r = 0 BY <1>1, <1>3, <3>1, FirstReachingIs
    <3>2. QED BY <3>1
  <2>2. QED BY <1>1, <2>1 DEF Waits, Beyond
<1>6. CASE fits
  <2> DEFINE cs == [i \in DOMAIN cands |-> Extended(cands[i], f)]
  <2>1. new = [placed |-> st.placed \cup {f}, cands |-> cs] BY <1>5, <1>6 DEF Place
  <2>2. Len(cs) = Len(cands) /\ \A i \in 1..Len(cands) : cs[i] = Extended(cands[i], f) BY <1>1
  <2>3. ASSUME NEW i \in 1..Len(cands)
        PROVE  IF Agrees(cands[i], f)
               THEN Continues(Extended(cands[i], f), cands[i]) /\ Holds(Extended(cands[i], f), f)
               ELSE Extended(cands[i], f) = cands[i]
    <3> DEFINE c == cands[i]
    <3>1. c \in Nonempty(L) /\ Len(c) \in Nat BY <1>2 DEF Nonempty
    <3> HIDE DEF c
    <3>2. CASE ~Agrees(c, f) BY <3>2 DEF Extended, c
    <3>3. CASE Agrees(c, f)
      <4>1. /\ Len(Extended(c, f)) = IF End(f) > Len(c) THEN End(f) ELSE Len(c)
            /\ \A j \in 1..Len(c) : Extended(c, f)[j] = c[j]
            /\ \A j \in 1..Len(f.data) : Extended(c, f)[f.off + j] = f.data[j]
        BY <1>1, <3>1, <3>3, ExtendedIs
      <4>2. End(f) <= Len(Extended(c, f)) /\ Len(c) <= Len(Extended(c, f)) BY <1>3, <3>1, <4>1
      <4>3. QED BY <3>3, <4>1, <4>2 DEF Continues, Holds, c
    <3>4. QED BY <3>2, <3>3
  <2> HIDE DEF cs, cands
  <2>4. new.cands = cs /\ new.placed = st.placed \cup {f} BY <2>1
  <2>5. Grown(cands, cs, f)
    <3>1. PICK i \in 1..Len(cands) : Agrees(cands[i], f) BY <1>1, <1>6 DEF cands
    <3>2. Holds(cs[i], f) BY <2>2, <2>3, <3>1
    <3>3. QED BY <1>1, <2>2, <2>3, <3>2 DEF Grown
  <2>6. QED BY <2>4, <2>5 DEF cands
<1>7. CASE ~fits
  <2> DEFINE v  == fork \o f.data
             cs == Append(cands, v)
  <2>1. new = [placed |-> st.placed \cup {f}, cands |-> cs] BY <1>5, <1>7 DEF Place
  <2>2. f.off = 0 \/ (r # 0 /\ r \in 1..Len(cands) /\ Len(cands[r]) >= f.off)
    BY <1>1, <1>4, <1>5 DEF Waits
  <2>3. fork \in Seq(L) /\ Len(fork) = f.off
    <3>1. CASE f.off = 0 BY <3>1
    <3>2. CASE f.off # 0
      <4> DEFINE c == cands[r]
      <4>1. c \in Seq(L) /\ Len(c) \in Nat /\ Len(c) >= f.off BY <1>2, <2>2, <3>2 DEF Nonempty
      <4>2. fork = SubSeq(c, 1, f.off) BY <2>2, <3>2
      <4> HIDE DEF c, fork
      <4>3. \A i \in 1..f.off : c[i] \in L BY <1>3, <4>1
      <4>4. /\ fork \in Seq(L)
            /\ Len(fork) = IF 1 <= f.off THEN f.off - 1 + 1 ELSE 0
        BY <1>3, <4>2, <4>3, SubSeqProperties
      <4>5. QED BY <1>3, <3>2, <4>4
    <3>3. QED BY <3>1, <3>2
  <2> HIDE DEF fork, r
  <2>4. v \in Nonempty(L) /\ Holds(v, f) BY <1>1, <2>3, ForkIs
  <2>5. Len(v) = End(f)
    <3>1. Len(v) = Len(fork) + Len(f.data) BY <1>3, <2>3, ConcatProperties
    <3>2. QED BY <1>3, <2>3, <3>1
  <2> HIDE DEF v
  <2>6. /\ Len(cs) = Len(cands) + 1
        /\ \A i \in 1..Len(cands) : cs[i] = cands[i]
        /\ cs[Len(cands) + 1] = v
    BY <1>1, <2>4, AppendProperties
  <2>7. \A i \in 1..Len(cands) : ~Agrees(cands[i], f) BY <1>1, <1>7
  <2> HIDE DEF cs, cands
  <2>8. new.cands = cs /\ new.placed = st.placed \cup {f} BY <2>1
  <2>9. \A i \in 1..Len(cs) : i \in 1..Len(cands) \/ i = Len(cands) + 1 BY <1>1, <2>6
  <2>10. Len(cands) + 1 \in 1..Len(cs) /\ Len(cands) <= Len(cs) BY <1>1, <2>6
  <2>11. Grown(cands, cs, f) BY <2>4, <2>5, <2>6, <2>7, <2>9, <2>10 DEF Grown
  <2>12. QED BY <2>8, <2>11 DEF cands
<1>8. QED BY <1>6, <1>7

(* r is what one pass over the fragments goes through.                     *)
FirstPass(r, frags) ==
  /\ r[0] = Start
  /\ \A i \in 1..Cardinality(frags) : r[i] = Place(r[i - 1], Sorted(frags)[i])
  /\ Pass(Sorted(frags), Start) = r[Cardinality(frags)]

(* What it places up to i are fragments up to i, and what it has placed    *)
(* stays so.                                                               *)
LEMMA FirstPassRun ==
  ASSUME NEW L, NEW frags, Given(L, frags)
  PROVE  \E r \in [0..Cardinality(frags) -> States(L, frags)] :
           /\ FirstPass(r, frags)
           /\ \A i \in 0..Cardinality(frags) :
                \A f \in r[i].placed : \E j \in 1..i : Sorted(frags)[j] = f
<1> DEFINE n  == Cardinality(frags)
           fs == Sorted(frags)
           S  == States(L, frags)
<1>1. n \in Nat /\ Len(fs) = n /\ \A i \in 1..n : fs[i] \in frags BY SortedIs DEF Given
<1>2. Start \in S BY StartTyped
<1>3. \A st \in S : \A f \in frags : Place(st, f) \in S /\ (Stays(st, f) \/ Takes(st, f))
  BY PlaceIs DEF Given
<1> HIDE DEF n, fs, S
<1>4. \A st \in S : \A i \in 1..n : Place(st, fs[i]) \in S BY <1>1, <1>3
<1>5. PICK r \in [0..n -> S] : PassSteps(r, n, fs, Start) BY <1>1, <1>2, <1>4, PassRun
<1>6. FirstPass(r, frags) BY <1>5 DEF PassSteps, FirstPass, n, fs
<1>7. ASSUME NEW i \in 0..n PROVE \A f \in r[i].placed : \E j \in 1..i : fs[j] = f
  <2> DEFINE T == {k \in 0..n : \A f \in r[k].placed : \E j \in 1..k : fs[j] = f}
  <2>1. 0 \in T
    <3>1. r[0] = Start BY <1>5 DEF PassSteps
    <3>2. QED BY <1>1, <3>1 DEF Start
  <2>2. ASSUME NEW k \in 1..n, k - 1 \in T PROVE k \in T
    <3>1. k - 1 \in 0..n /\ k \in Nat BY <1>1
    <3>2. r[k - 1] \in S BY <3>1
    <3>3. r[k] = Place(r[k - 1], fs[k]) BY <1>5 DEF PassSteps
    <3>4. r[k].placed \subseteq r[k - 1].placed \cup {fs[k]}
      <4>1. Stays(r[k - 1], fs[k]) \/ Takes(r[k - 1], fs[k]) BY <1>1, <1>3, <3>2
      <4>2. QED BY <3>3, <4>1 DEF Stays, Takes
    <3>5. \A f \in r[k - 1].placed : \E j \in 1..(k - 1) : fs[j] = f BY <2>2
    <3>6. ASSUME NEW f \in r[k].placed PROVE \E j \in 1..k : fs[j] = f
      <4>1. CASE f = fs[k] BY <3>1, <4>1
      <4>2. CASE f \in r[k - 1].placed BY <3>1, <3>5, <4>2
      <4>3. QED BY <3>4, <4>1, <4>2
    <3>7. QED BY <3>6
  <2> HIDE DEF T
  <2>3. \A k \in 0..n : k \in T BY <1>1, <2>1, <2>2, UpTo
  <2>4. QED BY <2>3 DEF T
<1>8. QED BY <1>6, <1>7 DEF n, fs, S

(* A fragment is not placed before its turn.                               *)
LEMMA NotPlacedYet ==
  ASSUME NEW L, NEW frags, Given(L, frags), NEW i \in 1..Cardinality(frags), NEW P,
         \A f \in P : \E j \in 1..(i - 1) : Sorted(frags)[j] = f
  PROVE  Sorted(frags)[i] \notin P
<1> SUFFICES ASSUME Sorted(frags)[i] \in P PROVE FALSE OBVIOUS
<1>1. PICK j \in 1..(i - 1) : Sorted(frags)[j] = Sorted(frags)[i] OBVIOUS
<1>2. Cardinality(frags) \in Nat BY SortedIs DEF Given
<1>3. j \in 1..Cardinality(frags) /\ j < i BY <1>2
<1>4. Before(Sorted(frags)[j], Sorted(frags)[i]) BY <1>3, SortedOrder
<1>5. Sorted(frags)[i] \in frags BY SortedIs DEF Given
<1>6. QED BY <1>1, <1>4, <1>5, BeforeIs

(* The loop's first pass places all that any pass does: a fragment waits   *)
(* when no version reaches its start, and then none reaches that of a      *)
(* later one either, as they are sorted by where they start; so the        *)
(* versions do not change any more.                                        *)
THEOREM OnePass ==
  ASSUME NEW L, NEW frags, Given(L, frags)
  PROVE  Placement(frags) = Pass(Sorted(frags), Start)
<1> DEFINE n  == Cardinality(frags)
           fs == Sorted(frags)
           S  == States(L, frags)
<1>1. /\ n \in Nat /\ Len(fs) = n /\ \A i \in 1..n : fs[i] \in frags
      /\ \A f \in frags : \E i \in 1..n : fs[i] = f
  BY SortedIs DEF Given
<1>2. Start \in S BY StartTyped
<1>3. \A st \in S : \A f \in frags : Place(st, f) \in S /\ (Stays(st, f) \/ Takes(st, f))
  BY PlaceIs DEF Given
<1>4. PICK r \in [0..n -> S] : FirstPass(r, frags) BY FirstPassRun
<1> HIDE DEF n, S
<1>5. \A i \in 1..n : r[i] = Place(r[i - 1], fs[i]) /\ r[i - 1] \in S /\ r[i] \in S
  <2> SUFFICES ASSUME NEW i \in 1..n
               PROVE  r[i] = Place(r[i - 1], fs[i]) /\ r[i - 1] \in S /\ r[i] \in S
    OBVIOUS
  <2>1. i - 1 \in 0..n /\ i \in 0..n BY <1>1
  <2>2. r[i] = Place(r[i - 1], fs[i]) BY <1>4 DEF FirstPass, n
  <2> HIDE DEF fs
  <2>3. QED BY <2>1, <2>2
<1>6. frags \in SUBSET FragmentsOver(L) BY DEF Given
<1>7. \A i, j \in 1..n : i < j => fs[i].off <= fs[j].off
  <2> SUFFICES ASSUME NEW i \in 1..n, NEW j \in 1..n, i < j PROVE fs[i].off <= fs[j].off
    OBVIOUS
  <2>1. Before(fs[i], fs[j]) BY SortedOrder DEF n
  <2>2. fs[i].off \in Nat /\ fs[j].off \in Nat BY <1>1, <1>6 DEF FragmentsOver
  <2>3. QED BY <2>1, <2>2 DEF Before
<1> HIDE DEF fs
<1>8. ASSUME NEW i \in 1..n, Beyond(r[i - 1].cands, fs[i])
      PROVE  r[n] = r[i - 1]
  <2> DEFINE st == r[i - 1]
             T  == {k \in 0..n : k >= i - 1 => r[k] = st}
  <2>1. i \in Nat /\ i - 1 \in 0..n /\ i >= 1 /\ i <= n BY <1>1
  <2>2. st \in S /\ \A k \in 1..Len(st.cands) : Len(st.cands[k]) \in Nat
    <3>1. st \in S BY <1>5
    <3> HIDE DEF st
    <3>2. st.cands \in Seq(Nonempty(L)) BY <3>1 DEF S, States
    <3>3. QED BY <3>1, <3>2 DEF Nonempty
  <2>3. 0 \in T BY <1>1, <2>1
  <2>4. ASSUME NEW k \in 1..n, k - 1 \in T PROVE k \in T
    <3> SUFFICES ASSUME k >= i - 1 PROVE r[k] = st BY <1>1
    <3>1. CASE k = i - 1 BY <3>1
    <3>2. CASE k # i - 1
      <4>1. k \in Nat /\ k - 1 >= i - 1 /\ (i = k \/ i < k) BY <1>1, <2>1, <3>2
      <4>2. r[k - 1] = st BY <2>4, <4>1
      <4>3. fs[i].off <= fs[k].off BY <1>1, <1>6, <1>7, <4>1 DEF FragmentsOver
      <4>4. fs[i].off \in Nat /\ fs[k].off \in Nat /\ fs[k] \in FragmentsOver(L)
        BY <1>1, <1>6 DEF FragmentsOver
      <4> HIDE DEF st
      <4>5. Beyond(st.cands, fs[i]) BY <1>8 DEF st
      <4>6. Beyond(st.cands, fs[k]) BY <2>2, <4>3, <4>4, <4>5 DEF Beyond
      <4>7. Place(st, fs[k]) = st BY <1>6, <2>2, <4>4, <4>6, PlaceWaits DEF S
      <4>8. QED BY <1>5, <4>2, <4>7
    <3>3. QED BY <3>1, <3>2
  <2> HIDE DEF T, st
  <2>5. \A k \in 0..n : k \in T BY <1>1, <2>3, <2>4, UpTo
  <2>6. QED BY <1>1, <2>1, <2>5 DEF T, st
<1>9. \A i \in 0..n : r[i].placed \subseteq r[n].placed
  <2> DEFINE D == {k \in 0..n : r[n - k].placed \subseteq r[n].placed}
  <2>1. 0 \in D BY <1>1
  <2>2. ASSUME NEW k \in 1..n, k - 1 \in D PROVE k \in D
    <3> DEFINE m == n - k + 1
    <3>1. m \in 1..n /\ n - (k - 1) = m /\ m - 1 = n - k BY <1>1
    <3> HIDE DEF m
    <3>2. r[m].placed \subseteq r[n].placed BY <2>2, <3>1
    <3>3. Stays(r[m - 1], fs[m]) \/ Takes(r[m - 1], fs[m]) BY <1>1, <1>3, <1>5, <3>1
    <3>4. r[m - 1].placed \subseteq r[m].placed BY <1>5, <3>1, <3>3 DEF Stays, Takes
    <3>5. QED BY <3>1, <3>2, <3>4
  <2> HIDE DEF D
  <2>3. \A k \in 0..n : k \in D BY <1>1, <2>1, <2>2, UpTo
  <2>4. ASSUME NEW i \in 0..n PROVE r[i].placed \subseteq r[n].placed
    <3>1. n - i \in 0..n /\ n - (n - i) = i BY <1>1
    <3>2. QED BY <2>3, <3>1 DEF D
  <2>5. QED BY <2>4
<1>10. Stuck(r[n], frags)
  <2> SUFFICES ASSUME NEW f \in frags PROVE Stays(r[n], f) BY DEF Stuck
  <2>1. PICK i \in 1..n : fs[i] = f BY <1>1
  <2>2. CASE Beyond(r[i - 1].cands, f)
    <3>1. r[n] = r[i - 1] BY <1>8, <2>1, <2>2
    <3>2. QED BY <1>5, <1>6, <2>2, <3>1, PlaceWaits DEF S
  <2>3. CASE ~Beyond(r[i - 1].cands, f)
    <3>1. f \in r[i].placed
      <4>1. CASE f \in r[i - 1].placed
        <5>1. Stays(r[i - 1], f) \/ Takes(r[i - 1], f) BY <1>3, <1>5
        <5>2. QED BY <1>5, <2>1, <4>1, <5>1 DEF Stays, Takes
      <4>2. CASE f \notin r[i - 1].placed
        <5>1. Place(r[i - 1], f).placed = r[i - 1].placed \cup {f}
          BY <1>5, <1>6, <2>3, <4>2, PlaceGrows DEF S
        <5>2. QED BY <1>5, <2>1, <5>1
      <4>3. QED BY <4>1, <4>2
    <3>2. f \in r[n].placed BY <1>1, <1>9, <3>1
    <3>3. r[n] \in S BY <1>1
    <3>4. Stays(r[n], f) \/ Takes(r[n], f) BY <1>3, <3>3
    <3>5. QED BY <3>2, <3>4 DEF Takes
  <2>4. QED BY <2>2, <2>3
<1>11. Pass(Sorted(frags), Start) = r[n] /\ Pass(Sorted(frags), r[n]) = r[n]
  <2>1. r[n] \in States(L, frags) BY <1>1 DEF S
  <2>2. QED BY <1>4, <1>10, <2>1, PassProgress DEF FirstPass, n
<1>12. PICK q \in [0..n -> S] : PlacementSteps(q, frags)
  BY <1>2, <1>3, PlacementRun DEF n
<1>13. q[0] = Start /\ \A k \in 1..n :
         q[k] = IF q[k - 1].placed = frags THEN q[k - 1] ELSE Pass(Sorted(frags), q[k - 1])
  BY <1>12 DEF PlacementSteps, n
<1>14. q[n] = r[n]
  <2> DEFINE T == {k \in 0..n : k = 0 \/ q[k] = r[n]}
  <2>1. 0 \in T BY <1>1
  <2>2. ASSUME NEW k \in 1..n, k - 1 \in T PROVE k \in T
    <3>1. CASE k - 1 = 0
      <4>1. k = 1 /\ q[k - 1] = Start BY <1>1, <1>13, <3>1
      <4>2. frags # {}
        <5>1. fs[k] \in frags BY <1>1
        <5>2. QED BY <5>1
      <4>3. q[k] = Pass(Sorted(frags), Start) BY <1>13, <4>1, <4>2 DEF Start
      <4>4. QED BY <1>1, <1>11, <4>3
    <3>2. CASE k - 1 # 0
      <4>1. q[k - 1] = r[n] BY <2>2, <3>2
      <4>2. q[k] = IF r[n].placed = frags THEN r[n] ELSE Pass(Sorted(frags), r[n])
        BY <1>13, <4>1
      <4>3. q[k] = r[n] BY <1>11, <4>2
      <4>4. QED BY <1>1, <4>3
    <3>3. QED BY <3>1, <3>2
  <2> HIDE DEF T
  <2>3. \A k \in 0..n : k \in T BY <1>1, <2>1, <2>2, UpTo
  <2>4. CASE n = 0
    <3>1. r[0] = Start BY <1>4 DEF FirstPass
    <3>2. QED BY <1>13, <2>4, <3>1
  <2>5. QED BY <1>1, <2>3, <2>4 DEF T
<1>15. QED BY <1>11, <1>12, <1>14 DEF PlacementSteps, n

-----------------------------------------------------------------------------
(* A fragment that says nothing new.                                       *)

(* A fragment has its place among the others by how many come before it.   *)
LEMMA PlaceOf ==
  ASSUME NEW L, NEW frags, Given(L, frags), NEW f \in frags, NEW k \in Nat,
         Cardinality(Preceding(frags, f)) = k
  PROVE  k + 1 \in 1..Cardinality(frags) /\ Sorted(frags)[k + 1] = f
<1>1. Cardinality(frags) \in Nat BY SortedIs DEF Given
<1>2. PICK i \in 1..Cardinality(frags) : Sorted(frags)[i] = f BY SortedIs DEF Given
<1>3. Cardinality(Preceding(frags, Sorted(frags)[i])) = i - 1 BY SortedIs DEF Given
<1>4. i = k + 1
  <2>1. k = i - 1 BY <1>2, <1>3
  <2>2. QED BY <1>1, <2>1
<1>5. QED BY <1>2, <1>4

(* Another fragment takes the p-th place, and those after it move up.      *)
Inserted(frags, x, p) ==
  /\ p \in 1..(Cardinality(frags) + 1)
  /\ Cardinality(frags \cup {x}) = Cardinality(frags) + 1
  /\ Sorted(frags \cup {x})[p] = x
  /\ \A i \in 1..Cardinality(frags) :
       \/ /\ i < p /\ Before(Sorted(frags)[i], x)
          /\ Sorted(frags \cup {x})[i] = Sorted(frags)[i]
       \/ /\ p <= i /\ Before(x, Sorted(frags)[i])
          /\ Sorted(frags \cup {x})[i + 1] = Sorted(frags)[i]

LEMMA SortedInsert ==
  ASSUME NEW L, NEW frags, NEW x, x \notin frags, Given(L, frags), Given(L, frags \cup {x})
  PROVE  \E p \in 1..(Cardinality(frags) + 1) : Inserted(frags, x, p)
<1> DEFINE n  == Cardinality(frags)
           fs == Sorted(frags)
           gs == Sorted(frags \cup {x})
           P(f) == Preceding(frags, f)
           Q(f) == Preceding(frags \cup {x}, f)
           p  == Cardinality(P(x)) + 1
<1>1. n \in Nat /\ \A i \in 1..n : fs[i] \in frags /\ Cardinality(P(fs[i])) = i - 1
  BY SortedIs DEF Given
<1>2. Cardinality(frags \cup {x}) = n + 1 BY FS_AddElement DEF Given
<1>3. \A f : IsFiniteSet(P(f)) /\ Cardinality(P(f)) \in Nat BY PrecedingIs
<1>4. /\ ~Before(x, x) /\ \A f \in frags : ~Before(f, f)
      /\ \A f \in frags : Before(f, x) \/ Before(x, f)
      /\ \A f \in frags : ~(Before(f, x) /\ Before(x, f))
      /\ \A f, g \in frags : Before(f, x) /\ Before(g, f) => Before(g, x)
      /\ \A f, g \in frags : Before(x, f) /\ Before(g, x) => Before(g, f)
  BY BeforeIs
<1>5. Q(x) = P(x) BY <1>4 DEF Preceding
<1>6. ASSUME NEW f \in frags, Before(f, x)
      PROVE  Q(f) = P(f) /\ Cardinality(P(f)) < Cardinality(P(x))
  <2>1. Q(f) = P(f) BY <1>4, <1>6 DEF Preceding
  <2>2. f \notin P(f) /\ P(f) \cup {f} \in SUBSET P(x) BY <1>4, <1>6 DEF Preceding
  <2> HIDE DEF P
  <2>3. Cardinality(P(f) \cup {f}) = Cardinality(P(f)) + 1 BY <1>3, <2>2, FS_AddElement
  <2>4. Cardinality(P(f) \cup {f}) <= Cardinality(P(x)) BY <1>3, <2>2, FS_Subset
  <2>5. Cardinality(P(f)) \in Nat /\ Cardinality(P(x)) \in Nat BY <1>3
  <2>6. QED BY <2>1, <2>3, <2>4, <2>5
<1>7. ASSUME NEW f \in frags, Before(x, f)
      PROVE  Cardinality(Q(f)) = Cardinality(P(f)) + 1 /\ Cardinality(P(x)) <= Cardinality(P(f))
  <2>1. Q(f) = P(f) \cup {x} /\ x \notin P(f) BY <1>7 DEF Preceding
  <2>2. P(x) \in SUBSET P(f) BY <1>4, <1>7 DEF Preceding
  <2> HIDE DEF P
  <2>3. Cardinality(P(f) \cup {x}) = Cardinality(P(f)) + 1 BY <1>3, <2>1, FS_AddElement
  <2>4. Cardinality(P(x)) <= Cardinality(P(f)) BY <1>3, <2>2, FS_Subset
  <2>5. QED BY <2>1, <2>3, <2>4
<1>8. p \in 1..(n + 1) /\ gs[p] = x
  <2> DEFINE k == Cardinality(P(x))
  <2>1. k \in Nat BY <1>3
  <2>2. Cardinality(Preceding(frags \cup {x}, x)) = k BY <1>5
  <2> HIDE DEF k
  <2>3. k + 1 \in 1..Cardinality(frags \cup {x}) /\ gs[k + 1] = x BY <2>1, <2>2, PlaceOf
  <2>4. QED BY <1>2, <2>3 DEF k
<1> HIDE DEF n, fs, gs
<1>9. ASSUME NEW i \in 1..n
      PROVE  \/ i < p /\ Before(fs[i], x) /\ gs[i] = fs[i]
             \/ p <= i /\ Before(x, fs[i]) /\ gs[i + 1] = fs[i]
  <2> DEFINE f == fs[i]
  <2>1. f \in frags /\ Cardinality(P(f)) = i - 1 /\ i \in Nat /\ i >= 1 BY <1>1
  <2>2. Cardinality(P(x)) \in Nat BY <1>3
  <2> HIDE DEF f, P
  <2>3. CASE Before(f, x)
    <3>1. Cardinality(P(f)) < Cardinality(P(x)) /\ Q(f) = P(f) BY <1>6, <2>1, <2>3
    <3>2. i < p BY <2>1, <2>2, <3>1
    <3>3. i - 1 \in Nat /\ (i - 1) + 1 = i BY <2>1
    <3>4. Cardinality(Preceding(frags \cup {x}, f)) = i - 1 BY <2>1, <3>1
    <3>5. gs[(i - 1) + 1] = f BY <2>1, <3>3, <3>4, PlaceOf DEF gs
    <3>6. QED BY <2>3, <3>2, <3>3, <3>5 DEF f
  <2>4. CASE Before(x, f)
    <3>1. Cardinality(Q(f)) = Cardinality(P(f)) + 1 /\ Cardinality(P(x)) <= Cardinality(P(f))
      BY <1>7, <2>1, <2>4
    <3>2. p <= i BY <2>1, <2>2, <3>1
    <3>3. Cardinality(Preceding(frags \cup {x}, f)) = i BY <2>1, <3>1
    <3>4. gs[i + 1] = f BY <2>1, <3>3, PlaceOf DEF gs
    <3>5. QED BY <2>4, <3>2, <3>4 DEF f
  <2>5. QED BY <1>4, <2>1, <2>3, <2>4
<1> HIDE DEF p, P, Q
<1>10. Inserted(frags, x, p) BY <1>2, <1>8, <1>9 DEF Inserted, n, fs, gs
<1>11. QED BY <1>8, <1>10 DEF n

(* What a fragment has placed before does not matter to the versions.      *)
LEMMA PlaceAlike ==
  ASSUME NEW s, NEW t, NEW f, s.cands = t.cands, f \notin s.placed, f \notin t.placed
  PROVE  Place(s, f).cands = Place(t, f).cands
<1> DEFINE fits(st) == \E i \in DOMAIN st.cands : Agrees(st.cands[i], f)
           fork(st) == IF f.off = 0 \/ FirstReaching(st.cands, f.off) = 0 THEN << >>
                       ELSE SubSeq(st.cands[FirstReaching(st.cands, f.off)], 1, f.off)
           new(st) == IF fits(st) THEN [i \in DOMAIN st.cands |-> Extended(st.cands[i], f)]
                                  ELSE Append(st.cands, fork(st) \o f.data)
           stays(st) == ~fits(st) /\ Waits(st.cands, f)
<1>1. fits(s) = fits(t) /\ new(s) = new(t) /\ stays(s) = stays(t) OBVIOUS
<1>2. /\ Place(s, f) = IF stays(s) THEN s ELSE [placed |-> s.placed \cup {f}, cands |-> new(s)]
      /\ Place(t, f) = IF stays(t) THEN t ELSE [placed |-> t.placed \cup {f}, cands |-> new(t)]
  BY DEF Place
<1> HIDE DEF fits, new, stays
<1>3. QED BY <1>1, <1>2

(* x starts where g does and has no line that g has not.                   *)
Restates(x, g) ==
  /\ x.off = g.off /\ Len(x.data) <= Len(g.data)
  /\ \A i \in 1..Len(x.data) : x.data[i] = g.data[i]

(* The versions that agree with x have all of it, and there is one, unless *)
(* none reaches its start.                                                 *)
Quiet(cands, x) ==
  /\ \A i \in 1..Len(cands) : Agrees(cands[i], x) => End(x) <= Len(cands[i])
  /\ Beyond(cands, x) \/ \E i \in 1..Len(cands) : Agrees(cands[i], x)

LEMMA QuietPlace ==
  ASSUME NEW L, NEW frags \in SUBSET FragmentsOver(L), NEW st \in States(L, frags),
         NEW x \in frags, Quiet(st.cands, x)
  PROVE  Place(st, x).cands = st.cands
<1> DEFINE cands == st.cands
<1>1. /\ cands \in Seq(Nonempty(L)) /\ DOMAIN cands = 1..Len(cands) /\ Len(cands) \in Nat
  BY DEF States
<1>2. CASE Beyond(cands, x) BY <1>2, PlaceWaits
<1>3. CASE \E i \in 1..Len(cands) : Agrees(cands[i], x)
  <2>1. \E i \in DOMAIN cands : Agrees(cands[i], x) BY <1>1, <1>3
  <2>2. \A i \in DOMAIN cands : Extended(cands[i], x) = cands[i]
    <3> SUFFICES ASSUME NEW i \in DOMAIN cands PROVE Extended(cands[i], x) = cands[i]
      OBVIOUS
    <3>1. Len(cands[i]) \in Nat BY <1>1 DEF Nonempty
    <3>2. End(x) \in Nat BY DEF FragmentsOver, End
    <3>3. Agrees(cands[i], x) => ~(End(x) > Len(cands[i])) BY <1>1, <3>1, <3>2 DEF Quiet
    <3>4. QED BY <3>3 DEF Extended
  <2>3. [i \in DOMAIN cands |-> Extended(cands[i], x)] = cands
    <3>1. cands = [i \in DOMAIN cands |-> cands[i]] BY <1>1
    <3>2. [i \in DOMAIN cands |-> Extended(cands[i], x)] = [i \in DOMAIN cands |-> cands[i]]
      BY <2>2
    <3>3. QED BY <3>1, <3>2
  <2>4. CASE x \in st.placed BY <2>4 DEF Place
  <2>5. CASE x \notin st.placed
    <3>1. Place(st, x) = [placed |-> st.placed \cup {x},
                          cands |-> [i \in DOMAIN cands |-> Extended(cands[i], x)]]
      BY <2>1, <2>5 DEF Place
    <3>2. QED BY <2>3, <3>1
  <2>6. QED BY <2>4, <2>5
<1>4. QED BY <1>2, <1>3 DEF Quiet

(* Once g has had its turn, what restates it is quiet.                     *)
LEMMA QuietAfter ==
  ASSUME NEW L, NEW frags \in SUBSET FragmentsOver(L), NEW st \in States(L, frags),
         NEW g \in frags, g \notin st.placed, NEW x \in FragmentsOver(L), Restates(x, g)
  PROVE  Quiet(Place(st, g).cands, x)
<1> DEFINE old == st.cands
           new == Place(st, g).cands
<1>1. /\ old \in Seq(Nonempty(L)) /\ DOMAIN old = 1..Len(old) /\ Len(old) \in Nat
  BY DEF States
<1>2. /\ g.off \in Nat /\ Len(g.data) \in Nat /\ Len(x.data) \in Nat \ {0} /\ x.off = g.off
      /\ Len(x.data) <= Len(g.data) /\ End(x) = g.off + Len(x.data) /\ End(g) = g.off + Len(g.data)
  BY DEF FragmentsOver, Restates, End
<1>3. \A i \in 1..Len(old) : Len(old[i]) \in Nat BY <1>1 DEF Nonempty
<1>4. CASE Beyond(old, g)
  <2>1. new = old BY <1>4, PlaceWaits
  <2>2. Beyond(old, x) BY <1>2, <1>4 DEF Beyond
  <2>3. \A i \in 1..Len(old) : ~Agrees(old[i], x) BY <1>1, <2>2, PlaceWaits
  <2>4. QED BY <2>1, <2>2, <2>3 DEF Quiet
<1>5. CASE ~Beyond(old, g)
  <2>1. Grown(old, new, g) BY <1>5, PlaceGrows
  <2>2. Place(st, g) \in States(L, frags) BY PlaceIs
  <2> HIDE DEF new
  <2>3. new \in Seq(Nonempty(L)) /\ Len(new) \in Nat BY <2>2 DEF States, new
  <2>4. \A i \in 1..Len(new) : Len(new[i]) \in Nat BY <2>3 DEF Nonempty
  <2>5. ASSUME NEW i \in 1..Len(new), Holds(new[i], g)
        PROVE  Agrees(new[i], x) /\ End(x) <= Len(new[i])
    <3>1. End(g) <= Len(new[i]) /\ Len(new[i]) \in Nat BY <2>4, <2>5 DEF Holds
    <3>2. x.off <= Len(new[i]) /\ End(x) <= Len(new[i]) BY <1>2, <3>1
    <3>3. ASSUME NEW k \in 1..Len(x.data) PROVE new[i][x.off + k] = x.data[k]
      <4>1. k \in 1..Len(g.data) BY <1>2
      <4>2. x.data[k] = g.data[k] BY DEF Restates
      <4>3. new[i][g.off + k] = g.data[k] BY <2>5, <4>1 DEF Holds
      <4>4. QED BY <1>2, <4>2, <4>3
    <3>4. QED BY <3>2, <3>3 DEF Agrees
  <2>6. ASSUME NEW i \in 1..Len(new), Agrees(new[i], x) PROVE End(x) <= Len(new[i])
    <3>1. CASE Holds(new[i], g) BY <2>5, <3>1
    <3>2. CASE ~Holds(new[i], g)
      <4>1. i \in 1..Len(old) /\ ~Agrees(old[i], g) /\ new[i] = old[i]
        BY <2>1, <3>2 DEF Grown
      <4>2. Len(old[i]) \in Nat BY <1>3, <4>1
      <4> SUFFICES ASSUME ~(End(x) <= Len(old[i])) PROVE Agrees(old[i], g) BY <4>1
      <4>3. Len(old[i]) < End(x) BY <1>2, <4>2
      <4>4. g.off <= Len(old[i]) BY <1>2, <2>6, <4>1 DEF Agrees
      <4>5. ASSUME NEW k \in 1..Len(g.data), g.off + k <= Len(old[i])
            PROVE  old[i][g.off + k] = g.data[k]
        <5>1. k \in 1..Len(x.data) BY <1>2, <4>2, <4>3, <4>5
        <5>2. old[i][x.off + k] = x.data[k] BY <1>2, <2>6, <4>1, <4>5, <5>1 DEF Agrees
        <5>3. x.data[k] = g.data[k] BY <5>1 DEF Restates
        <5>4. QED BY <1>2, <5>2, <5>3
      <4>6. QED BY <4>4, <4>5 DEF Agrees
    <3>3. QED BY <3>1, <3>2
  <2>7. \E i \in 1..Len(new) : Holds(new[i], g) BY <2>1 DEF Grown
  <2>8. QED BY <2>5, <2>6, <2>7 DEF Quiet, new
<1>6. QED BY <1>4, <1>5

(* And stays so while fragments that start with it and are no shorter have *)
(* theirs.                                                                 *)
LEMMA QuietStays ==
  ASSUME NEW L, NEW frags \in SUBSET FragmentsOver(L), NEW st \in States(L, frags),
         NEW h \in frags, h \notin st.placed, NEW x \in FragmentsOver(L),
         h.off = x.off, Len(x.data) <= Len(h.data), Quiet(st.cands, x)
  PROVE  Quiet(Place(st, h).cands, x)
<1> DEFINE old == st.cands
           new == Place(st, h).cands
<1>1. /\ old \in Seq(Nonempty(L)) /\ DOMAIN old = 1..Len(old) /\ Len(old) \in Nat
  BY DEF States
<1>2. /\ x.off \in Nat /\ Len(h.data) \in Nat /\ Len(x.data) \in Nat
      /\ End(x) = x.off + Len(x.data) /\ End(h) = x.off + Len(h.data)
  BY DEF FragmentsOver, End
<1>3. \A i \in 1..Len(old) : Len(old[i]) \in Nat BY <1>1 DEF Nonempty
<1>4. CASE Beyond(old, h) BY <1>4, PlaceWaits
<1>5. CASE ~Beyond(old, h)
  <2>1. Grown(old, new, h) BY <1>5, PlaceGrows
  <2>2. Place(st, h) \in States(L, frags) BY PlaceIs
  <2> HIDE DEF new
  <2>3. new \in Seq(Nonempty(L)) /\ Len(new) \in Nat BY <2>2 DEF States, new
  <2>4. \A i \in 1..Len(new) : Len(new[i]) \in Nat BY <2>3 DEF Nonempty
  <2>5. ASSUME NEW i \in 1..Len(new), Agrees(new[i], x) PROVE End(x) <= Len(new[i])
    <3>1. CASE End(h) <= Len(new[i]) BY <1>2, <2>4, <3>1
    <3>2. CASE ~(End(h) <= Len(new[i]))
      <4>1. ~Holds(new[i], h) BY <3>2 DEF Holds
      <4>2. i \in 1..Len(old) /\ new[i] = old[i] BY <2>1, <4>1 DEF Grown
      <4>3. QED BY <2>5, <4>2 DEF Quiet
    <3>3. QED BY <3>1, <3>2
  <2>6. ~Beyond(old, x) BY <1>5 DEF Beyond
  <2>7. PICK i \in 1..Len(old) : Agrees(old[i], x) BY <2>6 DEF Quiet
  <2>8. End(x) <= Len(old[i]) /\ Len(old[i]) \in Nat BY <1>3, <2>7 DEF Quiet
  <2>9. i \in 1..Len(new) BY <1>1, <2>1, <2>3 DEF Grown
  <2>10. Continues(new[i], old[i])
    <3>1. CASE Agrees(old[i], h) BY <2>1, <3>1 DEF Grown
    <3>2. CASE ~Agrees(old[i], h)
      <4>1. new[i] = old[i] BY <2>1, <3>2 DEF Grown
      <4>2. QED BY <2>8, <4>1 DEF Continues
    <3>3. QED BY <3>1, <3>2
  <2>11. Agrees(new[i], x)
    <3>1. x.off <= Len(new[i]) BY <1>2, <2>4, <2>8, <2>9, <2>10 DEF Continues
    <3>2. ASSUME NEW k \in 1..Len(x.data) PROVE new[i][x.off + k] = x.data[k]
      <4>0. k \in Nat /\ 1 <= k /\ k <= Len(x.data) BY <1>2
      <4>1. x.off + k <= Len(old[i]) /\ x.off + k \in 1..Len(old[i])
        <5>1. x.off + Len(x.data) <= Len(old[i]) BY <1>2, <2>8
        <5>2. x.off \in Nat /\ Len(x.data) \in Nat /\ Len(old[i]) \in Nat BY <1>2, <2>8
        <5>3. QED BY ONLY <4>0, <5>1, <5>2
      <4>2. old[i][x.off + k] = x.data[k] BY <2>7, <4>1 DEF Agrees
      <4>3. new[i][x.off + k] = old[i][x.off + k] BY <2>10, <4>1 DEF Continues
      <4>4. QED BY <4>2, <4>3
    <3>3. QED BY <3>1, <3>2 DEF Agrees
  <2>12. QED BY <2>5, <2>9, <2>11 DEF Quiet, new
<1>6. QED BY <1>4, <1>5

(* A fragment that says, of lines another fragment has, no more than that  *)
(* one does, and comes after it in the order, as bytes logged again or a   *)
(* stale copy do, changes no version: whatever fragments there are, each   *)
(* version that agrees with it when it has its turn has its lines.         *)
THEOREM Restated ==
  ASSUME NEW L, NEW frags, NEW x, x \notin frags, Given(L, frags), Given(L, frags \cup {x}),
         NEW g \in frags, Before(g, x), Restates(x, g)
  PROVE  Contents(frags \cup {x}) = Contents(frags)
<1> DEFINE n  == Cardinality(frags)
           fs == Sorted(frags)
           G  == frags \cup {x}
           gs == Sorted(G)
           S  == States(L, frags)
           V  == States(L, G)
<1>1. n \in Nat /\ (\A i \in 1..n : fs[i] \in frags) /\ \E i \in 1..n : fs[i] = g
  BY SortedIs DEF Given
<1>2. PICK p \in 1..(n + 1) : Inserted(frags, x, p) BY SortedInsert
<1>3. /\ Cardinality(G) = n + 1 /\ gs[p] = x
      /\ \A i \in 1..n : \/ i < p /\ Before(fs[i], x) /\ gs[i] = fs[i]
                         \/ p <= i /\ Before(x, fs[i]) /\ gs[i + 1] = fs[i]
  BY <1>2 DEF Inserted
<1>4. PICK a \in 1..n : fs[a] = g BY <1>1
<1>5. a < p
  <2>1. ~Before(x, g) BY BeforeIs
  <2>2. QED BY <1>3, <1>4, <2>1
<1>6. frags \in SUBSET FragmentsOver(L) /\ G \in SUBSET FragmentsOver(L) /\ x \in FragmentsOver(L)
  BY DEF Given
<1>7. PICK r \in [0..n -> S] :
        /\ FirstPass(r, frags)
        /\ \A i \in 0..n : \A f \in r[i].placed : \E j \in 1..i : fs[j] = f
  BY FirstPassRun
<1>8. PICK q \in [0..(n + 1) -> V] :
        /\ FirstPass(q, G)
        /\ \A i \in 0..(n + 1) : \A f \in q[i].placed : \E j \in 1..i : gs[j] = f
  <2>1. Given(L, G) OBVIOUS
  <2> HIDE DEF G, n
  <2>2. \E q \in [0..Cardinality(G) -> V] :
          /\ FirstPass(q, G)
          /\ \A i \in 0..Cardinality(G) : \A f \in q[i].placed : \E j \in 1..i : gs[j] = f
    BY <2>1, FirstPassRun
  <2>3. Cardinality(G) = n + 1 BY <1>3
  <2> HIDE DEF gs, V
  <2>4. QED BY ONLY <2>2, <2>3
<1>9. ASSUME NEW i \in 1..n
      PROVE  r[i] = Place(r[i - 1], fs[i]) /\ r[i - 1] \in S /\ fs[i] \notin r[i - 1].placed
  <2>1. i - 1 \in 0..n BY <1>1
  <2>2. \A f \in r[i - 1].placed : \E j \in 1..(i - 1) : fs[j] = f BY <1>7, <2>1
  <2>3. fs[i] \notin r[i - 1].placed BY <2>2, NotPlacedYet
  <2> HIDE DEF S
  <2>4. QED BY <1>7, <2>1, <2>3 DEF FirstPass
<1>10. ASSUME NEW i \in 1..(n + 1)
       PROVE  q[i] = Place(q[i - 1], gs[i]) /\ q[i - 1] \in V /\ gs[i] \notin q[i - 1].placed
  <2>1. i - 1 \in 0..(n + 1) /\ i \in 1..Cardinality(G) BY <1>1, <1>3
  <2>2. \A f \in q[i - 1].placed : \E j \in 1..(i - 1) : gs[j] = f BY <1>8, <2>1
  <2>3. gs[i] \notin q[i - 1].placed BY <2>1, <2>2, NotPlacedYet
  <2> HIDE DEF V, gs
  <2>4. q[i] = Place(q[i - 1], gs[i]) BY <1>8, <2>1 DEF FirstPass, gs
  <2>5. QED BY <2>1, <2>3, <2>4
<1>11. r[0] = Start /\ q[0] = Start BY <1>7, <1>8 DEF FirstPass
<1>12. Placement(frags) = r[n] /\ Placement(G) = q[n + 1]
  <2>1. Placement(frags) = r[n] BY <1>7, OnePass DEF FirstPass
  <2>2. Placement(G) = Pass(gs, Start) BY OnePass
  <2>3. QED BY <1>3, <1>8, <2>1, <2>2 DEF FirstPass
<1>13. ASSUME NEW i \in 1..n, a < i, i < p
       PROVE  fs[i].off = x.off /\ Len(x.data) <= Len(fs[i].data)
  <2>1. Before(g, fs[i]) BY <1>4, <1>13, SortedOrder
  <2>2. i \in Nat /\ p \in Nat BY <1>1
  <2>3. Before(fs[i], x) BY <1>3, <1>13, <2>2
  <2>4. \A f \in {g, fs[i], x} : f.off \in Nat /\ Len(f.data) \in Nat
    BY <1>1, <1>6 DEF FragmentsOver
  <2> HIDE DEF fs
  <2>5. QED BY <2>1, <2>3, <2>4 DEF Before, Restates
<1> HIDE DEF n, fs, gs, G, S, V
<1>14. Quiet(r[p - 1].cands, x)
  <2> DEFINE T == {i \in 0..n : a <= i /\ i < p => Quiet(r[i].cands, x)}
  <2>1. 0 \in T BY <1>1
  <2>2. ASSUME NEW i \in 1..n, i - 1 \in T PROVE i \in T
    <3> SUFFICES ASSUME a <= i, i < p PROVE Quiet(r[i].cands, x) BY <1>1
    <3>1. CASE i = a
      <4>1. Quiet(Place(r[i - 1], g).cands, x) BY <1>4, <1>6, <1>9, <3>1, QuietAfter DEF S
      <4>2. QED BY <1>4, <1>9, <3>1, <4>1
    <3>2. CASE i # a
      <4>1. a < i /\ a <= i - 1 /\ i - 1 < p BY <1>1, <3>2
      <4>2. Quiet(r[i - 1].cands, x) BY <2>2, <4>1
      <4>3. fs[i].off = x.off /\ Len(x.data) <= Len(fs[i].data) BY <1>13, <4>1
      <4>4. Quiet(Place(r[i - 1], fs[i]).cands, x)
        <5> DEFINE h  == fs[i]
                   st == r[i - 1]
        <5>1. h \in frags /\ st \in States(L, frags) /\ h \notin st.placed BY <1>1, <1>9 DEF S
        <5>2. Quiet(st.cands, x) /\ h.off = x.off /\ Len(x.data) <= Len(h.data) BY <4>2, <4>3
        <5> HIDE DEF h, st
        <5>3. Quiet(Place(st, h).cands, x) BY <1>6, <5>1, <5>2, QuietStays
        <5>4. QED BY <5>3 DEF h, st
      <4>5. QED BY <1>9, <4>4
    <3>3. QED BY <3>1, <3>2
  <2> HIDE DEF T
  <2>3. \A i \in 0..n : i \in T BY <1>1, <2>1, <2>2, UpTo
  <2>4. p - 1 \in 0..n /\ a <= p - 1 /\ p - 1 < p BY <1>1, <1>5
  <2>5. QED BY <2>3, <2>4 DEF T
<1>15. \A i \in 0..n : i < p => q[i].cands = r[i].cands
  <2> DEFINE T == {i \in 0..n : i < p => q[i].cands = r[i].cands}
  <2>1. 0 \in T BY <1>1, <1>11
  <2>2. ASSUME NEW i \in 1..n, i - 1 \in T PROVE i \in T
    <3> SUFFICES ASSUME i < p PROVE q[i].cands = r[i].cands BY <1>1
    <3>1. i - 1 < p /\ i \in 1..(n + 1) /\ ~(p <= i) BY <1>1
    <3>2. q[i - 1].cands = r[i - 1].cands BY <2>2, <3>1
    <3>3. gs[i] = fs[i] BY <1>3, <3>1
    <3>4. Place(q[i - 1], fs[i]).cands = Place(r[i - 1], fs[i]).cands
      BY <1>9, <1>10, <3>1, <3>2, <3>3, PlaceAlike
    <3>5. QED BY <1>9, <1>10, <3>1, <3>3, <3>4
  <2> HIDE DEF T
  <2>3. \A i \in 0..n : i \in T BY <1>1, <2>1, <2>2, UpTo
  <2>4. QED BY <2>3 DEF T
<1>16. q[p].cands = r[p - 1].cands
  <2>1. p - 1 \in 0..n /\ p - 1 < p BY <1>1
  <2>2. q[p - 1].cands = r[p - 1].cands BY <1>15, <2>1
  <2>3. Quiet(q[p - 1].cands, x) BY <1>14, <2>2
  <2>4. q[p] = Place(q[p - 1], x) /\ q[p - 1] \in V BY <1>3, <1>10
  <2>5. x \in G BY DEF G
  <2>6. Place(q[p - 1], x).cands = q[p - 1].cands
    BY <1>6, <2>3, <2>4, <2>5, QuietPlace DEF V
  <2>7. QED BY <2>2, <2>4, <2>6
<1>17. q[n + 1].cands = r[n].cands
  <2> DEFINE T == {i \in 0..n : p - 1 <= i => q[i + 1].cands = r[i].cands}
  <2>1. 0 \in T BY <1>1, <1>5
  <2>2. ASSUME NEW i \in 1..n, i - 1 \in T PROVE i \in T
    <3> SUFFICES ASSUME p - 1 <= i PROVE q[i + 1].cands = r[i].cands BY <1>1
    <3>1. CASE i = p - 1
      <4>1. i + 1 = p BY <1>1, <3>1
      <4>2. QED BY <1>16, <3>1, <4>1
    <3>2. CASE i # p - 1
      <4>1. p <= i /\ ~(i < p) /\ p - 1 <= i - 1 /\ (i - 1) + 1 = i /\ (i + 1) - 1 = i
            /\ i + 1 \in 1..(n + 1)
        BY <1>1, <3>2
      <4>2. q[i].cands = r[i - 1].cands BY <2>2, <4>1
      <4>3. gs[i + 1] = fs[i] BY <1>3, <4>1
      <4>4. q[i + 1] = Place(q[i], fs[i]) /\ fs[i] \notin q[i].placed BY <1>10, <4>1, <4>3
      <4>5. Place(q[i], fs[i]).cands = Place(r[i - 1], fs[i]).cands
        BY <1>9, <4>2, <4>4, PlaceAlike
      <4>6. QED BY <1>9, <4>4, <4>5
    <3>3. QED BY <3>1, <3>2
  <2> HIDE DEF T
  <2>3. \A i \in 0..n : i \in T BY <1>1, <2>1, <2>2, UpTo
  <2>4. n \in 0..n /\ p - 1 <= n BY <1>1
  <2>5. QED BY <2>3, <2>4 DEF T
<1>18. Placement(G).cands = Placement(frags).cands BY <1>12, <1>17
<1>19. QED BY <1>18 DEF Contents, G

=============================================================================
