------------------------------ MODULE SyncProofs ------------------------------
(***************************************************************************)
(* Proofs about Sync, for every number of devices, clients and relays and  *)
(* all bounds: a log is never with a gap while no relay lost a segment, a  *)
(* sync that reports success has done what it was to do, and a relay does  *)
(* not change a segment.                                                   *)
(***************************************************************************)
EXTENDS Sync, FiniteSetTheorems, WellFoundedInduction, TLAPS

-----------------------------------------------------------------------------
(* The inductive invariant. *)

(* All numbers below a number that is there are there. *)
Gapless(S) == \A n \in S : \A m \in 1..n : m \in S

(* One log has what another has. *)
Grows(log, log2) == \A e \in Devices : DOMAIN log[e] \subseteq DOMAIN log2[e]

Keys == Devices \X (1..MaxSegments)

Types ==
  /\ held \in [Devices -> [Devices -> Segments]]
  /\ unsynced \subseteq Devices
  /\ saved \in [Devices -> Relays]
  /\ store \in [Relays -> [Devices -> Segments]]
  /\ token \in [Relays -> {None, "writing", "whole", "torn"}]
  /\ uploads \subseteq [client : Clients, relay : Relays, device : Devices,
                        number : 1..MaxSegments, content : 0..MaxPowerLosses,
                        received : BOOLEAN]
  /\ pc \in [Clients -> {"idle", "comparing", "uploading", "waiting", "listing",
                         "downloading", "synced"}]
  /\ via \in [Clients -> Relays]
  /\ queue \in [Clients -> SUBSET Devices]
  /\ device \in [Clients -> Devices]
  /\ todo \in [Clients -> SUBSET (1..MaxSegments)]
  /\ lives \in [Devices -> 0..MaxPowerLosses]
  /\ intact \in BOOLEAN /\ known \in BOOLEAN
  /\ goal \in [Clients -> [up : SUBSET Keys, down : SUBSET Keys]]

(* A device's own log has no gap, whatever the relays lose. *)
Own == \A d \in Devices :
         /\ Gapless(DOMAIN held[d][d])
         /\ d \in unsynced => DOMAIN held[d][d] # {}

(* Contents are of a life the device has had. *)
Contents ==
  /\ \A d, e \in Devices : \A n \in DOMAIN held[d][e] : held[d][e][n] <= lives[e]
  /\ \A r \in Relays, e \in Devices : \A n \in DOMAIN store[r][e] : store[r][e][n] <= lives[e]
  /\ \A q \in uploads : q.content <= lives[q.device]

(* A relay receives a segment only with its token, and has segments only   *)
(* with a token or what is left of one, unless it lost that.               *)
Tokens ==
  /\ \A q \in uploads : q.received => token[q.relay] = "whole"
  /\ known => \A r \in Relays : token[r] \in {None, "writing"} =>
                \A e \in Devices : DOMAIN store[r][e] = {}

Whole ==
  intact => /\ \A r \in Relays, e \in Devices : Gapless(DOMAIN store[r][e])
            /\ \A d, e \in Devices : Gapless(DOMAIN held[d][e])

(* What is uploaded follows what the relay has. *)
Sent ==
  intact => \A q \in uploads : \A m \in 1..(q.number - 1) : m \in DOMAIN store[q.relay][q.device]

(* A client c, at p, that has still to do the devices in q and, for device *)
(* e, the segments in t, where g is its goal, H its device's log, S what   *)
(* its relay keeps, i tells that no relay has lost a segment, and k that   *)
(* none has lost a token.                                                  *)
Pushing(q, e, t, g, H, S, i) ==
  /\ t \subseteq DOMAIN H[e]
  /\ \A s \in g.up : s[2] \in DOMAIN H[s[1]]
  /\ i => /\ \A n \in t : \A m \in 1..n : m \in t \/ m \in DOMAIN S[e]
          /\ \A s \in g.up : \/ s[2] \in DOMAIN S[s[1]]
                             \/ s[1] \in q
                             \/ s[1] = e /\ s[2] \in t

Pulling(c, p, q, e, t, g, H, S, i, k) ==
  /\ DeviceOf[c] \notin q
  /\ p = "listing" => e # DeviceOf[c] /\ t \subseteq DOMAIN H[e]
  /\ p = "downloading" /\ t # {} => e # DeviceOf[c]
  /\ p = "synced" => q = {} /\ t = {}
  /\ i => /\ \A s \in g.up \cup g.down : s[2] \in DOMAIN S[s[1]]
          /\ p = "downloading" => \A n \in t : \A m \in 1..n : m \in t \/ m \in DOMAIN H[e]
  /\ i /\ k => \A s \in g.down : \/ s[2] \in DOMAIN H[s[1]]
                                 \/ s[1] \in q
                                 \/ s[1] = e /\ (p = "listing" \/ s[2] \in t)

Client(c, p, q, e, t, g, H, S, i, k) ==
  /\ p = "idle" => t = {}
  /\ p \in {"comparing", "uploading", "waiting"} => Pushing(q, e, t, g, H, S, i)
  /\ p = "waiting" => t # {}
  /\ p \in {"listing", "downloading", "synced"} => Pulling(c, p, q, e, t, g, H, S, i, k)

AllClients ==
  \A c \in Clients : Client(c, pc[c], queue[c], device[c], todo[c], goal[c],
                            held[DeviceOf[c]], store[via[c]], intact, known)

IInv == Types /\ Own /\ Contents /\ Tokens /\ Whole /\ Sent /\ AllClients

-----------------------------------------------------------------------------
(* Lemmas about logs. *)

LEMMA SegmentsFunction ==
  ASSUME NEW f
  PROVE  f \in Segments <=>
           \E S \in SUBSET (1..MaxSegments) : f \in [S -> 0..MaxPowerLosses]
BY DEF Segments

LEMMA SegmentsType ==
  ASSUME NEW f \in Segments
  PROVE  /\ DOMAIN f \subseteq 1..MaxSegments
         /\ \A n \in DOMAIN f : f[n] \in 0..MaxPowerLosses
         /\ \A n \in DOMAIN f : n \in Nat /\ n > 0
<1>1. PICK S \in SUBSET (1..MaxSegments) : f \in [S -> 0..MaxPowerLosses]
  BY SegmentsFunction
<1>2. QED BY <1>1

LEMMA NoSegments ==
  ASSUME NEW f \in Segments
  PROVE  f = << >> <=> DOMAIN f = {}
<1>1. PICK S \in SUBSET (1..MaxSegments) : f \in [S -> 0..MaxPowerLosses]
  BY SegmentsFunction
<1>2. DOMAIN f = {} => f = << >> BY <1>1
<1>3. QED BY <1>2

LEMMA PlusLog ==
  ASSUME NEW log \in [Devices -> Segments], NEW e \in Devices,
         NEW n \in 1..MaxSegments, NEW content \in 0..MaxPowerLosses
  PROVE  /\ Plus(log, e, n, content) \in [Devices -> Segments]
         /\ DOMAIN Plus(log, e, n, content)[e] = DOMAIN log[e] \cup {n}
         /\ Plus(log, e, n, content)[e][n] = content
         /\ \A m \in DOMAIN log[e] : m # n => Plus(log, e, n, content)[e][m] = log[e][m]
         /\ \A x \in Devices : x # e => Plus(log, e, n, content)[x] = log[x]
         /\ Grows(log, Plus(log, e, n, content))
<1> DEFINE f == [i \in DOMAIN log[e] \cup {n} |-> IF i = n THEN content ELSE log[e][i]]
<1>1. /\ DOMAIN log[e] \subseteq 1..MaxSegments
      /\ \A m \in DOMAIN log[e] : log[e][m] \in 0..MaxPowerLosses
  BY SegmentsType
<1>2. f \in [DOMAIN log[e] \cup {n} -> 0..MaxPowerLosses] BY <1>1
<1>3. f \in Segments BY <1>1, <1>2, SegmentsFunction
<1>4. /\ DOMAIN f = DOMAIN log[e] \cup {n} /\ f[n] = content
      /\ \A m \in DOMAIN log[e] : m # n => f[m] = log[e][m]
  OBVIOUS
<1>5. Plus(log, e, n, content) = [log EXCEPT ![e] = f] BY DEF Plus
<1> HIDE DEF f
<1>6. QED BY <1>3, <1>4, <1>5 DEF Grows

LEMMA MinusLog ==
  ASSUME NEW log \in [Devices -> Segments], NEW gone
  PROVE  /\ Minus(log, gone) \in [Devices -> Segments]
         /\ \A e \in Devices :
              /\ DOMAIN Minus(log, gone)[e] = {n \in DOMAIN log[e] : <<e, n>> \notin gone}
              /\ \A n \in DOMAIN Minus(log, gone)[e] : Minus(log, gone)[e][n] = log[e][n]
<1>1. ASSUME NEW e \in Devices
      PROVE  /\ Minus(log, gone)[e] \in Segments
             /\ DOMAIN Minus(log, gone)[e] = {n \in DOMAIN log[e] : <<e, n>> \notin gone}
             /\ \A n \in DOMAIN Minus(log, gone)[e] : Minus(log, gone)[e][n] = log[e][n]
  <2> DEFINE S == {n \in DOMAIN log[e] : <<e, n>> \notin gone}
             f == [n \in S |-> log[e][n]]
  <2>1. Minus(log, gone)[e] = f BY DEF Minus, Restrict
  <2>2. /\ DOMAIN log[e] \subseteq 1..MaxSegments
        /\ \A n \in DOMAIN log[e] : log[e][n] \in 0..MaxPowerLosses
    BY SegmentsType
  <2>3. f \in [S -> 0..MaxPowerLosses] /\ S \subseteq 1..MaxSegments BY <2>2
  <2>4. f \in Segments BY <2>3, SegmentsFunction
  <2>5. QED BY <2>1, <2>4
<1>2. Minus(log, gone) = [e \in Devices |-> Minus(log, gone)[e]] BY DEF Minus
<1>3. Minus(log, gone) \in [Devices -> Segments]
  <2> HIDE DEF Minus
  <2>1. QED BY <1>1, <1>2
<1>4. QED BY <1>1, <1>3

LEMMA InNumbers ==
  ASSUME NEW log
  PROVE  /\ Numbers(log) \subseteq Keys
         /\ \A s \in Keys : s \in Numbers(log) <=> s[2] \in DOMAIN log[s[1]]
BY DEF Numbers, Keys

LEMMA NothingMinus ==
  ASSUME NEW log \in [Devices -> Segments]
  PROVE  Minus(log, {}) = log
<1>1. ASSUME NEW e \in Devices PROVE Minus(log, {})[e] = log[e]
  <2>1. PICK S \in SUBSET (1..MaxSegments) : log[e] \in [S -> 0..MaxPowerLosses]
    BY SegmentsFunction
  <2>2. Minus(log, {})[e] = [n \in DOMAIN log[e] |-> log[e][n]] BY DEF Minus, Restrict
  <2>3. QED BY <2>1, <2>2
<1>2. Minus(log, {}) \in [Devices -> Segments] BY MinusLog
<1>3. QED BY <1>1, <1>2

LEMMA GrowsRefl == ASSUME NEW log PROVE Grows(log, log)
BY DEF Grows

(* The least and the greatest number of a set. *)
LEMMA LeastOf ==
  ASSUME NEW T \in SUBSET Nat, T # {}
  PROVE  Min(T) \in T /\ \A n \in T : Min(T) <= n
<1> DEFINE R == {ss \in Nat \X Nat : ss[1] < ss[2]}
<1>1. IsWellFoundedOn(R, Nat) BY NatLessThanWellFounded DEF OpToRel
<1> HIDE DEF R
<1>2. PICK k \in T : \A m \in T : ~ (<<m, k>> \in R) BY <1>1, WFMin
<1> USE DEF R
<1>3. ASSUME NEW m \in T PROVE k <= m
  <2>1. <<m, k>> \in Nat \X Nat /\ <<m, k>>[1] = m /\ <<m, k>>[2] = k OBVIOUS
  <2>2. ~(m < k) BY <1>2, <2>1
  <2>3. QED BY <2>2
<1>4. QED BY <1>3 DEF Min

LEMMA GreatestOf ==
  ASSUME NEW N \in Nat, NEW S \in SUBSET (0..N), S # {}
  PROVE  \E k \in S : \A n \in S : n <= k
<1> DEFINE T == {N - n : n \in S}
<1>1. \A n \in S : n \in 0..N /\ N - n \in Nat OBVIOUS
<1>2. T \in SUBSET Nat /\ T # {} BY <1>1
<1> HIDE DEF T
<1>3. Min(T) \in T /\ \A n \in T : Min(T) <= n BY <1>2, LeastOf
<1> USE DEF T
<1>4. PICK j \in S : Min(T) = N - j BY <1>3
<1>5. ASSUME NEW n \in S PROVE n <= j
  <2>1. N - n \in T BY <1>5
  <2>2. N - j <= N - n BY <1>3, <1>4, <2>1
  <2>3. QED BY <1>1, <2>2
<1>6. QED BY <1>5

(* A set of numbers without gaps is counted by its greatest.               *)
LEMMA GaplessCount ==
  ASSUME NEW S \in SUBSET (1..MaxSegments)
  PROVE  /\ Cardinality(S) \in Nat
         /\ Gapless(S) <=> S = 1..Cardinality(S)
<1>1. MaxSegments \in Nat BY SyncAssumption
<1>2. Cardinality(S) \in Nat
  <2>1. IsFiniteSet(1..MaxSegments) BY <1>1, FS_Interval
  <2>2. QED BY <2>1, FS_Subset, FS_CardinalityType
<1>3. S = 1..Cardinality(S) => Gapless(S) BY <1>2 DEF Gapless
<1>4. ASSUME Gapless(S) PROVE S = 1..Cardinality(S)
  <2>1. CASE S = {} BY <2>1, FS_EmptySet
  <2>2. CASE S # {}
    <3>1. S \in SUBSET (0..MaxSegments) BY <1>1
    <3>2. PICK k \in S : \A n \in S : n <= k BY <1>1, <2>2, <3>1, GreatestOf
    <3>3. k \in Nat /\ k >= 1 BY <1>1, <3>2
    <3>4. \A n \in S : n \in 1..k BY <1>1, <3>2, <3>3
    <3>5. \A n \in 1..k : n \in S BY <1>4, <3>2 DEF Gapless
    <3>6. S = 1..k BY <3>4, <3>5
    <3>7. Cardinality(1..k) = k BY <3>3, FS_Interval
    <3>8. QED BY <3>6, <3>7
  <2>3. QED BY <2>1, <2>2
<1>5. QED BY <1>2, <1>3, <1>4

(* writeSegment adds the next number; a power loss takes the last.         *)
LEMMA GaplessNext ==
  ASSUME NEW S \in SUBSET (1..MaxSegments), Gapless(S)
  PROVE  /\ Gapless(S \cup {Cardinality(S) + 1})
         /\ Gapless(S \ {Cardinality(S)})
         /\ S # {} => Cardinality(S) \in S
         /\ Cardinality(S) + 1 \notin S /\ Cardinality(S) \in Nat
<1>1. Cardinality(S) \in Nat /\ S = 1..Cardinality(S) BY GaplessCount
<1> DEFINE k == Cardinality(S)
<1> HIDE DEF k
<1>2. k \in Nat /\ S = 1..k BY <1>1 DEF k
<1>3. Gapless((1..k) \cup {k + 1}) BY <1>2 DEF Gapless
<1>4. Gapless((1..k) \ {k}) BY <1>2 DEF Gapless
<1>5. (1..k # {} => k \in 1..k) /\ k + 1 \notin 1..k BY <1>2
<1>6. QED BY <1>2, <1>3, <1>4, <1>5 DEF k

-----------------------------------------------------------------------------
(* Lemmas about a client. *)

(* More segments at hand and at the relay are no harm.                     *)
LEMMA ClientGrows ==
  ASSUME NEW c \in Clients, NEW p, NEW q \in SUBSET Devices, NEW e \in Devices,
         NEW t, NEW g \in [up : SUBSET Keys, down : SUBSET Keys],
         NEW H, NEW S, NEW i, NEW k, NEW H2, NEW S2, NEW i2, NEW k2,
         Client(c, p, q, e, t, g, H, S, i, k),
         Grows(H, H2), i2 => i /\ Grows(S, S2), k2 => k
  PROVE  Client(c, p, q, e, t, g, H2, S2, i2, k2)
<1>1. \A s \in g.up \cup g.down : s[1] \in Devices BY DEF Keys
<1>2. ASSUME Pushing(q, e, t, g, H, S, i) PROVE Pushing(q, e, t, g, H2, S2, i2)
  <2>1. t \subseteq DOMAIN H2[e] BY <1>2 DEF Pushing, Grows
  <2>2. \A s \in g.up : s[2] \in DOMAIN H2[s[1]] BY <1>1, <1>2 DEF Pushing, Grows
  <2>3. ASSUME i2
        PROVE  /\ \A n \in t : \A m \in 1..n : m \in t \/ m \in DOMAIN S2[e]
               /\ \A s \in g.up : \/ s[2] \in DOMAIN S2[s[1]]
                                  \/ s[1] \in q
                                  \/ s[1] = e /\ s[2] \in t
    BY <1>1, <1>2, <2>3 DEF Pushing, Grows
  <2>4. QED BY <2>1, <2>2, <2>3 DEF Pushing
<1>3. ASSUME Pulling(c, p, q, e, t, g, H, S, i, k) PROVE Pulling(c, p, q, e, t, g, H2, S2, i2, k2)
  <2>1. /\ DeviceOf[c] \notin q
        /\ p = "listing" => e # DeviceOf[c] /\ t \subseteq DOMAIN H2[e]
        /\ p = "downloading" /\ t # {} => e # DeviceOf[c]
        /\ p = "synced" => q = {} /\ t = {}
    BY <1>3 DEF Pulling, Grows
  <2>2. ASSUME i2
        PROVE  /\ \A s \in g.up \cup g.down : s[2] \in DOMAIN S2[s[1]]
               /\ p = "downloading" =>
                    \A n \in t : \A m \in 1..n : m \in t \/ m \in DOMAIN H2[e]
    BY <1>1, <1>3, <2>2 DEF Pulling, Grows
  <2>3. ASSUME i2, k2
        PROVE  \A s \in g.down :
                 \/ s[2] \in DOMAIN H2[s[1]]
                 \/ s[1] \in q
                 \/ s[1] = e /\ (p = "listing" \/ s[2] \in t)
    BY <1>1, <1>3, <2>3 DEF Pulling, Grows
  <2>4. QED BY <2>1, <2>2, <2>3 DEF Pulling
<1>4. QED BY <1>2, <1>3 DEF Client

LEMMA ClientIdle ==
  ASSUME NEW c, NEW q, NEW e, NEW g, NEW H, NEW S, NEW i, NEW k
  PROVE  Client(c, "idle", q, e, {}, g, H, S, i, k)
BY DEF Client

(* The clients that a step leaves alone, and the one it is of, if any.     *)
LEMMA ClientsStep ==
  ASSUME IInv, NEW moved \in SUBSET Clients,
         \A c \in Clients \ moved :
           /\ pc'[c] = pc[c] /\ via'[c] = via[c] /\ queue'[c] = queue[c]
           /\ device'[c] = device[c] /\ todo'[c] = todo[c] /\ goal'[c] = goal[c]
           /\ Grows(held[DeviceOf[c]], held'[DeviceOf[c]]),
         intact' => intact /\ \A r \in Relays : Grows(store[r], store'[r]),
         known' => known,
         \A c \in moved :
           Client(c, pc'[c], queue'[c], device'[c], todo'[c], goal'[c],
                  held'[DeviceOf[c]], store'[via'[c]], intact', known')
  PROVE  AllClients'
<1>1. ASSUME NEW c \in Clients \ moved
      PROVE  Client(c, pc'[c], queue'[c], device'[c], todo'[c], goal'[c],
                    held'[DeviceOf[c]], store'[via'[c]], intact', known')
  <2>1. Client(c, pc[c], queue[c], device[c], todo[c], goal[c],
               held[DeviceOf[c]], store[via[c]], intact, known)
    BY DEF IInv, AllClients
  <2>2. /\ queue[c] \in SUBSET Devices /\ device[c] \in Devices
        /\ goal[c] \in [up : SUBSET Keys, down : SUBSET Keys]
        /\ via[c] \in Relays
    BY DEF IInv, Types
  <2>3. Grows(held[DeviceOf[c]], held'[DeviceOf[c]]) BY <1>1
  <2>4. /\ intact' => intact /\ Grows(store[via[c]], store'[via[c]])
        /\ known' => known
    BY <2>2
  <2>5. Client(c, pc[c], queue[c], device[c], todo[c], goal[c],
               held'[DeviceOf[c]], store'[via[c]], intact', known')
    BY <2>1, <2>2, <2>3, <2>4, ClientGrows
  <2>6. /\ pc'[c] = pc[c] /\ via'[c] = via[c] /\ queue'[c] = queue[c]
        /\ device'[c] = device[c] /\ todo'[c] = todo[c] /\ goal'[c] = goal[c]
    BY <1>1
  <2>7. QED BY <2>5, <2>6
<1>2. \A c \in Clients :
        Client(c, pc'[c], queue'[c], device'[c], todo'[c], goal'[c],
               held'[DeviceOf[c]], store'[via'[c]], intact', known')
  BY <1>1
<1>3. QED BY <1>2 DEF AllClients

LEMMA NothingYet ==
  Empty \in [Devices -> Segments] /\ \A e \in Devices : DOMAIN Empty[e] = {}
<1>1. << >> \in Segments /\ DOMAIN << >> = {}
  <2>1. << >> \in [{} -> 0..MaxPowerLosses] OBVIOUS
  <2>2. QED BY <2>1, SegmentsFunction
<1>2. QED BY <1>1 DEF Empty

LEMMA Initially == Init => IInv
<1> SUFFICES ASSUME Init PROVE IInv OBVIOUS
<1>2. Empty \in [Devices -> Segments] /\ \A e \in Devices : DOMAIN Empty[e] = {}
  BY NothingYet
<1>3. /\ \A d \in Devices : held[d] = Empty
      /\ \A r \in Relays : store[r] = Empty
      /\ uploads = {} /\ unsynced = {} /\ intact = TRUE /\ known = TRUE
      /\ \A c \in Clients : pc[c] = "idle" /\ todo[c] = {}
  BY DEF Init
<1>4. Types
  <2>1. saved \in [Devices -> Relays]
    <3>1. PICK r \in Relays : saved = [d \in Devices |-> r] BY DEF Init
    <3>2. QED BY <3>1
  <2>2. \A c \in Clients : DeviceOf[c] \in Devices BY SyncAssumption
  <2>3. via \in [Clients -> Relays] BY <2>1, <2>2 DEF Init
  <2>4. device \in [Clients -> Devices] BY <2>2 DEF Init
  <2>5. MaxPowerLosses \in Nat BY SyncAssumption
  <2>6. lives \in [Devices -> 0..MaxPowerLosses] BY <2>5 DEF Init
  <2>7. goal \in [Clients -> [up : SUBSET Keys, down : SUBSET Keys]] BY DEF Init
  <2>8. /\ held \in [Devices -> [Devices -> Segments]]
        /\ store \in [Relays -> [Devices -> Segments]]
    BY <1>2 DEF Init
  <2>9. QED BY <2>1, <2>3, <2>4, <2>6, <2>7, <2>8 DEF Init, Types
<1>5. Own BY <1>2, <1>3 DEF Own, Gapless
<1>6. Contents BY <1>2, <1>3 DEF Contents
<1>7. Tokens
  <2>1. \A r \in Relays, e \in Devices : DOMAIN store[r][e] = {} BY <1>2, <1>3
  <2>2. QED BY <1>3, <2>1 DEF Tokens
<1>8. Whole BY <1>2, <1>3 DEF Whole, Gapless
<1>9. Sent BY <1>3 DEF Sent
<1>10. AllClients
  <2>1. ASSUME NEW c \in Clients
        PROVE  Client(c, pc[c], queue[c], device[c], todo[c], goal[c],
                      held[DeviceOf[c]], store[via[c]], intact, known)
    BY <1>3, ClientIdle
  <2>2. QED BY <2>1 DEF AllClients
<1>11. QED BY <1>4, <1>5, <1>6, <1>7, <1>8, <1>9, <1>10 DEF IInv

-----------------------------------------------------------------------------
(* The steps of a client. *)

Phases == {"idle", "comparing", "uploading", "waiting", "listing", "downloading", "synced"}

LEMMA ClientStep ==
  ASSUME IInv, NEW c \in Clients,
         UNCHANGED <<held, unsynced, saved, store, token, uploads, lives, intact, known, forked, known, forked>>,
         pc' \in [Clients -> Phases], via' \in [Clients -> Relays],
         queue' \in [Clients -> SUBSET Devices], device' \in [Clients -> Devices],
         todo' \in [Clients -> SUBSET (1..MaxSegments)],
         goal' \in [Clients -> [up : SUBSET Keys, down : SUBSET Keys]],
         \A x \in Clients \ {c} :
           /\ pc'[x] = pc[x] /\ via'[x] = via[x] /\ queue'[x] = queue[x]
           /\ device'[x] = device[x] /\ todo'[x] = todo[x] /\ goal'[x] = goal[x],
         Client(c, pc'[c], queue'[c], device'[c], todo'[c], goal'[c],
                held[DeviceOf[c]], store[via'[c]], intact, known)
  PROVE  IInv'
<1>1. Types' BY DEF IInv, Types, Phases
<1>2. Own' BY DEF IInv, Own
<1>3. Contents' BY DEF IInv, Contents
<1>4. Tokens' BY DEF IInv, Tokens
<1>5. Whole' BY DEF IInv, Whole
<1>6. Sent' BY DEF IInv, Sent
<1>7. AllClients'
  <2>1. {c} \in SUBSET Clients OBVIOUS
  <2>2. \A x \in Clients : Grows(held[DeviceOf[x]], held'[DeviceOf[x]])
    BY DEF Grows
  <2>3. \A r \in Relays : Grows(store[r], store'[r]) BY DEF Grows
  <2>4. known' => known OBVIOUS
  <2>5. QED BY <2>1, <2>2, <2>3, <2>4, ClientsStep
<1>8. QED BY <1>1, <1>2, <1>3, <1>4, <1>5, <1>6, <1>7 DEF IInv

(* What is known of a client. *)
LEMMA ClientNow ==
  ASSUME IInv, NEW c \in Clients
  PROVE  /\ DeviceOf[c] \in Devices /\ held[DeviceOf[c]] \in [Devices -> Segments]
         /\ pc[c] \in Phases /\ via[c] \in Relays /\ queue[c] \in SUBSET Devices
         /\ device[c] \in Devices /\ todo[c] \in SUBSET (1..MaxSegments)
         /\ goal[c] \in [up : SUBSET Keys, down : SUBSET Keys]
         /\ store[via[c]] \in [Devices -> Segments]
         /\ Client(c, pc[c], queue[c], device[c], todo[c], goal[c],
                   held[DeviceOf[c]], store[via[c]], intact, known)
<1>1. DeviceOf[c] \in Devices BY SyncAssumption
<1>2. Client(c, pc[c], queue[c], device[c], todo[c], goal[c],
             held[DeviceOf[c]], store[via[c]], intact, known)
  BY DEF IInv, AllClients
<1>3. QED BY <1>1, <1>2 DEF IInv, Types, Phases

(* A listing has what the relay has, or nothing. *)
LEMMA ListedLog ==
  ASSUME IInv, NEW r \in Relays
  PROVE  /\ Listed(r) \in [Devices -> Segments]
         /\ Grows(Listed(r), store[r])
         /\ intact => \A e \in Devices : Gapless(DOMAIN Listed(r)[e])
         /\ Lists(r) /\ known => Grows(store[r], Listed(r))
<1>1. store[r] \in [Devices -> Segments] BY DEF IInv, Types
<1>2. CASE Admits(r)
  <2>1. Listed(r) = store[r] BY <1>2 DEF Listed
  <2>2. QED BY <1>1, <2>1, GrowsRefl DEF IInv, Whole
<1>3. CASE ~Admits(r)
  <2>1. Listed(r) = Empty BY <1>3 DEF Listed
  <2>2. Empty \in [Devices -> Segments] /\ \A e \in Devices : DOMAIN Empty[e] = {}
    BY NothingYet
  <2>3. Lists(r) /\ known => \A e \in Devices : DOMAIN store[r][e] = {}
    <3>1. Lists(r) => token[r] = None BY <1>3 DEF Lists
    <3>2. QED BY <3>1 DEF IInv, Tokens
  <2> HIDE DEF Empty
  <2>4. QED BY <2>1, <2>2, <2>3 DEF Grows, Gapless
<1>4. QED BY <1>2, <1>3

LEMMA BeginKeeps ==
  ASSUME IInv, NEW c \in Clients, NEW reseed \in BOOLEAN, Begin(c, reseed)
  PROVE  IInv'
<1> DEFINE d == DeviceOf[c]
           H == held[d]
           up == {s \in Numbers(H) : reseed \/ s[1] = d}
           q == PushDevices(d, reseed)
           g == [up |-> up, down |-> goal[c].down]
<1>1. /\ UNCHANGED <<held, unsynced, saved, store, token, uploads, lives, intact, known, forked, known, forked>>
      /\ pc[c] = "idle"
      /\ pc' = [pc EXCEPT ![c] = "uploading"]
      /\ via' = [via EXCEPT ![c] = saved[d]]
      /\ queue' = [queue EXCEPT ![c] = q]
      /\ goal' = [goal EXCEPT ![c].up = up]
      /\ device' = device /\ todo' = todo
  BY DEF Begin, Goto, devices, relays, history
<1>2. /\ d \in Devices /\ H \in [Devices -> Segments] /\ todo[c] = {}
  BY <1>1, ClientNow DEF Client
<1>3. up \in SUBSET Keys /\ \A s \in up : s[2] \in DOMAIN H[s[1]] /\ s[1] \in Devices
  BY InNumbers DEF Keys
<1>4. q \in SUBSET Devices BY <1>2 DEF PushDevices
<1>5. \A s \in up : s[1] \in q
  <2>1. ASSUME NEW s \in up PROVE s[1] \in q
    <3>1. s[2] \in DOMAIN H[s[1]] /\ s[1] \in Devices BY <1>3
    <3>2. H[s[1]] # << >> BY <1>2, <3>1, NoSegments
    <3>3. CASE reseed BY <3>1, <3>2, <3>3 DEF PushDevices
    <3>4. CASE ~reseed
      <4>1. s[1] = d BY <3>4
      <4>2. QED BY <3>4, <4>1 DEF PushDevices
    <3>5. QED BY <3>3, <3>4
  <2>2. QED BY <2>1
<1> HIDE DEF up, q
<1>6. /\ pc \in [Clients -> Phases] /\ via \in [Clients -> Relays]
      /\ queue \in [Clients -> SUBSET Devices] /\ saved[d] \in Relays
      /\ goal \in [Clients -> [up : SUBSET Keys, down : SUBSET Keys]]
      /\ device \in [Clients -> Devices] /\ todo \in [Clients -> SUBSET (1..MaxSegments)]
  BY <1>2 DEF IInv, Types, Phases
<1>7. g \in [up : SUBSET Keys, down : SUBSET Keys] BY <1>3, <1>6
<1>8. goal' = [goal EXCEPT ![c] = g]
  <2>1. [goal[c] EXCEPT !.up = up] = g BY <1>6
  <2>2. QED BY <1>1, <2>1
<1>9. g.up = up BY DEF g
<1> HIDE DEF g
<1>10. Pushing(q, device[c], {}, g, H, store[saved[d]], intact)
  BY <1>3, <1>5, <1>9 DEF Pushing
<1>11. /\ pc' \in [Clients -> Phases] /\ via' \in [Clients -> Relays]
       /\ queue' \in [Clients -> SUBSET Devices] /\ device' \in [Clients -> Devices]
       /\ todo' \in [Clients -> SUBSET (1..MaxSegments)]
       /\ goal' \in [Clients -> [up : SUBSET Keys, down : SUBSET Keys]]
       /\ pc'[c] = "uploading" /\ via'[c] = saved[d] /\ queue'[c] = q
       /\ device'[c] = device[c] /\ todo'[c] = {} /\ goal'[c] = g
       /\ \A x \in Clients \ {c} :
            /\ pc'[x] = pc[x] /\ via'[x] = via[x] /\ queue'[x] = queue[x]
            /\ device'[x] = device[x] /\ todo'[x] = todo[x] /\ goal'[x] = goal[x]
  BY <1>1, <1>2, <1>4, <1>6, <1>7, <1>8 DEF Phases
<1>12. Client(c, pc'[c], queue'[c], device'[c], todo'[c], goal'[c],
              held[DeviceOf[c]], store[via'[c]], intact, known)
  BY <1>10, <1>11 DEF Client
<1>13. QED BY <1>1, <1>11, <1>12, ClientStep

LEMMA PushDeviceKeeps ==
  ASSUME IInv, NEW c \in Clients, NEW e \in Devices, PushDevice(c, e)
  PROVE  IInv'
<1> DEFINE H == held[DeviceOf[c]]
           S == store[via[c]]
           p == IF H[e] = << >> THEN "uploading" ELSE "comparing"
<1>1. /\ UNCHANGED <<held, unsynced, saved, store, token, uploads, lives, intact, known, forked, known, forked>>
      /\ pc[c] = "uploading" /\ todo[c] = {} /\ e \in queue[c]
      /\ pc' = [pc EXCEPT ![c] = p]
      /\ queue' = [queue EXCEPT ![c] = @ \ {e}]
      /\ device' = [device EXCEPT ![c] = e]
      /\ todo' = [todo EXCEPT ![c] = DOMAIN H[e]]
      /\ via' = via /\ goal' = goal
  BY DEF PushDevice, Goto, devices, relays, history
<1>2. /\ H \in [Devices -> Segments]
      /\ Pushing(queue[c], device[c], {}, goal[c], H, S, intact)
  BY <1>1, ClientNow DEF Client
<1>3. DOMAIN H[e] \in SUBSET (1..MaxSegments) BY <1>2, SegmentsType
<1>4. intact => Gapless(DOMAIN H[e])
  BY ClientNow DEF IInv, Whole
<1>5. p \in {"uploading", "comparing"} OBVIOUS
<1> HIDE DEF p
<1>6. Pushing(queue[c] \ {e}, e, DOMAIN H[e], goal[c], H, S, intact)
  BY <1>2, <1>4 DEF Pushing, Gapless
<1>7. /\ pc \in [Clients -> Phases] /\ via \in [Clients -> Relays]
      /\ queue \in [Clients -> SUBSET Devices]
      /\ goal \in [Clients -> [up : SUBSET Keys, down : SUBSET Keys]]
      /\ device \in [Clients -> Devices] /\ todo \in [Clients -> SUBSET (1..MaxSegments)]
  BY DEF IInv, Types, Phases
<1>8. /\ pc' \in [Clients -> Phases] /\ via' \in [Clients -> Relays]
      /\ queue' \in [Clients -> SUBSET Devices] /\ device' \in [Clients -> Devices]
      /\ todo' \in [Clients -> SUBSET (1..MaxSegments)]
      /\ goal' \in [Clients -> [up : SUBSET Keys, down : SUBSET Keys]]
      /\ pc'[c] = p /\ via'[c] = via[c] /\ queue'[c] = queue[c] \ {e}
      /\ device'[c] = e /\ todo'[c] = DOMAIN H[e] /\ goal'[c] = goal[c]
      /\ \A x \in Clients \ {c} :
           /\ pc'[x] = pc[x] /\ via'[x] = via[x] /\ queue'[x] = queue[x]
           /\ device'[x] = device[x] /\ todo'[x] = todo[x] /\ goal'[x] = goal[x]
  BY <1>1, <1>3, <1>5, <1>7 DEF Phases
<1>9. Client(c, pc'[c], queue'[c], device'[c], todo'[c], goal'[c],
             held[DeviceOf[c]], store[via'[c]], intact, known)
  BY <1>5, <1>6, <1>8 DEF Client
<1>10. QED BY <1>1, <1>8, <1>9, ClientStep

LEMMA PushListKeeps ==
  ASSUME IInv, NEW c \in Clients, PushList(c)
  PROVE  IInv'
<1> DEFINE H == held[DeviceOf[c]]
           S == store[via[c]]
           t == todo[c] \ DOMAIN Listed(via[c])[device[c]]
<1>1. /\ UNCHANGED <<held, unsynced, saved, store, token, uploads, lives, intact, known, forked, known, forked>>
      /\ pc[c] = "comparing"
      /\ pc' = [pc EXCEPT ![c] = "uploading"]
      /\ todo' = [todo EXCEPT ![c] = t]
      /\ via' = via /\ goal' = goal /\ queue' = queue /\ device' = device
  BY DEF PushList, Goto, devices, relays, history
<1>2. /\ todo[c] \in SUBSET (1..MaxSegments)
      /\ Pushing(queue[c], device[c], todo[c], goal[c], H, S, intact)
  BY <1>1, ClientNow DEF Client
<1>3. t \in SUBSET (1..MaxSegments) BY <1>2
<1>4. Pushing(queue[c], device[c], t, goal[c], H, S, intact)
  <2>1. Grows(Listed(via[c]), S) /\ device[c] \in Devices BY ClientNow, ListedLog
  <2>2. t \subseteq todo[c] /\ \A m \in todo[c] : m \in t \/ m \in DOMAIN S[device[c]]
    BY <2>1 DEF Grows
  <2> HIDE DEF t
  <2>3. QED BY <1>2, <2>2 DEF Pushing
<1> HIDE DEF t
<1>5. /\ pc \in [Clients -> Phases] /\ via \in [Clients -> Relays]
      /\ queue \in [Clients -> SUBSET Devices]
      /\ goal \in [Clients -> [up : SUBSET Keys, down : SUBSET Keys]]
      /\ device \in [Clients -> Devices] /\ todo \in [Clients -> SUBSET (1..MaxSegments)]
  BY DEF IInv, Types, Phases
<1>6. /\ pc' \in [Clients -> Phases] /\ via' \in [Clients -> Relays]
      /\ queue' \in [Clients -> SUBSET Devices] /\ device' \in [Clients -> Devices]
      /\ todo' \in [Clients -> SUBSET (1..MaxSegments)]
      /\ goal' \in [Clients -> [up : SUBSET Keys, down : SUBSET Keys]]
      /\ pc'[c] = "uploading" /\ todo'[c] = t
      /\ \A x \in Clients \ {c} : pc'[x] = pc[x] /\ todo'[x] = todo[x]
  BY <1>1, <1>3, <1>5 DEF Phases
<1>7. Client(c, pc'[c], queue'[c], device'[c], todo'[c], goal'[c],
             held[DeviceOf[c]], store[via'[c]], intact, known)
  BY <1>1, <1>4, <1>6 DEF Client
<1>8. QED BY <1>1, <1>6, <1>7, ClientStep

LEMMA PullDevicesKeeps ==
  ASSUME IInv, NEW c \in Clients, PullDevices(c)
  PROVE  IInv'
<1> DEFINE d == DeviceOf[c]
           H == held[d]
           S == store[via[c]]
           L == Listed(via[c])
           others == {e \in Devices \ {d} : L[e] # << >>}
           down == {s \in Numbers(L) : s[1] \in others}
           g == [up |-> goal[c].up, down |-> down]
<1>1. /\ UNCHANGED <<held, unsynced, saved, store, token, uploads, lives, intact, known, forked, known, forked>>
      /\ pc[c] = "uploading" /\ todo[c] = {} /\ queue[c] = {}
      /\ pc' = [pc EXCEPT ![c] = "downloading"]
      /\ queue' = [queue EXCEPT ![c] = others]
      /\ goal' = [goal EXCEPT ![c].down = down]
      /\ via' = via /\ device' = device /\ todo' = todo
  BY DEF PullDevices, Goto, devices, relays, history
<1>2. Pushing({}, device[c], {}, goal[c], H, S, intact)
  <2>1. Pushing(queue[c], device[c], todo[c], goal[c], H, S, intact)
    BY <1>1, ClientNow DEF Client
  <2>2. QED BY <1>1, <2>1
<1>3. /\ down \in SUBSET Keys
      /\ \A s \in down : s[2] \in DOMAIN S[s[1]] /\ s[1] \in others
  <2>1. Grows(L, S) BY ClientNow, ListedLog
  <2>2. /\ down \in SUBSET Keys
        /\ \A s \in down : s[2] \in DOMAIN L[s[1]] /\ s[1] \in others
    BY InNumbers
  <2>3. \A s \in down : s[1] \in Devices BY <2>2 DEF Keys
  <2> HIDE DEF down, others, L, S
  <2>4. QED BY <2>1, <2>2, <2>3 DEF Grows
<1>4. others \in SUBSET Devices /\ d \notin others OBVIOUS
<1> HIDE DEF down, others
<1>5. /\ pc \in [Clients -> Phases] /\ via \in [Clients -> Relays]
      /\ queue \in [Clients -> SUBSET Devices]
      /\ goal \in [Clients -> [up : SUBSET Keys, down : SUBSET Keys]]
      /\ device \in [Clients -> Devices] /\ todo \in [Clients -> SUBSET (1..MaxSegments)]
  BY DEF IInv, Types, Phases
<1>6. g \in [up : SUBSET Keys, down : SUBSET Keys] BY <1>3, <1>5
<1>7. goal' = [goal EXCEPT ![c] = g]
  <2>1. [goal[c] EXCEPT !.down = down] = g BY <1>5
  <2>2. QED BY <1>1, <2>1
<1>8. g.up = goal[c].up /\ g.down = down BY DEF g
<1> HIDE DEF g
<1>9. Pulling(c, "downloading", others, device[c], {}, g, H, S, intact, known)
  <2>1. intact => \A s \in g.up : s[2] \in DOMAIN S[s[1]] BY <1>2, <1>8 DEF Pushing
  <2>2. \A s \in g.down : s[2] \in DOMAIN S[s[1]] /\ s[1] \in others BY <1>3, <1>8
  <2>3. QED BY <1>4, <2>1, <2>2 DEF Pulling
<1>10. /\ pc' \in [Clients -> Phases] /\ via' \in [Clients -> Relays]
       /\ queue' \in [Clients -> SUBSET Devices] /\ device' \in [Clients -> Devices]
       /\ todo' \in [Clients -> SUBSET (1..MaxSegments)]
       /\ goal' \in [Clients -> [up : SUBSET Keys, down : SUBSET Keys]]
       /\ pc'[c] = "downloading" /\ via'[c] = via[c] /\ queue'[c] = others
       /\ device'[c] = device[c] /\ todo'[c] = {} /\ goal'[c] = g
       /\ \A x \in Clients \ {c} :
            /\ pc'[x] = pc[x] /\ via'[x] = via[x] /\ queue'[x] = queue[x]
            /\ device'[x] = device[x] /\ todo'[x] = todo[x] /\ goal'[x] = goal[x]
  BY <1>1, <1>4, <1>5, <1>6, <1>7 DEF Phases
<1>11. Client(c, pc'[c], queue'[c], device'[c], todo'[c], goal'[c],
              held[DeviceOf[c]], store[via'[c]], intact, known)
  BY <1>9, <1>10 DEF Client
<1>12. QED BY <1>1, <1>10, <1>11, ClientStep

LEMMA PullDeviceKeeps ==
  ASSUME IInv, NEW c \in Clients, NEW e \in Devices, PullDevice(c, e)
  PROVE  IInv'
<1> DEFINE H == held[DeviceOf[c]]
           S == store[via[c]]
<1>1. /\ UNCHANGED <<held, unsynced, saved, store, token, uploads, lives, intact, known, forked, known, forked>>
      /\ pc[c] = "downloading" /\ todo[c] = {} /\ e \in queue[c]
      /\ pc' = [pc EXCEPT ![c] = "listing"]
      /\ queue' = [queue EXCEPT ![c] = @ \ {e}]
      /\ device' = [device EXCEPT ![c] = e]
      /\ todo' = [todo EXCEPT ![c] = DOMAIN H[e]]
      /\ via' = via /\ goal' = goal
  BY DEF PullDevice, Goto, devices, relays, history
<1>2. /\ H \in [Devices -> Segments]
      /\ Pulling(c, "downloading", queue[c], device[c], {}, goal[c], H, S, intact, known)
  BY <1>1, ClientNow DEF Client
<1>3. DOMAIN H[e] \in SUBSET (1..MaxSegments) BY <1>2, SegmentsType
<1>4. Pulling(c, "listing", queue[c] \ {e}, e, DOMAIN H[e], goal[c], H, S, intact, known)
  BY <1>1, <1>2 DEF Pulling
<1>5. /\ pc \in [Clients -> Phases] /\ via \in [Clients -> Relays]
      /\ queue \in [Clients -> SUBSET Devices]
      /\ goal \in [Clients -> [up : SUBSET Keys, down : SUBSET Keys]]
      /\ device \in [Clients -> Devices] /\ todo \in [Clients -> SUBSET (1..MaxSegments)]
  BY DEF IInv, Types, Phases
<1>6. /\ pc' \in [Clients -> Phases] /\ via' \in [Clients -> Relays]
      /\ queue' \in [Clients -> SUBSET Devices] /\ device' \in [Clients -> Devices]
      /\ todo' \in [Clients -> SUBSET (1..MaxSegments)]
      /\ goal' \in [Clients -> [up : SUBSET Keys, down : SUBSET Keys]]
      /\ pc'[c] = "listing" /\ via'[c] = via[c] /\ queue'[c] = queue[c] \ {e}
      /\ device'[c] = e /\ todo'[c] = DOMAIN H[e] /\ goal'[c] = goal[c]
      /\ \A x \in Clients \ {c} :
           /\ pc'[x] = pc[x] /\ via'[x] = via[x] /\ queue'[x] = queue[x]
           /\ device'[x] = device[x] /\ todo'[x] = todo[x] /\ goal'[x] = goal[x]
  BY <1>1, <1>3, <1>5 DEF Phases
<1>7. Client(c, pc'[c], queue'[c], device'[c], todo'[c], goal'[c],
             held[DeviceOf[c]], store[via'[c]], intact, known)
  BY <1>4, <1>6 DEF Client
<1>8. QED BY <1>1, <1>6, <1>7, ClientStep

LEMMA PullListKeeps ==
  ASSUME IInv, NEW c \in Clients, PullList(c)
  PROVE  IInv'
<1> DEFINE H == held[DeviceOf[c]]
           S == store[via[c]]
           L == Listed(via[c])
           e == device[c]
           t == DOMAIN L[e] \ todo[c]
<1>1. /\ UNCHANGED <<held, unsynced, saved, store, token, uploads, lives, intact, known, forked, known, forked>>
      /\ pc[c] = "listing" /\ Lists(via[c])
      /\ pc' = [pc EXCEPT ![c] = "downloading"]
      /\ todo' = [todo EXCEPT ![c] = t]
      /\ via' = via /\ goal' = goal /\ queue' = queue /\ device' = device
  BY DEF PullList, Goto, devices, relays, history
<1>2. /\ e \in Devices /\ via[c] \in Relays
      /\ Pulling(c, "listing", queue[c], e, todo[c], goal[c], H, S, intact, known)
  BY <1>1, ClientNow DEF Client
<1>3. t \in SUBSET (1..MaxSegments)
  <2>1. L[e] \in Segments BY <1>2, ListedLog
  <2>2. QED BY <2>1, SegmentsType
<1>4. /\ intact => Gapless(DOMAIN L[e])
      /\ known => DOMAIN S[e] \subseteq DOMAIN L[e]
  <2>1. known => Grows(S, L) BY <1>1, <1>2, ListedLog
  <2>2. intact => Gapless(DOMAIN L[e]) BY <1>2, ListedLog
  <2> HIDE DEF S, L
  <2>3. QED BY <1>2, <2>1, <2>2 DEF Grows
<1>5. Pulling(c, "downloading", queue[c], e, t, goal[c], H, S, intact, known)
  <2>1. /\ DeviceOf[c] \notin queue[c] /\ e # DeviceOf[c] /\ todo[c] \subseteq DOMAIN H[e]
    BY <1>2 DEF Pulling
  <2>2. ASSUME intact
        PROVE  /\ \A s \in goal[c].up \cup goal[c].down : s[2] \in DOMAIN S[s[1]]
               /\ \A n \in t : \A m \in 1..n : m \in t \/ m \in DOMAIN H[e]
    <3>1. \A s \in goal[c].up \cup goal[c].down : s[2] \in DOMAIN S[s[1]]
      BY <1>2, <2>2 DEF Pulling
    <3>2. \A n \in t : \A m \in 1..n : m \in t \/ m \in DOMAIN H[e]
      BY <1>4, <2>1, <2>2 DEF Gapless
    <3>3. QED BY <3>1, <3>2
  <2>3. ASSUME intact, known, NEW s \in goal[c].down
        PROVE  s[2] \in DOMAIN H[s[1]] \/ s[1] \in queue[c] \/ (s[1] = e /\ s[2] \in t)
    <3>1. s[2] \in DOMAIN S[s[1]] BY <1>2, <2>3 DEF Pulling
    <3>2. s[2] \in DOMAIN H[s[1]] \/ s[1] \in queue[c] \/ s[1] = e
      BY <1>2, <2>3 DEF Pulling
    <3>3. s[1] = e => s[2] \in DOMAIN L[e] BY <1>4, <2>3, <3>1
    <3> HIDE DEF L, S
    <3>4. QED BY <2>1, <3>2, <3>3
  <2> HIDE DEF t
  <2>4. QED BY <2>1, <2>2, <2>3 DEF Pulling
<1> HIDE DEF t
<1>6. /\ pc \in [Clients -> Phases] /\ via \in [Clients -> Relays]
      /\ queue \in [Clients -> SUBSET Devices]
      /\ goal \in [Clients -> [up : SUBSET Keys, down : SUBSET Keys]]
      /\ device \in [Clients -> Devices] /\ todo \in [Clients -> SUBSET (1..MaxSegments)]
  BY DEF IInv, Types, Phases
<1>7. /\ pc' \in [Clients -> Phases] /\ via' \in [Clients -> Relays]
      /\ queue' \in [Clients -> SUBSET Devices] /\ device' \in [Clients -> Devices]
      /\ todo' \in [Clients -> SUBSET (1..MaxSegments)]
      /\ goal' \in [Clients -> [up : SUBSET Keys, down : SUBSET Keys]]
      /\ pc'[c] = "downloading" /\ todo'[c] = t
      /\ \A x \in Clients \ {c} : pc'[x] = pc[x] /\ todo'[x] = todo[x]
  BY <1>1, <1>3, <1>6 DEF Phases
<1>8. Client(c, pc'[c], queue'[c], device'[c], todo'[c], goal'[c],
             held[DeviceOf[c]], store[via'[c]], intact, known)
  BY <1>1, <1>5, <1>7 DEF Client
<1>9. QED BY <1>1, <1>7, <1>8, ClientStep

LEMMA SyncedKeeps ==
  ASSUME IInv, NEW c \in Clients, Synced(c)
  PROVE  IInv'
<1> DEFINE H == held[DeviceOf[c]]
           S == store[via[c]]
<1>1. /\ UNCHANGED <<held, unsynced, saved, store, token, uploads, lives, intact, known, forked, known, forked>>
      /\ pc[c] = "downloading" /\ todo[c] = {} /\ queue[c] = {}
      /\ pc' = [pc EXCEPT ![c] = "synced"] /\ todo' = todo
      /\ via' = via /\ goal' = goal /\ queue' = queue /\ device' = device
  BY DEF Synced, Goto, devices, relays, history
<1>2. Pulling(c, "downloading", {}, device[c], {}, goal[c], H, S, intact, known)
  <2>1. Pulling(c, "downloading", queue[c], device[c], todo[c], goal[c], H, S, intact, known)
    <3>1. Client(c, pc[c], queue[c], device[c], todo[c], goal[c], H, S, intact, known)
      BY ClientNow
    <3>2. pc[c] = "downloading" BY <1>1
    <3>3. QED BY <3>1, <3>2 DEF Client
  <2>2. QED BY <1>1, <2>1
<1>3. Pulling(c, "synced", {}, device[c], {}, goal[c], H, S, intact, known)
  BY <1>2 DEF Pulling
<1>4. /\ pc \in [Clients -> Phases] /\ via \in [Clients -> Relays]
      /\ queue \in [Clients -> SUBSET Devices]
      /\ goal \in [Clients -> [up : SUBSET Keys, down : SUBSET Keys]]
      /\ device \in [Clients -> Devices] /\ todo \in [Clients -> SUBSET (1..MaxSegments)]
  BY DEF IInv, Types, Phases
<1>5. /\ pc' \in [Clients -> Phases] /\ pc'[c] = "synced"
      /\ \A x \in Clients \ {c} : pc'[x] = pc[x]
  BY <1>1, <1>4 DEF Phases
<1>6. Client(c, pc'[c], queue'[c], device'[c], todo'[c], goal'[c],
             held[DeviceOf[c]], store[via'[c]], intact, known)
  BY <1>1, <1>3, <1>5 DEF Client
<1>7. QED BY <1>1, <1>4, <1>5, <1>6, ClientStep

(* Clients that have stopped have nothing to do, the others go on.         *)
LEMMA StoppedClients ==
  ASSUME IInv, NEW cs \in SUBSET Clients, Stopped(cs)
  PROVE  /\ pc' \in [Clients -> Phases] /\ via' \in [Clients -> Relays]
         /\ queue' \in [Clients -> SUBSET Devices] /\ device' \in [Clients -> Devices]
         /\ todo' \in [Clients -> SUBSET (1..MaxSegments)]
         /\ goal' \in [Clients -> [up : SUBSET Keys, down : SUBSET Keys]]
         /\ \A c \in cs : pc'[c] = "idle" /\ todo'[c] = {}
         /\ \A c \in Clients \ cs :
              /\ pc'[c] = pc[c] /\ via'[c] = via[c] /\ queue'[c] = queue[c]
              /\ device'[c] = device[c] /\ todo'[c] = todo[c] /\ goal'[c] = goal[c]
<1>1. /\ pc \in [Clients -> Phases] /\ via \in [Clients -> Relays]
      /\ queue \in [Clients -> SUBSET Devices] /\ saved \in [Devices -> Relays]
      /\ goal \in [Clients -> [up : SUBSET Keys, down : SUBSET Keys]]
      /\ device \in [Clients -> Devices] /\ todo \in [Clients -> SUBSET (1..MaxSegments)]
      /\ DeviceOf \in [Clients -> Devices]
  BY SyncAssumption DEF IInv, Types, Phases
<1>2. "idle" \in Phases BY DEF Phases
<1>3. pc' \in [Clients -> Phases] /\ todo' \in [Clients -> SUBSET (1..MaxSegments)]
  BY <1>1, <1>2 DEF Stopped
<1>4. queue' \in [Clients -> SUBSET Devices] /\ device' \in [Clients -> Devices]
  BY <1>1 DEF Stopped
<1>5. via' \in [Clients -> Relays] BY <1>1 DEF Stopped
<1>6. goal' \in [Clients -> [up : SUBSET Keys, down : SUBSET Keys]]
  <2>1. [up |-> {}, down |-> {}] \in [up : SUBSET Keys, down : SUBSET Keys] OBVIOUS
  <2>2. QED BY <1>1, <2>1 DEF Stopped
<1>7. /\ \A c \in cs : pc'[c] = "idle" /\ todo'[c] = {}
      /\ \A c \in Clients \ cs :
           /\ pc'[c] = pc[c] /\ via'[c] = via[c] /\ queue'[c] = queue[c]
           /\ device'[c] = device[c] /\ todo'[c] = todo[c] /\ goal'[c] = goal[c]
  BY DEF Stopped
<1>8. QED BY <1>3, <1>4, <1>5, <1>6, <1>7

LEMMA StopKeeps ==
  ASSUME IInv, NEW c \in Clients, Return(c) \/ Abort(c)
  PROVE  IInv'
<1>1. /\ UNCHANGED <<held, unsynced, saved, store, token, uploads, lives, intact, known, forked, known, forked>>
      /\ Stopped({c})
  BY DEF Return, Abort, devices, relays, history
<1>2. /\ pc' \in [Clients -> Phases] /\ via' \in [Clients -> Relays]
      /\ queue' \in [Clients -> SUBSET Devices] /\ device' \in [Clients -> Devices]
      /\ todo' \in [Clients -> SUBSET (1..MaxSegments)]
      /\ goal' \in [Clients -> [up : SUBSET Keys, down : SUBSET Keys]]
      /\ pc'[c] = "idle" /\ todo'[c] = {}
      /\ \A x \in Clients \ {c} :
           /\ pc'[x] = pc[x] /\ via'[x] = via[x] /\ queue'[x] = queue[x]
           /\ device'[x] = device[x] /\ todo'[x] = todo[x] /\ goal'[x] = goal[x]
  BY <1>1, StoppedClients
<1>3. Client(c, pc'[c], queue'[c], device'[c], todo'[c], goal'[c],
             held[DeviceOf[c]], store[via'[c]], intact, known)
  BY <1>2, ClientIdle
<1>4. QED BY <1>1, <1>2, <1>3, ClientStep

LEMMA UploadKeeps ==
  ASSUME IInv, NEW c \in Clients, Upload(c)
  PROVE  IInv'
<1> DEFINE H == held[DeviceOf[c]]
           S == store[via[c]]
           e == device[c]
           t == todo[c]
           n == NextUp(c)
           u == [client |-> c, relay |-> via[c], device |-> e, number |-> n,
                 content |-> H[e][n], received |-> FALSE]
<1>1. /\ UNCHANGED <<held, unsynced, saved, store, token, lives, intact, known, forked, known, forked>>
      /\ pc[c] = "uploading" /\ t # {}
      /\ uploads' = uploads \cup {u}
      /\ pc' = [pc EXCEPT ![c] = "waiting"]
      /\ via' = via /\ goal' = goal /\ queue' = queue /\ device' = device /\ todo' = todo
  BY DEF Upload, Goto, devices, history
<1>2. /\ H \in [Devices -> Segments] /\ e \in Devices /\ via[c] \in Relays
      /\ DeviceOf[c] \in Devices
      /\ t \in SUBSET (1..MaxSegments)
      /\ Pushing(queue[c], e, t, goal[c], H, S, intact)
  BY <1>1, ClientNow DEF Client
<1>3. n \in t /\ \A m \in t : n <= m
  <2>1. t \in SUBSET Nat BY <1>2
  <2>2. QED BY <1>1, <2>1, LeastOf DEF NextUp
<1>4. n \in 1..MaxSegments /\ n \in DOMAIN H[e] BY <1>2, <1>3 DEF Pushing
<1>5. H[e][n] \in 0..MaxPowerLosses BY <1>2, <1>4, SegmentsType
<1>6. H[e][n] <= lives[e] BY <1>2, <1>4 DEF IInv, Contents
<1>7. intact => \A m \in 1..(n - 1) : m \in DOMAIN S[e]
  <2>1. \A m \in 1..(n - 1) : m \in 1..n /\ m \notin t BY <1>3, <1>4
  <2>2. QED BY <1>2, <1>3, <2>1 DEF Pushing
<1> HIDE DEF n
<1>8. u \in [client : Clients, relay : Relays, device : Devices,
             number : 1..MaxSegments, content : 0..MaxPowerLosses, received : BOOLEAN]
  BY <1>2, <1>4, <1>5
<1>9. /\ u.relay = via[c] /\ u.device = e /\ u.number = n /\ u.content = H[e][n]
      /\ u.received = FALSE
  OBVIOUS
<1> HIDE DEF u
<1>10. pc' \in [Clients -> Phases] /\ pc'[c] = "waiting"
       /\ \A x \in Clients \ {c} : pc'[x] = pc[x]
  BY <1>1 DEF IInv, Types, Phases
<1>11. Types' BY <1>1, <1>8, <1>10 DEF IInv, Types, Phases
<1>12. Own' BY <1>1 DEF IInv, Own
<1>13. Contents' BY <1>1, <1>6, <1>9 DEF IInv, Contents
<1>14. Tokens' BY <1>1, <1>9 DEF IInv, Tokens
<1>15. Whole' BY <1>1 DEF IInv, Whole
<1>16. Sent' BY <1>1, <1>7, <1>9 DEF IInv, Sent
<1>17. AllClients'
  <2>1. Client(c, pc'[c], queue'[c], device'[c], todo'[c], goal'[c],
               held'[DeviceOf[c]], store'[via'[c]], intact', known')
    BY <1>1, <1>2, <1>10 DEF Client
  <2>2. {c} \in SUBSET Clients OBVIOUS
  <2>3. \A x \in Clients : Grows(held[DeviceOf[x]], held'[DeviceOf[x]])
    BY <1>1 DEF Grows
  <2>4. intact' => intact /\ \A r \in Relays : Grows(store[r], store'[r])
    BY <1>1 DEF Grows
  <2>5. known' => known BY <1>1
  <2>6. QED BY <1>1, <1>10, <2>1, <2>2, <2>3, <2>4, <2>5, ClientsStep
<1>18. QED BY <1>11, <1>12, <1>13, <1>14, <1>15, <1>16, <1>17 DEF IInv

LEMMA DownloadKeeps ==
  ASSUME IInv, NEW c \in Clients, Download(c)
  PROVE  IInv'
<1> DEFINE d == DeviceOf[c]
           H == held[d]
           S == store[via[c]]
           e == device[c]
           t == todo[c]
           n == NextDown(c)
           H2 == IF n \in DOMAIN H[e] THEN H ELSE Plus(H, e, n, S[e][n])
<1>1. /\ UNCHANGED <<unsynced, saved, store, token, uploads, lives, intact, known, forked, known, forked>>
      /\ pc[c] = "downloading" /\ t # {} /\ n \in DOMAIN S[e]
      /\ held' = IF n \in DOMAIN H[e] THEN held
                 ELSE [held EXCEPT ![d] = Plus(@, e, n, S[e][n])]
      /\ todo' = [todo EXCEPT ![c] = @ \ {n}]
      /\ pc' = pc /\ via' = via /\ goal' = goal /\ queue' = queue /\ device' = device
  BY DEF Download, relays, history
<1>2. /\ H \in [Devices -> Segments] /\ e \in Devices /\ via[c] \in Relays
      /\ d \in Devices /\ S \in [Devices -> Segments]
      /\ t \in SUBSET (1..MaxSegments)
      /\ Pulling(c, "downloading", queue[c], e, t, goal[c], H, S, intact, known)
      /\ queue[c] \in SUBSET Devices /\ goal[c] \in [up : SUBSET Keys, down : SUBSET Keys]
  BY <1>1, ClientNow DEF Client
<1>3. n \in t /\ n \in 1..MaxSegments /\ \A m \in t : n <= m
  <2>1. t \in SUBSET Nat BY <1>2
  <2>2. QED BY <1>1, <1>2, <2>1, LeastOf DEF NextDown
<1>4. e # d BY <1>1, <1>2 DEF Pulling
<1>5. S[e][n] \in 0..MaxPowerLosses BY <1>1, <1>2, SegmentsType
<1>6. S[e][n] <= lives[e] BY <1>1, <1>2 DEF IInv, Contents
<1>7. intact => \A m \in 1..n : m = n \/ m \in DOMAIN H[e]
  <2>1. \A m \in 1..n : m # n => m \notin t BY <1>3
  <2>2. QED BY <1>2, <1>3, <2>1 DEF Pulling
<1> HIDE DEF n
<1>8. /\ H2 \in [Devices -> Segments] /\ DOMAIN H2[e] = DOMAIN H[e] \cup {n}
      /\ \A x \in Devices : x # e => H2[x] = H[x]
      /\ \A m \in DOMAIN H2[e] : H2[e][m] <= lives[e]
      /\ Grows(H, H2)
  <2>1. \A m \in DOMAIN H[e] : H[e][m] <= lives[e] BY <1>2 DEF IInv, Contents
  <2>2. CASE n \in DOMAIN H[e]
    <3>1. H2 = H BY <2>2
    <3>2. QED BY <1>2, <2>1, <2>2, <3>1, GrowsRefl
  <2>3. CASE n \notin DOMAIN H[e]
    <3> DEFINE v == S[e][n]
               P == Plus(H, e, n, v)
    <3> HIDE DEF H, e, v
    <3>1. H2 = P BY <2>3 DEF v
    <3>2. /\ P \in [Devices -> Segments] /\ DOMAIN P[e] = DOMAIN H[e] \cup {n}
          /\ P[e][n] = v
          /\ \A m \in DOMAIN H[e] : m # n => P[e][m] = H[e][m]
          /\ \A x \in Devices : x # e => P[x] = H[x]
          /\ Grows(H, P)
      BY <1>2, <1>3, <1>5, PlusLog DEF v
    <3> HIDE DEF P
    <3>3. \A m \in DOMAIN P[e] : P[e][m] <= lives[e]
      <4>1. ASSUME NEW m \in DOMAIN P[e] PROVE P[e][m] <= lives[e]
        <5>1. CASE m = n BY <1>6, <3>2, <5>1 DEF v
        <5>2. CASE m # n BY <2>1, <3>2, <5>2
        <5>3. QED BY <5>1, <5>2
      <4>2. QED BY <4>1
    <3>4. QED BY <3>1, <3>2, <3>3
  <2>4. QED BY <2>2, <2>3
<1>9. held \in [Devices -> [Devices -> Segments]] BY DEF IInv, Types
<1>10. held' = [held EXCEPT ![d] = H2] BY <1>1, <1>2, <1>9
<1> HIDE DEF H2
<1>11. /\ held' \in [Devices -> [Devices -> Segments]] /\ held'[d] = H2
       /\ \A x \in Devices : x # d => held'[x] = held[x]
  BY <1>2, <1>8, <1>9, <1>10
<1>12. /\ todo' \in [Clients -> SUBSET (1..MaxSegments)] /\ todo'[c] = t \ {n}
       /\ \A x \in Clients \ {c} : todo'[x] = todo[x]
  BY <1>1 DEF IInv, Types
<1>13. Types' BY <1>1, <1>11, <1>12 DEF IInv, Types
<1>14. Own'
  <2>1. \A x \in Devices : held'[x][x] = held[x][x] BY <1>2, <1>4, <1>8, <1>11
  <2>2. QED BY <1>1, <2>1 DEF IInv, Own
<1>15. Contents'
  <2>1. ASSUME NEW x \in Devices, NEW y \in Devices, NEW m \in DOMAIN held'[x][y]
        PROVE  held'[x][y][m] <= lives[y]
    <3>1. CASE x = d /\ y = e BY <1>8, <1>11, <2>1, <3>1
    <3>2. CASE x = d /\ y # e
      <4>1. held'[x][y] = held[x][y] BY <1>8, <1>11, <3>2
      <4>2. QED BY <2>1, <4>1 DEF IInv, Contents
    <3>3. CASE x # d
      <4>1. held'[x][y] = held[x][y] BY <1>11, <3>3
      <4>2. QED BY <2>1, <4>1 DEF IInv, Contents
    <3>4. QED BY <3>1, <3>2, <3>3
  <2>2. QED BY <1>1, <2>1 DEF IInv, Contents
<1>16. Tokens' BY <1>1 DEF IInv, Tokens
<1>17. Whole'
  <2>1. ASSUME intact, NEW x \in Devices, NEW y \in Devices
        PROVE  Gapless(DOMAIN held'[x][y])
    <3>1. Gapless(DOMAIN held[x][y]) BY <2>1 DEF IInv, Whole
    <3>2. CASE x = d /\ y = e
      <4>1. Gapless(DOMAIN H[e] \cup {n}) BY <1>7, <2>1, <3>1, <3>2 DEF Gapless
      <4>2. QED BY <1>8, <1>11, <3>2, <4>1
    <3>3. CASE x = d /\ y # e
      <4>1. held'[x][y] = held[x][y] BY <1>8, <1>11, <3>3
      <4>2. QED BY <3>1, <4>1
    <3>4. CASE x # d
      <4>1. held'[x][y] = held[x][y] BY <1>11, <3>4
      <4>2. QED BY <3>1, <4>1
    <3>5. QED BY <3>2, <3>3, <3>4
  <2>2. QED BY <1>1, <2>1 DEF IInv, Whole
<1>18. Sent' BY <1>1 DEF IInv, Sent
<1>19. AllClients'
  <2>1. \A x \in Clients : DeviceOf[x] \in Devices BY SyncAssumption
  <2>2. \A x \in Devices : Grows(held[x], held'[x])
    <3>1. ASSUME NEW x \in Devices PROVE Grows(held[x], held'[x])
      <4>1. CASE x = d BY <1>8, <1>11, <4>1
      <4>2. CASE x # d BY <1>11, <4>2, GrowsRefl
      <4>3. QED BY <4>1, <4>2
    <3>2. QED BY <3>1
  <2>3. Client(c, pc[c], queue[c], e, t, goal[c], H2, S, intact, known)
    BY <1>2, <1>8, ClientNow, GrowsRefl, ClientGrows
  <2>4. Pulling(c, "downloading", queue[c], e, t, goal[c], H2, S, intact, known)
    BY <1>1, <2>3 DEF Client
  <2>5. Pulling(c, "downloading", queue[c], e, t \ {n}, goal[c], H2, S, intact, known)
    BY <1>4, <1>8, <2>4 DEF Pulling
  <2>6. Client(c, pc'[c], queue'[c], device'[c], todo'[c], goal'[c],
               held'[DeviceOf[c]], store'[via'[c]], intact', known')
    BY <1>1, <1>11, <1>12, <2>5 DEF Client
  <2>7. {c} \in SUBSET Clients OBVIOUS
  <2>8. intact' => intact /\ \A r \in Relays : Grows(store[r], store'[r])
    BY <1>1 DEF Grows
  <2>9. \A x \in Clients : Grows(held[DeviceOf[x]], held'[DeviceOf[x]])
    BY <2>1, <2>2
  <2>10. \A x \in Clients \ {c} :
           /\ pc'[x] = pc[x] /\ via'[x] = via[x] /\ queue'[x] = queue[x]
           /\ device'[x] = device[x] /\ todo'[x] = todo[x] /\ goal'[x] = goal[x]
    BY <1>1, <1>12
  <2>11. \A x \in Clients \ {c} : Grows(held[DeviceOf[x]], held'[DeviceOf[x]])
    BY <2>9
  <2>12. \A x \in {c} :
           Client(x, pc'[x], queue'[x], device'[x], todo'[x], goal'[x],
                  held'[DeviceOf[x]], store'[via'[x]], intact', known')
    BY <2>6
  <2>13. known' => known BY <1>1
  <2>14. QED BY <2>7, <2>8, <2>10, <2>11, <2>12, <2>13, ClientsStep
<1>20. QED BY <1>13, <1>14, <1>15, <1>16, <1>17, <1>18, <1>19 DEF IInv

-----------------------------------------------------------------------------
(* The steps of a device. *)

(* No client moves and no segment goes. *)
LEMMA ClientsStay ==
  ASSUME IInv, UNCHANGED <<pc, via, queue, device, todo, goal>>,
         \A d \in Devices : Grows(held[d], held'[d]),
         intact' => intact /\ \A r \in Relays : Grows(store[r], store'[r]),
         known' => known
  PROVE  AllClients'
<1>1. \A x \in Clients : DeviceOf[x] \in Devices BY SyncAssumption
<1>2. \A x \in Clients \ {} : Grows(held[DeviceOf[x]], held'[DeviceOf[x]]) BY <1>1
<1>3. {} \in SUBSET Clients OBVIOUS
<1>4. QED BY <1>2, <1>3, ClientsStep

LEMMA AppendKeeps ==
  ASSUME IInv, NEW d \in Devices, Append(d)
  PROVE  IInv'
<1> DEFINE H == held[d]
           n == Cardinality(DOMAIN H[d]) + 1
           v == lives[d]
           P == Plus(H, d, n, v)
<1>1. /\ UNCHANGED <<saved, store, token, uploads, pc, via, queue, device, todo, goal,
                     lives, intact, known, forked, known, forked>>
      /\ n <= MaxSegments
      /\ held' = [held EXCEPT ![d] = P]
      /\ unsynced' = unsynced \cup {d}
  BY DEF Append, relays, clients, history
<1>2. /\ held \in [Devices -> [Devices -> Segments]] /\ H \in [Devices -> Segments]
      /\ v \in 0..MaxPowerLosses /\ lives \in [Devices -> 0..MaxPowerLosses]
  BY DEF IInv, Types
<1>3. DOMAIN H[d] \in SUBSET (1..MaxSegments) BY <1>2, SegmentsType
<1>4. Gapless(DOMAIN H[d]) BY DEF IInv, Own
<1>5. Gapless(DOMAIN H[d] \cup {n}) /\ n \in Nat /\ n > 0
  <2>1. Gapless(DOMAIN H[d] \cup {n}) BY <1>3, <1>4, GaplessNext
  <2>2. Cardinality(DOMAIN H[d]) \in Nat BY <1>3, GaplessCount
  <2>3. QED BY <2>1, <2>2
<1>6. n \in 1..MaxSegments BY <1>1, <1>5, SyncAssumption
<1> HIDE DEF n, H, v
<1>7. /\ P \in [Devices -> Segments] /\ DOMAIN P[d] = DOMAIN H[d] \cup {n}
      /\ P[d][n] = v
      /\ \A m \in DOMAIN H[d] : m # n => P[d][m] = H[d][m]
      /\ \A x \in Devices : x # d => P[x] = H[x]
      /\ Grows(H, P)
  <2>1. H \in [Devices -> Segments] /\ v \in 0..MaxPowerLosses BY <1>2
  <2>2. QED BY <2>1, <1>6, PlusLog
<1> HIDE DEF P
<1>8. /\ held' \in [Devices -> [Devices -> Segments]] /\ held'[d] = P
      /\ \A x \in Devices : x # d => held'[x] = held[x]
  BY <1>1, <1>2, <1>7
<1>9. Types' BY <1>1, <1>8 DEF IInv, Types
<1>10. Own'
  <2>1. ASSUME NEW x \in Devices
        PROVE  Gapless(DOMAIN held'[x][x]) /\ (x \in unsynced' => DOMAIN held'[x][x] # {})
    <3>1. CASE x = d BY <1>5, <1>7, <1>8, <3>1
    <3>2. CASE x # d BY <1>1, <1>8, <3>2 DEF IInv, Own
    <3>3. QED BY <3>1, <3>2
  <2>2. QED BY <2>1 DEF Own
<1>11. Contents'
  <2>1. ASSUME NEW x \in Devices, NEW y \in Devices, NEW m \in DOMAIN held'[x][y]
        PROVE  held'[x][y][m] <= lives[y]
    <3>1. CASE x = d /\ y = d /\ m = n
      BY <1>2, <1>7, <1>8, <3>1 DEF v
    <3>2. CASE x = d /\ y = d /\ m # n
      <4>1. m \in DOMAIN held[x][y] /\ held'[x][y][m] = held[x][y][m]
        BY <1>7, <1>8, <2>1, <3>2 DEF H
      <4>2. QED BY <4>1 DEF IInv, Contents
    <3>3. CASE ~(x = d /\ y = d)
      <4>1. held'[x][y] = held[x][y] BY <1>7, <1>8, <3>3 DEF H
      <4>2. QED BY <2>1, <4>1 DEF IInv, Contents
    <3>4. QED BY <3>1, <3>2, <3>3
  <2>2. QED BY <1>1, <2>1 DEF IInv, Contents
<1>12. Tokens' BY <1>1 DEF IInv, Tokens
<1>13. Whole'
  <2>1. ASSUME intact, NEW x \in Devices, NEW y \in Devices
        PROVE  Gapless(DOMAIN held'[x][y])
    <3>1. CASE x = d /\ y = d BY <1>5, <1>7, <1>8, <3>1
    <3>2. CASE ~(x = d /\ y = d)
      <4>1. held'[x][y] = held[x][y] BY <1>7, <1>8, <3>2 DEF H
      <4>2. QED BY <2>1, <4>1 DEF IInv, Whole
    <3>3. QED BY <3>1, <3>2
  <2>2. QED BY <1>1, <2>1 DEF IInv, Whole
<1>14. Sent' BY <1>1 DEF IInv, Sent
<1>15. AllClients'
  <2>1. ASSUME NEW x \in Devices PROVE Grows(held[x], held'[x])
    <3>1. CASE x = d BY <1>7, <1>8, <3>1 DEF H
    <3>2. CASE x # d BY <1>8, <3>2, GrowsRefl
    <3>3. QED BY <3>1, <3>2
  <2>2. \A r \in Relays : Grows(store[r], store'[r]) BY <1>1, GrowsRefl
  <2>3. QED BY <1>1, <2>1, <2>2, ClientsStay
<1>16. QED BY <1>9, <1>10, <1>11, <1>12, <1>13, <1>14, <1>15 DEF IInv

LEMMA SettingsKeep ==
  ASSUME IInv, NEW d \in Devices, SyncDir(d) \/ \E r \in Relays : SetRelay(d, r)
  PROVE  IInv'
<1>1. /\ UNCHANGED <<held, store, token, uploads, pc, via, queue, device, todo, goal,
                     lives, intact, known, forked, known, forked>>
      /\ unsynced' \subseteq unsynced
  BY DEF SyncDir, SetRelay, relays, clients, history
<1>2. saved' \in [Devices -> Relays]
  BY DEF SyncDir, SetRelay, IInv, Types
<1>3. Types' BY <1>1, <1>2 DEF IInv, Types
<1>4. Own' BY <1>1 DEF IInv, Own
<1>5. Contents' BY <1>1 DEF IInv, Contents
<1>6. Tokens' BY <1>1 DEF IInv, Tokens
<1>7. Whole' BY <1>1 DEF IInv, Whole
<1>8. Sent' BY <1>1 DEF IInv, Sent
<1>9. AllClients' BY <1>1, GrowsRefl, ClientsStay
<1>10. QED BY <1>3, <1>4, <1>5, <1>6, <1>7, <1>8, <1>9 DEF IInv

LEMMA PowerLossKeeps ==
  ASSUME IInv, NEW d \in Devices, PowerLoss(d)
  PROVE  IInv'
<1> DEFINE H == held[d]
           k == Cardinality(DOMAIN H[d])
           cs == {c \in Clients : DeviceOf[c] = d}
<1>1. /\ UNCHANGED <<saved, store, token, uploads, intact, known>>
      /\ lives[d] < MaxPowerLosses
      /\ lives' = [lives EXCEPT ![d] = @ + 1]
      /\ unsynced' = unsynced \ {d}
      /\ Stopped(cs)
  BY DEF PowerLoss, relays
<1>2. PICK gone \in SUBSET (IF d \in unsynced THEN {<<d, k>>} ELSE {}) :
        held' = [held EXCEPT ![d] = Minus(@, gone)]
  BY DEF PowerLoss
<1>3. gone \subseteq {<<d, k>>} BY <1>2
<1>4. /\ held \in [Devices -> [Devices -> Segments]] /\ H \in [Devices -> Segments]
      /\ lives \in [Devices -> 0..MaxPowerLosses] /\ MaxPowerLosses \in Nat
  BY SyncAssumption DEF IInv, Types
<1> DEFINE M == Minus(H, gone)
<1>5. DOMAIN H[d] \in SUBSET (1..MaxSegments) BY <1>4, SegmentsType
<1>6. Gapless(DOMAIN H[d]) BY DEF IInv, Own
<1>7. Gapless(DOMAIN H[d] \ {k}) BY <1>5, <1>6, GaplessNext
<1> HIDE DEF H, k
<1>8. /\ M \in [Devices -> Segments]
      /\ \A e \in Devices :
           /\ DOMAIN M[e] = {n \in DOMAIN H[e] : <<e, n>> \notin gone}
           /\ \A n \in DOMAIN M[e] : M[e][n] = H[e][n]
  BY <1>4, MinusLog
<1> HIDE DEF M
<1>9. Gapless(DOMAIN M[d])
  <2>1. CASE <<d, k>> \in gone
    <3>1. \A n : <<d, n>> \in gone <=> n = k BY <1>3, <2>1
    <3>2. DOMAIN M[d] = DOMAIN H[d] \ {k} BY <1>8, <3>1
    <3>3. QED BY <1>7, <3>2
  <2>2. CASE <<d, k>> \notin gone
    <3>1. gone = {} BY <1>3, <2>2
    <3>2. DOMAIN M[d] = DOMAIN H[d] BY <1>8, <3>1
    <3>3. QED BY <1>6, <3>2 DEF H
  <2>3. QED BY <2>1, <2>2
<1>10. \A e \in Devices : e # d => DOMAIN M[e] = DOMAIN H[e]
  <2>1. ASSUME NEW e \in Devices, e # d PROVE DOMAIN M[e] = DOMAIN H[e]
    <3>1. \A n : <<e, n>> \notin gone BY <1>3, <2>1
    <3>2. QED BY <1>8, <3>1
  <2>2. QED BY <2>1
<1>11. /\ held' \in [Devices -> [Devices -> Segments]] /\ held'[d] = M
       /\ \A x \in Devices : x # d => held'[x] = held[x]
  BY <1>2, <1>4, <1>8 DEF M, H
<1>12. /\ lives' \in [Devices -> 0..MaxPowerLosses]
       /\ \A e \in Devices : lives[e] <= lives'[e] /\ lives[e] \in Nat /\ lives'[e] \in Nat
  BY <1>1, <1>4
<1>13. /\ pc' \in [Clients -> Phases] /\ via' \in [Clients -> Relays]
       /\ queue' \in [Clients -> SUBSET Devices] /\ device' \in [Clients -> Devices]
       /\ todo' \in [Clients -> SUBSET (1..MaxSegments)]
       /\ goal' \in [Clients -> [up : SUBSET Keys, down : SUBSET Keys]]
       /\ \A c \in cs : pc'[c] = "idle" /\ todo'[c] = {}
       /\ \A c \in Clients \ cs :
            /\ pc'[c] = pc[c] /\ via'[c] = via[c] /\ queue'[c] = queue[c]
            /\ device'[c] = device[c] /\ todo'[c] = todo[c] /\ goal'[c] = goal[c]
  BY <1>1, StoppedClients
<1>14. Types' BY <1>1, <1>11, <1>12, <1>13 DEF IInv, Types, Phases
<1>15. Own'
  <2>1. ASSUME NEW x \in Devices
        PROVE  Gapless(DOMAIN held'[x][x]) /\ (x \in unsynced' => DOMAIN held'[x][x] # {})
    <3>1. CASE x = d BY <1>1, <1>9, <1>11, <3>1
    <3>2. CASE x # d BY <1>1, <1>11, <3>2 DEF IInv, Own
    <3>3. QED BY <3>1, <3>2
  <2>2. QED BY <2>1 DEF Own
<1>16. Contents'
  <2>1. ASSUME NEW x \in Devices, NEW y \in Devices, NEW m \in DOMAIN held'[x][y]
        PROVE  held'[x][y][m] <= lives'[y]
    <3>1. m \in DOMAIN held[x][y] /\ held'[x][y][m] = held[x][y][m]
      <4>1. CASE x = d BY <1>8, <1>11, <2>1, <4>1 DEF H
      <4>2. CASE x # d BY <1>11, <2>1, <4>2
      <4>3. QED BY <4>1, <4>2
    <3>2. held[x][y][m] <= lives[y] BY <3>1 DEF IInv, Contents
    <3>3. held[x][y][m] \in Nat
      <4>1. held[x][y] \in Segments BY <1>4
      <4>2. QED BY <3>1, <4>1, SegmentsType
    <3>4. QED BY <1>12, <3>1, <3>2, <3>3
  <2>2. ASSUME NEW r \in Relays, NEW y \in Devices, NEW m \in DOMAIN store[r][y]
        PROVE  store[r][y][m] <= lives'[y]
    <3>1. store[r][y][m] <= lives[y] BY <2>2 DEF IInv, Contents
    <3>2. store[r][y] \in Segments BY DEF IInv, Types
    <3>3. store[r][y][m] \in Nat BY <2>2, <3>2, SegmentsType
    <3>4. QED BY <1>12, <3>1, <3>3
  <2>3. ASSUME NEW q \in uploads PROVE q.content <= lives'[q.device]
    <3>1. q.content <= lives[q.device] BY <2>3 DEF IInv, Contents
    <3>2. q.content \in Nat /\ q.device \in Devices BY <1>4, <2>3 DEF IInv, Types
    <3>3. QED BY <1>12, <3>1, <3>2
  <2>4. QED BY <1>1, <2>1, <2>2, <2>3 DEF Contents
<1>17. Tokens' BY <1>1 DEF IInv, Tokens
<1>18. Whole'
  <2>1. ASSUME intact, NEW x \in Devices, NEW y \in Devices
        PROVE  Gapless(DOMAIN held'[x][y])
    <3>1. Gapless(DOMAIN held[x][y]) BY <2>1 DEF IInv, Whole
    <3>2. CASE x = d /\ y = d BY <1>9, <1>11, <3>2
    <3>3. CASE x = d /\ y # d
      <4>1. DOMAIN held'[x][y] = DOMAIN held[x][y] BY <1>10, <1>11, <3>3 DEF H
      <4>2. QED BY <3>1, <4>1
    <3>4. CASE x # d BY <1>11, <3>1, <3>4
    <3>5. QED BY <3>2, <3>3, <3>4
  <2>2. QED BY <1>1, <2>1 DEF IInv, Whole
<1>19. Sent' BY <1>1 DEF IInv, Sent
<1>20. AllClients'
  <2>1. ASSUME NEW c \in cs
        PROVE  Client(c, pc'[c], queue'[c], device'[c], todo'[c], goal'[c],
                      held'[DeviceOf[c]], store'[via'[c]], intact', known')
    <3>1. pc'[c] = "idle" /\ todo'[c] = {} BY <1>13
    <3>2. QED BY <3>1, ClientIdle
  <2>2. \A c \in Clients \ cs : Grows(held[DeviceOf[c]], held'[DeviceOf[c]])
    <3>1. ASSUME NEW c \in Clients \ cs PROVE Grows(held[DeviceOf[c]], held'[DeviceOf[c]])
      <4>1. DeviceOf[c] \in Devices /\ DeviceOf[c] # d BY SyncAssumption
      <4>2. held'[DeviceOf[c]] = held[DeviceOf[c]] BY <1>11, <4>1
      <4>3. QED BY <4>2, GrowsRefl
    <3>2. QED BY <3>1
  <2>3. intact' => intact /\ \A r \in Relays : Grows(store[r], store'[r])
    BY <1>1, GrowsRefl
  <2>4. cs \in SUBSET Clients OBVIOUS
  <2>5. \A c \in Clients \ cs :
          /\ pc'[c] = pc[c] /\ via'[c] = via[c] /\ queue'[c] = queue[c]
          /\ device'[c] = device[c] /\ todo'[c] = todo[c] /\ goal'[c] = goal[c]
          /\ Grows(held[DeviceOf[c]], held'[DeviceOf[c]])
    BY <1>13, <2>2
  <2>6. known' => known BY <1>1
  <2> HIDE DEF cs
  <2>7. QED BY <2>1, <2>3, <2>4, <2>5, <2>6, ClientsStep
<1>21. QED BY <1>14, <1>15, <1>16, <1>17, <1>18, <1>19, <1>20 DEF IInv

-----------------------------------------------------------------------------
(* The steps of a relay. *)

(* A client that gets its answer goes on to the next segment.              *)
LEMMA AnswerClients ==
  ASSUME IInv, NEW q \in uploads, Answer(q),
         UNCHANGED <<held, intact, known>>,
         \A r \in Relays : Grows(store[r], store'[r]),
         q.number \in DOMAIN store'[q.relay][q.device]
  PROVE  /\ pc' \in [Clients -> Phases]
         /\ todo' \in [Clients -> SUBSET (1..MaxSegments)]
         /\ UNCHANGED <<via, queue, device, goal>>
         /\ AllClients'
<1> DEFINE cs == {c \in Clients : Waits(c, q)}
<1>1. /\ pc' = [c \in Clients |-> IF c \in cs THEN "uploading" ELSE pc[c]]
      /\ todo' = [c \in Clients |-> todo[c] \ (IF c \in cs THEN {q.number} ELSE {})]
      /\ UNCHANGED <<via, queue, device, goal>>
  BY DEF Answer
<1>2. pc \in [Clients -> Phases] /\ todo \in [Clients -> SUBSET (1..MaxSegments)]
  BY DEF IInv, Types, Phases
<1>3. pc' \in [Clients -> Phases] /\ todo' \in [Clients -> SUBSET (1..MaxSegments)]
  BY <1>1, <1>2 DEF Phases
<1>4. \A c \in cs : /\ c \in Clients /\ pc[c] = "waiting" /\ via[c] = q.relay
                    /\ device[c] = q.device
  BY DEF Waits
<1>5. cs \in SUBSET Clients OBVIOUS
<1> HIDE DEF cs
<1>6. ASSUME NEW c \in cs
      PROVE  Client(c, pc'[c], queue'[c], device'[c], todo'[c], goal'[c],
                    held'[DeviceOf[c]], store'[via'[c]], intact', known')
  <2> DEFINE H == held[DeviceOf[c]]
             S2 == store'[via[c]]
             t == todo[c] \ {q.number}
  <2>1. c \in Clients /\ pc[c] = "waiting" /\ via[c] = q.relay /\ device[c] = q.device
    BY <1>4
  <2>2. /\ via[c] \in Relays /\ queue[c] \in SUBSET Devices /\ device[c] \in Devices
        /\ goal[c] \in [up : SUBSET Keys, down : SUBSET Keys]
        /\ Client(c, pc[c], queue[c], device[c], todo[c], goal[c], H, store[via[c]], intact, known)
    BY <2>1, ClientNow
  <2>3. Grows(store[via[c]], S2) /\ Grows(H, H) BY <2>2, GrowsRefl
  <2> HIDE DEF H, S2
  <2>4. Client(c, pc[c], queue[c], device[c], todo[c], goal[c], H, S2, intact, known)
    BY <2>1, <2>2, <2>3, ClientGrows
  <2>5. Pushing(queue[c], device[c], todo[c], goal[c], H, S2, intact)
    BY <2>1, <2>4 DEF Client
  <2>6. q.number \in DOMAIN S2[device[c]] BY <2>1 DEF S2
  <2>7. Pushing(queue[c], device[c], t, goal[c], H, S2, intact)
    BY <2>5, <2>6 DEF Pushing
  <2>8. pc'[c] = "uploading" /\ todo'[c] = t BY <1>1, <2>1
  <2> HIDE DEF t
  <2>9. Client(c, pc'[c], queue[c], device[c], todo'[c], goal[c], H, S2, intact, known)
    BY <2>7, <2>8 DEF Client
  <2>10. QED BY <1>1, <2>9 DEF H, S2
<1>7. \A c \in Clients \ cs :
        /\ pc'[c] = pc[c] /\ via'[c] = via[c] /\ queue'[c] = queue[c]
        /\ device'[c] = device[c] /\ todo'[c] = todo[c] /\ goal'[c] = goal[c]
        /\ Grows(held[DeviceOf[c]], held'[DeviceOf[c]])
  BY <1>1, <1>2, GrowsRefl
<1>8. /\ intact' => intact /\ \A r \in Relays : Grows(store[r], store'[r])
      /\ known' => known
  OBVIOUS
<1>9. AllClients' BY <1>5, <1>6, <1>7, <1>8, ClientsStep
<1>10. QED BY <1>1, <1>3, <1>9

LEMMA UploadType ==
  ASSUME IInv, NEW q \in uploads
  PROVE  /\ q \in [client : Clients, relay : Relays, device : Devices,
                   number : 1..MaxSegments, content : 0..MaxPowerLosses,
                   received : BOOLEAN]
         /\ q.client \in Clients /\ q.relay \in Relays /\ q.device \in Devices
         /\ q.number \in 1..MaxSegments /\ q.content \in 0..MaxPowerLosses
BY DEF IInv, Types

(* Fewer uploads are on their way, and clients may have been answered.     *)
LEMMA ConflictKeeps ==
  ASSUME IInv, NEW q \in uploads, Conflict(q)
  PROVE  IInv'
<1>1. /\ UNCHANGED <<store, token, held, unsynced, saved, lives, intact, known, forked, known, forked>>
      /\ uploads' = uploads \ {q} /\ Exists(q) /\ Answer(q)
  BY DEF Conflict, devices, history
<1>2. q.number \in DOMAIN store'[q.relay][q.device] BY <1>1 DEF Exists
<1>3. \A r \in Relays : Grows(store[r], store'[r]) BY <1>1, GrowsRefl
<1>4. /\ pc' \in [Clients -> Phases] /\ todo' \in [Clients -> SUBSET (1..MaxSegments)]
      /\ UNCHANGED <<via, queue, device, goal>> /\ AllClients'
  BY <1>1, <1>2, <1>3, AnswerClients
<1>5. Types' BY <1>1, <1>4 DEF IInv, Types, Phases
<1>6. Own' BY <1>1 DEF IInv, Own
<1>7. Contents' BY <1>1 DEF IInv, Contents
<1>8. Tokens' BY <1>1 DEF IInv, Tokens
<1>9. Whole' BY <1>1 DEF IInv, Whole
<1>10. Sent' BY <1>1 DEF IInv, Sent
<1>11. QED BY <1>4, <1>5, <1>6, <1>7, <1>8, <1>9, <1>10 DEF IInv

LEMMA ReceiveKeeps ==
  ASSUME IInv, NEW q \in uploads, Receive(q)
  PROVE  IInv'
<1> DEFINE q2 == [q EXCEPT !.received = TRUE]
<1>1. /\ UNCHANGED <<store, token, held, unsynced, saved, lives, intact, known, forked,
                     pc, via, queue, device, todo, goal>>
      /\ token[q.relay] = "whole"
      /\ uploads' = (uploads \ {q}) \cup {q2}
  BY DEF Receive, Admits, devices, clients, history
<1>2. /\ q2 \in [client : Clients, relay : Relays, device : Devices,
                 number : 1..MaxSegments, content : 0..MaxPowerLosses,
                 received : BOOLEAN]
      /\ q2.relay = q.relay /\ q2.device = q.device /\ q2.number = q.number
      /\ q2.content = q.content
  BY UploadType
<1> HIDE DEF q2
<1>3. Types' BY <1>1, <1>2 DEF IInv, Types
<1>4. Own' BY <1>1 DEF IInv, Own
<1>5. Contents' BY <1>1, <1>2 DEF IInv, Contents
<1>6. Tokens' BY <1>1, <1>2 DEF IInv, Tokens
<1>7. Whole' BY <1>1 DEF IInv, Whole
<1>8. Sent' BY <1>1, <1>2 DEF IInv, Sent
<1>9. AllClients' BY <1>1, GrowsRefl, ClientsStay
<1>10. QED BY <1>3, <1>4, <1>5, <1>6, <1>7, <1>8, <1>9 DEF IInv

LEMMA LinkKeeps ==
  ASSUME IInv, NEW q \in uploads, Link(q)
  PROVE  IInv'
<1> DEFINE r == q.relay
           e == q.device
           n == q.number
           v == q.content
           S == store[r]
           S2 == Linked(q)
<1>1. /\ UNCHANGED <<token, held, unsynced, saved, lives, intact, known, forked, known, forked>>
      /\ q.received
      /\ store' = [store EXCEPT ![r] = S2]
      /\ uploads' = uploads \ {q} /\ Answer(q)
  BY DEF Link, devices, history
<1>2. /\ r \in Relays /\ e \in Devices /\ n \in 1..MaxSegments /\ v \in 0..MaxPowerLosses
      /\ store \in [Relays -> [Devices -> Segments]] /\ S \in [Devices -> Segments]
      /\ n \in Nat
  BY UploadType DEF IInv, Types
<1>3. token[r] = "whole" BY <1>1 DEF IInv, Tokens
<1>4. v <= lives[e] /\ \A m \in DOMAIN S[e] : S[e][m] <= lives[e]
  BY <1>2 DEF IInv, Contents
<1>5. intact => \A m \in 1..(n - 1) : m \in DOMAIN S[e] BY DEF IInv, Sent
<1>6. S2 = IF n \in DOMAIN S[e] THEN S ELSE Plus(S, e, n, v)
  BY DEF Linked, Exists
<1> HIDE DEF S, S2, e, n, v, r
<1>7. /\ S2 \in [Devices -> Segments] /\ DOMAIN S2[e] = DOMAIN S[e] \cup {n}
      /\ \A x \in Devices : x # e => S2[x] = S[x]
      /\ \A m \in DOMAIN S2[e] : S2[e][m] <= lives[e]
      /\ Grows(S, S2)
  <2>1. CASE n \in DOMAIN S[e]
    <3>1. S2 = S BY <1>6, <2>1
    <3>2. QED BY <1>2, <1>4, <2>1, <3>1, GrowsRefl
  <2>2. CASE n \notin DOMAIN S[e]
    <3> DEFINE P == Plus(S, e, n, v)
    <3>1. S2 = P BY <1>6, <2>2
    <3>2. e \in Devices /\ n \in 1..MaxSegments /\ v \in 0..MaxPowerLosses
          /\ S \in [Devices -> Segments]
      BY <1>2
    <3>3. /\ P \in [Devices -> Segments] /\ DOMAIN P[e] = DOMAIN S[e] \cup {n}
          /\ P[e][n] = v
          /\ \A m \in DOMAIN S[e] : m # n => P[e][m] = S[e][m]
          /\ \A x \in Devices : x # e => P[x] = S[x]
          /\ Grows(S, P)
      BY <3>2, PlusLog
    <3> HIDE DEF P
    <3>4. \A m \in DOMAIN P[e] : P[e][m] <= lives[e]
      <4>1. ASSUME NEW m \in DOMAIN P[e] PROVE P[e][m] <= lives[e]
        <5>1. CASE m = n BY <1>4, <3>3, <5>1
        <5>2. CASE m # n BY <1>4, <3>3, <5>2
        <5>3. QED BY <5>1, <5>2
      <4>2. QED BY <4>1
    <3>5. QED BY <3>1, <3>3, <3>4
  <2>3. QED BY <2>1, <2>2
<1>8. /\ store' \in [Relays -> [Devices -> Segments]] /\ store'[r] = S2
      /\ \A x \in Relays : x # r => store'[x] = store[x]
  BY <1>1, <1>2, <1>7
<1>9. q.number \in DOMAIN store'[q.relay][q.device] BY <1>7, <1>8 DEF r, e, n
<1>10. \A x \in Relays : Grows(store[x], store'[x])
  <2>1. ASSUME NEW x \in Relays PROVE Grows(store[x], store'[x])
    <3>1. CASE x = r BY <1>7, <1>8, <3>1 DEF S
    <3>2. CASE x # r BY <1>8, <3>2, GrowsRefl
    <3>3. QED BY <3>1, <3>2
  <2>2. QED BY <2>1
<1>11. /\ pc' \in [Clients -> Phases] /\ todo' \in [Clients -> SUBSET (1..MaxSegments)]
       /\ UNCHANGED <<via, queue, device, goal>> /\ AllClients'
  BY <1>1, <1>9, <1>10, AnswerClients
<1>12. Types' BY <1>1, <1>8, <1>11 DEF IInv, Types, Phases
<1>13. Own' BY <1>1 DEF IInv, Own
<1>14. Contents'
  <2>1. ASSUME NEW x \in Relays, NEW y \in Devices, NEW m \in DOMAIN store'[x][y]
        PROVE  store'[x][y][m] <= lives[y]
    <3>1. CASE x = r /\ y = e BY <1>7, <1>8, <2>1, <3>1
    <3>2. CASE ~(x = r /\ y = e)
      <4>1. store'[x][y] = store[x][y] BY <1>7, <1>8, <3>2 DEF S
      <4>2. QED BY <2>1, <4>1 DEF IInv, Contents
    <3>3. QED BY <3>1, <3>2
  <2>2. QED BY <1>1, <2>1 DEF IInv, Contents
<1>15. Tokens'
  <2>1. \A x \in Relays : token[x] \in {None, "writing"} => store'[x] = store[x]
    BY <1>3, <1>8, SyncAssumption
  <2>2. QED BY <1>1, <2>1 DEF IInv, Tokens
<1>16. Whole'
  <2>1. ASSUME intact, NEW x \in Relays, NEW y \in Devices
        PROVE  Gapless(DOMAIN store'[x][y])
    <3>1. Gapless(DOMAIN store[x][y]) BY <2>1 DEF IInv, Whole
    <3>2. CASE x = r /\ y = e
      <4>1. \A m \in 1..n : m = n \/ m \in 1..(n - 1) BY <1>2
      <4>2. Gapless(DOMAIN S[e] \cup {n})
        BY <1>5, <2>1, <3>1, <3>2, <4>1 DEF Gapless, S
      <4>3. QED BY <1>7, <1>8, <3>2, <4>2
    <3>3. CASE ~(x = r /\ y = e)
      <4>1. store'[x][y] = store[x][y] BY <1>7, <1>8, <3>3 DEF S
      <4>2. QED BY <3>1, <4>1
    <3>4. QED BY <3>2, <3>3
  <2>2. QED BY <1>1, <2>1 DEF IInv, Whole
<1>17. Sent'
  <2>1. ASSUME intact, NEW x \in uploads, NEW m \in 1..(x.number - 1)
        PROVE  m \in DOMAIN store'[x.relay][x.device]
    <3>1. m \in DOMAIN store[x.relay][x.device] BY <2>1 DEF IInv, Sent
    <3>2. x.relay \in Relays /\ x.device \in Devices BY UploadType
    <3>3. QED BY <1>10, <3>1, <3>2 DEF Grows
  <2>2. QED BY <1>1, <2>1 DEF Sent
<1>18. QED BY <1>11, <1>12, <1>13, <1>14, <1>15, <1>16, <1>17 DEF IInv

LEMMA DropKeeps ==
  ASSUME IInv, NEW q \in uploads, Refuse(q) \/ Lose(q)
  PROVE  IInv'
<1>1. /\ UNCHANGED <<store, token, held, unsynced, saved, lives, intact, known, forked,
                     pc, via, queue, device, todo, goal>>
      /\ uploads' = uploads \ {q}
  BY DEF Refuse, Lose, devices, clients, history
<1>2. Types' BY <1>1 DEF IInv, Types
<1>3. Own' BY <1>1 DEF IInv, Own
<1>4. Contents' BY <1>1 DEF IInv, Contents
<1>5. Tokens' BY <1>1 DEF IInv, Tokens
<1>6. Whole' BY <1>1 DEF IInv, Whole
<1>7. Sent' BY <1>1 DEF IInv, Sent
<1>8. AllClients' BY <1>1, GrowsRefl, ClientsStay
<1>9. QED BY <1>2, <1>3, <1>4, <1>5, <1>6, <1>7, <1>8 DEF IInv

LEMMA TokenKeeps ==
  ASSUME IInv,
         NEW r \in Relays,
         \/ token[r] = None /\ token' = [token EXCEPT ![r] = "writing"]
         \/ /\ token[r] = "writing"
            /\ token' \in {[token EXCEPT ![r] = "whole"], [token EXCEPT ![r] = "torn"]},
         UNCHANGED <<store, uploads, held, unsynced, saved, lives, intact, known, forked,
                     pc, via, queue, device, todo, goal>>
  PROVE  IInv'
<1>1. token \in [Relays -> {None, "writing", "whole", "torn"}] /\ None # "whole"
  BY SyncAssumption DEF IInv, Types
<1>2. /\ token' \in [Relays -> {None, "writing", "whole", "torn"}]
      /\ token[r] \in {None, "writing"} /\ token[r] # "whole"
      /\ \A x \in Relays : x # r => token'[x] = token[x]
  BY <1>1
<1>3. Types' BY <1>2 DEF IInv, Types
<1>4. Own' BY DEF IInv, Own
<1>5. Contents' BY DEF IInv, Contents
<1>6. Tokens'
  <2>1. ASSUME NEW q \in uploads, q.received PROVE token'[q.relay] = "whole"
    <3>1. q.relay \in Relays /\ token[q.relay] = "whole"
      BY <2>1, UploadType DEF IInv, Tokens
    <3>2. QED BY <1>2, <3>1
  <2>2. ASSUME known, NEW x \in Relays, token'[x] \in {None, "writing"}
        PROVE  \A e \in Devices : DOMAIN store[x][e] = {}
    <3>1. token[x] \in {None, "writing"} BY <1>2, <2>2
    <3>2. QED BY <2>2, <3>1 DEF IInv, Tokens
  <2>3. QED BY <2>1, <2>2 DEF Tokens
<1>7. Whole' BY DEF IInv, Whole
<1>8. Sent' BY DEF IInv, Sent
<1>9. AllClients' BY GrowsRefl, ClientsStay
<1>10. QED BY <1>3, <1>4, <1>5, <1>6, <1>7, <1>8, <1>9 DEF IInv

LEMMA CrashRelayKeeps ==
  ASSUME IInv, NEW r \in Relays, CrashRelay(r)
  PROVE  IInv'
<1> DEFINE S == store[r]
<1>1. /\ UNCHANGED <<held, unsynced, saved, lives, pc, via, queue, device, todo, goal>>
      /\ uploads' = {q \in uploads : q.relay # r}
  BY DEF CrashRelay, devices, clients
<1>2a. PICK gone : \E left \in TokensLeft(token[r]) :
         /\ store' = [store EXCEPT ![r] = Minus(S, gone)]
         /\ token' = [token EXCEPT ![r] = left]
         /\ intact' = (intact /\ gone = {})
         /\ known' = (known /\ (left = None => store'[r] = Empty))
  BY DEF CrashRelay
<1>2. PICK left \in TokensLeft(token[r]) :
        /\ store' = [store EXCEPT ![r] = Minus(S, gone)]
        /\ token' = [token EXCEPT ![r] = left]
        /\ intact' = (intact /\ gone = {})
        /\ known' = (known /\ (left = None => store'[r] = Empty))
  BY <1>2a
<1> DEFINE M == Minus(S, gone)
<1>3. /\ store \in [Relays -> [Devices -> Segments]] /\ S \in [Devices -> Segments]
      /\ token \in [Relays -> {None, "writing", "whole", "torn"}]
      /\ intact \in BOOLEAN /\ known \in BOOLEAN
  BY DEF IInv, Types
<1> HIDE DEF S
<1>4. /\ M \in [Devices -> Segments]
      /\ \A e \in Devices :
           /\ DOMAIN M[e] = {n \in DOMAIN S[e] : <<e, n>> \notin gone}
           /\ \A n \in DOMAIN M[e] : M[e][n] = S[e][n]
  BY <1>3, MinusLog
<1>5. gone = {} => M = S BY <1>3, NothingMinus
<1> HIDE DEF M
<1>6. /\ store' \in [Relays -> [Devices -> Segments]] /\ store'[r] = M
      /\ \A x \in Relays : x # r => store'[x] = store[x]
      /\ gone = {} => store' = store
  <2>1. store' = [store EXCEPT ![r] = M] BY <1>2 DEF M
  <2>2. gone = {} => store' = store BY <1>3, <1>5, <2>1 DEF S
  <2>3. QED BY <1>3, <1>4, <2>1, <2>2
<1>7. intact' \in BOOLEAN /\ (intact' => intact /\ store' = store)
  BY <1>2, <1>3, <1>6
<1>8. /\ token' \in [Relays -> {None, "writing", "whole", "torn"}]
      /\ \A x \in Relays : x # r => token'[x] = token[x]
      /\ token'[r] = left /\ left # "writing"
  <2>1. left \in {None, "torn", "whole"} BY <1>2 DEF TokensLeft
  <2>2. left # "writing" BY <2>1, SyncAssumption
  <2>3. QED BY <1>2, <1>3, <2>1, <2>2
<1>9. \A x \in Relays, y \in Devices :
        /\ DOMAIN store'[x][y] \subseteq DOMAIN store[x][y]
        /\ \A n \in DOMAIN store'[x][y] : store'[x][y][n] = store[x][y][n]
  <2>1. ASSUME NEW x \in Relays, NEW y \in Devices
        PROVE  /\ DOMAIN store'[x][y] \subseteq DOMAIN store[x][y]
               /\ \A n \in DOMAIN store'[x][y] : store'[x][y][n] = store[x][y][n]
    <3>1. CASE x = r BY <1>4, <1>6, <3>1 DEF S
    <3>2. CASE x # r BY <1>6, <3>2
    <3>3. QED BY <3>1, <3>2
  <2>2. QED BY <2>1
<1>10. known' \in BOOLEAN /\ (known' => known) BY <1>2, <1>3
<1>11. Types' BY <1>1, <1>6, <1>7, <1>8, <1>10 DEF IInv, Types
<1>12. Own' BY <1>1 DEF IInv, Own
<1>13. Contents' BY <1>1, <1>9 DEF IInv, Contents
<1>14. Tokens'
  <2>1. ASSUME NEW q \in uploads', q.received PROVE token'[q.relay] = "whole"
    <3>1. q \in uploads BY <1>1
    <3>2. /\ q.relay \in Relays /\ token[q.relay] = "whole"
          /\ q.relay # r
      BY <1>1, <2>1, <3>1, UploadType DEF IInv, Tokens
    <3>3. QED BY <1>8, <3>2
  <2>2. ASSUME known', NEW x \in Relays, token'[x] \in {None, "writing"}, NEW e \in Devices
        PROVE  DOMAIN store'[x][e] = {}
    <3>1. CASE x = r
      <4>1. store'[r] = Empty BY <1>2, <1>8, <2>2, <3>1
      <4>2. QED BY <3>1, <4>1, NothingYet
    <3>2. CASE x # r
      <4>1. token[x] \in {None, "writing"} BY <1>8, <2>2, <3>2
      <4>2. DOMAIN store[x][e] = {} BY <1>10, <2>2, <4>1 DEF IInv, Tokens
      <4>3. QED BY <1>9, <4>2
    <3>3. QED BY <3>1, <3>2
  <2>3. QED BY <2>1, <2>2 DEF Tokens
<1>15. Whole' BY <1>1, <1>7 DEF IInv, Whole
<1>16. Sent' BY <1>1, <1>7 DEF IInv, Sent
<1>17. AllClients'
  <2>1. intact' => intact /\ \A x \in Relays : Grows(store[x], store'[x])
    BY <1>7, GrowsRefl
  <2>2. QED BY <1>1, <1>10, <2>1, GrowsRefl, ClientsStay
<1>18. QED BY <1>11, <1>12, <1>13, <1>14, <1>15, <1>16, <1>17 DEF IInv

-----------------------------------------------------------------------------
(* The invariant. *)

LEMMA WorkKeeps ==
  ASSUME IInv, NEW c \in Clients, Work(c)
  PROVE  IInv'
BY BeginKeeps, PushDeviceKeeps, PullDeviceKeeps, PushListKeeps, UploadKeeps,
   PullDevicesKeeps, PullListKeeps, DownloadKeeps, SyncedKeeps
DEF Work

LEMMA HandleKeeps ==
  ASSUME IInv, NEW q \in uploads, Handle(q)
  PROVE  IInv'
<1>1. CASE Register(q)
  <2>1. q.relay \in Relays BY UploadType
  <2>2. /\ token[q.relay] = None /\ token' = [token EXCEPT ![q.relay] = "writing"]
        /\ UNCHANGED <<store, uploads, held, unsynced, saved, lives, intact, known, forked,
                       pc, via, queue, device, todo, goal>>
    BY <1>1 DEF Register, devices, clients, history
  <2>3. QED BY <2>1, <2>2, TokenKeeps
<1>2. CASE Conflict(q) BY <1>2, ConflictKeeps
<1>3. CASE Receive(q) BY <1>3, ReceiveKeeps
<1>4. CASE Link(q) BY <1>4, LinkKeeps
<1>5. CASE Refuse(q) BY <1>5, DropKeeps
<1>6. QED BY <1>1, <1>2, <1>3, <1>4, <1>5 DEF Handle

LEMMA RegisteredKeeps ==
  ASSUME IInv, NEW r \in Relays, Registered(r) \/ RegisterFails(r)
  PROVE  IInv'
<1>1. /\ token[r] = "writing"
      /\ token' \in {[token EXCEPT ![r] = "whole"], [token EXCEPT ![r] = "torn"]}
      /\ UNCHANGED <<store, uploads, held, unsynced, saved, lives, intact, known, forked,
                     pc, via, queue, device, todo, goal>>
  BY DEF Registered, RegisterFails, devices, clients, history
<1>2. QED BY <1>1, TokenKeeps

LEMMA StutterKeeps ==
  ASSUME IInv, UNCHANGED vars
  PROVE  IInv'
<1>1. UNCHANGED <<held, unsynced, saved, store, token, uploads, pc, via, queue, device,
                  todo, goal, lives, intact, known, forked, known, forked>>
  BY DEF vars, devices, relays, clients, history
<1>2. Types' BY <1>1 DEF IInv, Types
<1>3. Own' BY <1>1 DEF IInv, Own
<1>4. Contents' BY <1>1 DEF IInv, Contents
<1>5. Tokens' BY <1>1 DEF IInv, Tokens
<1>6. Whole' BY <1>1 DEF IInv, Whole
<1>7. Sent' BY <1>1 DEF IInv, Sent
<1>8. AllClients' BY <1>1 DEF IInv, AllClients
<1>9. QED BY <1>2, <1>3, <1>4, <1>5, <1>6, <1>7, <1>8 DEF IInv

LEMMA NextKeeps == IInv /\ [Next]_vars => IInv'
<1> SUFFICES ASSUME IInv, [Next]_vars PROVE IInv' OBVIOUS
<1>1. CASE \E d \in Devices : Append(d) \/ SyncDir(d) \/ PowerLoss(d)
  BY <1>1, AppendKeeps, SettingsKeep, PowerLossKeeps
<1>2. CASE \E d \in Devices, r \in Relays : SetRelay(d, r) BY <1>2, SettingsKeep
<1>3. CASE \E c \in Clients : Work(c) \/ Return(c) \/ Abort(c)
  BY <1>3, WorkKeeps, StopKeeps
<1>4. CASE \E q \in uploads : Handle(q) \/ Lose(q) BY <1>4, HandleKeeps, DropKeeps
<1>5. CASE \E r \in Relays : Registered(r) \/ RegisterFails(r) \/ CrashRelay(r)
  BY <1>5, RegisteredKeeps, CrashRelayKeeps
<1>6. CASE UNCHANGED vars BY <1>6, StutterKeeps
<1>7. QED BY <1>1, <1>2, <1>3, <1>4, <1>5, <1>6 DEF Next

(* Every behaviour keeps the inductive invariant.                          *)
THEOREM Inductive == Spec => []IInv
BY Initially, NextKeeps, PTL DEF Spec

-----------------------------------------------------------------------------
(* One content of a segment. *)

(* The content is the one device e has for its segment n, unless that was  *)
(* lost when there was a copy.                                             *)
Original(e, n, content) ==
  <<e, n>> \notin forked => n \in DOMAIN held[e][e] /\ held[e][e][n] = content

OneContent ==
  /\ \A d, e \in Devices : \A n \in DOMAIN held[d][e] : Original(e, n, held[d][e][n])
  /\ \A r \in Relays, e \in Devices : \A n \in DOMAIN store[r][e] :
       Original(e, n, store[r][e][n])
  /\ \A q \in uploads : Original(q.device, q.number, q.content)

(* Steps that leave the devices' logs alone.                               *)
LEMMA OneContentStays ==
  ASSUME OneContent, UNCHANGED <<held, forked>>,
         \A r \in Relays, e \in Devices : \A n \in DOMAIN store'[r][e] :
           Original(e, n, store'[r][e][n]),
         \A q \in uploads' : Original(q.device, q.number, q.content)
  PROVE  OneContent'
BY DEF OneContent, Original

LEMMA AppendOne ==
  ASSUME IInv, OneContent, NEW d \in Devices, Append(d)
  PROVE  OneContent'
<1> DEFINE H == held[d]
           n == Cardinality(DOMAIN H[d]) + 1
           v == lives[d]
           P == Plus(H, d, n, v)
<1>1. /\ UNCHANGED <<store, uploads, forked>> /\ n <= MaxSegments
      /\ held' = [held EXCEPT ![d] = P]
  BY DEF Append, relays, history
<1>2. /\ held \in [Devices -> [Devices -> Segments]] /\ H \in [Devices -> Segments]
      /\ v \in 0..MaxPowerLosses
  BY DEF IInv, Types
<1>3. DOMAIN H[d] \in SUBSET (1..MaxSegments) BY <1>2, SegmentsType
<1>4. n \notin DOMAIN H[d] /\ n \in 1..MaxSegments
  <2>1. Gapless(DOMAIN H[d]) BY DEF IInv, Own
  <2>2. n \notin DOMAIN H[d] BY <1>3, <2>1, GaplessNext
  <2>3. Cardinality(DOMAIN H[d]) \in Nat BY <1>3, GaplessCount
  <2>4. QED BY <1>1, <2>2, <2>3, SyncAssumption
<1> HIDE DEF n, H, v
<1>5. /\ P \in [Devices -> Segments] /\ DOMAIN P[d] = DOMAIN H[d] \cup {n}
      /\ \A m \in DOMAIN H[d] : m # n => P[d][m] = H[d][m]
      /\ \A x \in Devices : x # d => P[x] = H[x]
  <2>1. H \in [Devices -> Segments] /\ v \in 0..MaxPowerLosses BY <1>2
  <2>2. QED BY <2>1, <1>4, PlusLog
<1> HIDE DEF P
<1>6. /\ held'[d] = P
      /\ \A x \in Devices : x # d => held'[x] = held[x]
  BY <1>1, <1>2, <1>5
<1>7. ASSUME NEW e \in Devices, NEW m, NEW content, Original(e, m, content)
      PROVE  Original(e, m, content)'
  <2>1. CASE e = d
    <3>1. \A i \in DOMAIN H[d] : i \in DOMAIN P[d] /\ P[d][i] = H[d][i]
      BY <1>4, <1>5
    <3>2. QED BY <1>1, <1>6, <1>7, <2>1, <3>1 DEF Original, H
  <2>2. CASE e # d BY <1>1, <1>6, <1>7, <2>2 DEF Original
  <2>3. QED BY <2>1, <2>2
<1>8. ASSUME NEW x \in Devices, NEW y \in Devices, NEW m \in DOMAIN held'[x][y]
      PROVE  Original(y, m, held[x][y][m])'
  <2>1. CASE x = d /\ y = d BY <1>8, <2>1 DEF Original
  <2>2. CASE ~(x = d /\ y = d)
    <3>1. held'[x][y] = held[x][y] BY <1>5, <1>6, <2>2 DEF H
    <3>2. Original(y, m, held[x][y][m]) BY <1>8, <3>1 DEF OneContent
    <3>a. PICK content : content = held[x][y][m] OBVIOUS
    <3>3. Original(y, m, content)' BY <1>7, <3>2, <3>a
    <3>4. QED BY <3>1, <3>a, <3>3 DEF Original
  <2>3. QED BY <2>1, <2>2
<1>9. QED BY <1>1, <1>7, <1>8, UploadType DEF OneContent

LEMMA PowerLossOne ==
  ASSUME IInv, OneContent, NEW d \in Devices, PowerLoss(d)
  PROVE  OneContent'
<1> DEFINE H == held[d]
           k == Cardinality(DOMAIN H[d])
<1>1. UNCHANGED <<store, uploads>> BY DEF PowerLoss, relays
<1>2. PICK gone \in SUBSET (IF d \in unsynced THEN {<<d, k>>} ELSE {}) :
        /\ held' = [held EXCEPT ![d] = Minus(@, gone)]
        /\ forked' = forked \cup {s \in gone : Copied(s)}
  BY DEF PowerLoss
<1>3. gone \subseteq {<<d, k>>} BY <1>2
<1>4. held \in [Devices -> [Devices -> Segments]] /\ H \in [Devices -> Segments]
  BY DEF IInv, Types
<1> DEFINE M == Minus(H, gone)
<1> HIDE DEF H, k
<1>5. \A e \in Devices :
        /\ DOMAIN M[e] = {n \in DOMAIN H[e] : <<e, n>> \notin gone}
        /\ \A n \in DOMAIN M[e] : M[e][n] = H[e][n]
  BY <1>4, MinusLog
<1> HIDE DEF M
<1>6. held'[d] = M /\ \A x \in Devices : x # d => held'[x] = held[x]
  BY <1>2, <1>4 DEF M, H
<1>7. ASSUME NEW e \in Devices, NEW m, NEW content, Original(e, m, content),
             <<e, m>> \in gone => Copied(<<e, m>>)
      PROVE  Original(e, m, content)'
  <2>1. SUFFICES ASSUME <<e, m>> \notin forked'
                 PROVE  m \in DOMAIN held'[e][e] /\ held'[e][e][m] = content
    BY DEF Original
  <2>2. <<e, m>> \notin forked /\ <<e, m>> \notin gone BY <1>2, <1>7, <2>1
  <2>3. m \in DOMAIN held[e][e] /\ held[e][e][m] = content BY <1>7, <2>2 DEF Original
  <2>4. CASE e = d BY <1>5, <1>6, <2>2, <2>3, <2>4 DEF H
  <2>5. CASE e # d BY <1>6, <2>3, <2>5
  <2>6. QED BY <2>4, <2>5
<1>8. ASSUME NEW x \in Devices, NEW y \in Devices, NEW m \in DOMAIN held'[x][y]
      PROVE  Original(y, m, held[x][y][m])'
  <2>1. m \in DOMAIN held[x][y] /\ held'[x][y][m] = held[x][y][m]
    BY <1>5, <1>6, <1>8 DEF H
  <2>2. Original(y, m, held[x][y][m]) BY <2>1 DEF OneContent
  <2>3. <<y, m>> \in gone => Copied(<<y, m>>)
    <3>1. SUFFICES ASSUME <<y, m>> \in gone PROVE Copied(<<y, m>>) OBVIOUS
    <3>2. y = d BY <1>3, <3>1
    <3>3. x # d BY <1>5, <1>6, <1>8, <3>1, <3>2
    <3>4. <<y, m>> \in Numbers(held[x])
      <4>1. held[x][y] \in Segments BY <1>4
      <4>2. m \in 1..MaxSegments BY <2>1, <4>1, SegmentsType
      <4>3. QED BY <2>1, <4>2 DEF Numbers
    <3>5. QED BY <3>2, <3>3, <3>4 DEF Copied
  <2>a. PICK content : content = held[x][y][m] OBVIOUS
  <2>4. Original(y, m, content)' BY <1>7, <2>2, <2>3, <2>a
  <2>5. QED BY <2>1, <2>4, <2>a DEF Original
<1>9. ASSUME NEW r \in Relays, NEW y \in Devices, NEW m \in DOMAIN store[r][y]
      PROVE  Original(y, m, store[r][y][m])'
  <2>1. Original(y, m, store[r][y][m]) BY DEF OneContent
  <2>2. Copied(<<y, m>>)
    <3>1. store[r][y] \in Segments BY DEF IInv, Types
    <3>2. m \in 1..MaxSegments BY <3>1, SegmentsType
    <3>3. <<y, m>> \in Numbers(store[r]) BY <3>2 DEF Numbers
    <3>4. QED BY <3>3 DEF Copied
  <2>a. PICK content : content = store[r][y][m] OBVIOUS
  <2>3. Original(y, m, content)' BY <1>7, <2>1, <2>2, <2>a
  <2>4. QED BY <1>1, <2>3, <2>a DEF Original
<1>10. ASSUME NEW q \in uploads
       PROVE  Original(q.device, q.number, q.content)'
  <2>1. Original(q.device, q.number, q.content) BY DEF OneContent
  <2>2. Copied(<<q.device, q.number>>) BY DEF Copied
  <2>3. q.device \in Devices BY UploadType
  <2>4. QED BY <1>7, <2>1, <2>2, <2>3
<1>11. QED BY <1>1, <1>8, <1>9, <1>10 DEF OneContent

LEMMA DownloadOne ==
  ASSUME IInv, OneContent, NEW c \in Clients, Download(c)
  PROVE  OneContent'
<1> DEFINE d == DeviceOf[c]
           H == held[d]
           S == store[via[c]]
           e == device[c]
           t == todo[c]
           n == NextDown(c)
           P == Plus(H, e, n, S[e][n])
<1>1. /\ UNCHANGED <<store, uploads, forked>>
      /\ pc[c] = "downloading" /\ t # {} /\ n \in DOMAIN S[e]
      /\ held' = IF n \in DOMAIN H[e] THEN held ELSE [held EXCEPT ![d] = P]
  BY DEF Download, relays, history
<1>2. /\ H \in [Devices -> Segments] /\ e \in Devices /\ via[c] \in Relays
      /\ d \in Devices /\ S \in [Devices -> Segments]
      /\ e # d
      /\ held \in [Devices -> [Devices -> Segments]]
  BY <1>1, ClientNow DEF Client, Pulling, IInv, Types
<1>3. CASE n \in DOMAIN H[e] BY <1>1, <1>3 DEF OneContent, Original
<1>4. CASE n \notin DOMAIN H[e]
  <2>1. n \in 1..MaxSegments /\ S[e][n] \in 0..MaxPowerLosses
    BY <1>1, <1>2, SegmentsType
  <2> DEFINE v == S[e][n]
  <2>2. Original(e, n, v) BY <1>1, <1>2 DEF OneContent
  <2>3. held' = [held EXCEPT ![d] = P] BY <1>1, <1>4
  <2> HIDE DEF n, H, v, d, e, S
  <2>4. /\ P \in [Devices -> Segments] /\ DOMAIN P[e] = DOMAIN H[e] \cup {n}
        /\ P[e][n] = v
        /\ \A m \in DOMAIN H[e] : m # n => P[e][m] = H[e][m]
        /\ \A x \in Devices : x # e => P[x] = H[x]
    <3>1. H \in [Devices -> Segments] /\ v \in 0..MaxPowerLosses BY <1>2, <2>1 DEF v
    <3>2. P = Plus(H, e, n, v) BY DEF v
    <3> HIDE DEF P
    <3>3. QED BY <1>2, <2>1, <3>1, <3>2, PlusLog
  <2> HIDE DEF P
  <2>5. held'[d] = P /\ \A x \in Devices : x # d => held'[x] = held[x]
    BY <1>2, <2>3
  <2>6. \A x \in Devices : held'[x][x] = held[x][x] BY <1>2, <2>4, <2>5 DEF H
  <2>7. \A x \in Devices : \A m, content :
          Original(x, m, content) <=> Original(x, m, content)'
    BY <1>1, <2>6 DEF Original
  <2>8. ASSUME NEW x \in Devices, NEW y \in Devices, NEW m \in DOMAIN held'[x][y]
        PROVE  Original(y, m, held[x][y][m])'
    <3>1. CASE x = d /\ y = e /\ m = n
      <4>a. PICK content : content = v OBVIOUS
      <4>1. held'[x][y][m] = content BY <2>4, <2>5, <3>1, <4>a
      <4>2. Original(y, m, content) BY <2>2, <3>1, <4>a
      <4>3. Original(y, m, content)' BY <2>7, <4>2
      <4>4. QED BY <4>1, <4>3 DEF Original
    <3>2. CASE ~(x = d /\ y = e /\ m = n)
      <4>1. m \in DOMAIN held[x][y] /\ held'[x][y][m] = held[x][y][m]
        BY <2>4, <2>5, <2>8, <3>2 DEF H
      <4>2. Original(y, m, held[x][y][m]) BY <4>1 DEF OneContent
      <4>a. PICK content : content = held[x][y][m] OBVIOUS
      <4>3. Original(y, m, content)' BY <2>7, <4>2, <4>a
      <4>4. QED BY <4>1, <4>3, <4>a DEF Original
    <3>3. QED BY <3>1, <3>2
  <2>9. QED BY <1>1, <2>7, <2>8, UploadType DEF OneContent
<1>5. QED BY <1>3, <1>4

LEMMA UploadOne ==
  ASSUME IInv, OneContent, NEW c \in Clients, Upload(c)
  PROVE  OneContent'
<1> DEFINE e == device[c]
           n == NextUp(c)
           v == held[DeviceOf[c]][e][n]
           u == [client |-> c, relay |-> via[c], device |-> e, number |-> n,
                 content |-> v, received |-> FALSE]
<1>1. /\ UNCHANGED <<held, store, forked>> /\ pc[c] = "uploading" /\ todo[c] # {}
      /\ uploads' = uploads \cup {u}
  BY DEF Upload, devices, history
<1>2. n \in DOMAIN held[DeviceOf[c]][e]
  <2>1. todo[c] \subseteq DOMAIN held[DeviceOf[c]][e] /\ todo[c] \in SUBSET Nat
    BY <1>1, ClientNow DEF Client, Pushing
  <2>2. n \in todo[c] BY <1>1, <2>1, LeastOf DEF NextUp
  <2>3. QED BY <2>1, <2>2
<1>3. Original(e, n, v) BY <1>2, ClientNow DEF OneContent
<1> HIDE DEF e, n, v
<1>4. u.device = e /\ u.number = n /\ u.content = v OBVIOUS
<1> HIDE DEF u
<1>5. \A q \in uploads' : Original(q.device, q.number, q.content)
  BY <1>1, <1>3, <1>4 DEF OneContent
<1>6. QED BY <1>1, <1>5, OneContentStays DEF OneContent

LEMMA LinkOne ==
  ASSUME IInv, OneContent, NEW q \in uploads, Link(q)
  PROVE  OneContent'
<1> DEFINE S == store[q.relay]
<1>1. /\ UNCHANGED <<held, forked>>
      /\ store' = [store EXCEPT ![q.relay] = Linked(q)]
      /\ uploads' = uploads \ {q}
  BY DEF Link, devices, history
<1>2. /\ q.relay \in Relays /\ q.device \in Devices /\ q.number \in 1..MaxSegments
      /\ q.content \in 0..MaxPowerLosses
      /\ store \in [Relays -> [Devices -> Segments]] /\ S \in [Devices -> Segments]
  BY UploadType DEF IInv, Types
<1>3. /\ store'[q.relay] = Linked(q)
      /\ \A x \in Relays : x # q.relay => store'[x] = store[x]
  BY <1>1, <1>2
<1>4. Original(q.device, q.number, q.content) BY DEF OneContent
<1>5. ASSUME NEW e \in Devices, NEW n \in DOMAIN Linked(q)[e]
      PROVE  Original(e, n, Linked(q)[e][n])
  <2>1. \A m \in DOMAIN S[e] : Original(e, m, S[e][m]) BY <1>2 DEF OneContent
  <2>2. CASE Exists(q) BY <1>5, <2>1, <2>2 DEF Linked
  <2>3. CASE ~Exists(q)
    <3> DEFINE P == Plus(S, q.device, q.number, q.content)
    <3>1. Linked(q) = P BY <2>3 DEF Linked
    <3> HIDE DEF S
    <3>2. /\ DOMAIN P[q.device] = DOMAIN S[q.device] \cup {q.number}
          /\ P[q.device][q.number] = q.content
          /\ \A m \in DOMAIN S[q.device] : m # q.number => P[q.device][m] = S[q.device][m]
          /\ \A x \in Devices : x # q.device => P[x] = S[x]
      BY <1>2, PlusLog
    <3> HIDE DEF P
    <3>3. CASE e = q.device /\ n = q.number BY <1>4, <3>1, <3>2, <3>3
    <3>4. CASE ~(e = q.device /\ n = q.number)
      <4>1. n \in DOMAIN S[e] /\ P[e][n] = S[e][n] BY <1>5, <3>1, <3>2, <3>4
      <4>2. QED BY <2>1, <3>1, <4>1
    <3>5. QED BY <3>3, <3>4
  <2>4. QED BY <2>2, <2>3
<1>6. ASSUME NEW r \in Relays, NEW e \in Devices, NEW n \in DOMAIN store'[r][e]
      PROVE  Original(e, n, store'[r][e][n])
  <2>1. CASE r = q.relay BY <1>3, <1>5, <1>6, <2>1
  <2>2. CASE r # q.relay
    <3>1. store'[r] = store[r] BY <1>3, <2>2
    <3>2. QED BY <1>6, <3>1 DEF OneContent
  <2>3. QED BY <2>1, <2>2
<1>7. \A x \in uploads' : Original(x.device, x.number, x.content)
  BY <1>1 DEF OneContent
<1>8. QED BY <1>1, <1>6, <1>7, OneContentStays

LEMMA CrashRelayOne ==
  ASSUME IInv, OneContent, NEW r \in Relays, CrashRelay(r)
  PROVE  OneContent'
<1>1. UNCHANGED <<held, forked>> /\ uploads' \subseteq uploads
  BY DEF CrashRelay, devices
<1>2. PICK gone : store' = [store EXCEPT ![r] = Minus(@, gone)] BY DEF CrashRelay
<1>3. store \in [Relays -> [Devices -> Segments]] BY DEF IInv, Types
<1>4. /\ store'[r] = Minus(store[r], gone)
      /\ \A x \in Relays : x # r => store'[x] = store[x]
  BY <1>2, <1>3
<1>5. \A e \in Devices :
        /\ DOMAIN Minus(store[r], gone)[e] \subseteq DOMAIN store[r][e]
        /\ \A n \in DOMAIN Minus(store[r], gone)[e] :
             Minus(store[r], gone)[e][n] = store[r][e][n]
  <2> DEFINE S == store[r]
  <2>1. S \in [Devices -> Segments] BY <1>3
  <2> HIDE DEF S
  <2>2. \A e \in Devices :
          /\ DOMAIN Minus(S, gone)[e] = {n \in DOMAIN S[e] : <<e, n>> \notin gone}
          /\ \A n \in DOMAIN Minus(S, gone)[e] : Minus(S, gone)[e][n] = S[e][n]
    BY <2>1, MinusLog
  <2>3. QED BY <2>2 DEF S
<1>6. ASSUME NEW x \in Relays, NEW e \in Devices, NEW n \in DOMAIN store'[x][e]
      PROVE  Original(e, n, store'[x][e][n])
  <2>1. n \in DOMAIN store[x][e] /\ store'[x][e][n] = store[x][e][n]
    <3>1. CASE x = r BY <1>4, <1>5, <1>6, <3>1
    <3>2. CASE x # r BY <1>4, <1>6, <3>2
    <3>3. QED BY <3>1, <3>2
  <2>2. QED BY <2>1 DEF OneContent
<1>7. \A q \in uploads' : Original(q.device, q.number, q.content) BY <1>1 DEF OneContent
<1>8. QED BY <1>1, <1>6, <1>7, OneContentStays

LEMMA OneContentStep == IInv /\ OneContent /\ [Next]_vars => OneContent'
<1> SUFFICES ASSUME IInv, OneContent, [Next]_vars PROVE OneContent' OBVIOUS
<1>1. ASSUME UNCHANGED <<held, forked, store>>,
             \A q \in uploads' : \E x \in uploads :
               q.device = x.device /\ q.number = x.number /\ q.content = x.content
      PROVE  OneContent'
  <2>1. \A q \in uploads' : Original(q.device, q.number, q.content)
    BY <1>1 DEF OneContent
  <2>2. QED BY <1>1, <2>1, OneContentStays DEF OneContent
<1>2. CASE \E d \in Devices : Append(d) \/ SyncDir(d) \/ PowerLoss(d)
  <2>1. ASSUME NEW d \in Devices, SyncDir(d) PROVE OneContent'
    BY <1>1, <2>1 DEF SyncDir, relays, history
  <2>2. QED BY <1>2, <2>1, AppendOne, PowerLossOne
<1>3. CASE \E d \in Devices, r \in Relays : SetRelay(d, r)
  BY <1>1, <1>3 DEF SetRelay, relays
<1>4. ASSUME NEW c \in Clients, Work(c) \/ Return(c) \/ Abort(c)
      PROVE  OneContent'
  <2>1. CASE Upload(c) BY <2>1, UploadOne
  <2>2. CASE Download(c) BY <2>2, DownloadOne
  <2>3. CASE UNCHANGED <<held, store, uploads, forked>> BY <1>1, <2>3
  <2>4. \/ Upload(c) \/ Download(c)
        \/ UNCHANGED <<held, store, uploads, forked>>
    BY <1>4
    DEF Work, Return, Abort, Begin, PushDevice, PullDevice, PushList, PullDevices,
        PullList, Synced, devices, relays, history
  <2>5. QED BY <2>1, <2>2, <2>3, <2>4
<1>5. ASSUME NEW q \in uploads, Handle(q) \/ Lose(q)
      PROVE  OneContent'
  <2>1. CASE Link(q) BY <2>1, LinkOne
  <2>2. CASE Receive(q)
    <3> DEFINE q2 == [q EXCEPT !.received = TRUE]
    <3>1. /\ UNCHANGED <<held, forked, store>>
          /\ uploads' = (uploads \ {q}) \cup {q2}
      BY <2>2 DEF Receive, devices, history
    <3>2. q2.device = q.device /\ q2.number = q.number /\ q2.content = q.content
      BY UploadType
    <3> HIDE DEF q2
    <3>3. QED BY <1>1, <3>1, <3>2
  <2>3. CASE Register(q) \/ Conflict(q) \/ Refuse(q) \/ Lose(q)
    <3>1. UNCHANGED <<held, forked, store>> /\ uploads' \subseteq uploads
      BY <2>3 DEF Register, Conflict, Refuse, Lose, devices, history
    <3>2. QED BY <1>1, <3>1
  <2>4. QED BY <1>5, <2>1, <2>2, <2>3 DEF Handle
<1>6. ASSUME NEW r \in Relays, Registered(r) \/ RegisterFails(r)
      PROVE  OneContent'
  BY <1>1, <1>6 DEF Registered, RegisterFails, devices, history
<1>7. CASE UNCHANGED vars BY <1>1, <1>7 DEF vars, devices, relays, history
<1>8. CASE Next BY <1>2, <1>3, <1>4, <1>5, <1>6, <1>8, CrashRelayOne DEF Next
<1>9. QED BY <1>7, <1>8

(* Whatever is lost and delayed, the copies of a segment are the one its   *)
(* device has, unless that lost it when it was copied.                     *)
THEOREM OneContentHolds == Spec => []OneContent
<1>1. Init => OneContent
  <2>1. SUFFICES ASSUME Init PROVE OneContent OBVIOUS
  <2>2. /\ \A d, e \in Devices : DOMAIN held[d][e] = {}
        /\ \A r \in Relays, e \in Devices : DOMAIN store[r][e] = {}
        /\ uploads = {}
    <3>1. \A e \in Devices : DOMAIN Empty[e] = {} BY NothingYet
    <3> HIDE DEF Empty
    <3>2. QED BY <2>1, <3>1 DEF Init
  <2>3. QED BY <2>2 DEF OneContent
<1>2. QED BY <1>1, Inductive, OneContentStep, PTL DEF Spec

-----------------------------------------------------------------------------
(* The results. *)

LEMMA InductiveTypes == IInv => TypeOK
<1> SUFFICES ASSUME IInv PROVE TypeOK OBVIOUS
<1>1. Types BY DEF IInv
<1>2. unsynced \subseteq {d \in Devices : held[d][d] # << >>}
  <2>1. ASSUME NEW d \in unsynced PROVE d \in Devices /\ held[d][d] # << >>
    <3>1. d \in Devices /\ DOMAIN held[d][d] # {} BY <1>1 DEF IInv, Own, Types
    <3>2. held[d][d] \in Segments BY <1>1, <3>1 DEF Types
    <3>3. QED BY <3>1, <3>2, NoSegments
  <2>2. QED BY <2>1
<1>3. ASSUME NEW q \in uploads
      PROVE  /\ q.number \in 1..MaxSegments /\ q.content \in 0..lives[q.device]
             /\ q.received => token[q.relay] = "whole"
  <2>1. /\ q.device \in Devices /\ q.number \in 1..MaxSegments
        /\ q.content \in 0..MaxPowerLosses
    BY UploadType
  <2>2. q.content <= lives[q.device] BY DEF IInv, Contents
  <2>3. lives[q.device] \in 0..MaxPowerLosses /\ MaxPowerLosses \in Nat
    BY <1>1, <2>1, SyncAssumption DEF Types
  <2>4. q.received => token[q.relay] = "whole" BY DEF IInv, Tokens
  <2>5. q.content \in 0..lives[q.device] BY <2>1, <2>2, <2>3
  <2>6. QED BY <2>1, <2>4, <2>5
<1>5. ASSUME NEW c \in Clients, pc[c] = "waiting" PROVE todo[c] # {}
  BY <1>5 DEF IInv, AllClients, Client
<1>7. \A c \in Clients : pc[c] = "waiting" => todo[c] # {} BY <1>5
<1>8. \A q \in uploads : /\ q.number \in 1..MaxSegments /\ q.content \in 0..lives[q.device]
                         /\ q.received => token[q.relay] = "whole"
  BY <1>3
<1>9. QED BY <1>1, <1>2, <1>7, <1>8 DEF Types, TypeOK

(* Every variable keeps its type; what waits to be synced to disk is there, *)
(* a relay receives a segment only while it has its token whole, and a     *)
(* client that waits has something to upload.                              *)
THEOREM TypeCorrect == Spec => []TypeOK
BY Inductive, InductiveTypes, PTL

LEMMA InductiveGaps == IInv => NoGaps
<1> SUFFICES ASSUME IInv, intact PROVE /\ \A r \in Relays : WithoutGaps(store[r])
                                       /\ \A d \in Devices : WithoutGaps(held[d])
  BY DEF NoGaps
<1>1. ASSUME NEW log \in [Devices -> Segments], \A e \in Devices : Gapless(DOMAIN log[e])
      PROVE  WithoutGaps(log)
  <2>1. ASSUME NEW e \in Devices PROVE DOMAIN log[e] = 1..Cardinality(DOMAIN log[e])
    <3>1. log[e] \in Segments OBVIOUS
    <3>2. DOMAIN log[e] \in SUBSET (1..MaxSegments) BY <3>1, SegmentsType
    <3>3. Gapless(DOMAIN log[e]) BY <1>1
    <3>4. QED BY <3>2, <3>3, GaplessCount
  <2>2. QED BY <2>1 DEF WithoutGaps
<1>2. ASSUME NEW r \in Relays PROVE WithoutGaps(store[r])
  <2>1. store[r] \in [Devices -> Segments] BY DEF IInv, Types
  <2>2. \A e \in Devices : Gapless(DOMAIN store[r][e]) BY DEF IInv, Whole
  <2>3. QED BY <1>1, <2>1, <2>2
<1>3. ASSUME NEW d \in Devices PROVE WithoutGaps(held[d])
  <2>1. held[d] \in [Devices -> Segments] BY DEF IInv, Types
  <2>2. \A e \in Devices : Gapless(DOMAIN held[d][e]) BY DEF IInv, Whole
  <2>3. QED BY <1>1, <2>1, <2>2
<1>4. QED BY <1>2, <1>3

(* However many devices sync through however many relays, and wherever     *)
(* they are interrupted, no log has a gap while no relay lost a segment:   *)
(* uploads and downloads go by increasing numbers, and an upload can       *)
(* neither overtake the one before it nor replace another.                 *)
THEOREM NeverAGap == Spec => []NoGaps
BY Inductive, InductiveGaps, PTL

LEMMA InductiveSynced == IInv /\ OneContent => SyncMeansSynced
<1> SUFFICES ASSUME IInv, OneContent, NEW c \in Clients, pc[c] = "synced", intact
             PROVE  /\ \A s \in goal[c].up : Has(store[via[c]], s)
                    /\ known => \A s \in goal[c].down : Has(held[DeviceOf[c]], s)
  BY DEF SyncMeansSynced
<1> DEFINE H == held[DeviceOf[c]]
           S == store[via[c]]
<1>1. Pulling(c, "synced", queue[c], device[c], todo[c], goal[c], H, S, intact, known)
  BY DEF IInv, AllClients, Client
<1>2. goal[c] \in [up : SUBSET Keys, down : SUBSET Keys] BY ClientNow
<1>3. /\ \A e \in Devices : \A n \in DOMAIN S[e] : Original(e, n, S[e][n])
      /\ \A e \in Devices : \A n \in DOMAIN H[e] : Original(e, n, H[e][n])
  BY ClientNow DEF OneContent
<1> HIDE DEF H, S
<1>4. \A s \in goal[c].up : s[2] \in DOMAIN S[s[1]] BY <1>1 DEF Pulling
<1>5. known => \A s \in goal[c].down : s[2] \in DOMAIN H[s[1]]
  BY <1>1 DEF Pulling
<1>6. ASSUME NEW log, NEW s \in Keys, s[2] \in DOMAIN log[s[1]],
             \A e \in Devices : \A n \in DOMAIN log[e] : Original(e, n, log[e][n])
      PROVE  Has(log, s)
  <2>1. s[1] \in Devices /\ s[2] \in 1..MaxSegments /\ s = <<s[1], s[2]>> BY DEF Keys
  <2>2. Original(s[1], s[2], log[s[1]][s[2]]) BY <1>6, <2>1
  <2>3. s \notin forked => /\ s[2] \in DOMAIN held[s[1]][s[1]]
                          /\ held[s[1]][s[1]][s[2]] = log[s[1]][s[2]]
    BY <2>1, <2>2 DEF Original
  <2>4. s \in Numbers(log) BY <1>6, InNumbers
  <2>5. s \notin forked => s \in Numbers(held[s[1]]) BY <2>3, InNumbers
  <2>6. QED BY <2>3, <2>4, <2>5 DEF Has
<1>7. \A s \in goal[c].up : Has(S, s) BY <1>2, <1>3, <1>4, <1>6
<1>8. known => \A s \in goal[c].down : Has(H, s) BY <1>2, <1>3, <1>5, <1>6
<1>9. QED BY <1>7, <1>8 DEF H, S

(* A sync that reports success has uploaded and downloaded all it was to,  *)
(* as the devices that wrote it have it, whatever other clients of the     *)
(* device, other devices, late uploads and power losses did meanwhile, as  *)
(* long as no relay lost a segment or a token and but for segments that    *)
(* their device lost when they were copied.                                *)
THEOREM SuccessMeansSynced == Spec => []SyncMeansSynced
BY Inductive, OneContentHolds, InductiveSynced, PTL

(* A step changes no segment of a relay. *)
Keeping ==
  \A r \in Relays, e \in Devices :
    \A n \in DOMAIN store[r][e] \cap DOMAIN store'[r][e] : store'[r][e][n] = store[r][e][n]

LEMMA LinkKeepsSegments ==
  ASSUME IInv, NEW q \in uploads, Link(q)
  PROVE  Keeping
<1>1. store' = [store EXCEPT ![q.relay] = Linked(q)] BY DEF Link
<1>2. /\ q.relay \in Relays /\ q.device \in Devices /\ q.number \in 1..MaxSegments
      /\ q.content \in 0..MaxPowerLosses
  BY UploadType
<1>3. store \in [Relays -> [Devices -> Segments]] BY DEF IInv, Types
<1> DEFINE S == store[q.relay]
<1>4. S \in [Devices -> Segments] BY <1>2, <1>3
<1> HIDE DEF S
<1>5. ASSUME NEW e \in Devices, NEW n \in DOMAIN S[e] PROVE Linked(q)[e][n] = S[e][n]
  <2>1. CASE Exists(q) BY <2>1 DEF Linked, S
  <2>2. CASE ~Exists(q)
    <3>1. Linked(q) = Plus(S, q.device, q.number, q.content) BY <2>2 DEF Linked, S
    <3>2. e = q.device => n # q.number BY <2>2 DEF Exists, S
    <3>3. QED BY <1>2, <1>4, <3>1, <3>2, PlusLog
  <2>3. QED BY <2>1, <2>2
<1>6. ASSUME NEW r \in Relays, NEW e \in Devices, NEW n \in DOMAIN store[r][e]
      PROVE  store'[r][e][n] = store[r][e][n]
  <2>1. CASE r = q.relay
    <3>1. store'[r] = Linked(q) BY <1>1, <1>2, <1>3, <2>1
    <3>2. n \in DOMAIN S[e] /\ store[r] = S BY <2>1 DEF S
    <3>3. QED BY <1>5, <3>1, <3>2
  <2>2. CASE r # q.relay BY <1>1, <1>3, <2>2
  <2>3. QED BY <2>1, <2>2
<1>7. QED BY <1>6 DEF Keeping

LEMMA CrashKeepsSegments ==
  ASSUME IInv, NEW r \in Relays, CrashRelay(r)
  PROVE  Keeping
<1>1. PICK gone : store' = [store EXCEPT ![r] = Minus(@, gone)] BY DEF CrashRelay
<1>2. store \in [Relays -> [Devices -> Segments]] BY DEF IInv, Types
<1>3. /\ store'[r] = Minus(store[r], gone)
      /\ \A x \in Relays : x # r => store'[x] = store[x]
  BY <1>1, <1>2
<1>4. store[r] \in [Devices -> Segments] BY <1>2
<1>5. \A e \in Devices : \A n \in DOMAIN Minus(store[r], gone)[e] :
        Minus(store[r], gone)[e][n] = store[r][e][n]
  BY <1>4, MinusLog
<1>6. ASSUME NEW x \in Relays, NEW e \in Devices,
             NEW n \in DOMAIN store[x][e] \cap DOMAIN store'[x][e]
      PROVE  store'[x][e][n] = store[x][e][n]
  <2>1. CASE x = r BY <1>3, <1>5, <2>1
  <2>2. CASE x # r BY <1>3, <2>2
  <2>3. QED BY <2>1, <2>2
<1>7. QED BY <1>6 DEF Keeping

LEMMA KeepingStep == IInv /\ [Next]_vars => [Keeping]_vars
<1> SUFFICES ASSUME IInv, Next PROVE Keeping OBVIOUS
<1>1. CASE store' = store BY <1>1 DEF Keeping
<1>2. CASE \E q \in uploads : Link(q) BY <1>2, LinkKeepsSegments
<1>3. CASE \E r \in Relays : CrashRelay(r) BY <1>3, CrashKeepsSegments
<1>4. ASSUME NEW d \in Devices, Append(d) \/ SyncDir(d) \/ PowerLoss(d)
      PROVE  store' = store
  BY <1>4 DEF Append, SyncDir, PowerLoss, relays
<1>5. ASSUME NEW d \in Devices, NEW r \in Relays, SetRelay(d, r) PROVE store' = store
  BY <1>5 DEF SetRelay, relays
<1>6. ASSUME NEW c \in Clients, Work(c) \/ Return(c) \/ Abort(c) PROVE store' = store
  BY <1>6
  DEF Work, Return, Abort, Begin, PushDevice, PullDevice, PushList, Upload, PullDevices,
      PullList, Download, Synced, relays
<1>7. ASSUME NEW q \in uploads, Register(q) \/ Conflict(q) \/ Receive(q) \/ Refuse(q) \/ Lose(q)
      PROVE  store' = store
  BY <1>7 DEF Register, Conflict, Receive, Refuse, Lose
<1>8. ASSUME NEW r \in Relays, Registered(r) \/ RegisterFails(r) PROVE store' = store
  BY <1>8 DEF Registered, RegisterFails
<1>9. QED BY <1>1, <1>2, <1>3, <1>4, <1>5, <1>6, <1>7, <1>8 DEF Next, Handle

(* A relay that has a segment of a device never has another in its place,  *)
(* though an upload may arrive after the device lost that segment and      *)
(* wrote another of its number.                                            *)
THEOREM RelaysKeep == Spec => SegmentsKept
<1>1. Spec => [][Keeping]_vars BY Inductive, KeepingStep, PTL DEF Spec
<1>2. QED BY <1>1 DEF SegmentsKept, Keeping

=============================================================================
