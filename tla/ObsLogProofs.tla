---------------------------- MODULE ObsLogProofs ----------------------------
(***************************************************************************)
(* Proofs about ObsLog: its invariants hold for every set of processes,    *)
(* contents and spaces and every bound, and its files implement DeviceLog. *)
(***************************************************************************)
EXTENDS ObsLog, SequenceTheorems, TLAPS

USE ObsLogAssumption

LEMMA NonEmpty == ASSUME NEW s, Len(s) # 0 PROVE s # << >>
<1>1. Len(<< >>) = 0 OBVIOUS
<1>2. QED BY <1>1, Zenon

(* A segment's first n observations, for n within it, are a segment.       *)
LEMMA ChunkType ==
  ASSUME NEW b \in Seq(Contents), NEW n \in 1..Len(b)
  PROVE  /\ SubSeq(b, 1, n) \in Seq(Contents)
         /\ Len(SubSeq(b, 1, n)) = n
         /\ SubSeq(b, 1, n) # << >>
<1>1. SubSeq(b, 1, n) \in Seq(Contents) /\ Len(SubSeq(b, 1, n)) = n
  BY SubSeqProperties
<1>2. QED BY <1>1, EmptySeq

(* What is left of a batch after its first n observations.                 *)
LEMMA RestType ==
  ASSUME NEW b \in Seq(Contents), NEW n \in 1..Len(b)
  PROVE  /\ SubSeq(b, n + 1, Len(b)) \in Seq(Contents)
         /\ n # Len(b) => SubSeq(b, n + 1, Len(b)) # << >>
<1>1. SubSeq(b, n + 1, Len(b)) \in Seq(Contents)
  BY SubSeqProperties
<1>2. Len(SubSeq(b, n + 1, Len(b))) = IF n + 1 <= Len(b) THEN Len(b) - n ELSE 0
  BY SubSeqProperties
<1>3. Len(b) \in Nat /\ n \in Nat
  BY LenProperties
<1>4. n # Len(b) => Len(SubSeq(b, n + 1, Len(b))) # 0
  BY <1>2, <1>3
<1>5. QED BY <1>1, <1>4, NonEmpty, Zenon

LEMMA BatchType == \A b \in Batches : b \in Seq(Contents) /\ b # << >>
<1> SUFFICES ASSUME NEW n \in 1..MaxBatch, NEW b \in [1..n -> Contents]
             PROVE  b \in Seq(Contents) /\ b # << >>
  BY DEF Batches
<1>1. b \in Seq(Contents) BY SeqDef
<1>2. Len(b) = n OBVIOUS
<1>3. Len(b) # 0 BY <1>2
<1>4. QED BY <1>1, <1>3, NonEmpty, Zenon

(* A rename puts the first n observations of the batch, at least one, in a *)
(* file of its own.                                                        *)
LEMMA WhatIsRenamed ==
  ASSUME TypeOK, NEW p \in Procs, RenameSegment(p)
  PROVE  \E n \in 1..Len(batch[p]) :
           segs' = [f \in DOMAIN segs \cup {nextSeq[p]} |->
                      IF f = nextSeq[p]
                      THEN [space |-> space[p], obs |-> SubSeq(batch[p], 1, n)]
                      ELSE segs[f]]
<1>1. PICK n \in 0..Len(batch[p]) :
        /\ IsChunk(batch[p], n)
        /\ segs' = [f \in DOMAIN segs \cup {nextSeq[p]} |->
                      IF f = nextSeq[p]
                      THEN [space |-> space[p], obs |-> SubSeq(batch[p], 1, n)]
                      ELSE segs[f]]
  BY Zenon DEF RenameSegment
<1>2. n >= 1
  BY <1>1 DEF IsChunk
<1>3. Len(batch[p]) \in Nat
  BY DEF TypeOK
<1>4. n \in 1..Len(batch[p])
  BY <1>2, <1>3
<1>5. QED BY <1>1, <1>4, Zenon

LEMMA Initially == Init => IInv
<1> SUFFICES ASSUME Init PROVE IInv
  OBVIOUS
<1>1. DOMAIN segs = {}
  BY DEF Init
<1>2. TypeOK
  <2>1. segs = [f \in DOMAIN segs |-> segs[f]]
    BY <1>1 DEF Init
  <2>2. batch \in [Procs -> Seq(Contents)]
    <3>1. << >> \in Seq(Contents)
      BY EmptySeq
    <3>2. QED BY <3>1 DEF Init
  <2>3. pc \in [Procs -> Phases] /\ lock \in Procs \cup {None}
    BY DEF Init, Phases
  <2>4. nextSeq \in [Procs -> Nat \ {0}] /\ space \in [Procs -> Spaces \cup {None}]
    BY DEF Init
  <2>5. rewrite \in [Procs -> SUBSET Nat]
    BY DEF Init
  <2>6. QED BY <1>1, <2>1, <2>2, <2>3, <2>4, <2>5 DEF Init, TypeOK, Parts
<1>3. LockHeld
  BY DEF Init, LockHeld, Holding, Phases
<1>4. SegmentsOrdered /\ AckedStable /\ SpaceAgreement
  BY <1>1 DEF Init, SegmentsOrdered, AckedStable, SpaceAgreement
<1>5. NextSeqFree /\ JoinExclusive
  BY DEF Init, NextSeqFree, JoinExclusive, Phases
<1>6. QED BY <1>2, <1>3, <1>4, <1>5 DEF IInv

(* A step that leaves the segments and what is acknowledged alone keeps    *)
(* what only depends on them.                                              *)
LEMMA SegmentsAlone ==
  ASSUME IInv, UNCHANGED <<segs, unsynced, acked, told>>
  PROVE  SegmentsOrdered' /\ AckedStable'
BY DEF IInv, SegmentsOrdered, AckedStable, Holds, Numbers

(* Leaving a process's memory behind keeps the types.                      *)
LEMMA ExitTypes ==
  ASSUME TypeOK, NEW p \in Procs, Exit(p), UNCHANGED <<disk, hist>>
  PROVE  TypeOK'
<1>1. << >> \in Seq(Contents)
  BY EmptySeq
<1>2. batch' \in [Procs -> Seq(Contents)]
  BY <1>1 DEF Exit, TypeOK
<1>3. pc' \in [Procs -> Phases]
  BY DEF Exit, Goto, TypeOK, Phases
<1>4. lock' \in Procs \cup {None} /\ nextSeq' \in [Procs -> Nat \ {0}]
  BY DEF Exit, TypeOK
<1>5. space' \in [Procs -> Spaces \cup {None}] /\ rewrite' \in [Procs -> SUBSET Nat]
  BY DEF Exit, TypeOK
<1>6. /\ DOMAIN segs' \subseteq Nat \ {0}
      /\ \A f \in DOMAIN segs' : segs'[f] \in Segment /\ segs'[f].obs # << >>
      /\ segs' = [f \in DOMAIN segs' |-> segs'[f]]
      /\ unsynced' \subseteq DOMAIN segs'
  BY DEF TypeOK, disk
<1>7. /\ identity' \in Spaces \cup {None}
      /\ undo' \subseteq Nat \X (Spaces \cup {None})
      /\ paired' \in BOOLEAN
      /\ foreign' \subseteq Spaces
      /\ volatile' \subseteq Parts
      /\ acked' \subseteq Nat \X Contents
      /\ told' \subseteq Nat \X Contents
      /\ doubt' \in BOOLEAN
  BY DEF TypeOK, disk, hist
<1>8. QED BY <1>2, <1>3, <1>4, <1>5, <1>6, <1>7 DEF TypeOK

(* What writeFileAtomic leaves of identity.json keeps its types.           *)
LEMMA WriteIdentityTypes ==
  ASSUME TypeOK, NEW s \in Spaces, WriteIdentity(s)
  PROVE  /\ identity' \in Spaces \cup {None}
         /\ undo' \subseteq Nat \X (Spaces \cup {None})
<1>1. identity' = s
  BY DEF WriteIdentity
<1>2. CASE undo' = {u \in undo : u[1] # 0}
  BY <1>1, <1>2 DEF TypeOK
<1>3. CASE undo' = undo \cup {<<0, identity>>}
  BY <1>1, <1>3 DEF TypeOK
<1>4. QED BY <1>2, <1>3 DEF WriteIdentity, Replace

(* The numbers and contents of a segment.                                  *)
LEMMA PairsType ==
  ASSUME TypeOK, NEW f \in DOMAIN segs
  PROVE  Pairs(f) \subseteq Nat \X Contents
<1>1. segs[f].obs \in Seq(Contents) /\ f \in Nat \ {0}
  BY DEF TypeOK, Segment
<1>2. ASSUME NEW i \in 1..Len(segs[f].obs)
      PROVE  f + i - 1 \in Nat /\ segs[f].obs[i] \in Contents
  <2>1. segs[f].obs[i] \in Contents
    BY <1>1, ElementOfSeq
  <2>2. Len(segs[f].obs) \in Nat
    BY <1>1, LenProperties
  <2>3. f + i - 1 \in Nat
    BY <1>1, <2>2
  <2>4. QED BY <2>1, <2>3
<1>3. QED BY <1>2 DEF Pairs

(* What a power loss leaves of the files, from those that were there.      *)
LEMMA LossTypes ==
  ASSUME TypeOK, PowerLoss
  PROVE  /\ DOMAIN segs' \subseteq DOMAIN segs
         /\ \A f \in DOMAIN segs' : segs'[f] \in Segment /\ segs'[f].obs = segs[f].obs
         /\ segs' = [f \in DOMAIN segs' |-> segs'[f]]
         /\ identity' \in Spaces \cup {None} /\ paired' \in BOOLEAN /\ doubt' \in BOOLEAN
         /\ foreign' \subseteq Spaces /\ volatile' \subseteq Parts
         /\ acked' \subseteq acked
<1>1. PICK gone \in SUBSET volatile :
        \E id \in Identities(gone), files \in Survivors(gone) :
          \E back \in [files -> Spaces] : LoseDisk(gone, id, files, back)
  BY DEF PowerLoss
<1>2. PICK id \in Identities(gone), files \in Survivors(gone) :
        \E back \in [files -> Spaces] : LoseDisk(gone, id, files, back)
  BY <1>1
<1>3. PICK back \in [files -> Spaces] : LoseDisk(gone, id, files, back)
  BY <1>2
<1>4. files \subseteq DOMAIN segs
  BY DEF Survivors
<1>5. id \in Spaces \cup {None}
  BY DEF Identities, Versions, TypeOK
<1>6. segs' = [f \in IF id = None THEN {} ELSE files |->
                 [space |-> back[f], obs |-> segs[f].obs]]
  BY <1>3 DEF LoseDisk
<1>7. /\ DOMAIN segs' \subseteq files
      /\ \A f \in DOMAIN segs' : segs'[f] = [space |-> back[f], obs |-> segs[f].obs]
      /\ segs' = [f \in DOMAIN segs' |-> segs'[f]]
  BY <1>6
<1>8. \A f \in DOMAIN segs' : segs'[f] \in Segment /\ segs'[f].obs = segs[f].obs
  BY <1>4, <1>7 DEF TypeOK, Segment
<1>9. foreign' \subseteq Spaces
  <2>1. PICK kept \in SUBSET foreign :
          foreign' = kept \cup IF id = None THEN {back[f] : f \in files} ELSE {}
    BY <1>3 DEF LoseDisk
  <2>2. QED BY <2>1 DEF TypeOK
<1>10. paired' \in BOOLEAN /\ doubt' \in BOOLEAN /\ identity' = id
  BY <1>3 DEF LoseDisk, TypeOK
<1>11. volatile' \subseteq Parts /\ acked' \subseteq acked
  BY <1>3 DEF LoseDisk, TypeOK, Parts
<1>12. QED BY <1>4, <1>5, <1>7, <1>8, <1>9, <1>10, <1>11

(* Every step keeps the types.                                             *)
LEMMA TypeStep == IInv /\ [Next]_vars => TypeOK'
<1> SUFFICES ASSUME IInv, [Next]_vars PROVE TypeOK'
  OBVIOUS
<1> USE DEF IInv, disk, local, hist
<1>1. ASSUME NEW p \in Procs, Lock(p) PROVE TypeOK'
  BY <1>1 DEF Lock, TakeLock, TypeOK, Goto, Phases
<1>2. ASSUME NEW p \in Procs, OpenLog(p) PROVE TypeOK'
  <2>1. nextSeq' \in [Procs -> Nat \ {0}]
    BY <1>2 DEF OpenLog, TypeOK
  <2>2. /\ identity' \in Spaces \cup {None}
        /\ undo' \subseteq Nat \X (Spaces \cup {None})
    <3>1. CASE UNCHANGED <<identity, undo>>
      BY <3>1 DEF TypeOK
    <3>2. CASE \E s \in Spaces : WriteIdentity(s)
      BY <3>2, WriteIdentityTypes
    <3>3. QED BY <1>2, <3>1, <3>2 DEF OpenLog
  <2>3. space' \in [Procs -> Spaces \cup {None}] /\ pc' \in [Procs -> Phases]
    BY <1>2, <2>2 DEF OpenLog, TypeOK, Goto, Phases
  <2>4. /\ UNCHANGED <<segs, unsynced, paired, foreign, volatile, lock, batch, rewrite>>
        /\ UNCHANGED <<acked, told, doubt>>
    BY <1>2 DEF OpenLog
  <2>5. QED BY <2>1, <2>2, <2>3, <2>4 DEF TypeOK
<1>3. ASSUME NEW p \in Procs, Close(p) PROVE TypeOK'
  <2>1. TypeOK
    BY DEF IInv
  <2>2. Exit(p) /\ UNCHANGED <<disk, hist>>
    BY <1>3 DEF Close
  <2>3. QED BY <2>1, <2>2, ExitTypes
<1>4. ASSUME NEW p \in Procs, Detach(p) \/ Reattach(p) PROVE TypeOK'
  <2>1. lock' \in Procs \cup {None} /\ pc' \in [Procs -> Phases]
    BY <1>4 DEF Detach, Reattach, TypeOK, Goto, Phases, TakeLock
  <2>2. QED BY <1>4, <2>1 DEF Detach, Reattach, TypeOK, TakeLock
<1>5. ASSUME NEW p \in Procs, StartAppend(p) PROVE TypeOK'
  <2>1. batch' \in [Procs -> Seq(Contents)]
    BY <1>5, BatchType DEF StartAppend, TypeOK
  <2>2. pc' \in [Procs -> Phases]
    BY <1>5 DEF StartAppend, TypeOK, Goto, Phases
  <2>3. /\ UNCHANGED <<segs, unsynced, identity, undo, paired, foreign, volatile>>
        /\ UNCHANGED <<lock, nextSeq, space, rewrite, acked, told, doubt>>
    BY <1>5 DEF StartAppend
  <2>4. QED BY <2>1, <2>2, <2>3 DEF TypeOK
<1>6. ASSUME NEW p \in Procs, RenameSegment(p) PROVE TypeOK'
  <2>1. PICK n \in 1..Len(batch[p]) :
          segs' = [f \in DOMAIN segs \cup {nextSeq[p]} |->
                     IF f = nextSeq[p]
                     THEN [space |-> space[p], obs |-> SubSeq(batch[p], 1, n)]
                     ELSE segs[f]]
    BY <1>6, WhatIsRenamed, Zenon
  <2>2. space[p] \in Spaces
    BY <1>6 DEF RenameSegment, JoinExclusive, TypeOK, Phases
  <2>3. [space |-> space[p], obs |-> SubSeq(batch[p], 1, n)] \in Segment
    BY <2>2, ChunkType DEF Segment, TypeOK
  <2>4. SubSeq(batch[p], 1, n) # << >>
    BY ChunkType DEF TypeOK
  <2>5. \A f \in DOMAIN segs' : segs'[f] \in Segment /\ segs'[f].obs # << >>
    BY <2>1, <2>3, <2>4 DEF TypeOK
  <2>6. /\ DOMAIN segs' \subseteq Nat \ {0}
        /\ segs' = [f \in DOMAIN segs' |-> segs'[f]]
        /\ unsynced' \subseteq DOMAIN segs'
    BY <1>6, <2>1 DEF RenameSegment, TypeOK
  <2>7. pc' \in [Procs -> Phases]
    BY <1>6 DEF RenameSegment, TypeOK, Goto, Phases
  <2>8. QED BY <1>6, <2>5, <2>6, <2>7 DEF RenameSegment, TypeOK
<1>7. ASSUME NEW p \in Procs, SyncDir(p) PROVE TypeOK'
  <2> DEFINE first == nextSeq[p]
             n     == Len(segs[first].obs)
  <2>1. first \in DOMAIN segs /\ n <= Len(batch[p])
    BY <1>7 DEF SyncDir, NextSeqFree, SyncParent
  <2>2. segs[first].obs \in Seq(Contents) /\ segs[first].obs # << >>
    BY <2>1 DEF TypeOK, Segment
  <2>3. n \in Nat \ {0}
    BY <2>2, EmptySeq
  <2>4. SubSeq(batch[p], n + 1, Len(batch[p])) \in Seq(Contents)
    BY <2>1, <2>3, RestType DEF TypeOK
  <2>5. Pairs(first) \subseteq Nat \X Contents
    BY <2>1, PairsType
  <2>6. acked' \subseteq Nat \X Contents /\ told' \subseteq Nat \X Contents
    BY <1>7, <2>5 DEF SyncDir, TypeOK
  <2>7. nextSeq' \in [Procs -> Nat \ {0}]
    BY <1>7, <2>3 DEF SyncDir, TypeOK
  <2>8. batch' \in [Procs -> Seq(Contents)]
    BY <1>7, <2>4 DEF SyncDir, TypeOK
  <2>9. pc' \in [Procs -> Phases]
    BY <1>7 DEF SyncDir, TypeOK, Goto, Phases
  <2>10. unsynced' \subseteq unsynced /\ undo' \subseteq undo
    BY <1>7 DEF SyncDir, SyncParent
  <2>11. UNCHANGED <<segs, identity, paired, foreign, volatile, lock, space, rewrite, doubt>>
    BY <1>7 DEF SyncDir
  <2>12. /\ DOMAIN segs' \subseteq Nat \ {0}
         /\ \A f \in DOMAIN segs' : segs'[f] \in Segment /\ segs'[f].obs # << >>
         /\ segs' = [f \in DOMAIN segs' |-> segs'[f]]
         /\ unsynced' \subseteq DOMAIN segs'
         /\ undo' \subseteq Nat \X (Spaces \cup {None})
    BY <2>10, <2>11 DEF TypeOK
  <2>13. /\ identity' \in Spaces \cup {None} /\ paired' \in BOOLEAN
         /\ foreign' \subseteq Spaces /\ volatile' \subseteq Parts
         /\ lock' \in Procs \cup {None} /\ space' \in [Procs -> Spaces \cup {None}]
         /\ rewrite' \in [Procs -> SUBSET Nat] /\ doubt' \in BOOLEAN
    BY <2>11 DEF TypeOK
  <2>14. QED BY <2>6, <2>7, <2>8, <2>9, <2>12, <2>13 DEF TypeOK
<1>8. ASSUME NEW p \in Procs, Fail(p) PROVE TypeOK'
  <2>1. << >> \in Seq(Contents)
    BY EmptySeq
  <2>2. batch' \in [Procs -> Seq(Contents)]
    BY <1>8, <2>1 DEF Fail, TypeOK, GiveUp
  <2>3. QED BY <1>8, <2>2 DEF Fail, TypeOK, Goto, Phases, GiveUp
<1>9. ASSUME NEW p \in Procs, NEW s \in Spaces, StartJoin(p, s) PROVE TypeOK'
  <2>1. doubt' \in BOOLEAN
    BY <1>9 DEF StartJoin
  <2>2. QED BY <1>9, <2>1 DEF StartJoin, TypeOK, Goto, Phases
<1>10. ASSUME NEW p \in Procs, RewriteSegment(p) PROVE TypeOK'
  <2>1. PICK f \in rewrite[p] : segs' = [segs EXCEPT ![f].space = space[p]]
    BY <1>10 DEF RewriteSegment
  <2>2. space[p] \in Spaces
    BY <1>10 DEF RewriteSegment, JoinExclusive, TypeOK, Phases
  <2>3. \A g \in DOMAIN segs : segs'[g] \in Segment /\ segs'[g].obs = segs[g].obs
    BY <2>1, <2>2 DEF TypeOK, Segment
  <2>4. DOMAIN segs' = DOMAIN segs
    BY <2>1
  <2>5. segs' = [g \in DOMAIN segs' |-> segs'[g]]
    BY <2>1
  <2>6. rewrite' \in [Procs -> SUBSET Nat]
    BY <1>10 DEF RewriteSegment, TypeOK
  <2>7. unsynced' \subseteq unsynced /\ undo' \subseteq Nat \X (Spaces \cup {None})
    <3>1. PICK g \in rewrite[p] : SyncParent \/ (Replace(g, segs[g].space) /\ UNCHANGED unsynced)
      BY <1>10 DEF RewriteSegment
    <3>2. g \in DOMAIN segs
      BY <1>10, <3>1 DEF RewriteSegment, JoinExclusive
    <3>3. <<g, segs[g].space>> \in Nat \X (Spaces \cup {None})
      BY <3>2 DEF TypeOK, Segment
    <3>4. CASE SyncParent
      BY <3>4 DEF SyncParent, TypeOK
    <3>5. CASE Replace(g, segs[g].space) /\ UNCHANGED unsynced
      BY <3>3, <3>5 DEF Replace, TypeOK
    <3>6. QED BY <3>1, <3>4, <3>5
  <2>8. /\ UNCHANGED <<identity, paired, foreign, volatile, lock, pc, nextSeq, space, batch>>
        /\ UNCHANGED <<acked, told, doubt>>
    BY <1>10 DEF RewriteSegment
  <2>9. QED BY <2>3, <2>4, <2>5, <2>6, <2>7, <2>8 DEF TypeOK
<1>11. ASSUME NEW p \in Procs, FinishJoin(p) \/ Save(p) \/ ImportSegment(p)
       PROVE  TypeOK'
  <2>1. space[p] \in Spaces
    BY <1>11 DEF FinishJoin, Save, ImportSegment, TypeOK, JoinExclusive, Phases
  <2>2. CASE FinishJoin(p)
    <3>1. /\ identity' \in Spaces \cup {None}
          /\ undo' \subseteq Nat \X (Spaces \cup {None})
      BY <2>1, <2>2, WriteIdentityTypes DEF FinishJoin
    <3>2. QED BY <2>2, <3>1 DEF FinishJoin, TypeOK, Goto, Phases
  <2>3. CASE Save(p)
    BY <2>3 DEF Save, TypeOK
  <2>4. CASE ImportSegment(p)
    BY <2>1, <2>4 DEF ImportSegment, TypeOK
  <2>5. QED BY <1>11, <2>2, <2>3, <2>4
<1>12. ASSUME NEW p \in Procs, Crash(p) PROVE TypeOK'
  <2>1. TypeOK
    BY DEF IInv
  <2>2. Exit(p) /\ UNCHANGED <<disk, hist>>
    BY <1>12 DEF Crash
  <2>3. QED BY <2>1, <2>2, ExitTypes
<1>13. CASE PowerLoss
  <2>1. /\ DOMAIN segs' \subseteq DOMAIN segs
        /\ \A f \in DOMAIN segs' : segs'[f] \in Segment /\ segs'[f].obs = segs[f].obs
        /\ segs' = [f \in DOMAIN segs' |-> segs'[f]]
    BY <1>13, LossTypes
  <2>2. << >> \in Seq(Contents)
    BY EmptySeq
  <2>3. batch' \in [Procs -> Seq(Contents)]
    BY <1>13, <2>2 DEF PowerLoss
  <2>4. /\ identity' \in Spaces \cup {None} /\ paired' \in BOOLEAN /\ doubt' \in BOOLEAN
        /\ foreign' \subseteq Spaces /\ volatile' \subseteq Parts
        /\ acked' \subseteq acked
    BY <1>13, LossTypes
  <2>5. pc' \in [Procs -> Phases] /\ lock' \in Procs \cup {None}
    BY <1>13 DEF PowerLoss, Phases
  <2>6. /\ nextSeq' \in [Procs -> Nat \ {0}]
        /\ space' \in [Procs -> Spaces \cup {None}]
        /\ rewrite' \in [Procs -> SUBSET Nat]
        /\ unsynced' = {} /\ undo' = {} /\ told' = {}
    BY <1>13 DEF PowerLoss
  <2>7. QED BY <2>1, <2>3, <2>4, <2>5, <2>6 DEF TypeOK
<1>16. CASE WriteBack
  BY <1>16 DEF WriteBack, TypeOK
<1>14. CASE UNCHANGED vars
  BY <1>14 DEF vars, TypeOK
<1>15. QED
  BY <1>1, <1>2, <1>3, <1>4, <1>5, <1>6, <1>7, <1>8, <1>9, <1>10, <1>11,
     <1>12, <1>13, <1>14, <1>16 DEF Next, Step

(* Every step keeps the lock with the process that is past store.Open.     *)
LEMMA LockStep == IInv /\ [Next]_vars => LockHeld'
<1> SUFFICES ASSUME IInv, [Next]_vars PROVE LockHeld'
  OBVIOUS
<1>0. TypeOK /\ LockHeld
  BY DEF IInv
<1>1. pc \in [Procs -> Phases] /\ lock \in Procs \cup {None} /\ None \notin Procs
  BY <1>0 DEF TypeOK
<1>2. ASSUME NEW p \in Procs, Lock(p) \/ Detach(p) \/ Reattach(p)
      PROVE  LockHeld'
  BY <1>0, <1>1, <1>2 DEF Lock, Detach, Reattach, TakeLock, Goto, LockHeld, Holding, Phases
<1>3. ASSUME NEW p \in Procs, Close(p) \/ Crash(p) PROVE LockHeld'
  BY <1>0, <1>1, <1>3 DEF Close, Crash, Exit, Goto, LockHeld, Holding, Phases
<1>4. ASSUME NEW p \in Procs, NEW from \in Holding, NEW to \in Holding,
             pc[p] = from, pc' = [pc EXCEPT ![p] = to], lock' = lock
      PROVE  LockHeld'
  BY <1>0, <1>1, <1>4 DEF LockHeld, Holding, Phases
<1>5. ASSUME NEW p \in Procs,
             OpenLog(p) \/ StartAppend(p) \/ RenameSegment(p) \/ FinishJoin(p)
      PROVE  LockHeld'
  BY <1>4, <1>5 DEF OpenLog, StartAppend, RenameSegment, FinishJoin, Goto, Holding, Phases, disk
<1>6. ASSUME NEW p \in Procs, SyncDir(p) PROVE LockHeld'
  <2>1. PICK to \in {"open", "writing"} : pc' = [pc EXCEPT ![p] = to]
    BY <1>6 DEF SyncDir, Goto
  <2>2. pc[p] = "renamed" /\ lock' = lock
    BY <1>6 DEF SyncDir, SyncParent
  <2>3. QED BY <1>4, <2>1, <2>2 DEF Holding, Phases
<1>7. ASSUME NEW p \in Procs, Fail(p) PROVE LockHeld'
  BY <1>4, <1>7 DEF Fail, Goto, Holding, Phases, GiveUp
<1>8. ASSUME NEW p \in Procs, NEW s \in Spaces, StartJoin(p, s) PROVE LockHeld'
  BY <1>4, <1>8 DEF StartJoin, Goto, Holding, Phases, disk, MayJoin
<1>9. ASSUME NEW p \in Procs, RewriteSegment(p) \/ Save(p) \/ ImportSegment(p)
      PROVE  LockHeld'
  BY <1>0, <1>9 DEF RewriteSegment, Save, ImportSegment, LockHeld
<1>10. CASE PowerLoss
  BY <1>10 DEF PowerLoss, LockHeld, Holding
<1>11. CASE UNCHANGED vars \/ WriteBack
  BY <1>0, <1>11 DEF vars, WriteBack, LockHeld
<1>12. QED
  BY <1>2, <1>3, <1>5, <1>6, <1>7, <1>8, <1>9, <1>10, <1>11 DEF Next, Step

(* What the types say of one segment.                                      *)
LEMMA OneSegment ==
  ASSUME TypeOK, NEW f \in DOMAIN segs
  PROVE  /\ f \in Nat \ {0}
         /\ segs[f].obs \in Seq(Contents)
         /\ Len(segs[f].obs) \in Nat \ {0}
<1>1. f \in Nat \ {0} /\ segs[f].obs \in Seq(Contents) /\ segs[f].obs # << >>
  BY DEF TypeOK, Segment
<1>2. QED BY <1>1, EmptySeq

(* Only one process is past store.Open.                                    *)
LEMMA OneHolder ==
  ASSUME LockHeld, NEW p \in Procs, NEW q \in Procs,
         pc[p] \in Holding, pc[q] \in Holding
  PROVE  p = q
BY DEF LockHeld

(* The segment RenameSegment adds is above all the others.                 *)
LEMMA RenameAbove ==
  ASSUME IInv, NEW p \in Procs, RenameSegment(p)
  PROVE  /\ nextSeq[p] \in Nat \ {0}
         /\ nextSeq[p] \notin DOMAIN segs
         /\ \A f \in DOMAIN segs : f < nextSeq[p] /\ f + Len(segs[f].obs) <= nextSeq[p]
         /\ DOMAIN segs' = DOMAIN segs \cup {nextSeq[p]}
         /\ \A f \in DOMAIN segs : segs'[f] = segs[f]
         /\ Len(segs'[nextSeq[p]].obs) \in 1..Len(batch[p])
<1>1. TypeOK /\ pc[p] = "writing"
  BY DEF IInv, RenameSegment
<1>2. \A f \in DOMAIN segs : f + Len(segs[f].obs) <= nextSeq[p]
  BY <1>1 DEF IInv, NextSeqFree
<1>3. nextSeq[p] \in Nat \ {0}
  BY <1>1 DEF TypeOK
<1>4. \A f \in DOMAIN segs : f < nextSeq[p]
  BY <1>1, <1>2, <1>3, OneSegment
<1>5. nextSeq[p] \notin DOMAIN segs
  BY <1>3, <1>4
<1>6. PICK n \in 1..Len(batch[p]) :
        segs' = [f \in DOMAIN segs \cup {nextSeq[p]} |->
                   IF f = nextSeq[p]
                   THEN [space |-> space[p], obs |-> SubSeq(batch[p], 1, n)]
                   ELSE segs[f]]
  BY <1>1, WhatIsRenamed, Zenon
<1>7. Len(SubSeq(batch[p], 1, n)) = n
  BY <1>1, ChunkType DEF TypeOK
<1>8. DOMAIN segs' = DOMAIN segs \cup {nextSeq[p]}
  BY <1>6
<1>9. \A f \in DOMAIN segs : segs'[f] = segs[f]
  BY <1>5, <1>6
<1>10. segs'[nextSeq[p]].obs = SubSeq(batch[p], 1, n)
  BY <1>6
<1>11. QED BY <1>2, <1>3, <1>4, <1>5, <1>7, <1>8, <1>9, <1>10

(* AdoptSpace changes no observation.                                      *)
LEMMA RewriteKeeps ==
  ASSUME IInv, NEW p \in Procs, RewriteSegment(p)
  PROVE  /\ DOMAIN segs' = DOMAIN segs
         /\ \A f \in DOMAIN segs : segs'[f].obs = segs[f].obs
<1>1. PICK f \in rewrite[p] : segs' = [segs EXCEPT ![f].space = space[p]]
  BY DEF RewriteSegment
<1>2. DOMAIN segs' = DOMAIN segs
  BY <1>1
<1>3. \A g \in DOMAIN segs : segs'[g].obs = segs[g].obs
  BY <1>1 DEF IInv, TypeOK, Segment
<1>4. QED BY <1>2, <1>3

(* As long as neither a directory nor identity.json is lost, a power loss  *)
(* leaves the synced segments; and what it leaves of the log is on disk    *)
(* for good.                                                               *)
LEMMA LossKeeps ==
  ASSUME PowerLoss
  PROVE  /\ acked' = {} \/ (DOMAIN segs \ unsynced \subseteq DOMAIN segs' /\ acked' = acked)
         /\ volatile = {} /\ identity' # None => DOMAIN segs \ unsynced \subseteq DOMAIN segs'
         /\ volatile # {} \/ identity' \in Versions(0, identity)
         /\ DOMAIN segs' # {} => volatile' = {}
         /\ identity' = None => DOMAIN segs' = {}
         /\ ~doubt' => foreign' = {} \/ (~doubt /\ identity' = identity)
         /\ foreign' \subseteq foreign \/ identity' = None
         /\ identity' = None /\ DOMAIN segs = {} => foreign' \subseteq foreign
<1>1. PICK gone \in SUBSET volatile :
        \E id \in Identities(gone), files \in Survivors(gone) :
          \E back \in [files -> Spaces] : LoseDisk(gone, id, files, back)
  BY DEF PowerLoss
<1>2. PICK id \in Identities(gone), files \in Survivors(gone) :
        \E back \in [files -> Spaces] : LoseDisk(gone, id, files, back)
  BY <1>1
<1>3. PICK back \in [files -> Spaces] : LoseDisk(gone, id, files, back)
  BY <1>2
<1>4. files = {} \/ gone = {}
  BY DEF Survivors
<1>5. gone = {} => DOMAIN segs \ unsynced \subseteq files
  BY DEF Survivors
<1>6. "root" \in gone => id = None
  BY DEF Identities
<1>7. /\ identity' = id
      /\ DOMAIN segs' = IF id = None THEN {} ELSE files
      /\ volatile' = gone \cup IF id = None THEN {"device"} ELSE {}
      /\ acked' = IF id = None \/ gone # {} THEN {} ELSE acked
      /\ doubt' = ("root" \notin gone /\ (doubt \/ id # identity))
  BY <1>3 DEF LoseDisk
<1>8. acked' = {} \/ (DOMAIN segs \ unsynced \subseteq DOMAIN segs' /\ acked' = acked)
  BY <1>5, <1>7
<1>9. /\ volatile = {} /\ identity' # None => DOMAIN segs \ unsynced \subseteq DOMAIN segs'
      /\ identity' = None => DOMAIN segs' = {}
      /\ DOMAIN segs' # {} => volatile' = {}
  BY <1>4, <1>5, <1>7
<1>10. volatile # {} \/ identity' \in Versions(0, identity)
  BY <1>7 DEF Identities
<1>11. PICK kept \in IF "root" \notin gone THEN {foreign, {}} ELSE {{}} :
         foreign' = kept \cup IF id = None THEN {back[f] : f \in files} ELSE {}
  BY <1>3 DEF LoseDisk
<1>12. "root" \in gone => foreign' = {}
  BY <1>4, <1>11
<1>13. ~doubt' => foreign' = {} \/ (~doubt /\ identity' = identity)
  BY <1>7, <1>12
<1>14. /\ foreign' \subseteq foreign \/ identity' = None
       /\ identity' = None /\ DOMAIN segs = {} => foreign' \subseteq foreign
  <2>1. files \subseteq DOMAIN segs
    BY DEF Survivors
  <2>2. QED BY <1>7, <1>11, <2>1
<1>15. QED BY <1>8, <1>9, <1>10, <1>13, <1>14

(* All other steps leave the segments alone.                               *)
LEMMA OtherSteps ==
  ASSUME [Next]_vars,
         ~PowerLoss,
         \A p \in Procs : ~RenameSegment(p) /\ ~RewriteSegment(p)
  PROVE  UNCHANGED segs
<1>1. CASE UNCHANGED vars
  BY <1>1 DEF vars
<1>2. ASSUME NEW p \in Procs, Step(p) PROVE UNCHANGED segs
  BY <1>2 DEF Step, Lock, OpenLog, Close, Detach, Reattach, StartAppend, SyncDir,
     Fail, StartJoin, FinishJoin, Save, ImportSegment, Crash, disk
<1>3. CASE WriteBack
  BY <1>3 DEF WriteBack
<1>4. QED BY <1>1, <1>2, <1>3 DEF Next

(* Every step keeps the segments in order.                                 *)
LEMMA OrderStep == IInv /\ [Next]_vars => SegmentsOrdered'
<1> SUFFICES ASSUME IInv, [Next]_vars PROVE SegmentsOrdered'
  OBVIOUS
<1>0. SegmentsOrdered
  BY DEF IInv
<1>1. ASSUME NEW p \in Procs, RenameSegment(p) PROVE SegmentsOrdered'
  <2> SUFFICES ASSUME NEW f \in DOMAIN segs', NEW g \in DOMAIN segs', f < g
               PROVE  f + Len(segs'[f].obs) <= g
    BY DEF SegmentsOrdered
  <2>1. \A h \in DOMAIN segs : h < nextSeq[p] /\ h + Len(segs'[h].obs) <= nextSeq[p]
    BY <1>1, RenameAbove
  <2>2. CASE f \in DOMAIN segs /\ g \in DOMAIN segs
    BY <1>0, <1>1, <2>2, RenameAbove DEF SegmentsOrdered
  <2>3. CASE f \in DOMAIN segs /\ g = nextSeq[p]
    BY <2>1, <2>3
  <2>4. CASE f = nextSeq[p]
    <3>1. f \in Nat /\ DOMAIN segs' = DOMAIN segs \cup {f}
      BY <1>1, <2>4, RenameAbove
    <3>2. \A h \in DOMAIN segs : h < f /\ h \in Nat
      BY <2>1, <2>4, OneSegment DEF IInv
    <3>3. QED BY <3>1, <3>2
  <2>5. QED BY <1>1, <2>2, <2>3, <2>4, RenameAbove
<1>2. ASSUME NEW p \in Procs, RewriteSegment(p) PROVE SegmentsOrdered'
  BY <1>0, <1>2, RewriteKeeps DEF SegmentsOrdered
<1>3. CASE PowerLoss
  BY <1>0, <1>3, LossTypes DEF IInv, SegmentsOrdered
<1>4. CASE UNCHANGED segs
  BY <1>0, <1>4 DEF SegmentsOrdered
<1>5. QED BY <1>1, <1>2, <1>3, <1>4, OtherSteps

(* The number obslog.Open finds is above every segment.                    *)
LEMMA OpenAbove ==
  ASSUME IInv, NEW n \in Nat, IsLastSeq(n)
  PROVE  \A f \in DOMAIN segs : f + Len(segs[f].obs) <= n + 1
<1> SUFFICES ASSUME NEW f \in DOMAIN segs PROVE f + Len(segs[f].obs) <= n + 1
  OBVIOUS
<1>1. PICK last \in DOMAIN segs :
        (\A g \in DOMAIN segs : g <= last) /\ n = last + Len(segs[last].obs) - 1
  BY DEF IsLastSeq
<1>2. /\ last \in Nat /\ Len(segs[last].obs) \in Nat \ {0}
      /\ f \in Nat /\ Len(segs[f].obs) \in Nat \ {0}
  BY OneSegment DEF IInv
<1>3. CASE f = last
  BY <1>1, <1>2, <1>3
<1>4. CASE f < last
  <2>1. f + Len(segs[f].obs) <= last
    BY <1>4 DEF IInv, SegmentsOrdered
  <2>2. QED BY <1>1, <1>2, <2>1
<1>5. QED BY <1>1, <1>2, <1>3, <1>4

(* Every step keeps the numbers above the segments free.                   *)
LEMMA NextFreeStep == IInv /\ [Next]_vars => NextSeqFree'
<1> SUFFICES ASSUME IInv, [Next]_vars, NEW q \in Procs PROVE
      /\ pc'[q] \in {"open", "writing", "adopting"} =>
           \A f \in DOMAIN segs' : f + Len(segs'[f].obs) <= nextSeq'[q]
      /\ pc'[q] = "writing" => batch'[q] # << >>
      /\ pc'[q] = "renamed" =>
           /\ nextSeq'[q] \in DOMAIN segs'
           /\ \A f \in DOMAIN segs' : f <= nextSeq'[q]
           /\ Len(segs'[nextSeq'[q]].obs) <= Len(batch'[q])
  BY DEF NextSeqFree
<1> DEFINE FreeQ ==
      /\ pc[q] \in {"open", "writing", "adopting"} =>
           \A f \in DOMAIN segs : f + Len(segs[f].obs) <= nextSeq[q]
      /\ pc[q] = "writing" => batch[q] # << >>
      /\ pc[q] = "renamed" =>
           /\ nextSeq[q] \in DOMAIN segs
           /\ \A f \in DOMAIN segs : f <= nextSeq[q]
           /\ Len(segs[nextSeq[q]].obs) <= Len(batch[q])
<1> SUFFICES FreeQ'
  BY Zenon DEF FreeQ
<1>0. FreeQ
  BY DEF IInv, NextSeqFree
<1>1. TypeOK /\ LockHeld
  BY DEF IInv
<1>2. pc \in [Procs -> Phases] /\ nextSeq \in [Procs -> Nat \ {0}]
  BY <1>1 DEF TypeOK
<1>3. CASE UNCHANGED <<segs, pc, nextSeq, batch>>
  BY <1>0, <1>3
<1>4. CASE pc'[q] \notin {"open", "writing", "adopting", "renamed"}
  BY <1>4
<1>5. CASE /\ UNCHANGED segs
           /\ pc'[q] = pc[q] /\ nextSeq'[q] = nextSeq[q] /\ batch'[q] = batch[q]
  BY <1>0, <1>5
<1>6. ASSUME NEW p \in Procs, Lock(p) \/ Detach(p) \/ Reattach(p)
      PROVE  FreeQ'
  BY <1>0, <1>2, <1>6 DEF Lock, Detach, Reattach, TakeLock, Goto, local, disk
<1>7. ASSUME NEW p \in Procs, Close(p) \/ Crash(p) PROVE FreeQ'
  <2>1. CASE p = q
    BY <1>2, <1>4, <1>7, <2>1 DEF Close, Crash, Exit, Goto
  <2>2. CASE p # q
    <3>1. Exit(p) /\ segs' = segs
      BY <1>7 DEF Close, Crash, disk
    <3>2. pc'[q] = pc[q] /\ nextSeq'[q] = nextSeq[q] /\ batch'[q] = batch[q]
      BY <1>1, <2>2, <3>1 DEF Exit, Goto, TypeOK
    <3>3. QED BY <1>5, <3>1, <3>2
  <2>3. QED BY <2>1, <2>2
<1>8. ASSUME NEW p \in Procs, OpenLog(p) PROVE FreeQ'
  <2>1. CASE p # q
    BY <1>5, <1>8, <2>1 DEF OpenLog, Goto
  <2>2. CASE p = q
    <3>1. PICK n \in 0..MaxSeq :
            IsLastSeq(n) /\ nextSeq' = [nextSeq EXCEPT ![q] = n + 1]
      BY <1>8, <2>2 DEF OpenLog
    <3>2. \A f \in DOMAIN segs : f + Len(segs[f].obs) <= n + 1
      BY <3>1, OpenAbove
    <3>3. pc'[q] = "open" /\ nextSeq'[q] = n + 1 /\ segs' = segs
      BY <1>2, <1>8, <2>2, <3>1 DEF OpenLog, Goto
    <3>4. QED BY <3>2, <3>3
  <2>3. QED BY <2>1, <2>2
<1>9. ASSUME NEW p \in Procs, StartAppend(p) PROVE FreeQ'
  <2>1. CASE p # q
    BY <1>5, <1>9, <2>1 DEF StartAppend, Goto, disk
  <2>2. CASE p = q
    <3>1. batch'[q] # << >>
      BY <1>1, <1>9, <2>2, BatchType DEF StartAppend, TypeOK
    <3>2. pc'[q] = "writing" /\ nextSeq'[q] = nextSeq[q] /\ segs' = segs
      BY <1>2, <1>9, <2>2 DEF StartAppend, Goto, disk
    <3>3. pc[q] = "open"
      BY <1>9, <2>2 DEF StartAppend
    <3>4. QED BY <1>0, <3>1, <3>2, <3>3
  <2>3. QED BY <2>1, <2>2
<1>10. ASSUME NEW p \in Procs, RenameSegment(p) PROVE FreeQ'
  <2>1. CASE p # q
    <3>1. pc'[q] = pc[q] /\ pc[q] \notin Holding
      BY <1>1, <1>10, <2>1, OneHolder DEF RenameSegment, Goto, Holding, Phases
    <3>2. QED BY <1>2, <1>4, <3>1 DEF Holding, Phases
  <2>2. CASE p = q
    <3>1. pc'[q] = "renamed" /\ UNCHANGED <<nextSeq, batch>>
      BY <1>2, <1>10, <2>2 DEF RenameSegment, Goto, local
    <3>2. /\ nextSeq[q] \in Nat
          /\ \A f \in DOMAIN segs : f < nextSeq[q] /\ f \in Nat
          /\ DOMAIN segs' = DOMAIN segs \cup {nextSeq[q]}
      BY <1>1, <1>10, <2>2, RenameAbove, OneSegment
    <3>3. Len(segs'[nextSeq[q]].obs) <= Len(batch[q])
      <4>1. Len(segs'[nextSeq[q]].obs) \in 1..Len(batch[q])
        BY <1>10, <2>2, RenameAbove
      <4>2. Len(batch[q]) \in Nat
        BY <1>1, LenProperties DEF TypeOK
      <4>3. QED BY <4>1, <4>2
    <3>4. QED BY <3>1, <3>2, <3>3
  <2>3. QED BY <2>1, <2>2
<1>11. ASSUME NEW p \in Procs, SyncDir(p) PROVE FreeQ'
  <2>1. CASE p # q
    <3>1. pc'[q] = pc[q] /\ nextSeq'[q] = nextSeq[q] /\ batch'[q] = batch[q]
      BY <1>1, <1>11, <2>1 DEF SyncDir, Goto, TypeOK, SyncParent
    <3>2. segs' = segs
      BY <1>11 DEF SyncDir, SyncParent
    <3>3. QED BY <1>5, <3>1, <3>2
  <2>2. CASE p = q
    <3> DEFINE first == nextSeq[q]
               n     == Len(segs[first].obs)
    <3>1. /\ first \in DOMAIN segs
          /\ \A f \in DOMAIN segs : f <= first
          /\ n <= Len(batch[q])
      BY <1>0, <1>11, <2>2 DEF SyncDir, SyncParent
    <3>2. /\ segs' = segs
          /\ nextSeq'[q] = first + n
          /\ batch'[q] = SubSeq(batch[q], n + 1, Len(batch[q]))
          /\ pc'[q] = IF n = Len(batch[q]) THEN "open" ELSE "writing"
      BY <1>1, <1>11, <2>2 DEF SyncDir, Goto, TypeOK, SyncParent
    <3>3. n \in 1..Len(batch[q]) /\ batch[q] \in Seq(Contents)
      <4>1. batch[q] \in Seq(Contents)
        BY <1>1 DEF TypeOK
      <4>2. n \in Nat \ {0}
        BY <1>1, <3>1, OneSegment
      <4>3. Len(batch[q]) \in Nat
        BY <4>1, LenProperties
      <4>4. QED BY <3>1, <4>1, <4>2, <4>3
    <3>4. n # Len(batch[q]) => batch'[q] # << >>
      BY <3>2, <3>3, RestType
    <3>5. \A f \in DOMAIN segs : f + Len(segs[f].obs) <= first + n
      <4> TAKE f \in DOMAIN segs
      <4>1. f \in Nat /\ first \in Nat /\ n \in Nat
        BY <1>1, <3>1, OneSegment
      <4>2. CASE f = first
        BY <4>1, <4>2
      <4>3. CASE f < first
        <5>1. f + Len(segs[f].obs) <= first
          BY <3>1, <4>3 DEF IInv, SegmentsOrdered
        <5>2. Len(segs[f].obs) \in Nat
          BY <1>1, OneSegment
        <5>3. QED BY <4>1, <5>1, <5>2
      <4>4. QED BY <3>1, <4>1, <4>2, <4>3
    <3>6. pc'[q] # "renamed" /\ (pc'[q] = "writing" => n # Len(batch[q]))
      BY <3>2
    <3>7. QED BY <3>2, <3>4, <3>5, <3>6
  <2>3. QED BY <2>1, <2>2
<1>12. ASSUME NEW p \in Procs, Fail(p) PROVE FreeQ'
  <2>1. CASE p # q
    BY <1>5, <1>12, <2>1 DEF Fail, Goto, disk, GiveUp
  <2>2. CASE p = q
    BY <1>2, <1>4, <1>12, <2>2 DEF Fail, Goto, GiveUp
  <2>3. QED BY <2>1, <2>2
<1>13. ASSUME NEW p \in Procs, NEW s \in Spaces, StartJoin(p, s) PROVE FreeQ'
  <2>1. CASE p # q
    BY <1>5, <1>13, <2>1 DEF StartJoin, Goto, disk, MayJoin
  <2>2. CASE p = q
    BY <1>0, <1>2, <1>13, <2>2 DEF StartJoin, Goto, disk, MayJoin
  <2>3. QED BY <2>1, <2>2
<1>14. ASSUME NEW p \in Procs, RewriteSegment(p) PROVE FreeQ'
  <2>1. UNCHANGED <<pc, nextSeq, batch>>
    BY <1>14 DEF RewriteSegment
  <2>2. QED BY <1>0, <1>14, <2>1, RewriteKeeps
<1>15. ASSUME NEW p \in Procs, FinishJoin(p) PROVE FreeQ'
  BY <1>0, <1>2, <1>15 DEF FinishJoin, Goto, local
<1>16. ASSUME NEW p \in Procs, Save(p) \/ ImportSegment(p) PROVE FreeQ'
  BY <1>3, <1>16 DEF Save, ImportSegment, local
<1>17. CASE PowerLoss
  BY <1>4, <1>17 DEF PowerLoss
<1>18. CASE UNCHANGED vars \/ WriteBack
  BY <1>3, <1>18 DEF vars, WriteBack, local
<1>19. QED
  BY <1>6, <1>7, <1>8, <1>9, <1>10, <1>11, <1>12, <1>13, <1>14, <1>15, <1>16,
     <1>17, <1>18 DEF Next, Step

(* Every step keeps the segments with the identity they are under.         *)
LEMMA OwnStep ==
  IInv /\ [Next]_vars => (identity' = None => DOMAIN segs' = {})
<1> SUFFICES ASSUME IInv, [Next]_vars, identity' = None PROVE DOMAIN segs' = {}
  OBVIOUS
<1>0. TypeOK /\ JoinExclusive /\ None \notin Spaces
  BY DEF IInv
<1>1. CASE PowerLoss
  BY <1>1, LossKeeps
<1>2. ASSUME NEW p \in Procs, OpenLog(p) \/ FinishJoin(p) PROVE FALSE
  <2>1. ASSUME NEW s \in Spaces, WriteIdentity(s) PROVE FALSE
    BY <1>0, <2>1 DEF WriteIdentity
  <2>2. CASE OpenLog(p)
    BY <2>1, <2>2 DEF OpenLog
  <2>3. CASE FinishJoin(p)
    <3>1. space[p] \in Spaces
      BY <1>0, <2>3 DEF FinishJoin, TypeOK, JoinExclusive, Phases
    <3>2. QED BY <2>1, <2>3, <3>1 DEF FinishJoin
  <2>4. QED BY <1>2, <2>2, <2>3
<1>3. ASSUME NEW p \in Procs, RenameSegment(p) PROVE FALSE
  BY <1>0, <1>3 DEF RenameSegment, JoinExclusive, Phases
<1>4. ASSUME NEW p \in Procs, RewriteSegment(p) PROVE FALSE
  BY <1>0, <1>4 DEF RewriteSegment, JoinExclusive, Phases
<1>5. ASSUME NEW p \in Procs, Step(p), ~OpenLog(p), ~FinishJoin(p) PROVE identity' = identity
  BY <1>5 DEF Step, Lock, Close, Detach, Reattach, StartAppend, RenameSegment, SyncDir,
     RewriteSegment, Fail, StartJoin, Save, ImportSegment, Crash, disk
<1>6. CASE ~PowerLoss
  <2>1. segs' = segs
    BY <1>3, <1>4, <1>6, OtherSteps
  <2>2. identity' = identity
    <3>1. CASE UNCHANGED vars \/ WriteBack
      BY <3>1 DEF vars, WriteBack
    <3>2. ASSUME NEW p \in Procs, Step(p) PROVE identity' = identity
      BY <1>2, <1>5, <3>2
    <3>3. QED BY <1>6, <3>1, <3>2 DEF Next
  <2>3. QED BY <1>0, <2>1, <2>2 DEF JoinExclusive
<1>7. QED BY <1>1, <1>6

(* Every step keeps joining apart from being paired.                       *)
LEMMA JoinStep == IInv /\ [Next]_vars => JoinExclusive'
<1> SUFFICES ASSUME IInv, [Next]_vars PROVE JoinExclusive'
  OBVIOUS
<1> DEFINE Known   == \A q \in Procs : pc[q] \in Phases \ {"idle", "locked", "failed"} =>
                        identity # None /\ space[q] # None
           Synced  == \A q \in Procs : pc[q] \in {"detached", "reattached"} => paired
           Adopter == \A q \in Procs : pc[q] = "adopting" =>
                        /\ rewrite[q] \subseteq DOMAIN segs
                        /\ doubt \/ (~paired /\ foreign = {})
<1> SUFFICES Known' /\ Synced' /\ Adopter'
  BY OwnStep, Zenon DEF JoinExclusive, Phases
<1>0. TypeOK /\ LockHeld /\ Known /\ Synced /\ Adopter
  BY DEF IInv, JoinExclusive
<1> HIDE DEF Known, Synced, Adopter
<1>1. /\ pc \in [Procs -> Phases] /\ space \in [Procs -> Spaces \cup {None}]
      /\ rewrite \in [Procs -> SUBSET Nat] /\ None \notin Spaces
  BY <1>0 DEF TypeOK
<1>2. ASSUME NEW p \in Procs, Lock(p) \/ Detach(p) \/ Reattach(p)
      PROVE  Known' /\ Synced' /\ Adopter'
  <2>1. UNCHANGED <<doubt, segs, identity, paired, foreign, space, rewrite>>
    BY <1>2 DEF Lock, Detach, Reattach, TakeLock, disk, local, hist
  <2>2. Known'
    BY <1>0, <1>1, <1>2, <2>1 DEF Lock, Detach, Reattach, TakeLock, Goto, Known, Phases
  <2>3. Synced'
    BY <1>0, <1>1, <1>2, <2>1 DEF Lock, Detach, Reattach, TakeLock, Goto, Synced
  <2>4. Adopter'
    BY <1>0, <1>1, <1>2, <2>1 DEF Lock, Detach, Reattach, TakeLock, Goto, Adopter
  <2>5. QED BY <2>2, <2>3, <2>4
<1>3. ASSUME NEW p \in Procs, Close(p) \/ Crash(p) PROVE Known' /\ Synced' /\ Adopter'
  <2>1. Exit(p) /\ UNCHANGED <<doubt, segs, identity, paired, foreign>>
    BY <1>3 DEF Close, Crash, disk, hist
  <2>2. pc'[p] = "idle" /\ \A q \in Procs \ {p} : pc'[q] = pc[q] /\ space'[q] = space[q]
                                                /\ rewrite'[q] = rewrite[q]
    BY <1>1, <2>1 DEF Exit, Goto
  <2>3. Known'
    BY <1>0, <2>1, <2>2 DEF Known
  <2>4. Synced'
    BY <1>0, <2>1, <2>2 DEF Synced
  <2>5. Adopter'
    BY <1>0, <2>1, <2>2 DEF Adopter
  <2>6. QED BY <2>3, <2>4, <2>5
<1>4. ASSUME NEW p \in Procs, OpenLog(p) PROVE Known' /\ Synced' /\ Adopter'
  <2>1. identity' # None /\ (identity # None => identity' = identity)
    BY <1>1, <1>4 DEF OpenLog, WriteIdentity
  <2>2. /\ pc' = [pc EXCEPT ![p] = "open"] /\ space' = [space EXCEPT ![p] = identity']
        /\ UNCHANGED <<doubt, segs, paired, foreign, rewrite>>
    BY <1>4 DEF OpenLog, Goto, hist
  <2>3. Known'
    BY <1>0, <1>1, <2>1, <2>2 DEF Known, Phases
  <2>4. Synced' /\ Adopter'
    BY <1>0, <1>1, <2>2 DEF Synced, Adopter
  <2>5. QED BY <2>3, <2>4
<1>5. ASSUME NEW p \in Procs, StartAppend(p) \/ Fail(p) PROVE Known' /\ Synced' /\ Adopter'
  <2>1. UNCHANGED <<doubt, segs, identity, paired, foreign, space>>
    BY <1>5 DEF StartAppend, Fail, disk, hist, GiveUp
  <2>2. \A q \in Procs : pc'[q] = "adopting" => pc[q] = "adopting" /\ rewrite'[q] = rewrite[q]
    BY <1>1, <1>5 DEF StartAppend, Fail, Goto, GiveUp
  <2>3. Known'
    BY <1>0, <1>1, <1>5, <2>1 DEF StartAppend, Fail, Goto, Known, Phases, GiveUp
  <2>4. Synced'
    BY <1>0, <1>1, <1>5, <2>1 DEF StartAppend, Fail, Goto, Synced, GiveUp
  <2>5. Adopter'
    BY <1>0, <2>1, <2>2 DEF Adopter
  <2>6. QED BY <2>3, <2>4, <2>5
<1>6. ASSUME NEW p \in Procs, RenameSegment(p) PROVE Known' /\ Synced' /\ Adopter'
  <2>1. /\ UNCHANGED <<doubt, identity, paired, foreign, space, rewrite>>
        /\ pc[p] = "writing" /\ pc' = [pc EXCEPT ![p] = "renamed"]
        /\ DOMAIN segs \subseteq DOMAIN segs'
    BY <1>6, RenameAbove DEF RenameSegment, Goto, local, hist
  <2>2. Known'
    BY <1>0, <1>1, <2>1 DEF Known, Phases
  <2>3. Synced' /\ Adopter'
    BY <1>0, <1>1, <2>1 DEF Synced, Adopter
  <2>4. QED BY <2>2, <2>3
<1>7. ASSUME NEW p \in Procs, SyncDir(p) PROVE Known' /\ Synced' /\ Adopter'
  <2>1. PICK to \in {"open", "writing"} : pc' = [pc EXCEPT ![p] = to]
    BY <1>7 DEF SyncDir, Goto
  <2>2. pc[p] = "renamed" /\ UNCHANGED <<doubt, segs, identity, paired, foreign, space, rewrite>>
    BY <1>7 DEF SyncDir, SyncParent
  <2>3. Known'
    BY <1>0, <1>1, <2>1, <2>2 DEF Known, Phases
  <2>4. Synced' /\ Adopter'
    BY <1>0, <1>1, <2>1, <2>2 DEF Synced, Adopter
  <2>5. QED BY <2>3, <2>4
<1>8. ASSUME NEW p \in Procs, NEW s \in Spaces, StartJoin(p, s)
      PROVE  Known' /\ Synced' /\ Adopter'
  <2>1. /\ UNCHANGED <<segs, identity, paired, foreign>>
        /\ pc[p] = "open" /\ pc' = [pc EXCEPT ![p] = "adopting"]
        /\ space' = [space EXCEPT ![p] = s]
        /\ rewrite' = [rewrite EXCEPT ![p] = DOMAIN segs]
        /\ doubt' \/ (~paired /\ foreign = {})
        /\ doubt => doubt'
    BY <1>8 DEF StartJoin, Goto, disk, MayJoin
  <2>2. Known'
    BY <1>0, <1>1, <2>1 DEF Known, Phases
  <2>3. Synced'
    BY <1>0, <1>1, <2>1 DEF Synced
  <2>4. Adopter'
    BY <1>0, <1>1, <2>1 DEF Adopter
  <2>5. QED BY <2>2, <2>3, <2>4
<1>9. ASSUME NEW p \in Procs, RewriteSegment(p) PROVE Known' /\ Synced' /\ Adopter'
  <2>1. UNCHANGED <<doubt, identity, paired, foreign, pc, space>> /\ DOMAIN segs' = DOMAIN segs
    BY <1>9, RewriteKeeps DEF RewriteSegment, hist
  <2>2. \A q \in Procs : rewrite'[q] \subseteq rewrite[q]
    BY <1>1, <1>9 DEF RewriteSegment
  <2>3. Known' /\ Synced'
    BY <1>0, <2>1 DEF Known, Synced
  <2>4. Adopter'
    BY <1>0, <2>1, <2>2 DEF Adopter
  <2>5. QED BY <2>3, <2>4
<1>10. ASSUME NEW p \in Procs, FinishJoin(p) PROVE Known' /\ Synced' /\ Adopter'
  <2>1. /\ UNCHANGED <<doubt, segs, paired, foreign, space, rewrite>>
        /\ pc[p] = "adopting" /\ pc' = [pc EXCEPT ![p] = "open"]
        /\ identity' = space[p]
    BY <1>10 DEF WriteIdentity, FinishJoin, Goto, local, hist
  <2>2. space[p] # None
    BY <1>0, <2>1 DEF Known, Phases
  <2>3. Known'
    BY <1>0, <1>1, <2>1, <2>2 DEF Known, Phases
  <2>4. Synced' /\ Adopter'
    BY <1>0, <1>1, <2>1 DEF Synced, Adopter
  <2>5. QED BY <2>3, <2>4
<1>11. ASSUME NEW p \in Procs, Save(p) \/ ImportSegment(p)
       PROVE  Known' /\ Synced' /\ Adopter'
  <2>1. /\ UNCHANGED <<doubt, segs, identity, space, pc, rewrite>>
        /\ paired'
    BY <1>11 DEF Save, ImportSegment, local, hist
  <2>2. \A q \in Procs : pc[q] # "adopting" \/ (doubt /\ rewrite[q] \subseteq DOMAIN segs)
    <3>1. CASE Save(p)
      BY <1>0, <3>1, OneHolder DEF Save, Holding, Phases
    <3>2. CASE ImportSegment(p)
      BY <1>0, <3>2 DEF ImportSegment, Adopter
    <3>3. QED BY <1>11, <3>1, <3>2
  <2>3. Known' /\ Synced'
    BY <1>0, <2>1 DEF Known, Synced
  <2>4. Adopter'
    BY <2>1, <2>2 DEF Adopter
  <2>5. QED BY <2>3, <2>4
<1>12. CASE PowerLoss
  BY <1>12 DEF PowerLoss, Known, Synced, Adopter
<1>13. CASE UNCHANGED vars \/ WriteBack
  <2>1. UNCHANGED <<doubt, segs, identity, paired, foreign, pc, space, rewrite>>
    BY <1>13 DEF vars, WriteBack, local, hist
  <2>2. QED BY <1>0, <2>1 DEF Known, Synced, Adopter
<1>14. QED
  BY <1>2, <1>3, <1>4, <1>5, <1>6, <1>7, <1>8, <1>9, <1>10, <1>11, <1>12, <1>13
     DEF Next, Step

(* Every step keeps the processes, identity.json and imports in one space. *)
LEMMA SpaceStep == IInv /\ [Next]_vars => SpaceAgreement'
<1> SUFFICES ASSUME IInv, [Next]_vars PROVE SpaceAgreement'
  OBVIOUS
<1> DEFINE Under == {"open", "writing", "renamed"}
           Away  == {"detached", "reattached"}
           Agree == \A q \in Procs : pc[q] \in Under => space[q] = identity
           Out   == ~doubt => \A q \in Procs : pc[q] \in Away => space[q] = identity
           Only  == ~doubt => foreign \subseteq {identity}
<1> SUFFICES Agree' /\ Out' /\ Only'
  BY Zenon DEF SpaceAgreement
<1>0. TypeOK /\ LockHeld /\ JoinExclusive /\ Agree /\ Out /\ Only
  BY DEF IInv, SpaceAgreement
<1> HIDE DEF Agree, Out, Only
<1>1. /\ pc \in [Procs -> Phases] /\ space \in [Procs -> Spaces \cup {None}]
      /\ foreign \subseteq Spaces /\ None \notin Spaces
  BY <1>0 DEF TypeOK
<1>2. ASSUME UNCHANGED <<identity, foreign, space>>, doubt => doubt',
             \A q \in Procs : pc'[q] \in Under => pc[q] \in Under,
             \A q \in Procs : pc'[q] \in Away => pc[q] \in Under \cup Away
      PROVE  Agree' /\ Out' /\ Only'
  BY <1>0, <1>2 DEF Agree, Out, Only
<1>3. ASSUME NEW p \in Procs, Lock(p) \/ Detach(p) \/ Reattach(p) \/ StartAppend(p)
                              \/ Fail(p) \/ RenameSegment(p)
      PROVE  Agree' /\ Out' /\ Only'
  <2>1. UNCHANGED <<identity, foreign, space, doubt>>
    BY <1>3 DEF Lock, Detach, Reattach, TakeLock, StartAppend, Fail, RenameSegment, disk,
       local, hist, GiveUp
  <2>2. /\ \A q \in Procs : pc'[q] \in Under => pc[q] \in Under
        /\ \A q \in Procs : pc'[q] \in Away => pc[q] \in Under \cup Away
    BY <1>1, <1>3 DEF Lock, Detach, Reattach, TakeLock, StartAppend, Fail, RenameSegment, Goto, GiveUp
  <2>3. QED BY <1>2, <2>1, <2>2
<1>4. ASSUME NEW p \in Procs, SyncDir(p) PROVE Agree' /\ Out' /\ Only'
  <2>1. PICK to \in {"open", "writing"} : pc' = [pc EXCEPT ![p] = to]
    BY <1>4 DEF SyncDir, Goto
  <2>2. pc[p] = "renamed" /\ UNCHANGED <<identity, foreign, space, doubt>>
    BY <1>4 DEF SyncDir
  <2>3. QED BY <1>1, <1>2, <2>1, <2>2
<1>5. ASSUME NEW p \in Procs, Close(p) \/ Crash(p) PROVE Agree' /\ Out' /\ Only'
  <2>1. Exit(p) /\ UNCHANGED <<identity, foreign, doubt>>
    BY <1>5 DEF Close, Crash, disk, hist
  <2>2. pc'[p] = "idle" /\ \A q \in Procs \ {p} : pc'[q] = pc[q] /\ space'[q] = space[q]
    BY <1>1, <2>1 DEF Exit, Goto
  <2>3. QED BY <1>0, <2>1, <2>2 DEF Agree, Out, Only
<1>6. ASSUME NEW p \in Procs, OpenLog(p) PROVE Agree' /\ Out' /\ Only'
  <2>1. /\ pc' = [pc EXCEPT ![p] = "open"] /\ space' = [space EXCEPT ![p] = identity']
        /\ UNCHANGED <<foreign, doubt>>
    BY <1>6 DEF OpenLog, Goto, hist
  <2>2. CASE identity' = identity
    BY <1>0, <1>1, <2>1, <2>2 DEF Agree, Out, Only
  <2>3. CASE identity = None
    <3>1. doubt \/ foreign = {}
      BY <1>0, <1>1, <2>3 DEF Only
    <3>2. \A q \in Procs : pc[q] \notin Under \cup Away
      BY <1>0, <2>3 DEF JoinExclusive, Phases
    <3>3. QED BY <1>1, <2>1, <3>1, <3>2 DEF Agree, Out, Only
  <2>4. QED BY <1>6, <2>2, <2>3 DEF OpenLog
<1>7. ASSUME NEW p \in Procs, NEW s \in Spaces, StartJoin(p, s) PROVE Agree' /\ Out' /\ Only'
  <2>1. /\ UNCHANGED <<identity, foreign>> /\ (doubt => doubt')
        /\ pc' = [pc EXCEPT ![p] = "adopting"]
        /\ space' = [space EXCEPT ![p] = s]
    BY <1>7 DEF StartJoin, Goto, disk
  <2>2. QED BY <1>0, <1>1, <2>1 DEF Agree, Out, Only
<1>8. ASSUME NEW p \in Procs, RewriteSegment(p) \/ Save(p) PROVE Agree' /\ Out' /\ Only'
  BY <1>2, <1>8 DEF RewriteSegment, Save, local, hist
<1>9. ASSUME NEW p \in Procs, FinishJoin(p) PROVE Agree' /\ Out' /\ Only'
  <2>1. /\ pc[p] = "adopting" /\ pc' = [pc EXCEPT ![p] = "open"]
        /\ identity' = space[p] /\ UNCHANGED <<space, foreign, doubt>>
    BY <1>9 DEF FinishJoin, WriteIdentity, Goto, local, hist
  <2>2. doubt \/ (~paired /\ foreign = {})
    BY <1>0, <2>1 DEF JoinExclusive
  <2>3. \A q \in Procs : pc[q] \in Under \cup Away => doubt /\ pc[q] = "detached"
    <3> SUFFICES ASSUME NEW q \in Procs, pc[q] \in Under \cup Away
                 PROVE  doubt /\ pc[q] = "detached"
      OBVIOUS
    <3>1. CASE pc[q] = "detached"
      BY <1>0, <2>2, <3>1 DEF JoinExclusive
    <3>2. CASE pc[q] # "detached"
      <4>1. pc[q] \in Holding /\ pc[p] \in Holding
        BY <2>1, <3>2 DEF Holding, Phases
      <4>2. p = q
        BY <1>0, <4>1, OneHolder
      <4>3. QED BY <2>1, <4>2
    <3>3. QED BY <3>1, <3>2
  <2>4. Agree'
    BY <1>1, <2>1, <2>3 DEF Agree
  <2>5. Out' /\ Only'
    BY <1>1, <2>1, <2>2, <2>3 DEF Out, Only
  <2>6. QED BY <2>4, <2>5
<1>10. ASSUME NEW p \in Procs, ImportSegment(p) PROVE Agree' /\ Out' /\ Only'
  <2>1. /\ pc[p] \in Under \cup Away /\ foreign' = foreign \cup {space[p]}
        /\ UNCHANGED <<identity, pc, space, doubt>>
    BY <1>10 DEF ImportSegment, local, hist
  <2>2. QED BY <1>0, <2>1 DEF Agree, Out, Only
<1>11. CASE PowerLoss
  <2>1. \A q \in Procs : pc'[q] = "idle"
    BY <1>11 DEF PowerLoss
  <2>2. ~doubt' => foreign' = {} \/ (~doubt /\ identity' = identity /\ foreign' \subseteq foreign)
    <3>1. ~doubt' => foreign' = {} \/ (~doubt /\ identity' = identity)
      BY <1>11, LossKeeps
    <3>2. foreign' \subseteq foreign \/ identity' = None
      BY <1>11, LossKeeps
    <3>3. identity' = None /\ DOMAIN segs = {} => foreign' \subseteq foreign
      BY <1>11, LossKeeps
    <3>4. identity = None => DOMAIN segs = {}
      BY <1>0 DEF JoinExclusive
    <3>5. QED BY <3>1, <3>2, <3>3, <3>4
  <2>3. QED BY <1>0, <2>1, <2>2 DEF Agree, Out, Only
<1>12. CASE UNCHANGED vars \/ WriteBack
  <2>1. UNCHANGED <<identity, foreign, space, pc, doubt>>
    BY <1>12 DEF vars, WriteBack, local, hist
  <2>2. QED BY <1>2, <2>1
<1>13. QED
  BY <1>3, <1>4, <1>5, <1>6, <1>7, <1>8, <1>9, <1>10, <1>11, <1>12 DEF Next, Step

(* Steps that are neither a directory sync nor a power loss report nothing, *)
(* and leave no renamed segment less durable.                              *)
LEMMA AckedAlone ==
  ASSUME [Next]_vars, ~PowerLoss, \A p \in Procs : ~SyncDir(p)
  PROVE  /\ acked' = acked /\ told' = told
         /\ \/ unsynced' \subseteq unsynced
            \/ \E p \in Procs : RenameSegment(p) /\ unsynced' = unsynced \cup {nextSeq[p]}
<1>1. CASE UNCHANGED vars \/ WriteBack
  BY <1>1 DEF vars, WriteBack, hist
<1>2. ASSUME NEW p \in Procs, Step(p), ~RenameSegment(p), ~RewriteSegment(p), ~SyncDir(p)
      PROVE  UNCHANGED <<acked, told, unsynced>>
  BY <1>2 DEF Step, Lock, OpenLog, Close, Detach, Reattach, StartAppend,
     Fail, StartJoin, FinishJoin, Save, ImportSegment, Crash, disk, hist
<1>3. ASSUME NEW p \in Procs, RenameSegment(p)
      PROVE  UNCHANGED <<acked, told>> /\ unsynced' = unsynced \cup {nextSeq[p]}
  BY <1>3 DEF RenameSegment, hist
<1>4. ASSUME NEW p \in Procs, RewriteSegment(p)
      PROVE  UNCHANGED <<acked, told>> /\ unsynced' \subseteq unsynced
  BY <1>4 DEF RewriteSegment, SyncParent, hist
<1>5. QED BY <1>1, <1>2, <1>3, <1>4 DEF Next

(* Every step keeps what was acknowledged.                                 *)
LEMMA AckedStep == IInv /\ [Next]_vars => AckedStable'
<1> SUFFICES ASSUME IInv, [Next]_vars PROVE AckedStable'
  OBVIOUS
<1>0. TypeOK /\ AckedStable
  BY DEF IInv
<1>1. ASSUME acked' \subseteq acked, told' \subseteq told,
             DOMAIN segs \ unsynced \subseteq DOMAIN segs' \ unsynced' \/ acked' = {},
             DOMAIN segs \subseteq DOMAIN segs' \/ told' = {},
             \A f \in DOMAIN segs \cap DOMAIN segs' : segs'[f].obs = segs[f].obs
      PROVE  AckedStable'
  <2>1. ASSUME NEW a, NEW f \in DOMAIN segs \cap DOMAIN segs', Holds(f, a)
        PROVE  Holds(f, a)'
    BY <1>1, <2>1 DEF Holds, Numbers
  <2>2. ASSUME NEW a \in acked' PROVE \E f \in DOMAIN segs' \ unsynced' : Holds(f, a)'
    <3>1. PICK f \in DOMAIN segs \ unsynced : Holds(f, a)
      BY <1>0, <1>1, <2>2 DEF AckedStable
    <3>2. f \in DOMAIN segs' \ unsynced'
      BY <1>1, <2>2
    <3>3. QED BY <2>1, <3>1, <3>2
  <2>3. ASSUME NEW a \in told' PROVE \E f \in DOMAIN segs' : Holds(f, a)'
    <3>1. PICK f \in DOMAIN segs : Holds(f, a)
      BY <1>0, <1>1, <2>3 DEF AckedStable
    <3>2. f \in DOMAIN segs'
      BY <1>1, <2>3
    <3>3. QED BY <2>1, <3>1, <3>2
  <2>4. QED BY <2>2, <2>3 DEF AckedStable
<1>2. ASSUME NEW p \in Procs, RenameSegment(p) PROVE AckedStable'
  <2>1. UNCHANGED <<acked, told>> /\ unsynced' = unsynced \cup {nextSeq[p]}
    BY <1>2 DEF RenameSegment, hist
  <2>2. DOMAIN segs \ unsynced \subseteq DOMAIN segs' \ unsynced' /\ DOMAIN segs \subseteq DOMAIN segs'
    BY <1>2, <2>1, RenameAbove
  <2>3. \A f \in DOMAIN segs : segs'[f].obs = segs[f].obs
    BY <1>2, RenameAbove
  <2>4. QED BY <1>1, <2>1, <2>2, <2>3
<1>3. ASSUME NEW p \in Procs, SyncDir(p) PROVE AckedStable'
  <2> DEFINE first == nextSeq[p]
  <2>1. segs' = segs
    BY <1>3 DEF SyncDir
  <2>2. first \in DOMAIN segs
    BY <1>3 DEF IInv, NextSeqFree, SyncDir
  <2>3. ASSUME NEW a \in Pairs(first) PROVE Holds(first, a)
    <3>1. PICK i \in 1..Len(segs[first].obs) : a = <<first + i - 1, segs[first].obs[i]>>
      BY DEF Pairs
    <3>2. first \in Nat /\ Len(segs[first].obs) \in Nat
      BY <1>0, <2>2, OneSegment
    <3>3. first + i - 1 \in first .. (first + Len(segs[first].obs) - 1)
      BY <3>2
    <3>4. (first + i - 1) - first + 1 = i
      BY <3>2
    <3>5. a[1] = first + i - 1 /\ a[2] = segs[first].obs[i]
      BY <3>1
    <3>6. a[1] - first + 1 = i /\ a[1] \in first .. (first + Len(segs[first].obs) - 1)
      BY <3>3, <3>4, <3>5
    <3>7. QED BY <3>5, <3>6 DEF Holds, Numbers
  <2>4. ASSUME NEW f, NEW a, Holds(f, a) PROVE Holds(f, a)'
    BY <2>1, <2>4 DEF Holds, Numbers
  <2>5. \A a \in acked \cup told \cup Pairs(first) : \E f \in DOMAIN segs : Holds(f, a)
    BY <1>0, <2>2, <2>3 DEF AckedStable
  <2>6. CASE unsynced' = {} /\ acked' = acked \cup told \cup Pairs(first) /\ told' = {}
    BY <2>1, <2>4, <2>5, <2>6 DEF AckedStable
  <2>7. CASE UNCHANGED <<unsynced, acked>> /\ told' = told \cup Pairs(first)
    <3>1. \A a \in acked : \E f \in DOMAIN segs \ unsynced : Holds(f, a)
      BY <1>0 DEF AckedStable
    <3>2. QED BY <2>1, <2>4, <2>5, <2>7, <3>1 DEF AckedStable
  <2>8. QED BY <1>3, <2>6, <2>7 DEF SyncDir, SyncParent
<1>4. CASE PowerLoss
  <2>1. told' = {} /\ unsynced' = {}
    BY <1>4 DEF PowerLoss
  <2>2. acked' \subseteq acked /\ \A f \in DOMAIN segs' : segs'[f].obs = segs[f].obs
    BY <1>0, <1>4, LossTypes
  <2>3. DOMAIN segs \ unsynced \subseteq DOMAIN segs' \/ acked' = {}
    BY <1>4, LossKeeps
  <2>4. QED BY <1>1, <2>1, <2>2, <2>3
<1>5. ASSUME NEW p \in Procs, RewriteSegment(p) PROVE AckedStable'
  <2>1. UNCHANGED <<acked, told>> /\ unsynced' \subseteq unsynced
    BY <1>5 DEF RewriteSegment, SyncParent, hist
  <2>2. QED BY <1>1, <1>5, <2>1, RewriteKeeps
<1>6. CASE UNCHANGED segs /\ ~PowerLoss /\ \A p \in Procs : ~SyncDir(p) /\ ~RenameSegment(p)
  <2>1. acked' = acked /\ told' = told /\ unsynced' \subseteq unsynced
    BY <1>6, AckedAlone
  <2>2. QED BY <1>1, <1>6, <2>1
<1>7. QED BY <1>2, <1>3, <1>4, <1>5, <1>6, OtherSteps

(* Disjointness is order.                                                  *)
LEMMA OrderedDisjoint == TypeOK /\ SegmentsOrdered => SegmentsDisjoint
<1> SUFFICES ASSUME TypeOK, SegmentsOrdered,
                    NEW f \in DOMAIN segs, NEW g \in DOMAIN segs, f < g
             PROVE  Numbers(f) \cap Numbers(g) = {}
  <2>1. \A f \in DOMAIN segs : f \in Nat
    BY OneSegment
  <2>2. QED BY <2>1 DEF SegmentsDisjoint
<1>1. f + Len(segs[f].obs) <= g
  BY DEF SegmentsOrdered
<1>2. f \in Nat /\ g \in Nat /\ Len(segs[f].obs) \in Nat /\ Len(segs[g].obs) \in Nat
  BY OneSegment
<1>3. QED BY <1>1, <1>2 DEF Numbers

-----------------------------------------------------------------------------
(* The inductive invariant holds of every reachable state of a device's    *)
(* log, for any number of processes, contents, spaces and segments.        *)
THEOREM Invariance == Spec => []IInv
<1>1. Init => IInv
  BY Initially
<1>2. IInv /\ [Next]_vars => IInv'
  BY TypeStep, LockStep, OrderStep, NextFreeStep, JoinStep, SpaceStep, AckedStep
     DEF IInv
<1>3. QED BY <1>1, <1>2, PTL DEF Spec

(* The state always has its types.                                         *)
THEOREM TypeCorrect == Spec => []TypeOK
<1>1. IInv => TypeOK
  BY DEF IInv
<1>2. QED BY <1>1, Invariance, PTL

(* A process past store.Open holds DuckDB's lock, so at most one process   *)
(* at a time appends to the log or rewrites it.                            *)
THEOREM MutualExclusion == Spec => []LockHeld
<1>1. IInv => LockHeld
  BY DEF IInv
<1>2. QED BY <1>1, Invariance, PTL

(* No sequence number is ever used by two segments, whatever crashed,      *)
(* failed or lost power in writeSegment.                                   *)
THEOREM NumbersUnique == Spec => []SegmentsDisjoint
<1>1. IInv => SegmentsDisjoint
  BY OrderedDisjoint DEF IInv
<1>2. QED BY <1>1, Invariance, PTL

(* What Append reported as written stays in the log under its number: once *)
(* a directory sync has followed, until devices/<id> or identity.json is   *)
(* lost as a whole; without one, until the next power loss.                *)
THEOREM Durability == Spec => []AckedStable
<1>1. IInv => AckedStable
  BY DEF IInv
<1>2. QED BY <1>1, Invariance, PTL

(* Everybody who uses the log under the lock agrees with identity.json on  *)
(* the space.  So do the daemon that syncs without the lock and the        *)
(* imported segments, until a power loss undoes identity.json or a join    *)
(* cannot read that the device is paired.                                  *)
THEOREM OneSpace == Spec => []SpaceAgreement
<1>1. IInv => SpaceAgreement
  BY DEF IInv
<1>2. QED BY <1>1, Invariance, PTL

-----------------------------------------------------------------------------
(* The refinement.  The mapping is a function of the segment files alone,  *)
(* so what it keeps is stated for two states S and T of them.              *)
Nums(S, f) == f .. (f + Len(S[f].obs) - 1)

Flat(S) ==
  LET all == UNION {Nums(S, f) : f \in DOMAIN S}
  IN  [n \in all |-> LET f == CHOOSE f \in DOMAIN S : n \in Nums(S, f)
                     IN  S[f].obs[n - f + 1]]

WellFormed(S) ==
  /\ \A f \in DOMAIN S : f \in Nat /\ Len(S[f].obs) \in Nat
  /\ \A f, g \in DOMAIN S : f < g => f + Len(S[f].obs) <= g

(* The entry with number n is the record at that place of its segment.     *)
LEMMA FlatAt ==
  ASSUME NEW S, WellFormed(S), NEW f \in DOMAIN S, NEW n \in Nums(S, f)
  PROVE  n \in DOMAIN Flat(S) /\ Flat(S)[n] = S[f].obs[n - f + 1]
<1> DEFINE h == CHOOSE g \in DOMAIN S : n \in Nums(S, g)
<1>1. h \in DOMAIN S /\ n \in Nums(S, h)
  OBVIOUS
<1>2. h = f
  <2>1. /\ f \in Nat /\ h \in Nat /\ Len(S[f].obs) \in Nat /\ Len(S[h].obs) \in Nat
        /\ n \in f .. (f + Len(S[f].obs) - 1)
        /\ n \in h .. (h + Len(S[h].obs) - 1)
    BY <1>1 DEF WellFormed, Nums
  <2>2. (f < h => f + Len(S[f].obs) <= h) /\ (h < f => h + Len(S[h].obs) <= f)
    BY <1>1 DEF WellFormed
  <2>3. QED BY <2>1, <2>2
<1>3. n \in DOMAIN Flat(S)
  BY DEF Flat
<1>4. Flat(S)[n] = S[h].obs[n - h + 1]
  BY <1>3 DEF Flat
<1>5. QED BY <1>2, <1>3, <1>4

(* A state with all the segments of another has all its entries.           *)
LEMMA FlatKept ==
  ASSUME NEW S, NEW T, WellFormed(S), WellFormed(T),
         DOMAIN S \subseteq DOMAIN T, \A f \in DOMAIN S : T[f].obs = S[f].obs
  PROVE  Abstract!KeptIn(Flat(S), Flat(T))
<1> SUFFICES ASSUME NEW n \in DOMAIN Flat(S)
             PROVE  n \in DOMAIN Flat(T) /\ Flat(T)[n] = Flat(S)[n]
  BY DEF Abstract!KeptIn
<1>1. PICK f \in DOMAIN S : n \in Nums(S, f)
  BY DEF Flat
<1>2. f \in DOMAIN T /\ n \in Nums(T, f) /\ T[f].obs = S[f].obs
  BY <1>1 DEF Nums
<1>3. Flat(S)[n] = S[f].obs[n - f + 1]
  BY <1>1, FlatAt
<1>4. n \in DOMAIN Flat(T) /\ Flat(T)[n] = T[f].obs[n - f + 1]
  BY <1>2, FlatAt
<1>5. QED BY <1>2, <1>3, <1>4

(* Two states with the same observations have the same entries.            *)
LEMMA FlatSame ==
  ASSUME NEW S, NEW T, WellFormed(S), WellFormed(T),
         DOMAIN S = DOMAIN T, \A f \in DOMAIN S : T[f].obs = S[f].obs
  PROVE  Flat(S) = Flat(T)
<1>1. Abstract!KeptIn(Flat(S), Flat(T)) /\ Abstract!KeptIn(Flat(T), Flat(S))
  BY FlatKept
<1>2. DOMAIN Flat(S) = DOMAIN Flat(T) /\ \A n \in DOMAIN Flat(S) : Flat(T)[n] = Flat(S)[n]
  BY <1>1 DEF Abstract!KeptIn
<1>3. /\ Flat(S) = [n \in DOMAIN Flat(S) |-> Flat(S)[n]]
      /\ Flat(T) = [n \in DOMAIN Flat(T) |-> Flat(T)[n]]
  BY DEF Flat
<1>4. QED BY <1>2, <1>3

LEMMA InvWellFormed == IInv => WellFormed(segs)
BY OneSegment DEF IInv, SegmentsOrdered, WellFormed

LEMMA StepWellFormed == IInv /\ [Next]_vars => WellFormed(segs')
<1> SUFFICES ASSUME IInv, [Next]_vars PROVE WellFormed(segs')
  OBVIOUS
<1>1. TypeOK' /\ SegmentsOrdered'
  BY TypeStep, OrderStep
<1>2. \A f \in DOMAIN segs' : f \in Nat /\ segs'[f].obs \in Seq(Contents)
  BY <1>1 DEF TypeOK, Segment
<1>3. \A f \in DOMAIN segs' : Len(segs'[f].obs) \in Nat
  BY <1>2, LenProperties
<1>4. QED BY <1>1, <1>2, <1>3 DEF SegmentsOrdered, WellFormed

(* Without a power loss, a directory and an identity.json that are on      *)
(* stable storage stay so.                                                 *)
LEMMA DirectoriesKept ==
  ASSUME IInv, [Next]_vars, ~PowerLoss, identity # None, DirectoryStable
  PROVE  DirectoryStable'
<1>0. volatile = {} /\ <<0, None>> \notin undo
  BY DEF DirectoryStable
<1>1. CASE UNCHANGED vars \/ WriteBack
  BY <1>0, <1>1 DEF vars, WriteBack, DirectoryStable
<1>2. ASSUME NEW s, WriteIdentity(s) PROVE <<0, None>> \notin undo'
  BY <1>0, <1>2 DEF WriteIdentity, Replace
<1>3. ASSUME NEW p \in Procs, SyncDir(p) PROVE undo' \subseteq undo /\ volatile' = volatile
  BY <1>3 DEF SyncDir, SyncParent
<1>4. ASSUME NEW p \in Procs, RewriteSegment(p)
      PROVE  <<0, None>> \notin undo' /\ volatile' = volatile
  <2>1. PICK f \in rewrite[p] : SyncParent \/ Replace(f, segs[f].space)
    BY <1>4 DEF RewriteSegment
  <2>2. f # 0
    BY <1>4, <2>1 DEF RewriteSegment, IInv, JoinExclusive, TypeOK
  <2>3. undo' \subseteq undo \cup {<<f, segs[f].space>>}
    BY <2>1 DEF SyncParent, Replace
  <2>4. volatile' = volatile
    BY <1>4 DEF RewriteSegment
  <2>5. QED BY <1>0, <2>2, <2>3, <2>4
<1>5. ASSUME NEW p \in Procs, OpenLog(p) \/ FinishJoin(p)
      PROVE  <<0, None>> \notin undo' /\ volatile' = volatile
  <2>1. volatile' = volatile
    BY <1>5 DEF OpenLog, FinishJoin
  <2>2. UNCHANGED undo \/ \E s : WriteIdentity(s)
    BY <1>5 DEF OpenLog, FinishJoin
  <2>3. QED BY <1>0, <1>2, <2>1, <2>2
<1>6. ASSUME NEW p \in Procs, Step(p), ~SyncDir(p), ~RewriteSegment(p), ~OpenLog(p),
             ~FinishJoin(p)
      PROVE  UNCHANGED <<undo, volatile>>
  BY <1>6 DEF Step, Lock, Close, Detach, Reattach, StartAppend, RenameSegment, Fail,
     StartJoin, Save, ImportSegment, Crash, disk
<1>7. QED
  BY <1>0, <1>1, <1>3, <1>4, <1>5, <1>6 DEF Next, DirectoryStable

(* Every step of the files is a step of DeviceLog or leaves its state      *)
(* alone: the rename adds entries, syncs and the operating system make     *)
(* them stable, and a power loss takes only what was not.                  *)
LEMMA StepRefines ==
  IInv /\ [Next]_vars => [Abstract!Next]_(Abstract!vars)
<1> SUFFICES ASSUME IInv, [Next]_vars PROVE [Abstract!Next]_(Abstract!vars)
  OBVIOUS
<1>1. WellFormed(segs) /\ WellFormed(segs')
  BY InvWellFormed, StepWellFormed
<1>2. Entries = Flat(segs) /\ Entries' = Flat(segs')
  BY DEF Entries, Flat, Numbers, Nums
<1>3. /\ Stable = IF DirectoryStable THEN UNION {Nums(segs, f) : f \in DOMAIN segs \ unsynced}
                   ELSE {}
      /\ Stable' = IF DirectoryStable'
                   THEN UNION {Nums(segs', f) : f \in DOMAIN segs' \ unsynced'} ELSE {}
  BY DEF Stable, Numbers, Nums
<1>4. /\ DOMAIN Entries = UNION {Nums(segs, f) : f \in DOMAIN segs}
      /\ DOMAIN Entries' = UNION {Nums(segs', f) : f \in DOMAIN segs'}
  BY <1>2 DEF Flat
<1>5. ASSUME ~PowerLoss, DOMAIN segs' = DOMAIN segs, unsynced' \subseteq unsynced,
             \A f \in DOMAIN segs : segs'[f].obs = segs[f].obs
      PROVE  Abstract!Persist
  <2>1. Entries' = Entries
    BY <1>1, <1>2, <1>5, FlatSame
  <2>2. \A f \in DOMAIN segs : Nums(segs', f) = Nums(segs, f)
    BY <1>5 DEF Nums
  <2>3. DOMAIN segs # {} /\ DirectoryStable => DirectoryStable'
    BY <1>5, DirectoriesKept DEF IInv, JoinExclusive
  <2>4. Stable \subseteq Stable'
    <3>1. CASE DOMAIN segs = {}
      BY <1>3, <3>1
    <3>2. CASE DOMAIN segs # {}
      BY <1>3, <1>5, <2>2, <2>3, <3>2
    <3>3. QED BY <3>1, <3>2
  <2>5. Stable' \subseteq DOMAIN Entries
    BY <1>3, <1>4, <1>5, <2>2
  <2>6. QED BY <2>1, <2>4, <2>5 DEF Abstract!Persist
<1>6. ASSUME NEW p \in Procs, RenameSegment(p) PROVE Abstract!Extend
  <2>1. /\ DOMAIN segs' = DOMAIN segs \cup {nextSeq[p]}
        /\ \A f \in DOMAIN segs : segs'[f] = segs[f]
        /\ nextSeq[p] \notin DOMAIN segs
        /\ \A f \in DOMAIN segs : f + Len(segs[f].obs) <= nextSeq[p]
        /\ nextSeq[p] \in Nat
    BY <1>6, RenameAbove
  <2>2. Abstract!KeptIn(Entries, Entries')
    BY <1>1, <1>2, <2>1, FlatKept
  <2>3. ASSUME NEW m \in DOMAIN Entries, NEW n \in DOMAIN Entries' \ DOMAIN Entries
        PROVE  m < n
    <3>1. PICK f \in DOMAIN segs : m \in Nums(segs, f)
      BY <1>4
    <3>2. m < nextSeq[p] /\ m \in Nat
      BY <1>1, <2>1, <3>1 DEF Nums, WellFormed
    <3>3. PICK g \in DOMAIN segs' : n \in Nums(segs', g)
      BY <1>4
    <3>4. g = nextSeq[p]
      <4>1. \A h \in DOMAIN segs : Nums(segs', h) = Nums(segs, h)
        BY <2>1 DEF Nums
      <4>2. g \notin DOMAIN segs
        BY <1>4, <3>3, <4>1
      <4>3. QED BY <2>1, <4>2
    <3>5. n >= nextSeq[p] /\ n \in Nat
      BY <1>1, <3>3, <3>4 DEF Nums, WellFormed
    <3>6. QED BY <2>1, <3>2, <3>5
  <2>4. Stable' = Stable
    <3>1. unsynced' = unsynced \cup {nextSeq[p]}
      BY <1>6 DEF RenameSegment
    <3>2. unsynced \subseteq DOMAIN segs
      BY DEF IInv, TypeOK
    <3>3. DOMAIN segs' \ unsynced' = DOMAIN segs \ unsynced
      BY <2>1, <3>1, <3>2
    <3>4. \A f \in DOMAIN segs \ unsynced : Nums(segs', f) = Nums(segs, f)
      BY <2>1 DEF Nums
    <3>5. DirectoryStable' = DirectoryStable
      BY <1>6 DEF RenameSegment, DirectoryStable
    <3>6. UNION {Nums(segs', f) : f \in DOMAIN segs' \ unsynced'} =
            UNION {Nums(segs, f) : f \in DOMAIN segs \ unsynced}
      BY <3>3, <3>4
    <3>7. QED BY <1>3, <3>5, <3>6
  <2>5. QED BY <2>2, <2>3, <2>4 DEF Abstract!Extend
<1>7. ASSUME NEW p \in Procs, SyncDir(p), ~PowerLoss PROVE Abstract!Persist
  <2>1. segs' = segs /\ unsynced' \subseteq unsynced
    BY <1>7 DEF SyncDir, SyncParent
  <2>2. QED BY <1>5, <1>7, <2>1
<1>8. ASSUME NEW p \in Procs, RewriteSegment(p), ~PowerLoss PROVE Abstract!Persist
  <2>1. unsynced' \subseteq unsynced
    BY <1>8 DEF RewriteSegment, SyncParent
  <2>2. QED BY <1>5, <1>8, <2>1, RewriteKeeps
<1>9. CASE PowerLoss
  <2>1. /\ DOMAIN segs' \subseteq DOMAIN segs
        /\ \A f \in DOMAIN segs' : segs'[f].obs = segs[f].obs
    BY <1>9, LossTypes DEF IInv
  <2>2. Abstract!KeptIn(Entries', Entries)
    BY <1>1, <1>2, <2>1, FlatKept
  <2>3. \A f \in DOMAIN segs' : Nums(segs', f) = Nums(segs, f)
    BY <2>1 DEF Nums
  <2>4. Stable \subseteq DOMAIN Entries'
    <3>1. CASE ~DirectoryStable \/ DOMAIN segs = {}
      BY <1>3, <3>1
    <3>2. CASE DirectoryStable /\ DOMAIN segs # {}
      <4>1. volatile = {} /\ identity' \in Versions(0, identity)
        BY <1>9, <3>2, LossKeeps DEF DirectoryStable
      <4>2. identity # None
        BY <3>2 DEF IInv, JoinExclusive
      <4>3. ASSUME identity' = None PROVE FALSE
        <5>1. PICK u \in undo : u[1] = 0 /\ u[2] = None
          BY <4>1, <4>2, <4>3 DEF Versions
        <5>2. u = <<0, None>>
          BY <5>1 DEF IInv, TypeOK
        <5>3. QED BY <3>2, <5>1, <5>2 DEF DirectoryStable
      <4>4. DOMAIN segs \ unsynced \subseteq DOMAIN segs'
        BY <1>9, <4>1, <4>3, LossKeeps
      <4>5. QED BY <1>3, <1>4, <2>3, <4>4
    <3>3. QED BY <3>1, <3>2
  <2>5. Stable' = DOMAIN Entries'
    <3>1. unsynced' = {} /\ undo' = {} /\ (DOMAIN segs' # {} => volatile' = {})
      BY <1>9, LossKeeps DEF PowerLoss
    <3>2. CASE DOMAIN segs' = {}
      BY <1>3, <1>4, <3>2
    <3>3. CASE DOMAIN segs' # {}
      <4>1. DirectoryStable' /\ DOMAIN segs' \ unsynced' = DOMAIN segs'
        BY <3>1, <3>3 DEF DirectoryStable
      <4>2. QED BY <1>3, <1>4, <4>1
    <3>4. QED BY <3>2, <3>3
  <2>6. QED BY <2>2, <2>4, <2>5 DEF Abstract!Next, Abstract!Lose
<1>10. CASE /\ ~PowerLoss
            /\ \A p \in Procs : ~SyncDir(p) /\ ~RenameSegment(p) /\ ~RewriteSegment(p)
  <2>1. segs' = segs /\ unsynced' \subseteq unsynced
    BY <1>10, OtherSteps, AckedAlone
  <2>2. QED BY <1>5, <1>10, <2>1 DEF Abstract!Next
<1>11. QED
  BY <1>6, <1>7, <1>8, <1>9, <1>10 DEF Abstract!Next

(* The log's files implement a device log: whatever processes run, crash   *)
(* or fail and whenever the power goes, observations are added above the   *)
(* rest, never changed, and lost only before their directory, its parents  *)
(* and identity.json are on stable storage.                                *)
THEOREM Refinement == Spec => ImplementsDeviceLog
<1>1. Init => Abstract!Init
  <2> SUFFICES ASSUME Init PROVE Entries = << >> /\ Stable = {}
    BY DEF Abstract!Init
  <2>1. DOMAIN segs = {} /\ segs = << >>
    BY DEF Init
  <2>2. Stable = {}
    BY <2>1 DEF Stable
  <2>3. UNION {Numbers(f) : f \in DOMAIN segs} = {}
    BY <2>1
  <2>4. Entries = << >>
    BY <2>3 DEF Entries
  <2>5. QED BY <2>2, <2>4
<1>2. IInv /\ [Next]_vars => [Abstract!Next]_(Abstract!vars)
  BY StepRefines
<1>3. QED
  BY <1>1, <1>2, Invariance, PTL DEF Spec, ImplementsDeviceLog, Abstract!Spec

=============================================================================
