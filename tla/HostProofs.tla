----------------------------- MODULE HostProofs -----------------------------
(***************************************************************************)
(* Proofs about Host: for any number of processes and migrations and every *)
(* bound, the log has one appender, nothing is indexed in a database whose *)
(* schema is incomplete, what was indexed is kept through crashes and      *)
(* rebuilds, and sync-state.json tells the truth.                          *)
(***************************************************************************)
EXTENDS Host, SequenceTheorems, WellFoundedInduction, TLAPS

USE HostAssumption

(* What a process has open, by where it is. *)
ShapeOf(p) ==
  /\ pc[p] \in {"idle", "syncing"} => handle[p] = None
  /\ pc[p] \notin {"idle", "syncing", "noting"} => handle[p] # None
  /\ pc[p] \notin {"migrating", "applied", "catching", "built"} => aside[p] = None
  /\ pc[p] = "built" => aside[p] # None
  /\ aside[p] # None => handle[p] # None
  /\ note[p] # None <=> pc[p] = "noting"
  /\ handle[p] # None => /\ handle[p].path = "archive"
                         /\ handle[p].file \in DOMAIN file
  /\ aside[p] # None => /\ aside[p].path = "rebuild"
                        /\ aside[p].file \in DOMAIN file

Shape == \A p \in Processes : ShapeOf(p)

(* What is open is what the path leads to, but for the old archive of a    *)
(* process that has just renamed over it; and a file that is open for      *)
(* writing is open once.                                                   *)
CurrentOf(p) ==
  /\ handle[p] # None /\ pc[p] # "renamed" => handle[p].file = at["archive"]
  /\ aside[p] # None => aside[p].file = at["rebuild"]
  /\ pc[p] \in {"swapping", "merged"} => at["rebuild"] # None
  /\ pc[p] \in {"removed", "clean"} => at["rebuild"] = None

Current == \A p \in Processes : CurrentOf(p)

Apart == at["archive"] # None => at["archive"] # at["rebuild"]

Exclusive ==
  \A p, q \in Processes :
    p # q /\ handle[p] # None /\ handle[q] # None /\ handle[p].file = handle[q].file =>
      pc[p] = "reading" /\ pc[q] = "reading"

ReadersRead ==
  \A p \in Processes : handle[p] # None /\ ~handle[p].writes => pc[p] = "reading"

Locks == Current /\ Apart /\ Exclusive /\ ReadersRead

(* The recorded version is applied, and only segments of the log are       *)
(* indexed, wherever a database is.                                        *)
Sound(db, last) == 1..db.version \subseteq db.applied /\ db.segs \subseteq 1..last

AllSound ==
  /\ \A f \in DOMAIN file : Sound(file[f], log)
  /\ \A n \in Paths : wal[n] # None => Sound(wal[n].db, log)
  /\ \A p \in Processes : /\ handle[p] # None => Sound(handle[p].db, log)
                          /\ aside[p] # None => Sound(aside[p].db, log)

StageOf(p) ==
  /\ pc[p] = "applied" =>
       Target(p).db.version < Versions /\ Target(p).db.version + 1 \in Target(p).db.applied
  /\ pc[p] \in {"catching", "working", "built"} => Target(p).db.version = Versions
  /\ pc[p] = "noting" /\ handle[p] # None => handle[p].db.version = Versions

Stages == \A p \in Processes : StageOf(p)

(* A write-ahead log belongs to the file its path leads to, unless that    *)
(* file was removed.                                                       *)
LogsBelong ==
  /\ \A n \in Paths : at[n] # None /\ wal[n] # None => wal[n].of = at[n]
  /\ at["archive"] = None => wal["archive"] = None

(* What was acknowledged is stored under the archive's path.               *)
AckedStored ==
  /\ acked \subseteq 1..log
  /\ acked # {} => at["archive"] # None /\ acked \subseteq Stored("archive").segs

(* What a writer has open is what is stored; before the rename there are   *)
(* no write-ahead logs left to be taken for the new archive's, and what    *)
(* was built has all that was acknowledged.                                *)
StorageOf(p) ==
  /\ pc[p] \in {"clean", "swapping", "merged"} => wal["rebuild"] = None
  /\ pc[p] = "merged" => wal["archive"] = None
  /\ pc[p] \in {"merged", "renamed"} => ~handle[p].dirty
  /\ handle[p] # None /\ pc[p] \notin {"reading", "renamed"} =>
       /\ handle[p].db = Stored("archive")
       /\ handle[p].dirty <=> wal["archive"] # None
  /\ aside[p] # None =>
       /\ aside[p].db = Stored("rebuild")
       /\ aside[p].dirty <=> wal["rebuild"] # None
  /\ pc[p] = "built" => acked \subseteq aside[p].db.segs
  /\ pc[p] \in {"swapping", "merged"} => acked \subseteq Stored("rebuild").segs

Storage == LogsBelong /\ AckedStored /\ \A p \in Processes : StorageOf(p)

(* What the attempts a are to leave in sync-state.json.                    *)
Succeeded(a) == {i \in DOMAIN a : a[i]}
Last(a) == IF Succeeded(a) = {} THEN 0 ELSE Max(Succeeded(a))
Left(a) == [success |-> Last(a), since |-> IF Last(a) = Len(a) THEN 0 ELSE Last(a) + 1]

(* A note that is alone is about the last attempt; while nothing is unsure *)
(* what it has read is what is there, and a lone note, or none, is all     *)
(* that status lacks.                                                      *)
Noted ==
  /\ \A p \in Processes : note[p] # None /\ note[p].alone =>
       /\ \A q \in Processes \ {p} : note[q] = None
       /\ note[p].time = Len(attempts)
       /\ note[p].ok <=> attempts[Len(attempts)]
       /\ ~unsure => /\ note[p].read \in {None, status}
                     /\ status = Left(SubSeq(attempts, 1, Len(attempts) - 1))
  /\ ~unsure /\ (\A p \in Processes : note[p] = None) => status = Left(attempts)

IInv == TypeOK /\ Shape /\ Locks /\ AllSound /\ Stages /\ Storage /\ Noted

-----------------------------------------------------------------------------
(* Types. *)

LEMMA NotNone ==
  /\ \A h \in Handles : h # None
  /\ \A w \in Logs : w # None
  /\ \A n \in Notes : n # None
  /\ \A s \in Statuses : s # None
BY Zenon

LEMMA EmptyType == Empty \in Databases
BY DEF Empty, Databases

LEMMA FileType ==
  ASSUME TypeOK, NEW f \in DOMAIN file
  PROVE  file[f] \in Databases /\ f \in 1..MaxFiles
BY DEF TypeOK

(* Replacing what is in one file. *)
LEMMA FileUpdate ==
  ASSUME TypeOK, NEW f \in DOMAIN file, NEW db \in Databases
  PROVE  LET new == [file EXCEPT ![f] = db]
         IN  new \in Seq(Databases) /\ Len(new) = Len(file) /\ DOMAIN new = DOMAIN file
<1>1. file \in Seq(Databases) BY DEF TypeOK
<1>2. f \in 1..Len(file) BY <1>1
<1>3. QED BY <1>1, <1>2, ExceptSeq

LEMMA StoredType ==
  ASSUME TypeOK, NEW n \in Paths, at[n] # None
  PROVE  Stored(n) \in Databases
<1>1. at[n] \in DOMAIN file BY DEF TypeOK
<1>2. wal[n] # None => wal[n].db \in Databases BY DEF TypeOK, Logs
<1>3. QED BY <1>1, <1>2, FileType DEF Stored

LEMMA HandleType ==
  ASSUME TypeOK, NEW n \in Paths, at[n] # None
  PROVE  /\ Handle(n) = [path |-> n, file |-> at[n], writes |-> TRUE, dirty |-> wal[n] # None,
                         db |-> Stored(n)]
         /\ Handle(n) \in Handles
<1>1. at[n] \in DOMAIN file /\ at[n] \in 1..MaxFiles BY FileType DEF TypeOK
<1>2. Handle(n) = [path |-> n, file |-> at[n], writes |-> TRUE, dirty |-> wal[n] # None, db |-> Stored(n)]
  BY DEF Handle
<1>3. QED BY <1>1, <1>2, StoredType DEF Handles

(* Opening a path leads to a file and a handle on it. *)
LEMMA OpenType ==
  ASSUME TypeOK, NEW n \in Paths, OpenPath(n)
  PROVE  /\ Handle(n) \in Handles /\ Handle(n) # None
         /\ Handle(n).path = n /\ Handle(n).writes
         /\ Handle(n).file = at'[n] /\ Handle(n).file \in DOMAIN file'
         /\ file' \in Seq(Databases) /\ Len(file') <= MaxFiles
         /\ DOMAIN file \subseteq DOMAIN file'
         /\ at' \in [Paths -> DOMAIN file' \cup {None}]
         /\ wal' = wal
<1>1. CASE at[n] # None
  <2>1. UNCHANGED disk BY <1>1 DEF OpenPath
  <2>2. at[n] \in DOMAIN file BY <1>1 DEF TypeOK
  <2>3. Handle(n) = [path |-> n, file |-> at[n], writes |-> TRUE, dirty |-> wal[n] # None, db |-> Stored(n)]
    BY <1>1, HandleType
  <2>4. Handle(n) \in Handles BY <1>1, HandleType
  <2>5. Handle(n) # None BY <2>4, NotNone, Zenon
  <2>6. Handle(n).path = n /\ Handle(n).writes /\ Handle(n).file = at[n] BY <2>3
  <2>7. QED BY <2>1, <2>2, <2>4, <2>5, <2>6 DEF TypeOK, disk
<1>2. CASE at[n] = None
  <2>1. /\ Len(file) < MaxFiles
        /\ file' = Append(file, Empty)
        /\ at' = [at EXCEPT ![n] = Len(file) + 1]
        /\ wal' = wal
    BY <1>2 DEF OpenPath
  <2>2. Handle(n) = [path |-> n, file |-> Len(file) + 1, writes |-> TRUE, dirty |-> FALSE, db |-> Empty]
    BY <1>2 DEF Handle
  <2>3. file \in Seq(Databases) /\ Len(file) \in Nat BY DEF TypeOK
  <2>4. file' \in Seq(Databases) /\ Len(file') = Len(file) + 1
    BY <2>1, <2>3, EmptyType, AppendProperties
  <2>5. Handle(n) \in Handles BY <2>1, <2>2, <2>3, EmptyType DEF Handles
  <2>6. DOMAIN file' = 1..(Len(file) + 1) /\ DOMAIN file = 1..Len(file) BY <2>3, <2>4
  <2>7. at' \in [Paths -> DOMAIN file' \cup {None}] BY <2>1, <2>3, <2>6 DEF TypeOK
  <2>8. at'[n] = Len(file) + 1 BY <2>1 DEF TypeOK
  <2>9. Handle(n) # None BY <2>5, NotNone, Zenon
  <2>10. Handle(n).path = n /\ Handle(n).writes /\ Handle(n).file = Len(file) + 1 BY <2>2
  <2>11. Len(file') <= MaxFiles BY <2>1, <2>3, <2>4
  <2>12. Len(file) + 1 \in DOMAIN file' /\ DOMAIN file \subseteq DOMAIN file' BY <2>3, <2>6
  <2>13. QED BY <2>1, <2>4, <2>5, <2>7, <2>8, <2>9, <2>10, <2>11, <2>12
<1>3. QED BY <1>1, <1>2

(* Two handles that differ in their databases at most. *)
Same(h, g) ==
  /\ h = None <=> g = None
  /\ h # None => g.path = h.path /\ g.file = h.file /\ g.writes = h.writes

LEMMA TargetType ==
  ASSUME TypeOK, Shape, NEW p \in Processes,
         pc[p] \in {"migrating", "applied", "catching", "working", "built"}
  PROVE  Target(p) \in Handles /\ Target(p).db \in Databases
<1>1. handle[p] # None BY DEF Shape, ShapeOf
<1>2. handle[p] \in Handles /\ (aside[p] # None => aside[p] \in Handles) BY <1>1 DEF TypeOK
<1>3. Target(p) \in Handles BY <1>2 DEF Target
<1>4. QED BY <1>3 DEF Handles

(* A statement changes the database of one handle and one path's log.      *)
LEMMA CommitEffect ==
  ASSUME TypeOK, NEW p \in Processes, Target(p) \in Handles, NEW db \in Databases, Commit(p, db)
  PROVE  /\ wal' = [wal EXCEPT ![Target(p).path] = [of |-> Target(p).file, db |-> db]]
         /\ wal' \in [Paths -> Logs \cup {None}]
         /\ handle' \in [Processes -> Handles \cup {None}]
         /\ aside' \in [Processes -> Handles \cup {None}]
         /\ at' = at /\ file' = file
         /\ \A q \in Processes : Same(handle[q], handle'[q]) /\ Same(aside[q], aside'[q])
         /\ Target(p)' = [Target(p) EXCEPT !.db = db, !.dirty = TRUE]
         /\ \A q \in Processes \ {p} : handle'[q] = handle[q] /\ aside'[q] = aside[q]
         /\ aside[p] # None => handle'[p] = handle[p]
<1> DEFINE h == [Target(p) EXCEPT !.db = db, !.dirty = TRUE]
<1>1. h \in Handles /\ h.path = Target(p).path /\ h.file = Target(p).file /\ h.writes = Target(p).writes
  BY DEF Handles
<1>2. h # None /\ Target(p) # None BY <1>1, NotNone, Zenon
<1>3. wal' = [wal EXCEPT ![h.path] = [of |-> h.file, db |-> db]] /\ at' = at /\ file' = file
  BY DEF Commit
<1>4. [of |-> h.file, db |-> db] \in Logs /\ h.path \in Paths BY <1>1 DEF Logs, Handles
<1>5. wal' \in [Paths -> Logs \cup {None}] BY <1>3, <1>4 DEF TypeOK
<1>6. CASE aside[p] # None
  <2>1. aside' = [aside EXCEPT ![p] = h] /\ handle' = handle BY <1>6 DEF Commit
  <2>2. aside[p] = Target(p) BY <1>6 DEF Target
  <2>3. aside' \in [Processes -> Handles \cup {None}] /\ aside'[p] = h
    BY <1>1, <2>1 DEF TypeOK
  <2>4. Target(p)' = h BY <1>2, <2>3 DEF Target
  <2>5. \A q \in Processes \ {p} : aside'[q] = aside[q] BY <2>1 DEF TypeOK
  <2>6. \A q \in Processes : Same(aside[q], aside'[q])
    BY <1>1, <1>2, <2>2, <2>3, <2>5 DEF Same
  <2>7. QED BY <1>1, <1>3, <1>5, <2>1, <2>3, <2>4, <2>5, <2>6 DEF TypeOK, Same
<1>7. CASE aside[p] = None
  <2>1. handle' = [handle EXCEPT ![p] = h] /\ aside' = aside BY <1>7 DEF Commit
  <2>2. handle[p] = Target(p) BY <1>7 DEF Target
  <2>3. handle' \in [Processes -> Handles \cup {None}] /\ handle'[p] = h
    BY <1>1, <2>1 DEF TypeOK
  <2>4. Target(p)' = h BY <1>7, <2>1, <2>3 DEF Target
  <2>5. \A q \in Processes \ {p} : handle'[q] = handle[q] BY <2>1 DEF TypeOK
  <2>6. \A q \in Processes : Same(handle[q], handle'[q])
    BY <1>1, <1>2, <2>2, <2>3, <2>5 DEF Same
  <2>7. QED BY <1>1, <1>3, <1>5, <1>7, <2>1, <2>3, <2>4, <2>5, <2>6 DEF TypeOK, Same
<1>8. QED BY <1>6, <1>7

LEMMA CheckpointType ==
  ASSUME TypeOK, NEW h \in Handles, h.file \in DOMAIN file, Checkpoint(h)
  PROVE  /\ file' \in Seq(Databases) /\ Len(file') = Len(file) /\ DOMAIN file' = DOMAIN file
         /\ wal' \in [Paths -> Logs \cup {None}]
         /\ at' = at
<1>1. h.db \in Databases /\ h.path \in Paths BY DEF Handles
<1>2. CASE h.dirty
  <2>1. file' = [file EXCEPT ![h.file] = h.db] /\ wal' = [wal EXCEPT ![h.path] = None] /\ at' = at
    BY <1>2 DEF Checkpoint
  <2>2. QED BY <1>1, <2>1, FileUpdate DEF TypeOK
<1>3. CASE ~h.dirty
  BY <1>3 DEF Checkpoint, disk, TypeOK
<1>4. QED BY <1>2, <1>3

LEMMA UnlinkType ==
  ASSUME TypeOK, NEW n \in Paths, Unlink(n)
  PROVE  file' \in Seq(Databases) /\ Len(file') = Len(file) /\ DOMAIN file' = DOMAIN file
<1>1. CASE at[n] = None
  BY <1>1 DEF Unlink, TypeOK
<1>2. CASE at[n] # None
  <2>1. at[n] \in DOMAIN file /\ file' = [file EXCEPT ![at[n]] = Empty] BY <1>2 DEF Unlink, TypeOK
  <2>2. QED BY <2>1, FileUpdate, EmptyType
<1>3. QED BY <1>1, <1>2

(* The three statements on the way to an archive that is up to date. *)
LEMMA ApplyCommits ==
  ASSUME TypeOK, Shape, NEW p \in Processes, ApplyMigration(p)
  PROVE  /\ Target(p) \in Handles
         /\ \E db \in Databases :
              /\ Commit(p, db)
              /\ db = [Target(p).db EXCEPT !.applied = @ \cup {Pending(p)}]
<1>1. Target(p) \in Handles /\ Target(p).db \in Databases BY TargetType DEF ApplyMigration
<1>2. Pending(p) \in 1..Versions BY <1>1 DEF ApplyMigration, Pending, Databases
<1>3. [Target(p).db EXCEPT !.applied = @ \cup {Pending(p)}] \in Databases BY <1>1, <1>2 DEF Databases
<1>4. QED BY <1>1, <1>3 DEF ApplyMigration

LEMMA RecordCommits ==
  ASSUME TypeOK, Shape, Stages, NEW p \in Processes, RecordMigration(p)
  PROVE  /\ Target(p) \in Handles
         /\ \E db \in Databases : Commit(p, db) /\ db = [Target(p).db EXCEPT !.version = @ + 1]
<1>1. Target(p) \in Handles /\ Target(p).db \in Databases BY TargetType DEF RecordMigration
<1>2. Target(p).db.version < Versions BY DEF RecordMigration, Stages, StageOf
<1>3. [Target(p).db EXCEPT !.version = @ + 1] \in Databases BY <1>1, <1>2 DEF Databases
<1>4. QED BY <1>1, <1>3 DEF RecordMigration

LEMMA IndexCommits ==
  ASSUME TypeOK, Shape, NEW p \in Processes, IndexSegment(p)
  PROVE  /\ Target(p) \in Handles
         /\ \E db \in Databases :
              /\ Commit(p, db)
              /\ \E s \in Segments : db = [Target(p).db EXCEPT !.segs = @ \cup {s}]
<1>1. PICK s \in Segments \ Target(p).db.segs : Commit(p, [Target(p).db EXCEPT !.segs = @ \cup {s}])
  BY DEF IndexSegment
<1>2. Target(p) \in Handles /\ Target(p).db \in Databases BY TargetType DEF IndexSegment
<1>3. s \in 1..MaxSegments BY <1>1 DEF Segments, TypeOK
<1>4. [Target(p).db EXCEPT !.segs = @ \cup {s}] \in Databases BY <1>2, <1>3 DEF Databases
<1>5. QED BY <1>1, <1>2, <1>4

(* An attempt takes note of its outcome, and of the notes there are.       *)
LEMMA AttemptEffect ==
  ASSUME TypeOK, NEW p \in Processes, Attempt(p)
  PROVE  \E ok \in BOOLEAN :
           /\ log' \in log..MaxSegments
           /\ attempts' = Append(attempts, ok)
           /\ attempts' \in Seq(BOOLEAN) /\ Len(attempts') <= MaxAttempts
           /\ note' \in [Processes -> Notes \cup {None}]
           /\ note'[p] = [ok |-> ok, time |-> Len(attempts) + 1, read |-> None,
                          alone |-> ~\E q \in Processes : note[q] # None]
           /\ note'[p] # None
           /\ \A q \in Processes \ {p} :
                /\ note'[q] # None <=> note[q] # None
                /\ note'[q] # None => ~note'[q].alone
<1> DEFINE mine(ok) == [ok |-> ok, time |-> Len(attempts) + 1, read |-> None,
                        alone |-> ~\E q \in Processes : note[q] # None]
<1>1. PICK ok \in BOOLEAN :
        /\ log' \in log..MaxSegments
        /\ attempts' = Append(attempts, ok)
        /\ note' = [q \in Processes |->
              CASE q = p -> mine(ok)
                [] q # p /\ note[q] # None -> [note[q] EXCEPT !.alone = FALSE]
                [] OTHER -> None]
  BY DEF Attempt
<1>2. attempts \in Seq(BOOLEAN) /\ Len(attempts) \in Nat /\ Len(attempts) < MaxAttempts
  BY DEF Attempt, TypeOK
<1>3. attempts' \in Seq(BOOLEAN) /\ Len(attempts') <= MaxAttempts
  BY <1>1, <1>2, AppendProperties
<1>4. mine(ok) \in Notes BY <1>2 DEF Notes
<1>5. \A q \in Processes : note[q] # None => /\ [note[q] EXCEPT !.alone = FALSE] \in Notes
                                           /\ [note[q] EXCEPT !.alone = FALSE].alone = FALSE
  BY DEF TypeOK, Notes
<1>6. note'[p] = mine(ok) BY <1>1
<1>7. mine(ok) # None BY <1>4, NotNone, Zenon
<1>8. \A q \in Processes \ {p} :
        IF note[q] # None THEN note'[q] = [note[q] EXCEPT !.alone = FALSE] ELSE note'[q] = None
  BY <1>1
<1> HIDE DEF mine
<1>9. \A q \in Processes \ {p} : note[q] # None => note'[q] \in Notes /\ note'[q].alone = FALSE
  BY <1>5, <1>8
<1>10. \A q \in Processes \ {p} : /\ note'[q] # None <=> note[q] # None
                                  /\ note'[q] # None => ~note'[q].alone
  BY <1>8, <1>9, NotNone
<1>11. note' \in [Processes -> Notes \cup {None}]
  <2>1. \A q \in Processes : note'[q] \in Notes \cup {None} BY <1>4, <1>6, <1>8, <1>9
  <2>2. note' = [q \in Processes |-> note'[q]] BY <1>1
  <2>3. QED BY <2>1, <2>2
<1>12. QED BY <1>1, <1>3, <1>6, <1>7, <1>10, <1>11 DEF mine

(* Reading sync-state.json. *)
LEMMA LoadEffect ==
  ASSUME TypeOK, NEW p \in Processes, note[p] # None, LoadStatus(p)
  PROVE  /\ note' \in [Processes -> Notes \cup {None}]
         /\ note'[p] # None
         /\ note'[p].ok = note[p].ok /\ note'[p].time = note[p].time
         /\ note'[p].alone = note[p].alone
         /\ unsure' \in BOOLEAN
         /\ ~unsure' => ~unsure /\ note'[p].read = status
         /\ \A q \in Processes \ {p} : note'[q] = note[q]
<1>1. note[p] \in Notes BY DEF TypeOK
<1>2. PICK read \in {status, NoStatus} :
        /\ note' = [note EXCEPT ![p] = [note[p] EXCEPT !.read = read]]
        /\ unsure' = (unsure \/ read # status)
  BY DEF LoadStatus
<1>3. read \in Statuses BY DEF NoStatus, Statuses, TypeOK
<1> DEFINE n == [note[p] EXCEPT !.read = read]
<1>4. /\ n \in Notes /\ n.ok = note[p].ok /\ n.time = note[p].time
      /\ n.alone = note[p].alone /\ n.read = read
  BY <1>1, <1>3 DEF Notes
<1> HIDE DEF n
<1>5. n # None BY <1>4, NotNone, Zenon
<1>6. note' = [note EXCEPT ![p] = n] BY <1>2 DEF n
<1>7. note \in [Processes -> Notes \cup {None}] BY DEF TypeOK
<1>8. /\ note' \in [Processes -> Notes \cup {None}] /\ note'[p] = n
      /\ \A q \in Processes \ {p} : note'[q] = note[q]
  BY <1>4, <1>6, <1>7
<1>9. unsure' \in BOOLEAN /\ (~unsure' => ~unsure /\ read = status)
  BY <1>2 DEF TypeOK
<1>10. QED BY <1>4, <1>5, <1>8, <1>9

(* Merging the old archive's write-ahead log.                              *)
LEMMA MergeOldEffect ==
  ASSUME TypeOK, NEW p \in Processes, handle[p] # None, CheckpointOld(p)
  PROVE  /\ handle' = [handle EXCEPT ![p] = [handle[p] EXCEPT !.dirty = FALSE]]
         /\ handle' \in [Processes -> Handles \cup {None}]
         /\ Same(handle[p], handle'[p]) /\ handle'[p].db = handle[p].db
         /\ \A q \in Processes \ {p} : handle'[q] = handle[q]
<1>1. handle[p] \in Handles BY DEF TypeOK
<1>2. [handle[p] EXCEPT !.dirty = FALSE] \in Handles BY <1>1 DEF Handles
<1>3. [handle[p] EXCEPT !.dirty = FALSE] # None BY <1>2, NotNone, Zenon
<1>4. handle' = [handle EXCEPT ![p] = [handle[p] EXCEPT !.dirty = FALSE]] BY DEF CheckpointOld
<1>5. Same(handle[p], [handle[p] EXCEPT !.dirty = FALSE]) /\ [handle[p] EXCEPT !.dirty = FALSE].db = handle[p].db
  BY <1>1, <1>3 DEF Handles, Same
<1>6. QED BY <1>2, <1>4, <1>5 DEF TypeOK

(* What a reader gets. *)
LEMMA ReaderEffect ==
  ASSUME TypeOK, NEW p \in Processes, OpenReadOnly(p)
  PROVE  /\ handle' = [handle EXCEPT ![p] = [Handle("archive") EXCEPT !.writes = FALSE]]
         /\ handle' \in [Processes -> Handles \cup {None}]
         /\ handle'[p] # None
         /\ handle'[p].path = "archive" /\ handle'[p].file = at["archive"]
         /\ handle'[p].db = Stored("archive")
         /\ at["archive"] \in DOMAIN file
<1>1. "archive" \in Paths /\ at["archive"] # None BY DEF OpenReadOnly, Paths
<1>2. at["archive"] \in DOMAIN file BY <1>1 DEF TypeOK
<1>3. /\ Handle("archive") \in Handles /\ Handle("archive").path = "archive"
      /\ Handle("archive").file = at["archive"] /\ Handle("archive").db = Stored("archive")
  BY <1>1, HandleType
<1> DEFINE h == [Handle("archive") EXCEPT !.writes = FALSE]
<1>4. h \in Handles /\ h.path = "archive" /\ h.file = at["archive"] /\ h.db = Stored("archive")
  BY <1>3 DEF Handles
<1>5. h # None BY <1>4, NotNone, Zenon
<1>6. handle' = [handle EXCEPT ![p] = h] BY DEF OpenReadOnly
<1> HIDE DEF h
<1>7. handle' \in [Processes -> Handles \cup {None}] /\ handle'[p] = h BY <1>4, <1>6 DEF TypeOK
<1>8. QED BY <1>2, <1>4, <1>5, <1>6, <1>7 DEF h

LEMMA TypeStep == TypeOK /\ Shape /\ Stages /\ [Next]_vars => TypeOK'
<1> SUFFICES ASSUME TypeOK, Shape, Stages, [Next]_vars PROVE TypeOK'
  OBVIOUS
<1> USE DEF Go, syncs, Places
<1>1. ASSUME NEW p \in Processes, OpenStore(p) PROVE TypeOK'
  <2>1. OpenPath("archive") /\ "archive" \in Paths BY <1>1 DEF OpenStore, Paths
  <2>2. QED BY <1>1, <2>1, OpenType DEF OpenStore, TypeOK
<1>2. ASSUME NEW p \in Processes, ApplyMigration(p) PROVE TypeOK'
  BY <1>2, ApplyCommits, CommitEffect DEF ApplyMigration, TypeOK
<1>3. ASSUME NEW p \in Processes, RecordMigration(p) PROVE TypeOK'
  BY <1>3, RecordCommits, CommitEffect DEF RecordMigration, TypeOK
<1>4. ASSUME NEW p \in Processes, Migrated(p) PROVE TypeOK'
  BY <1>4 DEF Migrated, disk, TypeOK
<1>5. ASSUME NEW p \in Processes, IndexSegment(p) PROVE TypeOK'
  BY <1>5, IndexCommits, CommitEffect DEF IndexSegment, TypeOK
<1>6. ASSUME NEW p \in Processes, CaughtUp(p) PROVE TypeOK'
  BY <1>6 DEF CaughtUp, disk, TypeOK
<1>7. ASSUME NEW p \in Processes, AppendLog(p) PROVE TypeOK'
  BY <1>7 DEF AppendLog, disk, TypeOK
<1>8. ASSUME NEW p \in Processes, Close(p) PROVE TypeOK'
  <2>1. handle[p] \in Handles /\ handle[p].file \in DOMAIN file /\ Checkpoint(handle[p])
    BY <1>8 DEF Close, TypeOK, Shape, ShapeOf
  <2>2. handle[p].db.segs \subseteq 1..MaxSegments BY <2>1 DEF Handles, Databases
  <2>3. QED BY <1>8, <2>1, <2>2, CheckpointType DEF Close, TypeOK
<1>9. ASSUME NEW p \in Processes, Attempt(p) PROVE TypeOK'
  <2>1. /\ log' \in log..MaxSegments
        /\ attempts' \in Seq(BOOLEAN) /\ Len(attempts') <= MaxAttempts
        /\ note' \in [Processes -> Notes \cup {None}]
    BY <1>9, AttemptEffect
  <2>2. log' \in 0..MaxSegments BY <2>1 DEF TypeOK
  <2>3. QED BY <1>9, <2>1, <2>2 DEF Attempt, TypeOK, disk
<1>10. ASSUME NEW p \in Processes, CutShort(p) PROVE TypeOK'
  BY <1>10 DEF CutShort, disk, TypeOK
<1>11. ASSUME NEW p \in Processes, LoadStatus(p) PROVE TypeOK'
  <2>1. note[p] # None BY <1>11 DEF LoadStatus, Shape, ShapeOf
  <2>2. QED BY <1>11, <2>1, LoadEffect DEF LoadStatus, disk, TypeOK
<1>12. ASSUME NEW p \in Processes, SaveStatus(p) PROVE TypeOK'
  <2>1. note[p] \in Notes /\ note[p].read \in Statuses BY <1>12 DEF SaveStatus, TypeOK, Shape, ShapeOf, Notes
  <2>2. After(note[p]) \in Statuses BY <2>1 DEF After, Notes, Statuses
  <2>3. unsure' \in BOOLEAN BY <1>12, Zenon DEF SaveStatus
  <2>4. status' \in Statuses BY <1>12, <2>2 DEF SaveStatus, TypeOK
  <2>5. QED BY <1>12, <2>3, <2>4 DEF SaveStatus, disk, TypeOK
<1>13. ASSUME NEW p \in Processes, OpenForReplace(p) PROVE TypeOK'
  <2>1. OpenPath("archive") /\ "archive" \in Paths BY <1>13 DEF OpenForReplace, Paths
  <2>2. QED BY <1>13, <2>1, OpenType DEF OpenForReplace, TypeOK
<1>14. ASSUME NEW p \in Processes, RemoveOldBuild(p) PROVE TypeOK'
  <2>1. Unlink("rebuild") /\ "rebuild" \in Paths BY <1>14 DEF RemoveOldBuild, Paths
  <2>2. QED BY <1>14, <2>1, UnlinkType DEF RemoveOldBuild, TypeOK
<1>15. ASSUME NEW p \in Processes, RemoveOldLog(p) PROVE TypeOK'
  BY <1>15 DEF RemoveOldLog, TypeOK
<1>16. ASSUME NEW p \in Processes, OpenBuild(p) PROVE TypeOK'
  <2>1. OpenPath("rebuild") /\ "rebuild" \in Paths BY <1>16 DEF OpenBuild, Paths
  <2>2. QED BY <1>16, <2>1, OpenType DEF OpenBuild, TypeOK
<1>17. ASSUME NEW p \in Processes, CloseBuild(p) PROVE TypeOK'
  <2>1. aside[p] \in Handles /\ aside[p].file \in DOMAIN file /\ Checkpoint(aside[p])
    BY <1>17 DEF CloseBuild, TypeOK, Shape, ShapeOf
  <2>2. QED BY <1>17, <2>1, CheckpointType DEF CloseBuild, TypeOK
<1>18. ASSUME NEW p \in Processes, CheckpointOld(p) PROVE TypeOK'
  <2>1. handle[p] \in Handles /\ handle[p].file \in DOMAIN file /\ handle[p] # None
    BY <1>18 DEF CheckpointOld, TypeOK, Shape, ShapeOf
  <2>2. QED BY <1>18, <2>1, CheckpointType, MergeOldEffect DEF CheckpointOld, TypeOK
<1>19. ASSUME NEW p \in Processes, Rename(p) PROVE TypeOK'
  <2>1. Unlink("archive") /\ "archive" \in Paths /\ "rebuild" \in Paths BY <1>19 DEF Rename, Paths
  <2>2. QED BY <1>19, <2>1, UnlinkType DEF Rename, TypeOK
<1>20. ASSUME NEW p \in Processes, CloseOld(p) PROVE TypeOK'
  <2>1. handle[p] \in Handles /\ handle[p].file \in DOMAIN file /\ Checkpoint(handle[p])
    BY <1>20 DEF CloseOld, TypeOK, Shape, ShapeOf
  <2>2. QED BY <1>20, <2>1, CheckpointType DEF CloseOld, TypeOK
<1>21. ASSUME NEW p \in Processes, FailRebuild(p) PROVE TypeOK'
  <2>1. /\ pc' \in [Processes -> Places]
        /\ handle' \in [Processes -> Handles \cup {None}]
        /\ aside' \in [Processes -> Handles \cup {None}]
    BY <1>21 DEF FailRebuild, TypeOK
  <2>2. \/ aside[p] # None /\ Checkpoint(aside[p])
        \/ UNCHANGED disk
        \/ pc[p] = "failed" /\ Checkpoint(handle[p])
    BY <1>21 DEF FailRebuild
  <2>3. /\ file' \in Seq(Databases) /\ Len(file') = Len(file) /\ DOMAIN file' = DOMAIN file
        /\ wal' \in [Paths -> Logs \cup {None}]
        /\ at' = at
    <3>1. aside[p] # None => aside[p] \in Handles /\ aside[p].file \in DOMAIN file
      BY DEF TypeOK, Shape, ShapeOf
    <3>2. pc[p] = "failed" => handle[p] \in Handles /\ handle[p].file \in DOMAIN file
      BY DEF TypeOK, Shape, ShapeOf
    <3>3. CASE UNCHANGED disk BY <3>3 DEF disk, TypeOK
    <3>4. QED BY <2>2, <3>1, <3>2, <3>3, CheckpointType
  <2>4. QED BY <1>21, <2>1, <2>3 DEF FailRebuild, TypeOK
<1>22. ASSUME NEW p \in Processes, OpenReadOnly(p) PROVE TypeOK'
  BY <1>22, ReaderEffect DEF OpenReadOnly, disk, TypeOK
<1>23. ASSUME NEW p \in Processes, CloseReader(p) PROVE TypeOK'
  BY <1>23 DEF CloseReader, disk, TypeOK
<1>24. ASSUME NEW p \in Processes, Crash(p) PROVE TypeOK'
  BY <1>24 DEF Crash, disk, TypeOK
<1>25. CASE UNCHANGED vars
  BY <1>25 DEF vars, TypeOK
<1>26. QED
  BY <1>1, <1>2, <1>3, <1>4, <1>5, <1>6, <1>7, <1>8, <1>9, <1>10, <1>11, <1>12, <1>13, <1>14,
     <1>15, <1>16, <1>17, <1>18, <1>19, <1>20, <1>21, <1>22, <1>23, <1>24, <1>25 DEF Next

(* A process whose own state keeps its shape does, while files are made.   *)
LEMMA ShapeKept ==
  ASSUME Shape, NEW q \in Processes, DOMAIN file \subseteq DOMAIN file',
         pc'[q] = pc[q], Same(handle[q], handle'[q]), Same(aside[q], aside'[q]),
         note'[q] # None <=> note[q] # None
  PROVE  ShapeOf(q)'
BY DEF Shape, ShapeOf, Same

(* Every step keeps the shapes. *)
LEMMA ShapeStep == TypeOK /\ Shape /\ Stages /\ [Next]_vars => Shape'
<1> SUFFICES ASSUME TypeOK, Shape, Stages, [Next]_vars PROVE Shape'
  OBVIOUS
<1> USE DEF Go, syncs
<1>0. /\ pc \in [Processes -> Places] /\ handle \in [Processes -> Handles \cup {None}]
      /\ aside \in [Processes -> Handles \cup {None}] /\ note \in [Processes -> Notes \cup {None}]
  BY DEF TypeOK
<1>1. ASSUME NEW p \in Processes, OpenStore(p) PROVE Shape'
  <2>1. DOMAIN file \subseteq DOMAIN file'
    BY <1>1, OpenType DEF OpenStore, Paths
  <2>2. \A q \in Processes \ {p} : /\ pc'[q] = pc[q] /\ (note'[q] # None <=> note[q] # None)
                                   /\ Same(handle[q], handle'[q]) /\ Same(aside[q], aside'[q])
    BY <1>0, <1>1 DEF OpenStore, Same
  <2>3. ShapeOf(p)'
    BY <1>0, <2>1, <1>1, OpenType DEF OpenStore, Shape, ShapeOf, Paths
  <2>4. QED BY <2>1, <2>2, <2>3, ShapeKept DEF Shape
<1>2. ASSUME NEW p \in Processes, ApplyMigration(p) PROVE Shape'
  <2>1. DOMAIN file \subseteq DOMAIN file'
    BY <1>2, ApplyCommits, CommitEffect
  <2>2. \A q \in Processes \ {p} : /\ pc'[q] = pc[q] /\ (note'[q] # None <=> note[q] # None)
                                   /\ Same(handle[q], handle'[q]) /\ Same(aside[q], aside'[q])
    BY <1>0, <1>2, ApplyCommits, CommitEffect DEF ApplyMigration
  <2>3. ShapeOf(p)'
    BY <1>0, <2>1, <1>2, ApplyCommits, CommitEffect DEF ApplyMigration, Shape, ShapeOf, Same
  <2>4. QED BY <2>1, <2>2, <2>3, ShapeKept DEF Shape
<1>3. ASSUME NEW p \in Processes, RecordMigration(p) PROVE Shape'
  <2>1. DOMAIN file \subseteq DOMAIN file'
    BY <1>3, RecordCommits, CommitEffect
  <2>2. \A q \in Processes \ {p} : /\ pc'[q] = pc[q] /\ (note'[q] # None <=> note[q] # None)
                                   /\ Same(handle[q], handle'[q]) /\ Same(aside[q], aside'[q])
    BY <1>0, <1>3, RecordCommits, CommitEffect DEF RecordMigration
  <2>3. ShapeOf(p)'
    BY <1>0, <2>1, <1>3, RecordCommits, CommitEffect DEF RecordMigration, Shape, ShapeOf, Same
  <2>4. QED BY <2>1, <2>2, <2>3, ShapeKept DEF Shape
<1>4. ASSUME NEW p \in Processes, Migrated(p) PROVE Shape'
  <2>1. DOMAIN file \subseteq DOMAIN file'
    BY <1>4 DEF Migrated, disk
  <2>2. \A q \in Processes \ {p} : /\ pc'[q] = pc[q] /\ (note'[q] # None <=> note[q] # None)
                                   /\ Same(handle[q], handle'[q]) /\ Same(aside[q], aside'[q])
    BY <1>0, <1>4 DEF Migrated, Same
  <2>3. ShapeOf(p)'
    BY <1>0, <2>1, <1>4 DEF Migrated, Shape, ShapeOf
  <2>4. QED BY <2>1, <2>2, <2>3, ShapeKept DEF Shape
<1>5. ASSUME NEW p \in Processes, IndexSegment(p) PROVE Shape'
  <2>1. DOMAIN file \subseteq DOMAIN file'
    BY <1>5, IndexCommits, CommitEffect
  <2>2. \A q \in Processes \ {p} : /\ pc'[q] = pc[q] /\ (note'[q] # None <=> note[q] # None)
                                   /\ Same(handle[q], handle'[q]) /\ Same(aside[q], aside'[q])
    BY <1>0, <1>5, IndexCommits, CommitEffect DEF IndexSegment
  <2>3. ShapeOf(p)'
    BY <1>0, <2>1, <1>5, IndexCommits, CommitEffect DEF IndexSegment, Shape, ShapeOf, Same
  <2>4. QED BY <2>1, <2>2, <2>3, ShapeKept DEF Shape
<1>6. ASSUME NEW p \in Processes, CaughtUp(p) PROVE Shape'
  <2>1. DOMAIN file \subseteq DOMAIN file'
    BY <1>6 DEF CaughtUp, disk
  <2>2. \A q \in Processes \ {p} : /\ pc'[q] = pc[q] /\ (note'[q] # None <=> note[q] # None)
                                   /\ Same(handle[q], handle'[q]) /\ Same(aside[q], aside'[q])
    BY <1>0, <1>6 DEF CaughtUp, Same
  <2>3. ShapeOf(p)'
    BY <1>0, <2>1, <1>6 DEF CaughtUp, Shape, ShapeOf
  <2>4. QED BY <2>1, <2>2, <2>3, ShapeKept DEF Shape
<1>7. ASSUME NEW p \in Processes, AppendLog(p) PROVE Shape'
  <2>1. DOMAIN file \subseteq DOMAIN file'
    BY <1>7 DEF AppendLog, disk
  <2>2. \A q \in Processes \ {p} : /\ pc'[q] = pc[q] /\ (note'[q] # None <=> note[q] # None)
                                   /\ Same(handle[q], handle'[q]) /\ Same(aside[q], aside'[q])
    BY <1>0, <1>7 DEF AppendLog, Same
  <2>3. ShapeOf(p)'
    BY <1>0, <2>1, <1>7 DEF AppendLog, Shape, ShapeOf
  <2>4. QED BY <2>1, <2>2, <2>3, ShapeKept DEF Shape
<1>8. ASSUME NEW p \in Processes, Close(p) PROVE Shape'
  <2>1. DOMAIN file \subseteq DOMAIN file'
    BY <1>8, CheckpointType DEF Close, TypeOK, Shape, ShapeOf
  <2>2. \A q \in Processes \ {p} : /\ pc'[q] = pc[q] /\ (note'[q] # None <=> note[q] # None)
                                   /\ Same(handle[q], handle'[q]) /\ Same(aside[q], aside'[q])
    BY <1>0, <1>8 DEF Close, Same
  <2>3. ShapeOf(p)'
    BY <1>0, <2>1, <1>8 DEF Close, Shape, ShapeOf
  <2>4. QED BY <2>1, <2>2, <2>3, ShapeKept DEF Shape
<1>9. ASSUME NEW p \in Processes, Attempt(p) PROVE Shape'
  <2>1. DOMAIN file \subseteq DOMAIN file'
    BY <1>9 DEF Attempt, disk
  <2>2. \A q \in Processes \ {p} : /\ pc'[q] = pc[q] /\ (note'[q] # None <=> note[q] # None)
                                   /\ Same(handle[q], handle'[q]) /\ Same(aside[q], aside'[q])
    BY <1>0, <1>9, AttemptEffect DEF Attempt, Same
  <2>3. ShapeOf(p)'
    BY <1>0, <2>1, <1>9, AttemptEffect DEF Attempt, Shape, ShapeOf
  <2>4. QED BY <2>1, <2>2, <2>3, ShapeKept DEF Shape
<1>10. ASSUME NEW p \in Processes, CutShort(p) PROVE Shape'
  <2>1. DOMAIN file \subseteq DOMAIN file'
    BY <1>10 DEF CutShort, disk
  <2>2. \A q \in Processes \ {p} : /\ pc'[q] = pc[q] /\ (note'[q] # None <=> note[q] # None)
                                   /\ Same(handle[q], handle'[q]) /\ Same(aside[q], aside'[q])
    BY <1>0, <1>10 DEF CutShort, Same
  <2>3. ShapeOf(p)'
    BY <1>0, <2>1, <1>10 DEF CutShort, Shape, ShapeOf
  <2>4. QED BY <2>1, <2>2, <2>3, ShapeKept DEF Shape
<1>11. ASSUME NEW p \in Processes, LoadStatus(p) PROVE Shape'
  <2>1. DOMAIN file \subseteq DOMAIN file'
    BY <1>11 DEF LoadStatus, disk
  <2>2. \A q \in Processes \ {p} : /\ pc'[q] = pc[q] /\ (note'[q] # None <=> note[q] # None)
                                   /\ Same(handle[q], handle'[q]) /\ Same(aside[q], aside'[q])
    BY <1>0, <1>11 DEF LoadStatus, Same
  <2>3. ShapeOf(p)'
    BY <1>0, <2>1, <1>11, LoadEffect DEF LoadStatus, Shape, ShapeOf
  <2>4. QED BY <2>1, <2>2, <2>3, ShapeKept DEF Shape
<1>12. ASSUME NEW p \in Processes, SaveStatus(p) PROVE Shape'
  <2>1. DOMAIN file \subseteq DOMAIN file'
    BY <1>12 DEF SaveStatus, disk
  <2>2. \A q \in Processes \ {p} : /\ pc'[q] = pc[q] /\ (note'[q] # None <=> note[q] # None)
                                   /\ Same(handle[q], handle'[q]) /\ Same(aside[q], aside'[q])
    BY <1>0, <1>12 DEF SaveStatus, Same
  <2>3. ShapeOf(p)'
    BY <1>0, <2>1, <1>12 DEF SaveStatus, Shape, ShapeOf
  <2>4. QED BY <2>1, <2>2, <2>3, ShapeKept DEF Shape
<1>13. ASSUME NEW p \in Processes, OpenForReplace(p) PROVE Shape'
  <2>1. DOMAIN file \subseteq DOMAIN file'
    BY <1>13, OpenType DEF OpenForReplace, Paths
  <2>2. \A q \in Processes \ {p} : /\ pc'[q] = pc[q] /\ (note'[q] # None <=> note[q] # None)
                                   /\ Same(handle[q], handle'[q]) /\ Same(aside[q], aside'[q])
    BY <1>0, <1>13 DEF OpenForReplace, Same
  <2>3. ShapeOf(p)'
    BY <1>0, <2>1, <1>13, OpenType DEF OpenForReplace, Shape, ShapeOf, Paths
  <2>4. QED BY <2>1, <2>2, <2>3, ShapeKept DEF Shape
<1>14. ASSUME NEW p \in Processes, RemoveOldBuild(p) PROVE Shape'
  <2>1. DOMAIN file \subseteq DOMAIN file'
    BY <1>14, UnlinkType DEF RemoveOldBuild, Paths
  <2>2. \A q \in Processes \ {p} : /\ pc'[q] = pc[q] /\ (note'[q] # None <=> note[q] # None)
                                   /\ Same(handle[q], handle'[q]) /\ Same(aside[q], aside'[q])
    BY <1>0, <1>14 DEF RemoveOldBuild, Same
  <2>3. ShapeOf(p)'
    BY <1>0, <2>1, <1>14 DEF RemoveOldBuild, Shape, ShapeOf
  <2>4. QED BY <2>1, <2>2, <2>3, ShapeKept DEF Shape
<1>15. ASSUME NEW p \in Processes, RemoveOldLog(p) PROVE Shape'
  <2>1. DOMAIN file \subseteq DOMAIN file'
    BY <1>15 DEF RemoveOldLog, disk
  <2>2. \A q \in Processes \ {p} : /\ pc'[q] = pc[q] /\ (note'[q] # None <=> note[q] # None)
                                   /\ Same(handle[q], handle'[q]) /\ Same(aside[q], aside'[q])
    BY <1>0, <1>15 DEF RemoveOldLog, Same
  <2>3. ShapeOf(p)'
    BY <1>0, <2>1, <1>15 DEF RemoveOldLog, Shape, ShapeOf
  <2>4. QED BY <2>1, <2>2, <2>3, ShapeKept DEF Shape
<1>16. ASSUME NEW p \in Processes, OpenBuild(p) PROVE Shape'
  <2>1. DOMAIN file \subseteq DOMAIN file'
    BY <1>16, OpenType DEF OpenBuild, Paths
  <2>2. \A q \in Processes \ {p} : /\ pc'[q] = pc[q] /\ (note'[q] # None <=> note[q] # None)
                                   /\ Same(handle[q], handle'[q]) /\ Same(aside[q], aside'[q])
    BY <1>0, <1>16 DEF OpenBuild, Same
  <2>3. ShapeOf(p)'
    BY <1>0, <2>1, <1>16, OpenType DEF OpenBuild, Shape, ShapeOf, Paths
  <2>4. QED BY <2>1, <2>2, <2>3, ShapeKept DEF Shape
<1>17. ASSUME NEW p \in Processes, CloseBuild(p) PROVE Shape'
  <2>1. DOMAIN file \subseteq DOMAIN file'
    BY <1>17, CheckpointType DEF CloseBuild, TypeOK, Shape, ShapeOf
  <2>2. \A q \in Processes \ {p} : /\ pc'[q] = pc[q] /\ (note'[q] # None <=> note[q] # None)
                                   /\ Same(handle[q], handle'[q]) /\ Same(aside[q], aside'[q])
    BY <1>0, <1>17 DEF CloseBuild, Same
  <2>3. ShapeOf(p)'
    BY <1>0, <2>1, <1>17 DEF CloseBuild, Shape, ShapeOf
  <2>4. QED BY <2>1, <2>2, <2>3, ShapeKept DEF Shape
<1>18. ASSUME NEW p \in Processes, CheckpointOld(p) PROVE Shape'
  <2>1. DOMAIN file \subseteq DOMAIN file'
    BY <1>18, CheckpointType DEF CheckpointOld, TypeOK, Shape, ShapeOf
  <2>2. \A q \in Processes \ {p} : /\ pc'[q] = pc[q] /\ (note'[q] # None <=> note[q] # None)
                                   /\ Same(handle[q], handle'[q]) /\ Same(aside[q], aside'[q])
    BY <1>0, <1>18 DEF CheckpointOld, Same
  <2>3. ShapeOf(p)'
    BY <1>0, <2>1, <1>18, MergeOldEffect DEF CheckpointOld, Shape, ShapeOf, Same
  <2>4. QED BY <2>1, <2>2, <2>3, ShapeKept DEF Shape
<1>19. ASSUME NEW p \in Processes, Rename(p) PROVE Shape'
  <2>1. DOMAIN file \subseteq DOMAIN file'
    BY <1>19, UnlinkType DEF Rename, Paths
  <2>2. \A q \in Processes \ {p} : /\ pc'[q] = pc[q] /\ (note'[q] # None <=> note[q] # None)
                                   /\ Same(handle[q], handle'[q]) /\ Same(aside[q], aside'[q])
    BY <1>0, <1>19 DEF Rename, Same
  <2>3. ShapeOf(p)'
    BY <1>0, <2>1, <1>19 DEF Rename, Shape, ShapeOf
  <2>4. QED BY <2>1, <2>2, <2>3, ShapeKept DEF Shape
<1>20. ASSUME NEW p \in Processes, CloseOld(p) PROVE Shape'
  <2>1. DOMAIN file \subseteq DOMAIN file'
    BY <1>20, CheckpointType DEF CloseOld, TypeOK, Shape, ShapeOf
  <2>2. \A q \in Processes \ {p} : /\ pc'[q] = pc[q] /\ (note'[q] # None <=> note[q] # None)
                                   /\ Same(handle[q], handle'[q]) /\ Same(aside[q], aside'[q])
    BY <1>0, <1>20 DEF CloseOld, Same
  <2>3. ShapeOf(p)'
    BY <1>0, <2>1, <1>20 DEF CloseOld, Shape, ShapeOf
  <2>4. QED BY <2>1, <2>2, <2>3, ShapeKept DEF Shape
<1>21. ASSUME NEW p \in Processes, FailRebuild(p) PROVE Shape'
  <2>1. DOMAIN file \subseteq DOMAIN file'
    BY <1>21, CheckpointType DEF FailRebuild, TypeOK, Shape, ShapeOf, disk
  <2>2. \A q \in Processes \ {p} : /\ pc'[q] = pc[q] /\ (note'[q] # None <=> note[q] # None)
                                   /\ Same(handle[q], handle'[q]) /\ Same(aside[q], aside'[q])
    BY <1>0, <1>21 DEF FailRebuild, Same
  <2>3. ShapeOf(p)'
    BY <1>0, <2>1, <1>21 DEF FailRebuild, Shape, ShapeOf
  <2>4. QED BY <2>1, <2>2, <2>3, ShapeKept DEF Shape
<1>22. ASSUME NEW p \in Processes, OpenReadOnly(p) PROVE Shape'
  <2>1. DOMAIN file \subseteq DOMAIN file'
    BY <1>22 DEF OpenReadOnly, disk
  <2>2. \A q \in Processes \ {p} : /\ pc'[q] = pc[q] /\ (note'[q] # None <=> note[q] # None)
                                   /\ Same(handle[q], handle'[q]) /\ Same(aside[q], aside'[q])
    BY <1>0, <1>22 DEF OpenReadOnly, Same
  <2>3. ShapeOf(p)'
    BY <1>0, <2>1, <1>22, ReaderEffect DEF OpenReadOnly, Shape, ShapeOf
  <2>4. QED BY <2>1, <2>2, <2>3, ShapeKept DEF Shape
<1>23. ASSUME NEW p \in Processes, CloseReader(p) PROVE Shape'
  <2>1. DOMAIN file \subseteq DOMAIN file'
    BY <1>23 DEF CloseReader, disk
  <2>2. \A q \in Processes \ {p} : /\ pc'[q] = pc[q] /\ (note'[q] # None <=> note[q] # None)
                                   /\ Same(handle[q], handle'[q]) /\ Same(aside[q], aside'[q])
    BY <1>0, <1>23 DEF CloseReader, Same
  <2>3. ShapeOf(p)'
    BY <1>0, <2>1, <1>23 DEF CloseReader, Shape, ShapeOf
  <2>4. QED BY <2>1, <2>2, <2>3, ShapeKept DEF Shape
<1>24. ASSUME NEW p \in Processes, Crash(p) PROVE Shape'
  <2>1. DOMAIN file \subseteq DOMAIN file'
    BY <1>24 DEF Crash, disk
  <2>2. \A q \in Processes \ {p} : /\ pc'[q] = pc[q] /\ (note'[q] # None <=> note[q] # None)
                                   /\ Same(handle[q], handle'[q]) /\ Same(aside[q], aside'[q])
    BY <1>0, <1>24 DEF Crash, Same
  <2>3. ShapeOf(p)'
    BY <1>0, <2>1, <1>24 DEF Crash, Shape, ShapeOf
  <2>4. QED BY <2>1, <2>2, <2>3, ShapeKept DEF Shape
<1>25. CASE UNCHANGED vars
  BY <1>25 DEF vars, Shape, ShapeOf
<1>26. QED
  BY <1>1, <1>2, <1>3, <1>4, <1>5, <1>6, <1>7, <1>8, <1>9, <1>10, <1>11, <1>12, <1>13,
     <1>14, <1>15, <1>16, <1>17, <1>18, <1>19, <1>20, <1>21, <1>22, <1>23, <1>24, <1>25 DEF Next

-----------------------------------------------------------------------------
(* Locks. *)

(* The file that is opened is open nowhere else, and is not the other      *)
(* path's.                                                                 *)
LEMMA OpenFresh ==
  ASSUME TypeOK, Shape, Apart, NEW n \in Paths, OpenPath(n)
  PROVE  /\ \A q \in Processes : /\ handle[q] # None => handle[q].file # at'[n]
                                 /\ aside[q] # None => aside[q].file # at'[n]
         /\ at'[n] # None
         /\ \A m \in Paths \ {n} : at'[m] = at[m]
         /\ at[n] # None => at' = at
         /\ Apart'
<1>1. CASE at[n] # None
  <2>1. at' = at /\ Free(at[n]) BY <1>1 DEF OpenPath, disk
  <2>2. QED BY <1>1, <2>1 DEF Free, Opened, Apart
<1>2. CASE at[n] = None
  <2>1. at' = [at EXCEPT ![n] = Len(file) + 1] BY <1>2 DEF OpenPath
  <2>2. Len(file) \in Nat /\ DOMAIN file = 1..Len(file) BY DEF TypeOK
  <2>3. at'[n] = Len(file) + 1 /\ Len(file) + 1 \notin DOMAIN file
    BY <2>1, <2>2 DEF TypeOK
  <2>4. at'[n] # None
    <3>1. Len(file) + 1 \in Nat BY <2>2
    <3>2. None \notin Nat BY Zenon
    <3>3. QED BY <2>3, <3>1, <3>2
  <2>5. \A m \in Paths \ {n} : at'[m] = at[m] /\ at[m] \in DOMAIN file \cup {None}
    BY <2>1 DEF TypeOK
  <2>6. Apart' BY <2>3, <2>4, <2>5 DEF Apart, Paths
  <2>7. QED BY <1>2, <2>3, <2>4, <2>5, <2>6 DEF Shape, ShapeOf
<1>3. QED BY <1>1, <1>2

(* Who writes with the archive has it alone, but for old archives.         *)
LEMMA Alone ==
  ASSUME TypeOK, Shape, Locks, NEW p \in Processes,
         handle[p] # None, pc[p] \notin {"reading", "renamed"}
  PROVE  \A q \in Processes \ {p} :
           /\ handle[q] = None \/ pc[q] = "renamed"
           /\ aside[q] = None
           /\ pc[q] \in {"idle", "syncing", "noting", "renamed"}
BY DEF Locks, Exclusive, Current, CurrentOf, Shape, ShapeOf

LEMMA CurrentKept ==
  ASSUME Current, NEW q \in Processes, at' = at, pc'[q] = pc[q],
         Same(handle[q], handle'[q]), Same(aside[q], aside'[q])
  PROVE  CurrentOf(q)'
BY DEF Current, CurrentOf, Same

LEMMA ExclusiveKept ==
  ASSUME Exclusive,
         \A q \in Processes : \/ handle'[q] = None
                              \/ /\ Same(handle[q], handle'[q])
                                 /\ pc[q] = "reading" => pc'[q] = "reading"
  PROVE  Exclusive'
BY DEF Exclusive, Same

LEMMA ReadersKept ==
  ASSUME ReadersRead, NEW q \in Processes,
         \/ handle'[q] = None
         \/ /\ Same(handle[q], handle'[q])
            /\ pc[q] = "reading" => pc'[q] = "reading"
  PROVE  handle'[q] # None /\ ~handle'[q].writes => pc'[q] = "reading"
BY DEF ReadersRead, Same

(* One more handle on the archive.                                         *)
LEMMA ExclusiveOpened ==
  ASSUME TypeOK, Shape, Locks, NEW p \in Processes, OpenPath("archive"),
         handle' = [handle EXCEPT ![p] = Handle("archive")],
         \A q \in Processes \ {p} : pc'[q] = pc[q] /\ aside'[q] = aside[q],
         aside'[p] = None, pc'[p] \in {"migrating", "replacing"}
  PROVE  Locks'
<1>1. /\ Handle("archive").file = at'["archive"] /\ Handle("archive") # None
      /\ Handle("archive").writes
  BY OpenType DEF Paths
<1>2. handle'[p] = Handle("archive") /\ \A q \in Processes \ {p} : handle'[q] = handle[q]
  BY DEF TypeOK
<1>3. /\ \A q \in Processes : handle[q] # None => handle[q].file # at'["archive"]
      /\ at'["rebuild"] = at["rebuild"]
      /\ at["archive"] # None => at' = at
      /\ Apart'
  BY OpenFresh DEF Paths, Locks
<1>4. Current'
  <2>1. CurrentOf(p)' BY <1>1, <1>2 DEF CurrentOf
  <2>2. ASSUME NEW q \in Processes \ {p} PROVE CurrentOf(q)'
    <3>1. handle[q] # None => handle[q].file # None
      <4>1. None \notin DOMAIN file BY DEF TypeOK
      <4>2. QED BY <4>1 DEF Shape, ShapeOf
    <3>2. QED BY <1>2, <1>3, <3>1 DEF Locks, Current, CurrentOf
  <2>3. QED BY <2>1, <2>2 DEF Current
<1>5. Exclusive' BY <1>1, <1>2, <1>3 DEF Locks, Exclusive
<1>6. ReadersRead' BY <1>1, <1>2 DEF Locks, ReadersRead
<1>7. QED BY <1>3, <1>4, <1>5, <1>6 DEF Locks

(* Every step keeps the locks. *)
LEMMA LocksStep == TypeOK /\ Shape /\ Stages /\ Locks /\ [Next]_vars => Locks'
<1> SUFFICES ASSUME TypeOK, Shape, Stages, Locks, [Next]_vars PROVE Locks'
  OBVIOUS
<1> USE DEF Go, syncs
<1>0. /\ pc \in [Processes -> Places] /\ handle \in [Processes -> Handles \cup {None}]
      /\ aside \in [Processes -> Handles \cup {None}]
      /\ Current /\ Apart /\ Exclusive /\ ReadersRead
  BY DEF TypeOK, Locks
<1>1. ASSUME NEW p \in Processes, OpenStore(p) PROVE Locks'
  <2>1. aside[p] = None BY <1>1 DEF OpenStore, Shape, ShapeOf
  <2>2. QED BY <1>0, <1>1, <2>1, ExclusiveOpened DEF OpenStore
<1>2. ASSUME NEW p \in Processes, ApplyMigration(p) PROVE Locks'
  <2>1. at' = at
    BY <1>2, ApplyCommits, CommitEffect
  <2>2. \A q \in Processes : /\ q # p => pc'[q] = pc[q] /\ Same(handle[q], handle'[q]) /\ Same(aside[q], aside'[q])
                             /\ \/ handle'[q] = None
                                \/ Same(handle[q], handle'[q]) /\ (pc[q] = "reading" => pc'[q] = "reading")
    BY <1>0, <1>2, ApplyCommits, CommitEffect DEF ApplyMigration
  <2>3. CurrentOf(p)'
    BY <1>0, <2>1, <1>2, ApplyCommits, CommitEffect DEF ApplyMigration, Current, CurrentOf, Same
  <2>4. Current' BY <1>0, <2>1, <2>2, <2>3, CurrentKept DEF Current
  <2>5. Exclusive' /\ ReadersRead' BY <1>0, <2>2, ExclusiveKept, ReadersKept DEF ReadersRead
  <2>6. QED BY <1>0, <2>1, <2>4, <2>5 DEF Locks, Apart
<1>3. ASSUME NEW p \in Processes, RecordMigration(p) PROVE Locks'
  <2>1. at' = at
    BY <1>3, RecordCommits, CommitEffect
  <2>2. \A q \in Processes : /\ q # p => pc'[q] = pc[q] /\ Same(handle[q], handle'[q]) /\ Same(aside[q], aside'[q])
                             /\ \/ handle'[q] = None
                                \/ Same(handle[q], handle'[q]) /\ (pc[q] = "reading" => pc'[q] = "reading")
    BY <1>0, <1>3, RecordCommits, CommitEffect DEF RecordMigration
  <2>3. CurrentOf(p)'
    BY <1>0, <2>1, <1>3, RecordCommits, CommitEffect DEF RecordMigration, Current, CurrentOf, Same
  <2>4. Current' BY <1>0, <2>1, <2>2, <2>3, CurrentKept DEF Current
  <2>5. Exclusive' /\ ReadersRead' BY <1>0, <2>2, ExclusiveKept, ReadersKept DEF ReadersRead
  <2>6. QED BY <1>0, <2>1, <2>4, <2>5 DEF Locks, Apart
<1>4. ASSUME NEW p \in Processes, Migrated(p) PROVE Locks'
  <2>1. at' = at
    BY <1>4 DEF Migrated, disk
  <2>2. \A q \in Processes : /\ q # p => pc'[q] = pc[q] /\ Same(handle[q], handle'[q]) /\ Same(aside[q], aside'[q])
                             /\ \/ handle'[q] = None
                                \/ Same(handle[q], handle'[q]) /\ (pc[q] = "reading" => pc'[q] = "reading")
    BY <1>0, <1>4 DEF Migrated, Same
  <2>3. CurrentOf(p)'
    BY <1>0, <2>1, <1>4 DEF Migrated, Shape, ShapeOf, Current, CurrentOf
  <2>4. Current' BY <1>0, <2>1, <2>2, <2>3, CurrentKept DEF Current
  <2>5. Exclusive' /\ ReadersRead' BY <1>0, <2>2, ExclusiveKept, ReadersKept DEF ReadersRead
  <2>6. QED BY <1>0, <2>1, <2>4, <2>5 DEF Locks, Apart
<1>5. ASSUME NEW p \in Processes, IndexSegment(p) PROVE Locks'
  <2>1. at' = at
    BY <1>5, IndexCommits, CommitEffect
  <2>2. \A q \in Processes : /\ q # p => pc'[q] = pc[q] /\ Same(handle[q], handle'[q]) /\ Same(aside[q], aside'[q])
                             /\ \/ handle'[q] = None
                                \/ Same(handle[q], handle'[q]) /\ (pc[q] = "reading" => pc'[q] = "reading")
    BY <1>0, <1>5, IndexCommits, CommitEffect DEF IndexSegment
  <2>3. CurrentOf(p)'
    BY <1>0, <2>1, <1>5, IndexCommits, CommitEffect DEF IndexSegment, Current, CurrentOf, Same
  <2>4. Current' BY <1>0, <2>1, <2>2, <2>3, CurrentKept DEF Current
  <2>5. Exclusive' /\ ReadersRead' BY <1>0, <2>2, ExclusiveKept, ReadersKept DEF ReadersRead
  <2>6. QED BY <1>0, <2>1, <2>4, <2>5 DEF Locks, Apart
<1>6. ASSUME NEW p \in Processes, CaughtUp(p) PROVE Locks'
  <2>1. at' = at
    BY <1>6 DEF CaughtUp, disk
  <2>2. \A q \in Processes : /\ q # p => pc'[q] = pc[q] /\ Same(handle[q], handle'[q]) /\ Same(aside[q], aside'[q])
                             /\ \/ handle'[q] = None
                                \/ Same(handle[q], handle'[q]) /\ (pc[q] = "reading" => pc'[q] = "reading")
    BY <1>0, <1>6 DEF CaughtUp, Same
  <2>3. CurrentOf(p)'
    BY <1>0, <2>1, <1>6 DEF CaughtUp, Shape, ShapeOf, Current, CurrentOf
  <2>4. Current' BY <1>0, <2>1, <2>2, <2>3, CurrentKept DEF Current
  <2>5. Exclusive' /\ ReadersRead' BY <1>0, <2>2, ExclusiveKept, ReadersKept DEF ReadersRead
  <2>6. QED BY <1>0, <2>1, <2>4, <2>5 DEF Locks, Apart
<1>7. ASSUME NEW p \in Processes, AppendLog(p) PROVE Locks'
  <2>1. at' = at
    BY <1>7 DEF AppendLog, disk
  <2>2. \A q \in Processes : /\ q # p => pc'[q] = pc[q] /\ Same(handle[q], handle'[q]) /\ Same(aside[q], aside'[q])
                             /\ \/ handle'[q] = None
                                \/ Same(handle[q], handle'[q]) /\ (pc[q] = "reading" => pc'[q] = "reading")
    BY <1>0, <1>7 DEF AppendLog, Same
  <2>3. CurrentOf(p)'
    BY <1>0, <2>1, <1>7 DEF AppendLog, Shape, ShapeOf, Current, CurrentOf
  <2>4. Current' BY <1>0, <2>1, <2>2, <2>3, CurrentKept DEF Current
  <2>5. Exclusive' /\ ReadersRead' BY <1>0, <2>2, ExclusiveKept, ReadersKept DEF ReadersRead
  <2>6. QED BY <1>0, <2>1, <2>4, <2>5 DEF Locks, Apart
<1>8. ASSUME NEW p \in Processes, Close(p) PROVE Locks'
  <2>1. at' = at
    BY <1>8 DEF Close, disk, Checkpoint
  <2>2. \A q \in Processes : /\ q # p => pc'[q] = pc[q] /\ Same(handle[q], handle'[q]) /\ Same(aside[q], aside'[q])
                             /\ \/ handle'[q] = None
                                \/ Same(handle[q], handle'[q]) /\ (pc[q] = "reading" => pc'[q] = "reading")
    BY <1>0, <1>8 DEF Close, Same
  <2>3. CurrentOf(p)'
    BY <1>0, <2>1, <1>8 DEF Close, Shape, ShapeOf, Current, CurrentOf
  <2>4. Current' BY <1>0, <2>1, <2>2, <2>3, CurrentKept DEF Current
  <2>5. Exclusive' /\ ReadersRead' BY <1>0, <2>2, ExclusiveKept, ReadersKept DEF ReadersRead
  <2>6. QED BY <1>0, <2>1, <2>4, <2>5 DEF Locks, Apart
<1>9. ASSUME NEW p \in Processes, Attempt(p) PROVE Locks'
  <2>1. at' = at
    BY <1>9 DEF Attempt, disk
  <2>2. \A q \in Processes : /\ q # p => pc'[q] = pc[q] /\ Same(handle[q], handle'[q]) /\ Same(aside[q], aside'[q])
                             /\ \/ handle'[q] = None
                                \/ Same(handle[q], handle'[q]) /\ (pc[q] = "reading" => pc'[q] = "reading")
    BY <1>0, <1>9 DEF Attempt, Same
  <2>3. CurrentOf(p)'
    BY <1>0, <2>1, <1>9 DEF Attempt, Shape, ShapeOf, Current, CurrentOf
  <2>4. Current' BY <1>0, <2>1, <2>2, <2>3, CurrentKept DEF Current
  <2>5. Exclusive' /\ ReadersRead' BY <1>0, <2>2, ExclusiveKept, ReadersKept DEF ReadersRead
  <2>6. QED BY <1>0, <2>1, <2>4, <2>5 DEF Locks, Apart
<1>10. ASSUME NEW p \in Processes, CutShort(p) PROVE Locks'
  <2>1. at' = at
    BY <1>10 DEF CutShort, disk
  <2>2. \A q \in Processes : /\ q # p => pc'[q] = pc[q] /\ Same(handle[q], handle'[q]) /\ Same(aside[q], aside'[q])
                             /\ \/ handle'[q] = None
                                \/ Same(handle[q], handle'[q]) /\ (pc[q] = "reading" => pc'[q] = "reading")
    BY <1>0, <1>10 DEF CutShort, Same
  <2>3. CurrentOf(p)'
    BY <1>0, <2>1, <1>10 DEF CutShort, Shape, ShapeOf, Current, CurrentOf
  <2>4. Current' BY <1>0, <2>1, <2>2, <2>3, CurrentKept DEF Current
  <2>5. Exclusive' /\ ReadersRead' BY <1>0, <2>2, ExclusiveKept, ReadersKept DEF ReadersRead
  <2>6. QED BY <1>0, <2>1, <2>4, <2>5 DEF Locks, Apart
<1>11. ASSUME NEW p \in Processes, LoadStatus(p) PROVE Locks'
  <2>1. at' = at
    BY <1>11 DEF LoadStatus, disk
  <2>2. \A q \in Processes : /\ q # p => pc'[q] = pc[q] /\ Same(handle[q], handle'[q]) /\ Same(aside[q], aside'[q])
                             /\ \/ handle'[q] = None
                                \/ Same(handle[q], handle'[q]) /\ (pc[q] = "reading" => pc'[q] = "reading")
    BY <1>0, <1>11 DEF LoadStatus, Same
  <2>3. CurrentOf(p)'
    BY <1>0, <2>1, <1>11 DEF LoadStatus, Shape, ShapeOf, Current, CurrentOf
  <2>4. Current' BY <1>0, <2>1, <2>2, <2>3, CurrentKept DEF Current
  <2>5. Exclusive' /\ ReadersRead' BY <1>0, <2>2, ExclusiveKept, ReadersKept DEF ReadersRead
  <2>6. QED BY <1>0, <2>1, <2>4, <2>5 DEF Locks, Apart
<1>12. ASSUME NEW p \in Processes, SaveStatus(p) PROVE Locks'
  <2>1. at' = at
    BY <1>12 DEF SaveStatus, disk
  <2>2. \A q \in Processes : /\ q # p => pc'[q] = pc[q] /\ Same(handle[q], handle'[q]) /\ Same(aside[q], aside'[q])
                             /\ \/ handle'[q] = None
                                \/ Same(handle[q], handle'[q]) /\ (pc[q] = "reading" => pc'[q] = "reading")
    BY <1>0, <1>12 DEF SaveStatus, Same
  <2>3. CurrentOf(p)'
    BY <1>0, <2>1, <1>12 DEF SaveStatus, Shape, ShapeOf, Current, CurrentOf
  <2>4. Current' BY <1>0, <2>1, <2>2, <2>3, CurrentKept DEF Current
  <2>5. Exclusive' /\ ReadersRead' BY <1>0, <2>2, ExclusiveKept, ReadersKept DEF ReadersRead
  <2>6. QED BY <1>0, <2>1, <2>4, <2>5 DEF Locks, Apart
<1>13. ASSUME NEW p \in Processes, OpenForReplace(p) PROVE Locks'
  <2>1. aside[p] = None BY <1>13 DEF OpenForReplace, Shape, ShapeOf
  <2>2. QED BY <1>0, <1>13, <2>1, ExclusiveOpened DEF OpenForReplace
<1>14. ASSUME NEW p \in Processes, RemoveOldBuild(p) PROVE Locks'
  <2>1. at' = [at EXCEPT !["rebuild"] = None] /\ handle' = handle /\ aside' = aside
    BY <1>14 DEF RemoveOldBuild
  <2>2. at'["archive"] = at["archive"] /\ at'["rebuild"] = None BY <2>1 DEF TypeOK, Paths
  <2>3. handle[p] # None /\ aside[p] = None /\ pc[p] = "replacing" /\ pc'[p] = "removed"
    BY <1>0, <1>14 DEF RemoveOldBuild, Shape, ShapeOf
  <2>4. \A q \in Processes \ {p} : pc'[q] = pc[q] BY <1>0, <1>14 DEF RemoveOldBuild
  <2>5. Current'
    <3>1. CurrentOf(p)' BY <1>0, <2>1, <2>2, <2>3 DEF Current, CurrentOf
    <3>2. ASSUME NEW q \in Processes \ {p} PROVE CurrentOf(q)'
      BY <2>1, <2>3, <2>4, Alone DEF CurrentOf
    <3>3. QED BY <3>1, <3>2 DEF Current
  <2>6. Apart' BY <2>2 DEF Apart
  <2>7. Exclusive' /\ ReadersRead' BY <1>0, <2>1, <2>3, <2>4 DEF Exclusive, ReadersRead
  <2>8. QED BY <2>5, <2>6, <2>7 DEF Locks
<1>15. ASSUME NEW p \in Processes, RemoveOldLog(p) PROVE Locks'
  <2>1. at' = at
    BY <1>15 DEF RemoveOldLog, disk
  <2>2. \A q \in Processes : /\ q # p => pc'[q] = pc[q] /\ Same(handle[q], handle'[q]) /\ Same(aside[q], aside'[q])
                             /\ \/ handle'[q] = None
                                \/ Same(handle[q], handle'[q]) /\ (pc[q] = "reading" => pc'[q] = "reading")
    BY <1>0, <1>15 DEF RemoveOldLog, Same
  <2>3. CurrentOf(p)'
    BY <1>0, <2>1, <1>15 DEF RemoveOldLog, Shape, ShapeOf, Current, CurrentOf
  <2>4. Current' BY <1>0, <2>1, <2>2, <2>3, CurrentKept DEF Current
  <2>5. Exclusive' /\ ReadersRead' BY <1>0, <2>2, ExclusiveKept, ReadersKept DEF ReadersRead
  <2>6. QED BY <1>0, <2>1, <2>4, <2>5 DEF Locks, Apart
<1>16. ASSUME NEW p \in Processes, OpenBuild(p) PROVE Locks'
  <2>1. OpenPath("rebuild") /\ aside' = [aside EXCEPT ![p] = Handle("rebuild")] /\ handle' = handle
    BY <1>16 DEF OpenBuild
  <2>2. at'["archive"] = at["archive"] /\ Apart' BY <1>0, <2>1, OpenFresh DEF Paths
  <2>3. aside'[p].file = at'["rebuild"] BY <1>0, <2>1, OpenType DEF Paths
  <2>4. handle[p] # None /\ pc[p] = "clean" /\ pc'[p] = "migrating"
    BY <1>0, <1>16 DEF OpenBuild, Shape, ShapeOf
  <2>5. \A q \in Processes \ {p} : pc'[q] = pc[q] /\ aside'[q] = aside[q] BY <1>0, <1>16 DEF OpenBuild
  <2>6. Current'
    <3>1. CurrentOf(p)' BY <1>0, <2>1, <2>2, <2>3, <2>4 DEF Current, CurrentOf
    <3>2. ASSUME NEW q \in Processes \ {p} PROVE CurrentOf(q)'
      BY <2>1, <2>4, <2>5, Alone DEF CurrentOf
    <3>3. QED BY <3>1, <3>2 DEF Current
  <2>7. Exclusive' /\ ReadersRead' BY <1>0, <2>1, <2>4, <2>5 DEF Exclusive, ReadersRead
  <2>8. QED BY <2>2, <2>6, <2>7 DEF Locks
<1>17. ASSUME NEW p \in Processes, CloseBuild(p) PROVE Locks'
  <2>1. at' = at
    BY <1>17 DEF CloseBuild, disk, Checkpoint
  <2>2. \A q \in Processes : /\ q # p => pc'[q] = pc[q] /\ Same(handle[q], handle'[q]) /\ Same(aside[q], aside'[q])
                             /\ \/ handle'[q] = None
                                \/ Same(handle[q], handle'[q]) /\ (pc[q] = "reading" => pc'[q] = "reading")
    BY <1>0, <1>17 DEF CloseBuild, Same
  <2>3. CurrentOf(p)'
    <3>1. aside[p] # None /\ aside[p].file # None
      <4>1. None \notin DOMAIN file BY DEF TypeOK
      <4>2. QED BY <1>17, <4>1 DEF CloseBuild, Shape, ShapeOf
    <3>2. QED BY <1>0, <2>1, <3>1, <1>17 DEF CloseBuild, Current, CurrentOf
  <2>4. Current' BY <1>0, <2>1, <2>2, <2>3, CurrentKept DEF Current
  <2>5. Exclusive' /\ ReadersRead' BY <1>0, <2>2, ExclusiveKept, ReadersKept DEF ReadersRead
  <2>6. QED BY <1>0, <2>1, <2>4, <2>5 DEF Locks, Apart
<1>18. ASSUME NEW p \in Processes, CheckpointOld(p) PROVE Locks'
  <2>1. at' = at
    BY <1>18 DEF CheckpointOld, disk, Checkpoint
  <2>2. \A q \in Processes : /\ q # p => pc'[q] = pc[q] /\ Same(handle[q], handle'[q]) /\ Same(aside[q], aside'[q])
                             /\ \/ handle'[q] = None
                                \/ Same(handle[q], handle'[q]) /\ (pc[q] = "reading" => pc'[q] = "reading")
    BY <1>0, <1>18, MergeOldEffect DEF CheckpointOld, Shape, ShapeOf, Same
  <2>3. CurrentOf(p)'
    BY <1>0, <2>1, <2>2, <1>18 DEF CheckpointOld, Shape, ShapeOf, Current, CurrentOf, Same
  <2>4. Current' BY <1>0, <2>1, <2>2, <2>3, CurrentKept DEF Current
  <2>5. Exclusive' /\ ReadersRead' BY <1>0, <2>2, ExclusiveKept, ReadersKept DEF ReadersRead
  <2>6. QED BY <1>0, <2>1, <2>4, <2>5 DEF Locks, Apart
<1>19. ASSUME NEW p \in Processes, Rename(p) PROVE Locks'
  <2>1. /\ at' = [at EXCEPT !["archive"] = at["rebuild"], !["rebuild"] = None]
        /\ handle' = handle /\ aside' = aside
    BY <1>19 DEF Rename
  <2>2. at'["archive"] = at["rebuild"] /\ at'["rebuild"] = None BY <2>1 DEF TypeOK, Paths
  <2>3. handle[p] # None /\ aside[p] = None /\ pc[p] = "merged" /\ pc'[p] = "renamed"
    BY <1>0, <1>19 DEF Rename, Shape, ShapeOf
  <2>4. \A q \in Processes \ {p} : pc'[q] = pc[q] BY <1>0, <1>19 DEF Rename
  <2>5. Current'
    <3>1. CurrentOf(p)' BY <2>1, <2>3 DEF CurrentOf
    <3>2. ASSUME NEW q \in Processes \ {p} PROVE CurrentOf(q)'
      BY <2>1, <2>3, <2>4, Alone DEF CurrentOf
    <3>3. QED BY <3>1, <3>2 DEF Current
  <2>6. Apart' BY <2>2 DEF Apart
  <2>7. Exclusive' /\ ReadersRead' BY <1>0, <2>1, <2>3, <2>4 DEF Exclusive, ReadersRead
  <2>8. QED BY <2>5, <2>6, <2>7 DEF Locks
<1>20. ASSUME NEW p \in Processes, CloseOld(p) PROVE Locks'
  <2>1. at' = at
    BY <1>20 DEF CloseOld, disk, Checkpoint
  <2>2. \A q \in Processes : /\ q # p => pc'[q] = pc[q] /\ Same(handle[q], handle'[q]) /\ Same(aside[q], aside'[q])
                             /\ \/ handle'[q] = None
                                \/ Same(handle[q], handle'[q]) /\ (pc[q] = "reading" => pc'[q] = "reading")
    BY <1>0, <1>20 DEF CloseOld, Same
  <2>3. CurrentOf(p)'
    BY <1>0, <2>1, <1>20 DEF CloseOld, Shape, ShapeOf, Current, CurrentOf
  <2>4. Current' BY <1>0, <2>1, <2>2, <2>3, CurrentKept DEF Current
  <2>5. Exclusive' /\ ReadersRead' BY <1>0, <2>2, ExclusiveKept, ReadersKept DEF ReadersRead
  <2>6. QED BY <1>0, <2>1, <2>4, <2>5 DEF Locks, Apart
<1>21. ASSUME NEW p \in Processes, FailRebuild(p) PROVE Locks'
  <2>1. at' = at
    BY <1>21 DEF FailRebuild, disk, Checkpoint
  <2>2. \A q \in Processes : /\ q # p => pc'[q] = pc[q] /\ Same(handle[q], handle'[q]) /\ Same(aside[q], aside'[q])
                             /\ \/ handle'[q] = None
                                \/ Same(handle[q], handle'[q]) /\ (pc[q] = "reading" => pc'[q] = "reading")
    <3>1. handle' = [handle EXCEPT ![p] = IF pc[p] = "failed" THEN None ELSE handle[p]]
      BY <1>21 DEF FailRebuild
    <3>2. aside' = [aside EXCEPT ![p] = None] BY <1>21 DEF FailRebuild
    <3>3. \A q \in Processes : q # p => pc'[q] = pc[q] BY <1>0, <1>21 DEF FailRebuild
    <3>4. pc[p] # "reading" BY <1>21 DEF FailRebuild, Shape, ShapeOf
    <3>5. QED BY <1>0, <3>1, <3>2, <3>3, <3>4 DEF Same
  <2>3. CurrentOf(p)'
    BY <1>0, <2>1, <1>21 DEF FailRebuild, Shape, ShapeOf, Current, CurrentOf
  <2>4. Current' BY <1>0, <2>1, <2>2, <2>3, CurrentKept DEF Current
  <2>5. Exclusive' /\ ReadersRead' BY <1>0, <2>2, ExclusiveKept, ReadersKept DEF ReadersRead
  <2>6. QED BY <1>0, <2>1, <2>4, <2>5 DEF Locks, Apart
<1>22. ASSUME NEW p \in Processes, OpenReadOnly(p) PROVE Locks'
  <2>1. at' = at /\ aside' = aside /\ pc' = [pc EXCEPT ![p] = "reading"] /\ Readable(at["archive"])
    BY <1>22 DEF OpenReadOnly, disk
  <2>2. /\ handle'[p] # None /\ handle'[p].file = at["archive"]
        /\ \A q \in Processes \ {p} : handle'[q] = handle[q]
    BY <1>0, <1>22, ReaderEffect DEF OpenReadOnly
  <2>3. Current'
    <3>1. CurrentOf(p)' BY <1>0, <1>22, <2>1, <2>2 DEF OpenReadOnly, Current, CurrentOf
    <3>2. ASSUME NEW q \in Processes \ {p} PROVE CurrentOf(q)'
      BY <1>0, <2>1, <2>2 DEF Current, CurrentOf
    <3>3. QED BY <3>1, <3>2 DEF Current
  <2>4. \A q \in Processes : handle[q] # None /\ handle[q].file = at["archive"] => pc[q] = "reading"
    BY <1>0, <2>1 DEF Readable, Opened, ReadersRead
  <2>5. Exclusive' BY <1>0, <2>1, <2>2, <2>4 DEF Exclusive
  <2>6. ReadersRead' BY <1>0, <2>1, <2>2 DEF ReadersRead
  <2>7. QED BY <1>0, <2>1, <2>3, <2>5, <2>6 DEF Locks, Apart
<1>23. ASSUME NEW p \in Processes, CloseReader(p) PROVE Locks'
  <2>1. at' = at
    BY <1>23 DEF CloseReader, disk
  <2>2. \A q \in Processes : /\ q # p => pc'[q] = pc[q] /\ Same(handle[q], handle'[q]) /\ Same(aside[q], aside'[q])
                             /\ \/ handle'[q] = None
                                \/ Same(handle[q], handle'[q]) /\ (pc[q] = "reading" => pc'[q] = "reading")
    BY <1>0, <1>23 DEF CloseReader, Same
  <2>3. CurrentOf(p)'
    BY <1>0, <2>1, <1>23 DEF CloseReader, Shape, ShapeOf, Current, CurrentOf
  <2>4. Current' BY <1>0, <2>1, <2>2, <2>3, CurrentKept DEF Current
  <2>5. Exclusive' /\ ReadersRead' BY <1>0, <2>2, ExclusiveKept, ReadersKept DEF ReadersRead
  <2>6. QED BY <1>0, <2>1, <2>4, <2>5 DEF Locks, Apart
<1>24. ASSUME NEW p \in Processes, Crash(p) PROVE Locks'
  <2>1. at' = at
    BY <1>24 DEF Crash, disk
  <2>2. \A q \in Processes : /\ q # p => pc'[q] = pc[q] /\ Same(handle[q], handle'[q]) /\ Same(aside[q], aside'[q])
                             /\ \/ handle'[q] = None
                                \/ Same(handle[q], handle'[q]) /\ (pc[q] = "reading" => pc'[q] = "reading")
    BY <1>0, <1>24 DEF Crash, Same
  <2>3. CurrentOf(p)'
    BY <1>0, <2>1, <1>24 DEF Crash, Shape, ShapeOf, Current, CurrentOf
  <2>4. Current' BY <1>0, <2>1, <2>2, <2>3, CurrentKept DEF Current
  <2>5. Exclusive' /\ ReadersRead' BY <1>0, <2>2, ExclusiveKept, ReadersKept DEF ReadersRead
  <2>6. QED BY <1>0, <2>1, <2>4, <2>5 DEF Locks, Apart
<1>25. CASE UNCHANGED vars
  BY <1>0, <1>25 DEF vars, Locks, Current, CurrentOf, Apart, Exclusive, ReadersRead
<1>26. QED
  BY <1>1, <1>2, <1>3, <1>4, <1>5, <1>6, <1>7, <1>8, <1>9, <1>10, <1>11, <1>12, <1>13,
     <1>14, <1>15, <1>16, <1>17, <1>18, <1>19, <1>20, <1>21, <1>22, <1>23, <1>24, <1>25 DEF Next

-----------------------------------------------------------------------------
(* Schemas. *)

LEMMA EmptySound == Sound(Empty, log)
BY DEF Sound, Empty

LEMMA StoredSound ==
  ASSUME TypeOK, AllSound, NEW n \in Paths, at[n] # None
  PROVE  Sound(Stored(n), log)
<1>1. at[n] \in DOMAIN file BY DEF TypeOK
<1>2. QED BY <1>1 DEF AllSound, Stored

LEMMA TargetSound ==
  ASSUME AllSound, NEW p \in Processes, handle[p] # None
  PROVE  Sound(Target(p).db, log)
BY DEF AllSound, Target

(* The log only grows, so it is enough to look at what changes.            *)
LEMMA SoundKept ==
  ASSUME TypeOK, log' \in log..MaxSegments,
         \A f \in DOMAIN file' : Sound(file'[f], log),
         \A n \in Paths : wal'[n] # None => Sound(wal'[n].db, log),
         \A p \in Processes : /\ handle'[p] # None => Sound(handle'[p].db, log)
                              /\ aside'[p] # None => Sound(aside'[p].db, log)
  PROVE  AllSound'
<1>1. \A db : Sound(db, log) => Sound(db, log')
  <2>1. 1..log \subseteq 1..log' BY DEF TypeOK
  <2>2. QED BY <2>1 DEF Sound
<1> QED BY <1>1 DEF AllSound

LEMMA OpenSound ==
  ASSUME TypeOK, AllSound, NEW n \in Paths, OpenPath(n)
  PROVE  /\ Sound(Handle(n).db, log)
         /\ \A f \in DOMAIN file' : Sound(file'[f], log)
<1>1. CASE at[n] # None
  BY <1>1, HandleType, StoredSound DEF OpenPath, disk, AllSound
<1>2. CASE at[n] = None
  <2>1. file' = Append(file, Empty) /\ Handle(n).db = Empty BY <1>2 DEF OpenPath, Handle
  <2>2. file \in Seq(Databases) BY DEF TypeOK
  <2>3. \A f \in DOMAIN file' : IF f \in DOMAIN file THEN file'[f] = file[f] ELSE file'[f] = Empty
    BY <2>1, <2>2, EmptyType, AppendProperties
  <2>4. QED BY <2>1, <2>3, EmptySound DEF AllSound
<1>3. QED BY <1>1, <1>2

LEMMA CheckpointSound ==
  ASSUME TypeOK, AllSound, NEW h \in Handles, h.file \in DOMAIN file, Sound(h.db, log), Checkpoint(h)
  PROVE  /\ \A f \in DOMAIN file' : Sound(file'[f], log)
         /\ \A n \in Paths : wal'[n] # None => Sound(wal'[n].db, log)
<1>1. DOMAIN file' = DOMAIN file BY CheckpointType
<1>2. CASE h.dirty
  <2>1. file' = [file EXCEPT ![h.file] = h.db] /\ wal' = [wal EXCEPT ![h.path] = None]
    BY <1>2 DEF Checkpoint
  <2>2. QED BY <1>1, <2>1 DEF AllSound, TypeOK
<1>3. CASE ~h.dirty BY <1>3 DEF Checkpoint, disk, AllSound
<1>4. QED BY <1>2, <1>3

LEMMA UnlinkSound ==
  ASSUME TypeOK, AllSound, NEW n \in Paths, Unlink(n)
  PROVE  \A f \in DOMAIN file' : Sound(file'[f], log)
<1>1. CASE at[n] = None BY <1>1 DEF Unlink, AllSound
<1>2. CASE at[n] # None
  <2>1. at[n] \in DOMAIN file /\ file' = [file EXCEPT ![at[n]] = Empty] BY <1>2 DEF Unlink, TypeOK
  <2>2. DOMAIN file' = DOMAIN file BY UnlinkType
  <2>3. QED BY <2>1, <2>2, EmptySound DEF AllSound
<1>3. QED BY <1>1, <1>2

(* A sound database in place of the one that is worked on.                 *)
LEMMA CommitSound ==
  ASSUME TypeOK, AllSound, NEW p \in Processes, Target(p) \in Handles, NEW db \in Databases,
         Commit(p, db), Sound(db, log), log' = log
  PROVE  AllSound'
<1>1. /\ wal' = [wal EXCEPT ![Target(p).path] = [of |-> Target(p).file, db |-> db]]
      /\ file' = file
      /\ Target(p)' = [Target(p) EXCEPT !.db = db, !.dirty = TRUE]
      /\ \A q \in Processes \ {p} : handle'[q] = handle[q] /\ aside'[q] = aside[q]
      /\ aside[p] # None => handle'[p] = handle[p]
      /\ \A q \in Processes : Same(aside[q], aside'[q])
  BY CommitEffect
<1>2. \A n \in Paths : wal'[n] # None => Sound(wal'[n].db, log) BY <1>1 DEF AllSound, TypeOK
<1>3. Target(p)'.db = db BY <1>1 DEF Handles
<1>4. /\ handle'[p] # None => Sound(handle'[p].db, log)
      /\ aside'[p] # None => Sound(aside'[p].db, log)
  <2>1. CASE aside[p] # None
    <3>1. aside'[p] # None BY <1>1, <2>1 DEF Same
    <3>2. aside'[p].db = db BY <1>3, <3>1 DEF Target
    <3>3. QED BY <1>1, <2>1, <3>2 DEF AllSound
  <2>2. CASE aside[p] = None
    <3>1. aside'[p] = None BY <1>1, <2>2 DEF Same
    <3>2. handle'[p].db = db BY <1>3, <3>1 DEF Target
    <3>3. QED BY <3>1, <3>2
  <2>3. QED BY <2>1, <2>2
<1>5. log' \in log..MaxSegments BY DEF TypeOK
<1>6. QED BY <1>1, <1>2, <1>4, <1>5, SoundKept DEF AllSound

(* Every step keeps databases sound. *)
LEMMA SoundStep == TypeOK /\ Shape /\ AllSound /\ Stages /\ [Next]_vars => AllSound'
<1> SUFFICES ASSUME TypeOK, Shape, AllSound, Stages, [Next]_vars PROVE AllSound'
  OBVIOUS
<1> USE DEF Go, syncs
<1>0. /\ handle \in [Processes -> Handles \cup {None}] /\ aside \in [Processes -> Handles \cup {None}]
      /\ wal \in [Paths -> Logs \cup {None}] /\ log \in Nat /\ MaxSegments \in Nat /\ log <= MaxSegments
  BY DEF TypeOK
<1>1. ASSUME NEW p \in Processes, OpenStore(p) PROVE AllSound'
  <2>1. log' \in log..MaxSegments
    BY <1>0, <1>1 DEF OpenStore
  <2>2. \A f \in DOMAIN file' : Sound(file'[f], log)
    BY <1>1, OpenSound DEF OpenStore, Paths
  <2>3. \A n \in Paths : wal'[n] # None => Sound(wal'[n].db, log)
    BY <1>1, OpenType DEF OpenStore, Paths, AllSound
  <2>4. \A q \in Processes : /\ handle'[q] # None => Sound(handle'[q].db, log)
                             /\ aside'[q] # None => Sound(aside'[q].db, log)
    BY <1>0, <1>1, OpenSound DEF OpenStore, Paths, AllSound
  <2>5. QED BY <2>1, <2>2, <2>3, <2>4, SoundKept
<1>2. ASSUME NEW p \in Processes, ApplyMigration(p) PROVE AllSound'
  <2>1. PICK db \in Databases : Commit(p, db) /\ db = [Target(p).db EXCEPT !.applied = @ \cup {Pending(p)}]
    BY <1>2, ApplyCommits
  <2>2. Target(p) \in Handles /\ Target(p).db \in Databases BY <1>2, TargetType DEF ApplyMigration
  <2>3. Sound(Target(p).db, log) BY <1>2, TargetSound DEF ApplyMigration, Shape, ShapeOf
  <2>4. Sound(db, log) BY <1>2, <2>1, <2>2, <2>3 DEF ApplyMigration, Sound, Databases
  <2>5. QED BY <1>2, <2>1, <2>2, <2>4, CommitSound DEF ApplyMigration
<1>3. ASSUME NEW p \in Processes, RecordMigration(p) PROVE AllSound'
  <2>1. PICK db \in Databases : Commit(p, db) /\ db = [Target(p).db EXCEPT !.version = @ + 1]
    BY <1>3, RecordCommits
  <2>2. Target(p) \in Handles /\ Target(p).db \in Databases BY <1>3, TargetType DEF RecordMigration
  <2>3. Sound(Target(p).db, log) BY <1>3, TargetSound DEF RecordMigration, Shape, ShapeOf
  <2>4. Sound(db, log) BY <1>3, <2>1, <2>2, <2>3 DEF RecordMigration, Sound, Databases, Stages, StageOf
  <2>5. QED BY <1>3, <2>1, <2>2, <2>4, CommitSound DEF RecordMigration
<1>4. ASSUME NEW p \in Processes, Migrated(p) PROVE AllSound'
  <2>1. log' \in log..MaxSegments
    BY <1>0, <1>4 DEF Migrated
  <2>2. \A f \in DOMAIN file' : Sound(file'[f], log)
    BY <1>4 DEF Migrated, disk, AllSound
  <2>3. \A n \in Paths : wal'[n] # None => Sound(wal'[n].db, log)
    BY <1>0, <1>4 DEF Migrated, disk, AllSound
  <2>4. \A q \in Processes : /\ handle'[q] # None => Sound(handle'[q].db, log)
                             /\ aside'[q] # None => Sound(aside'[q].db, log)
    BY <1>0, <1>4 DEF Migrated, AllSound
  <2>5. QED BY <2>1, <2>2, <2>3, <2>4, SoundKept
<1>5. ASSUME NEW p \in Processes, IndexSegment(p) PROVE AllSound'
  <2>1. PICK db \in Databases : Commit(p, db) /\ \E s \in Segments : db = [Target(p).db EXCEPT !.segs = @ \cup {s}]
    BY <1>5, IndexCommits
  <2>2. Target(p) \in Handles /\ Target(p).db \in Databases BY <1>5, TargetType DEF IndexSegment
  <2>3. Sound(Target(p).db, log) BY <1>5, TargetSound DEF IndexSegment, Shape, ShapeOf
  <2>4. Sound(db, log) BY <1>5, <2>1, <2>2, <2>3 DEF IndexSegment, Sound, Databases, Segments
  <2>5. QED BY <1>5, <2>1, <2>2, <2>4, CommitSound DEF IndexSegment
<1>6. ASSUME NEW p \in Processes, CaughtUp(p) PROVE AllSound'
  <2>1. log' \in log..MaxSegments
    BY <1>0, <1>6 DEF CaughtUp
  <2>2. \A f \in DOMAIN file' : Sound(file'[f], log)
    BY <1>6 DEF CaughtUp, disk, AllSound
  <2>3. \A n \in Paths : wal'[n] # None => Sound(wal'[n].db, log)
    BY <1>0, <1>6 DEF CaughtUp, disk, AllSound
  <2>4. \A q \in Processes : /\ handle'[q] # None => Sound(handle'[q].db, log)
                             /\ aside'[q] # None => Sound(aside'[q].db, log)
    BY <1>0, <1>6 DEF CaughtUp, AllSound
  <2>5. QED BY <2>1, <2>2, <2>3, <2>4, SoundKept
<1>7. ASSUME NEW p \in Processes, AppendLog(p) PROVE AllSound'
  <2>1. log' \in log..MaxSegments
    BY <1>0, <1>7 DEF AppendLog
  <2>2. \A f \in DOMAIN file' : Sound(file'[f], log)
    BY <1>7 DEF AppendLog, disk, AllSound
  <2>3. \A n \in Paths : wal'[n] # None => Sound(wal'[n].db, log)
    BY <1>0, <1>7 DEF AppendLog, disk, AllSound
  <2>4. \A q \in Processes : /\ handle'[q] # None => Sound(handle'[q].db, log)
                             /\ aside'[q] # None => Sound(aside'[q].db, log)
    BY <1>0, <1>7 DEF AppendLog, AllSound
  <2>5. QED BY <2>1, <2>2, <2>3, <2>4, SoundKept
<1>8. ASSUME NEW p \in Processes, Close(p) PROVE AllSound'
  <2>1. log' \in log..MaxSegments
    BY <1>0, <1>8 DEF Close
  <2>2. \A f \in DOMAIN file' : Sound(file'[f], log)
    BY <1>8, CheckpointSound DEF Close, TypeOK, Shape, ShapeOf, AllSound
  <2>3. \A n \in Paths : wal'[n] # None => Sound(wal'[n].db, log)
    BY <1>8, CheckpointSound DEF Close, TypeOK, Shape, ShapeOf, AllSound
  <2>4. \A q \in Processes : /\ handle'[q] # None => Sound(handle'[q].db, log)
                             /\ aside'[q] # None => Sound(aside'[q].db, log)
    BY <1>0, <1>8 DEF Close, AllSound
  <2>5. QED BY <2>1, <2>2, <2>3, <2>4, SoundKept
<1>9. ASSUME NEW p \in Processes, Attempt(p) PROVE AllSound'
  <2>1. log' \in log..MaxSegments
    BY <1>0, <1>9, AttemptEffect DEF Attempt
  <2>2. \A f \in DOMAIN file' : Sound(file'[f], log)
    BY <1>9 DEF Attempt, disk, AllSound
  <2>3. \A n \in Paths : wal'[n] # None => Sound(wal'[n].db, log)
    BY <1>0, <1>9 DEF Attempt, disk, AllSound
  <2>4. \A q \in Processes : /\ handle'[q] # None => Sound(handle'[q].db, log)
                             /\ aside'[q] # None => Sound(aside'[q].db, log)
    BY <1>0, <1>9 DEF Attempt, AllSound
  <2>5. QED BY <2>1, <2>2, <2>3, <2>4, SoundKept
<1>10. ASSUME NEW p \in Processes, CutShort(p) PROVE AllSound'
  <2>1. log' \in log..MaxSegments
    BY <1>0, <1>10 DEF CutShort
  <2>2. \A f \in DOMAIN file' : Sound(file'[f], log)
    BY <1>10 DEF CutShort, disk, AllSound
  <2>3. \A n \in Paths : wal'[n] # None => Sound(wal'[n].db, log)
    BY <1>0, <1>10 DEF CutShort, disk, AllSound
  <2>4. \A q \in Processes : /\ handle'[q] # None => Sound(handle'[q].db, log)
                             /\ aside'[q] # None => Sound(aside'[q].db, log)
    BY <1>0, <1>10 DEF CutShort, AllSound
  <2>5. QED BY <2>1, <2>2, <2>3, <2>4, SoundKept
<1>11. ASSUME NEW p \in Processes, LoadStatus(p) PROVE AllSound'
  <2>1. log' \in log..MaxSegments
    BY <1>0, <1>11 DEF LoadStatus
  <2>2. \A f \in DOMAIN file' : Sound(file'[f], log)
    BY <1>11 DEF LoadStatus, disk, AllSound
  <2>3. \A n \in Paths : wal'[n] # None => Sound(wal'[n].db, log)
    BY <1>0, <1>11 DEF LoadStatus, disk, AllSound
  <2>4. \A q \in Processes : /\ handle'[q] # None => Sound(handle'[q].db, log)
                             /\ aside'[q] # None => Sound(aside'[q].db, log)
    BY <1>0, <1>11 DEF LoadStatus, AllSound
  <2>5. QED BY <2>1, <2>2, <2>3, <2>4, SoundKept
<1>12. ASSUME NEW p \in Processes, SaveStatus(p) PROVE AllSound'
  <2>1. log' \in log..MaxSegments
    BY <1>0, <1>12 DEF SaveStatus
  <2>2. \A f \in DOMAIN file' : Sound(file'[f], log)
    BY <1>12 DEF SaveStatus, disk, AllSound
  <2>3. \A n \in Paths : wal'[n] # None => Sound(wal'[n].db, log)
    BY <1>0, <1>12 DEF SaveStatus, disk, AllSound
  <2>4. \A q \in Processes : /\ handle'[q] # None => Sound(handle'[q].db, log)
                             /\ aside'[q] # None => Sound(aside'[q].db, log)
    BY <1>0, <1>12 DEF SaveStatus, AllSound
  <2>5. QED BY <2>1, <2>2, <2>3, <2>4, SoundKept
<1>13. ASSUME NEW p \in Processes, OpenForReplace(p) PROVE AllSound'
  <2>1. log' \in log..MaxSegments
    BY <1>0, <1>13 DEF OpenForReplace
  <2>2. \A f \in DOMAIN file' : Sound(file'[f], log)
    BY <1>13, OpenSound DEF OpenForReplace, Paths
  <2>3. \A n \in Paths : wal'[n] # None => Sound(wal'[n].db, log)
    BY <1>13, OpenType DEF OpenForReplace, Paths, AllSound
  <2>4. \A q \in Processes : /\ handle'[q] # None => Sound(handle'[q].db, log)
                             /\ aside'[q] # None => Sound(aside'[q].db, log)
    BY <1>0, <1>13, OpenSound DEF OpenForReplace, Paths, AllSound
  <2>5. QED BY <2>1, <2>2, <2>3, <2>4, SoundKept
<1>14. ASSUME NEW p \in Processes, RemoveOldBuild(p) PROVE AllSound'
  <2>1. log' \in log..MaxSegments
    BY <1>0, <1>14 DEF RemoveOldBuild
  <2>2. \A f \in DOMAIN file' : Sound(file'[f], log)
    BY <1>14, UnlinkSound DEF RemoveOldBuild, Paths
  <2>3. \A n \in Paths : wal'[n] # None => Sound(wal'[n].db, log)
    BY <1>0, <1>14 DEF RemoveOldBuild, disk, AllSound
  <2>4. \A q \in Processes : /\ handle'[q] # None => Sound(handle'[q].db, log)
                             /\ aside'[q] # None => Sound(aside'[q].db, log)
    BY <1>0, <1>14 DEF RemoveOldBuild, AllSound
  <2>5. QED BY <2>1, <2>2, <2>3, <2>4, SoundKept
<1>15. ASSUME NEW p \in Processes, RemoveOldLog(p) PROVE AllSound'
  <2>1. log' \in log..MaxSegments
    BY <1>0, <1>15 DEF RemoveOldLog
  <2>2. \A f \in DOMAIN file' : Sound(file'[f], log)
    BY <1>15 DEF RemoveOldLog, disk, AllSound
  <2>3. \A n \in Paths : wal'[n] # None => Sound(wal'[n].db, log)
    BY <1>0, <1>15 DEF RemoveOldLog, disk, AllSound
  <2>4. \A q \in Processes : /\ handle'[q] # None => Sound(handle'[q].db, log)
                             /\ aside'[q] # None => Sound(aside'[q].db, log)
    BY <1>0, <1>15 DEF RemoveOldLog, AllSound
  <2>5. QED BY <2>1, <2>2, <2>3, <2>4, SoundKept
<1>16. ASSUME NEW p \in Processes, OpenBuild(p) PROVE AllSound'
  <2>1. log' \in log..MaxSegments
    BY <1>0, <1>16 DEF OpenBuild
  <2>2. \A f \in DOMAIN file' : Sound(file'[f], log)
    BY <1>16, OpenSound DEF OpenBuild, Paths
  <2>3. \A n \in Paths : wal'[n] # None => Sound(wal'[n].db, log)
    BY <1>16, OpenType DEF OpenBuild, Paths, AllSound
  <2>4. \A q \in Processes : /\ handle'[q] # None => Sound(handle'[q].db, log)
                             /\ aside'[q] # None => Sound(aside'[q].db, log)
    BY <1>0, <1>16, OpenSound DEF OpenBuild, Paths, AllSound
  <2>5. QED BY <2>1, <2>2, <2>3, <2>4, SoundKept
<1>17. ASSUME NEW p \in Processes, CloseBuild(p) PROVE AllSound'
  <2>1. log' \in log..MaxSegments
    BY <1>0, <1>17 DEF CloseBuild
  <2>2. \A f \in DOMAIN file' : Sound(file'[f], log)
    BY <1>17, CheckpointSound DEF CloseBuild, TypeOK, Shape, ShapeOf, AllSound
  <2>3. \A n \in Paths : wal'[n] # None => Sound(wal'[n].db, log)
    BY <1>17, CheckpointSound DEF CloseBuild, TypeOK, Shape, ShapeOf, AllSound
  <2>4. \A q \in Processes : /\ handle'[q] # None => Sound(handle'[q].db, log)
                             /\ aside'[q] # None => Sound(aside'[q].db, log)
    BY <1>0, <1>17 DEF CloseBuild, AllSound
  <2>5. QED BY <2>1, <2>2, <2>3, <2>4, SoundKept
<1>18. ASSUME NEW p \in Processes, CheckpointOld(p) PROVE AllSound'
  <2>1. log' \in log..MaxSegments
    BY <1>0, <1>18 DEF CheckpointOld
  <2>2. \A f \in DOMAIN file' : Sound(file'[f], log)
    BY <1>18, CheckpointSound DEF CheckpointOld, TypeOK, Shape, ShapeOf, AllSound
  <2>3. \A n \in Paths : wal'[n] # None => Sound(wal'[n].db, log)
    BY <1>18, CheckpointSound DEF CheckpointOld, TypeOK, Shape, ShapeOf, AllSound
  <2>4. \A q \in Processes : /\ handle'[q] # None => Sound(handle'[q].db, log)
                             /\ aside'[q] # None => Sound(aside'[q].db, log)
    BY <1>0, <1>18, MergeOldEffect DEF CheckpointOld, Shape, ShapeOf, AllSound
  <2>5. QED BY <2>1, <2>2, <2>3, <2>4, SoundKept
<1>19. ASSUME NEW p \in Processes, Rename(p) PROVE AllSound'
  <2>1. log' \in log..MaxSegments
    BY <1>0, <1>19 DEF Rename
  <2>2. \A f \in DOMAIN file' : Sound(file'[f], log)
    BY <1>19, UnlinkSound DEF Rename, Paths
  <2>3. \A n \in Paths : wal'[n] # None => Sound(wal'[n].db, log)
    BY <1>0, <1>19 DEF Rename, disk, AllSound
  <2>4. \A q \in Processes : /\ handle'[q] # None => Sound(handle'[q].db, log)
                             /\ aside'[q] # None => Sound(aside'[q].db, log)
    BY <1>0, <1>19 DEF Rename, AllSound
  <2>5. QED BY <2>1, <2>2, <2>3, <2>4, SoundKept
<1>20. ASSUME NEW p \in Processes, CloseOld(p) PROVE AllSound'
  <2>1. log' \in log..MaxSegments
    BY <1>0, <1>20 DEF CloseOld
  <2>2. \A f \in DOMAIN file' : Sound(file'[f], log)
    BY <1>20, CheckpointSound DEF CloseOld, TypeOK, Shape, ShapeOf, AllSound
  <2>3. \A n \in Paths : wal'[n] # None => Sound(wal'[n].db, log)
    BY <1>20, CheckpointSound DEF CloseOld, TypeOK, Shape, ShapeOf, AllSound
  <2>4. \A q \in Processes : /\ handle'[q] # None => Sound(handle'[q].db, log)
                             /\ aside'[q] # None => Sound(aside'[q].db, log)
    BY <1>0, <1>20 DEF CloseOld, AllSound
  <2>5. QED BY <2>1, <2>2, <2>3, <2>4, SoundKept
<1>21. ASSUME NEW p \in Processes, FailRebuild(p) PROVE AllSound'
  <2>1. log' \in log..MaxSegments
    BY <1>0, <1>21 DEF FailRebuild
  <2>2. \A f \in DOMAIN file' : Sound(file'[f], log)
    <3>1. CASE UNCHANGED disk BY <3>1 DEF disk, AllSound
    <3>2. QED BY <1>21, <3>1, CheckpointSound DEF FailRebuild, TypeOK, Shape, ShapeOf, AllSound
  <2>3. \A n \in Paths : wal'[n] # None => Sound(wal'[n].db, log)
    <3>1. CASE UNCHANGED disk BY <3>1 DEF disk, AllSound
    <3>2. QED BY <1>21, <3>1, CheckpointSound DEF FailRebuild, TypeOK, Shape, ShapeOf, AllSound
  <2>4. \A q \in Processes : /\ handle'[q] # None => Sound(handle'[q].db, log)
                             /\ aside'[q] # None => Sound(aside'[q].db, log)
    BY <1>0, <1>21 DEF FailRebuild, AllSound
  <2>5. QED BY <2>1, <2>2, <2>3, <2>4, SoundKept
<1>22. ASSUME NEW p \in Processes, OpenReadOnly(p) PROVE AllSound'
  <2>1. log' \in log..MaxSegments
    BY <1>0, <1>22 DEF OpenReadOnly
  <2>2. \A f \in DOMAIN file' : Sound(file'[f], log)
    BY <1>22 DEF OpenReadOnly, disk, AllSound
  <2>3. \A n \in Paths : wal'[n] # None => Sound(wal'[n].db, log)
    BY <1>0, <1>22 DEF OpenReadOnly, disk, AllSound
  <2>4. \A q \in Processes : /\ handle'[q] # None => Sound(handle'[q].db, log)
                             /\ aside'[q] # None => Sound(aside'[q].db, log)
    BY <1>0, <1>22, ReaderEffect, StoredSound DEF OpenReadOnly, Paths, AllSound
  <2>5. QED BY <2>1, <2>2, <2>3, <2>4, SoundKept
<1>23. ASSUME NEW p \in Processes, CloseReader(p) PROVE AllSound'
  <2>1. log' \in log..MaxSegments
    BY <1>0, <1>23 DEF CloseReader
  <2>2. \A f \in DOMAIN file' : Sound(file'[f], log)
    BY <1>23 DEF CloseReader, disk, AllSound
  <2>3. \A n \in Paths : wal'[n] # None => Sound(wal'[n].db, log)
    BY <1>0, <1>23 DEF CloseReader, disk, AllSound
  <2>4. \A q \in Processes : /\ handle'[q] # None => Sound(handle'[q].db, log)
                             /\ aside'[q] # None => Sound(aside'[q].db, log)
    BY <1>0, <1>23 DEF CloseReader, AllSound
  <2>5. QED BY <2>1, <2>2, <2>3, <2>4, SoundKept
<1>24. ASSUME NEW p \in Processes, Crash(p) PROVE AllSound'
  <2>1. log' \in log..MaxSegments
    BY <1>0, <1>24 DEF Crash
  <2>2. \A f \in DOMAIN file' : Sound(file'[f], log)
    BY <1>24 DEF Crash, disk, AllSound
  <2>3. \A n \in Paths : wal'[n] # None => Sound(wal'[n].db, log)
    BY <1>0, <1>24 DEF Crash, disk, AllSound
  <2>4. \A q \in Processes : /\ handle'[q] # None => Sound(handle'[q].db, log)
                             /\ aside'[q] # None => Sound(aside'[q].db, log)
    BY <1>0, <1>24 DEF Crash, AllSound
  <2>5. QED BY <2>1, <2>2, <2>3, <2>4, SoundKept
<1>25. CASE UNCHANGED vars
  BY <1>0, <1>25 DEF vars, AllSound
<1>26. QED
  BY <1>1, <1>2, <1>3, <1>4, <1>5, <1>6, <1>7, <1>8, <1>9, <1>10, <1>11, <1>12, <1>13,
     <1>14, <1>15, <1>16, <1>17, <1>18, <1>19, <1>20, <1>21, <1>22, <1>23, <1>24, <1>25 DEF Next

LEMMA StageKept ==
  ASSUME Stages, NEW q \in Processes, pc'[q] = pc[q], handle'[q] = handle[q], aside'[q] = aside[q]
  PROVE  StageOf(q)'
BY DEF Stages, StageOf, Target

(* Every step keeps the stages. *)
LEMMA StageStep == TypeOK /\ Shape /\ AllSound /\ Stages /\ [Next]_vars => Stages'
<1> SUFFICES ASSUME TypeOK, Shape, AllSound, Stages, [Next]_vars PROVE Stages'
  OBVIOUS
<1> USE DEF Go, syncs
<1>0. /\ pc \in [Processes -> Places] /\ handle \in [Processes -> Handles \cup {None}]
      /\ aside \in [Processes -> Handles \cup {None}]
  BY DEF TypeOK
<1>1. ASSUME NEW p \in Processes, OpenStore(p) PROVE Stages'
  <2>1. \A q \in Processes \ {p} : pc'[q] = pc[q] /\ handle'[q] = handle[q] /\ aside'[q] = aside[q]
    BY <1>0, <1>1 DEF OpenStore
  <2>2. StageOf(p)'
    BY <1>0, <1>1 DEF OpenStore, Stages, StageOf, Shape, ShapeOf, Target
  <2>3. QED BY <2>1, <2>2, StageKept DEF Stages
<1>2. ASSUME NEW p \in Processes, ApplyMigration(p) PROVE Stages'
  <2>1. \A q \in Processes \ {p} : pc'[q] = pc[q] /\ handle'[q] = handle[q] /\ aside'[q] = aside[q]
    BY <1>0, <1>2, ApplyCommits, CommitEffect DEF ApplyMigration
  <2>2. StageOf(p)'
    <3>1. PICK db \in Databases : Commit(p, db) /\ db = [Target(p).db EXCEPT !.applied = @ \cup {Pending(p)}]
      BY <1>2, ApplyCommits
    <3>2. Target(p) \in Handles /\ Target(p).db \in Databases BY <1>2, TargetType DEF ApplyMigration
    <3>3. Target(p)'.db = db
      <4>1. Target(p)' = [Target(p) EXCEPT !.db = db, !.dirty = TRUE] BY <3>1, <3>2, CommitEffect
      <4>2. QED BY <3>2, <4>1 DEF Handles
    <3>4. QED BY <1>0, <1>2, <3>1, <3>2, <3>3 DEF ApplyMigration, Pending, Stages, StageOf, Databases
  <2>3. QED BY <2>1, <2>2, StageKept DEF Stages
<1>3. ASSUME NEW p \in Processes, RecordMigration(p) PROVE Stages'
  <2>1. \A q \in Processes \ {p} : pc'[q] = pc[q] /\ handle'[q] = handle[q] /\ aside'[q] = aside[q]
    BY <1>0, <1>3, RecordCommits, CommitEffect DEF RecordMigration
  <2>2. StageOf(p)'
    <3>1. PICK db \in Databases : Commit(p, db) /\ db = [Target(p).db EXCEPT !.version = @ + 1]
      BY <1>3, RecordCommits
    <3>2. Target(p) \in Handles /\ Target(p).db \in Databases BY <1>3, TargetType DEF RecordMigration
    <3>3. Target(p)'.db = db
      <4>1. Target(p)' = [Target(p) EXCEPT !.db = db, !.dirty = TRUE] BY <3>1, <3>2, CommitEffect
      <4>2. QED BY <3>2, <4>1 DEF Handles
    <3>4. QED BY <1>0, <1>3, <3>1, <3>2, <3>3 DEF RecordMigration, Pending, Stages, StageOf, Databases
  <2>3. QED BY <2>1, <2>2, StageKept DEF Stages
<1>4. ASSUME NEW p \in Processes, Migrated(p) PROVE Stages'
  <2>1. \A q \in Processes \ {p} : pc'[q] = pc[q] /\ handle'[q] = handle[q] /\ aside'[q] = aside[q]
    BY <1>0, <1>4 DEF Migrated
  <2>2. StageOf(p)'
    <3>1. Target(p).db \in Databases BY <1>4, TargetType DEF Migrated
    <3>2. Target(p).db.version = Versions
      BY <1>4, <3>1 DEF Migrated, Pending, Databases
    <3>3. QED BY <1>0, <1>4, <3>2 DEF Migrated, StageOf, Target
  <2>3. QED BY <2>1, <2>2, StageKept DEF Stages
<1>5. ASSUME NEW p \in Processes, IndexSegment(p) PROVE Stages'
  <2>1. \A q \in Processes \ {p} : pc'[q] = pc[q] /\ handle'[q] = handle[q] /\ aside'[q] = aside[q]
    BY <1>0, <1>5, IndexCommits, CommitEffect DEF IndexSegment
  <2>2. StageOf(p)'
    <3>1. PICK db \in Databases : Commit(p, db) /\ \E s \in Segments : db = [Target(p).db EXCEPT !.segs = @ \cup {s}]
      BY <1>5, IndexCommits
    <3>2. Target(p) \in Handles /\ Target(p).db \in Databases BY <1>5, TargetType DEF IndexSegment
    <3>3. Target(p)'.db = db
      <4>1. Target(p)' = [Target(p) EXCEPT !.db = db, !.dirty = TRUE] BY <3>1, <3>2, CommitEffect
      <4>2. QED BY <3>2, <4>1 DEF Handles
    <3>4. QED BY <1>0, <1>5, <3>1, <3>2, <3>3 DEF IndexSegment, Pending, Stages, StageOf, Databases
  <2>3. QED BY <2>1, <2>2, StageKept DEF Stages
<1>6. ASSUME NEW p \in Processes, CaughtUp(p) PROVE Stages'
  <2>1. \A q \in Processes \ {p} : pc'[q] = pc[q] /\ handle'[q] = handle[q] /\ aside'[q] = aside[q]
    BY <1>0, <1>6 DEF CaughtUp
  <2>2. StageOf(p)'
    BY <1>0, <1>6 DEF CaughtUp, Stages, StageOf, Shape, ShapeOf, Target
  <2>3. QED BY <2>1, <2>2, StageKept DEF Stages
<1>7. ASSUME NEW p \in Processes, AppendLog(p) PROVE Stages'
  <2>1. \A q \in Processes \ {p} : pc'[q] = pc[q] /\ handle'[q] = handle[q] /\ aside'[q] = aside[q]
    BY <1>0, <1>7 DEF AppendLog
  <2>2. StageOf(p)'
    BY <1>0, <1>7 DEF AppendLog, Stages, StageOf, Shape, ShapeOf, Target
  <2>3. QED BY <2>1, <2>2, StageKept DEF Stages
<1>8. ASSUME NEW p \in Processes, Close(p) PROVE Stages'
  <2>1. \A q \in Processes \ {p} : pc'[q] = pc[q] /\ handle'[q] = handle[q] /\ aside'[q] = aside[q]
    BY <1>0, <1>8 DEF Close
  <2>2. StageOf(p)'
    BY <1>0, <1>8 DEF Close, Stages, StageOf, Shape, ShapeOf, Target
  <2>3. QED BY <2>1, <2>2, StageKept DEF Stages
<1>9. ASSUME NEW p \in Processes, Attempt(p) PROVE Stages'
  <2>1. \A q \in Processes \ {p} : pc'[q] = pc[q] /\ handle'[q] = handle[q] /\ aside'[q] = aside[q]
    BY <1>0, <1>9 DEF Attempt
  <2>2. StageOf(p)'
    BY <1>0, <1>9 DEF Attempt, Stages, StageOf, Shape, ShapeOf, Target
  <2>3. QED BY <2>1, <2>2, StageKept DEF Stages
<1>10. ASSUME NEW p \in Processes, CutShort(p) PROVE Stages'
  <2>1. \A q \in Processes \ {p} : pc'[q] = pc[q] /\ handle'[q] = handle[q] /\ aside'[q] = aside[q]
    BY <1>0, <1>10 DEF CutShort
  <2>2. StageOf(p)'
    BY <1>0, <1>10 DEF CutShort, Stages, StageOf, Shape, ShapeOf, Target
  <2>3. QED BY <2>1, <2>2, StageKept DEF Stages
<1>11. ASSUME NEW p \in Processes, LoadStatus(p) PROVE Stages'
  <2>1. \A q \in Processes \ {p} : pc'[q] = pc[q] /\ handle'[q] = handle[q] /\ aside'[q] = aside[q]
    BY <1>0, <1>11 DEF LoadStatus
  <2>2. StageOf(p)'
    BY <1>0, <1>11 DEF LoadStatus, Stages, StageOf, Shape, ShapeOf, Target
  <2>3. QED BY <2>1, <2>2, StageKept DEF Stages
<1>12. ASSUME NEW p \in Processes, SaveStatus(p) PROVE Stages'
  <2>1. \A q \in Processes \ {p} : pc'[q] = pc[q] /\ handle'[q] = handle[q] /\ aside'[q] = aside[q]
    BY <1>0, <1>12 DEF SaveStatus
  <2>2. StageOf(p)'
    BY <1>0, <1>12 DEF SaveStatus, Stages, StageOf, Shape, ShapeOf, Target
  <2>3. QED BY <2>1, <2>2, StageKept DEF Stages
<1>13. ASSUME NEW p \in Processes, OpenForReplace(p) PROVE Stages'
  <2>1. \A q \in Processes \ {p} : pc'[q] = pc[q] /\ handle'[q] = handle[q] /\ aside'[q] = aside[q]
    BY <1>0, <1>13 DEF OpenForReplace
  <2>2. StageOf(p)'
    BY <1>0, <1>13 DEF OpenForReplace, Stages, StageOf, Shape, ShapeOf, Target
  <2>3. QED BY <2>1, <2>2, StageKept DEF Stages
<1>14. ASSUME NEW p \in Processes, RemoveOldBuild(p) PROVE Stages'
  <2>1. \A q \in Processes \ {p} : pc'[q] = pc[q] /\ handle'[q] = handle[q] /\ aside'[q] = aside[q]
    BY <1>0, <1>14 DEF RemoveOldBuild
  <2>2. StageOf(p)'
    BY <1>0, <1>14 DEF RemoveOldBuild, Stages, StageOf, Shape, ShapeOf, Target
  <2>3. QED BY <2>1, <2>2, StageKept DEF Stages
<1>15. ASSUME NEW p \in Processes, RemoveOldLog(p) PROVE Stages'
  <2>1. \A q \in Processes \ {p} : pc'[q] = pc[q] /\ handle'[q] = handle[q] /\ aside'[q] = aside[q]
    BY <1>0, <1>15 DEF RemoveOldLog
  <2>2. StageOf(p)'
    BY <1>0, <1>15 DEF RemoveOldLog, Stages, StageOf, Shape, ShapeOf, Target
  <2>3. QED BY <2>1, <2>2, StageKept DEF Stages
<1>16. ASSUME NEW p \in Processes, OpenBuild(p) PROVE Stages'
  <2>1. \A q \in Processes \ {p} : pc'[q] = pc[q] /\ handle'[q] = handle[q] /\ aside'[q] = aside[q]
    BY <1>0, <1>16 DEF OpenBuild
  <2>2. StageOf(p)'
    BY <1>0, <1>16 DEF OpenBuild, Stages, StageOf, Shape, ShapeOf, Target
  <2>3. QED BY <2>1, <2>2, StageKept DEF Stages
<1>17. ASSUME NEW p \in Processes, CloseBuild(p) PROVE Stages'
  <2>1. \A q \in Processes \ {p} : pc'[q] = pc[q] /\ handle'[q] = handle[q] /\ aside'[q] = aside[q]
    BY <1>0, <1>17 DEF CloseBuild
  <2>2. StageOf(p)'
    BY <1>0, <1>17 DEF CloseBuild, Stages, StageOf, Shape, ShapeOf, Target
  <2>3. QED BY <2>1, <2>2, StageKept DEF Stages
<1>18. ASSUME NEW p \in Processes, CheckpointOld(p) PROVE Stages'
  <2>1. \A q \in Processes \ {p} : pc'[q] = pc[q] /\ handle'[q] = handle[q] /\ aside'[q] = aside[q]
    BY <1>0, <1>18, MergeOldEffect DEF CheckpointOld, Shape, ShapeOf
  <2>2. StageOf(p)'
    BY <1>0, <1>18 DEF CheckpointOld, Stages, StageOf, Shape, ShapeOf, Target
  <2>3. QED BY <2>1, <2>2, StageKept DEF Stages
<1>19. ASSUME NEW p \in Processes, Rename(p) PROVE Stages'
  <2>1. \A q \in Processes \ {p} : pc'[q] = pc[q] /\ handle'[q] = handle[q] /\ aside'[q] = aside[q]
    BY <1>0, <1>19 DEF Rename
  <2>2. StageOf(p)'
    BY <1>0, <1>19 DEF Rename, Stages, StageOf, Shape, ShapeOf, Target
  <2>3. QED BY <2>1, <2>2, StageKept DEF Stages
<1>20. ASSUME NEW p \in Processes, CloseOld(p) PROVE Stages'
  <2>1. \A q \in Processes \ {p} : pc'[q] = pc[q] /\ handle'[q] = handle[q] /\ aside'[q] = aside[q]
    BY <1>0, <1>20 DEF CloseOld
  <2>2. StageOf(p)'
    BY <1>0, <1>20 DEF CloseOld, Stages, StageOf, Shape, ShapeOf, Target
  <2>3. QED BY <2>1, <2>2, StageKept DEF Stages
<1>21. ASSUME NEW p \in Processes, FailRebuild(p) PROVE Stages'
  <2>1. \A q \in Processes \ {p} : pc'[q] = pc[q] /\ handle'[q] = handle[q] /\ aside'[q] = aside[q]
    BY <1>0, <1>21 DEF FailRebuild
  <2>2. StageOf(p)'
    BY <1>0, <1>21 DEF FailRebuild, Stages, StageOf, Shape, ShapeOf, Target
  <2>3. QED BY <2>1, <2>2, StageKept DEF Stages
<1>22. ASSUME NEW p \in Processes, OpenReadOnly(p) PROVE Stages'
  <2>1. \A q \in Processes \ {p} : pc'[q] = pc[q] /\ handle'[q] = handle[q] /\ aside'[q] = aside[q]
    BY <1>0, <1>22 DEF OpenReadOnly
  <2>2. StageOf(p)'
    BY <1>0, <1>22 DEF OpenReadOnly, Stages, StageOf, Shape, ShapeOf, Target
  <2>3. QED BY <2>1, <2>2, StageKept DEF Stages
<1>23. ASSUME NEW p \in Processes, CloseReader(p) PROVE Stages'
  <2>1. \A q \in Processes \ {p} : pc'[q] = pc[q] /\ handle'[q] = handle[q] /\ aside'[q] = aside[q]
    BY <1>0, <1>23 DEF CloseReader
  <2>2. StageOf(p)'
    BY <1>0, <1>23 DEF CloseReader, Stages, StageOf, Shape, ShapeOf, Target
  <2>3. QED BY <2>1, <2>2, StageKept DEF Stages
<1>24. ASSUME NEW p \in Processes, Crash(p) PROVE Stages'
  <2>1. \A q \in Processes \ {p} : pc'[q] = pc[q] /\ handle'[q] = handle[q] /\ aside'[q] = aside[q]
    BY <1>0, <1>24 DEF Crash
  <2>2. StageOf(p)'
    BY <1>0, <1>24 DEF Crash, Stages, StageOf, Shape, ShapeOf, Target
  <2>3. QED BY <2>1, <2>2, StageKept DEF Stages
<1>25. CASE UNCHANGED vars
  BY <1>0, <1>25 DEF vars, Stages, StageOf, Target
<1>26. QED
  BY <1>1, <1>2, <1>3, <1>4, <1>5, <1>6, <1>7, <1>8, <1>9, <1>10, <1>11, <1>12, <1>13,
     <1>14, <1>15, <1>16, <1>17, <1>18, <1>19, <1>20, <1>21, <1>22, <1>23, <1>24, <1>25 DEF Next

-----------------------------------------------------------------------------
(* Storage. *)

LEMMA QuietOf ==
  ASSUME Storage, UNCHANGED disk, acked' = acked, NEW q \in Processes,
         pc'[q] = pc[q], handle'[q] = handle[q], aside'[q] = aside[q]
  PROVE  StorageOf(q)'
<1>1. \A n \in Paths : Stored(n)' = Stored(n) BY DEF Stored, disk
<1>2. StorageOf(q) BY DEF Storage
<1>3. wal' = wal BY DEF disk
<1>4. "archive" \in Paths /\ "rebuild" \in Paths BY DEF Paths
<1>5. QED BY <1>1, <1>2, <1>3, <1>4 DEF StorageOf

LEMMA QuietBase ==
  ASSUME TypeOK, Storage, UNCHANGED disk, acked' = acked, log' \in log..MaxSegments
  PROVE  LogsBelong' /\ AckedStored'
<1>1. \A n \in Paths : Stored(n)' = Stored(n) BY DEF Stored, disk
<1>2. LogsBelong' BY DEF Storage, LogsBelong, disk
<1>3. acked' \subseteq 1..log' BY DEF Storage, AckedStored, TypeOK
<1>4. "archive" \in Paths BY DEF Paths
<1>5. AckedStored' BY <1>1, <1>3, <1>4 DEF Storage, AckedStored, disk
<1>6. QED BY <1>2, <1>5

(* A process without handles, or with an old archive that it has yet to    *)
(* close, has no part in what is stored.                                   *)
LEMMA ApartOf ==
  ASSUME Storage, NEW q \in Processes, aside'[q] = None, pc'[q] = pc[q], handle'[q] = handle[q],
         handle[q] = None \/ pc[q] = "renamed", pc[q] \in {"idle", "syncing", "noting", "renamed"}
  PROVE  StorageOf(q)'
<1>1. pc[q] = "renamed" => ~handle[q].dirty BY DEF Storage, StorageOf
<1>2. QED BY <1>1 DEF StorageOf

LEMMA OthersApart ==
  ASSUME TypeOK, Shape, Locks, Storage, NEW p \in Processes, NEW q \in Processes \ {p},
         handle[p] # None, pc[p] \notin {"reading", "renamed"},
         aside'[q] = aside[q], pc'[q] = pc[q], handle'[q] = handle[q]
  PROVE  StorageOf(q)'
BY Alone, ApartOf

(* A statement changes what its path leads to.                             *)
LEMMA CommitStored ==
  ASSUME TypeOK, Shape, Locks, Storage, NEW p \in Processes, Target(p) \in Handles, NEW db \in Databases,
         handle[p] # None, pc[p] \notin {"reading", "renamed"}, Commit(p, db), acked' = acked, log' = log,
         Target(p).db.segs \subseteq db.segs,
         pc[p] \in {"migrating", "applied", "catching"}, pc'[p] \in {"migrating", "applied", "catching"},
         \A q \in Processes \ {p} : pc'[q] = pc[q]
  PROVE  Storage'
<1>0. PICK n \in Paths : n = Target(p).path BY DEF Handles
<1>1. /\ wal' = [wal EXCEPT ![n] = [of |-> Target(p).file, db |-> db]]
      /\ at' = at /\ file' = file
      /\ \A q \in Processes : Same(handle[q], handle'[q]) /\ Same(aside[q], aside'[q])
      /\ Target(p)' = [Target(p) EXCEPT !.db = db, !.dirty = TRUE]
      /\ \A q \in Processes \ {p} : handle'[q] = handle[q] /\ aside'[q] = aside[q]
      /\ aside[p] # None => handle'[p] = handle[p]
  BY <1>0, CommitEffect
<1>2. n \in Paths /\ Target(p).file = at[n] /\ at[n] # None
      /\ (aside[p] # None <=> n = "rebuild") /\ (aside[p] = None <=> n = "archive")
  <2>1. None \notin DOMAIN file BY DEF TypeOK
  <2>2. QED BY <1>0, <2>1 DEF Target, Shape, ShapeOf, Locks, Current, CurrentOf, Paths
<1>3. [of |-> Target(p).file, db |-> db] # None
  <2>1. [of |-> Target(p).file, db |-> db] \in Logs BY DEF Logs, Handles
  <2>2. QED BY <2>1, NotNone, Zenon
<1>4. /\ wal'[n] # None /\ wal'[n].of = at[n] /\ Stored(n)' = db
      /\ \A m \in Paths \ {n} : wal'[m] = wal[m] /\ Stored(m)' = Stored(m)
  BY <1>1, <1>2, <1>3 DEF TypeOK, Stored
<1>5. Target(p)'.db = db /\ Target(p)'.dirty BY <1>1 DEF Handles
<1>6. Target(p).db = Stored(n) BY <1>2 DEF Target, Storage, StorageOf
<1>7. LogsBelong' BY <1>1, <1>2, <1>4 DEF Storage, LogsBelong, Paths
<1>8. AckedStored' BY <1>1, <1>2, <1>4, <1>6 DEF Storage, AckedStored, Paths
<1>9. StorageOf(p)'
  <2>1. CASE aside[p] # None
    <3>1. aside'[p] # None BY <1>1, <2>1 DEF Same
    <3>2. aside'[p].db = db /\ aside'[p].dirty BY <1>5, <3>1 DEF Target
    <3>3. handle'[p] = handle[p] /\ n = "rebuild" BY <1>1, <1>2, <2>1
    <3>4. handle[p].db = Stored("archive") /\ (handle[p].dirty <=> wal["archive"] # None)
      BY DEF Storage, StorageOf
    <3>5. QED BY <1>4, <3>2, <3>3, <3>4 DEF StorageOf, Paths
  <2>2. CASE aside[p] = None
    <3>1. aside'[p] = None BY <1>1, <2>2 DEF Same
    <3>2. handle'[p].db = db /\ handle'[p].dirty BY <1>5, <3>1 DEF Target
    <3>3. n = "archive" BY <1>2, <2>2
    <3>4. QED BY <1>4, <3>1, <3>2, <3>3 DEF StorageOf, Paths
  <2>3. QED BY <2>1, <2>2
<1>10. \A q \in Processes \ {p} : StorageOf(q)' BY <1>1, OthersApart
<1>11. QED BY <1>7, <1>8, <1>9, <1>10 DEF Storage

(* Merging a write-ahead log changes nothing that is stored.               *)
LEMMA CheckpointStored ==
  ASSUME TypeOK, Apart, LogsBelong, NEW h \in Handles, h.file \in DOMAIN file,
         h.file = at[h.path], h.db = Stored(h.path), h.dirty <=> wal[h.path] # None,
         Checkpoint(h)
  PROVE  /\ wal'[h.path] = None
         /\ \A n \in Paths : n # h.path => wal'[n] = wal[n]
         /\ \A n \in Paths : at[n] # None => Stored(n)' = Stored(n)
         /\ LogsBelong'
         /\ at' = at
<1>1. h.path \in Paths BY DEF Handles
<1>2. at' = at BY CheckpointType
<1>3. CASE ~h.dirty
  <2>1. UNCHANGED disk BY <1>3 DEF Checkpoint
  <2>2. \A n \in Paths : Stored(n)' = Stored(n) BY <2>1 DEF Stored, disk
  <2>3. QED BY <1>3, <2>1, <2>2 DEF disk, LogsBelong
<1>4. CASE h.dirty
  <2>1. file' = [file EXCEPT ![h.file] = h.db] /\ wal' = [wal EXCEPT ![h.path] = None]
    BY <1>4 DEF Checkpoint
  <2>2. wal'[h.path] = None /\ \A n \in Paths : n # h.path => wal'[n] = wal[n]
    BY <1>1, <2>1 DEF TypeOK
  <2>3. Stored(h.path)' = h.db
    <3>1. file'[h.file] = h.db BY <2>1
    <3>2. QED BY <1>2, <2>2, <3>1 DEF Stored
  <2>4. ASSUME NEW n \in Paths, n # h.path, at[n] # None PROVE Stored(n)' = Stored(n)
    <3>1. at[n] # h.file BY <1>1, <2>4 DEF Apart, Paths
    <3>2. file'[at[n]] = file[at[n]] BY <2>1, <2>4, <3>1 DEF TypeOK
    <3>3. QED BY <1>2, <2>2, <2>4, <3>2 DEF Stored
  <2>5. LogsBelong' BY <1>1, <1>2, <2>2 DEF LogsBelong, Paths
  <2>6. QED BY <1>1, <1>2, <2>2, <2>3, <2>4, <2>5
<1>5. QED BY <1>3, <1>4

(* Opening a path changes nothing that is stored.                          *)
LEMMA OpenStored ==
  ASSUME TypeOK, Shape, Apart, LogsBelong, NEW n \in Paths, OpenPath(n), at[n] = None => wal[n] = None
  PROVE  /\ Handle(n).db = Stored(n)' /\ (Handle(n).dirty <=> wal'[n] # None)
         /\ \A m \in Paths : at[m] # None => at'[m] = at[m] /\ Stored(m)' = Stored(m)
         /\ wal' = wal
         /\ LogsBelong'
<1>1. wal' = wal BY OpenType
<1>2. CASE at[n] # None
  <2>1. UNCHANGED disk BY <1>2 DEF OpenPath
  <2>2. \A m \in Paths : Stored(m)' = Stored(m) BY <2>1 DEF Stored, disk
  <2>3. Handle(n) = [path |-> n, file |-> at[n], writes |-> TRUE, dirty |-> wal[n] # None,
                     db |-> Stored(n)]
    BY <1>2, HandleType
  <2>4. Handle(n).db = Stored(n) BY <2>3
  <2>5. Handle(n).dirty <=> wal[n] # None
    <3>1. Handle(n).dirty = (wal[n] # None) BY <2>3
    <3>2. QED BY <3>1
  <2>6. QED BY <1>1, <2>1, <2>2, <2>4, <2>5 DEF disk, LogsBelong
<1>3. CASE at[n] = None
  <2>1. /\ file' = Append(file, Empty) /\ at' = [at EXCEPT ![n] = Len(file) + 1]
        /\ Handle(n) = [path |-> n, file |-> Len(file) + 1, writes |-> TRUE, dirty |-> FALSE, db |-> Empty]
    BY <1>3 DEF OpenPath, Handle
  <2>2. file \in Seq(Databases) /\ Len(file) \in Nat /\ DOMAIN file = 1..Len(file) BY DEF TypeOK
  <2>3. file'[Len(file) + 1] = Empty /\ \A f \in DOMAIN file : file'[f] = file[f]
    BY <2>1, <2>2, EmptyType, AppendProperties
  <2>4. at'[n] = Len(file) + 1 /\ \A m \in Paths \ {n} : at'[m] = at[m] BY <2>1 DEF TypeOK
  <2>5. wal[n] = None BY <1>3
  <2>6. Stored(n)' = Empty BY <1>1, <2>3, <2>4, <2>5 DEF Stored
  <2>7. Handle(n).db = Empty /\ ~Handle(n).dirty BY <2>1
  <2>8. ASSUME NEW m \in Paths, at[m] # None PROVE at'[m] = at[m] /\ Stored(m)' = Stored(m)
    <3>1. m # n /\ at[m] \in DOMAIN file BY <1>3, <2>8 DEF TypeOK
    <3>2. QED BY <1>1, <2>3, <2>4, <3>1 DEF Stored
  <2>9. LogsBelong'
    <3>1. \A m \in Paths : at'[m] # None /\ wal'[m] # None => wal'[m].of = at'[m]
      BY <1>1, <2>4, <2>5 DEF LogsBelong
    <3>2. at'["archive"] = None => wal'["archive"] = None
      <4>1. CASE n = "archive" BY <1>1, <2>5, <4>1
      <4>2. CASE n # "archive" BY <1>1, <2>4, <4>2 DEF LogsBelong, Paths
      <4>3. QED BY <4>1, <4>2
    <3>3. QED BY <3>1, <3>2 DEF LogsBelong
  <2>10. QED BY <1>1, <2>5, <2>6, <2>7, <2>8, <2>9
<1>4. QED BY <1>2, <1>3

LEMMA QuietStored ==
  ASSUME UNCHANGED disk
  PROVE  /\ Stored("archive")' = Stored("archive") /\ Stored("rebuild")' = Stored("rebuild")
         /\ wal' = wal /\ at' = at
BY DEF Stored, disk

(* Who opens the archive has it to itself.                                 *)
LEMMA OpenAlone ==
  ASSUME TypeOK, Shape, Locks, NEW p \in Processes, OpenPath("archive")
  PROVE  \A q \in Processes \ {p} :
           /\ handle[q] = None \/ pc[q] = "renamed"
           /\ aside[q] = None
           /\ pc[q] \in {"idle", "syncing", "noting", "renamed"}
<1>1. "archive" \in Paths /\ None \notin DOMAIN file BY DEF Paths, TypeOK
<1>2. Apart /\ Current BY DEF Locks
<1>3. ASSUME NEW q \in Processes PROVE handle[q] = None \/ pc[q] = "renamed"
  <2>1. handle[q] # None => handle[q].file # at'["archive"] BY <1>1, <1>2, OpenFresh
  <2>2. at["archive"] # None => at' = at BY <1>1, <1>2, OpenFresh
  <2>3. handle[q] # None => handle[q].file # None BY <1>1 DEF Shape, ShapeOf
  <2>4. handle[q] # None /\ pc[q] # "renamed" => handle[q].file = at["archive"] BY <1>2 DEF Current, CurrentOf
  <2>5. QED BY <2>1, <2>2, <2>3, <2>4
<1>4. QED BY <1>3 DEF Shape, ShapeOf

(* Opening the archive, to index or to replace it.                         *)
LEMMA OpenedStorage ==
  ASSUME TypeOK, Shape, Locks, Storage, NEW p \in Processes, OpenPath("archive"),
         handle' = [handle EXCEPT ![p] = Handle("archive")], aside' = aside, aside[p] = None,
         NEW l \in {"migrating", "replacing"}, Go(p, l), acked' = acked, log' = log
  PROVE  Storage'
<1>1. "archive" \in Paths /\ (at["archive"] = None => wal["archive"] = None) /\ Apart /\ LogsBelong
  BY DEF Paths, Storage, LogsBelong, Locks
<1>2. /\ Handle("archive").db = Stored("archive")' /\ (Handle("archive").dirty <=> wal'["archive"] # None)
      /\ at["archive"] # None => at'["archive"] = at["archive"] /\ Stored("archive")' = Stored("archive")
      /\ LogsBelong'
  BY <1>1, OpenStored
<1>3. handle'[p] = Handle("archive") /\ pc'[p] = l /\ aside'[p] = None BY DEF TypeOK, Go
<1>4. StorageOf(p)' BY <1>2, <1>3 DEF StorageOf
<1>5. ASSUME NEW q \in Processes \ {p} PROVE StorageOf(q)'
  <2>1. pc'[q] = pc[q] /\ handle'[q] = handle[q] /\ aside'[q] = aside[q] BY DEF TypeOK, Go
  <2>2. /\ handle[q] = None \/ pc[q] = "renamed"
        /\ aside[q] = None
        /\ pc[q] \in {"idle", "syncing", "noting", "renamed"}
    BY OpenAlone
  <2>3. QED BY <2>1, <2>2, ApartOf
<1>6. AckedStored' BY <1>2 DEF Storage, AckedStored
<1>7. QED BY <1>2, <1>4, <1>5, <1>6 DEF Storage

(* A step of one process that leaves the disk alone.                       *)
LEMMA QuietStorage ==
  ASSUME TypeOK, Storage, UNCHANGED disk, acked' = acked, log' \in log..MaxSegments, NEW p \in Processes,
         \A q \in Processes \ {p} : pc'[q] = pc[q] /\ handle'[q] = handle[q] /\ aside'[q] = aside[q],
         StorageOf(p)'
  PROVE  Storage'
BY QuietOf, QuietBase DEF Storage

LEMMA StorageStep ==
  TypeOK /\ Shape /\ Locks /\ AllSound /\ Stages /\ Storage /\ [Next]_vars => Storage'
<1> SUFFICES ASSUME TypeOK, Shape, Locks, AllSound, Stages, Storage, [Next]_vars PROVE Storage'
  OBVIOUS
<1> USE DEF Go, syncs
<1>0. /\ pc \in [Processes -> Places] /\ handle \in [Processes -> Handles \cup {None}]
      /\ aside \in [Processes -> Handles \cup {None}]
      /\ log \in log..MaxSegments /\ None \notin DOMAIN file
      /\ \A p \in Processes : StorageOf(p) /\ ShapeOf(p) /\ CurrentOf(p)
      /\ Apart /\ LogsBelong /\ AckedStored
  BY DEF TypeOK, Storage, Shape, Locks, Current
<1>1. ASSUME NEW p \in Processes, OpenStore(p) PROVE Storage'
  <2>1. aside[p] = None BY <1>0, <1>1 DEF OpenStore, ShapeOf
  <2>2. QED BY <1>1, <2>1, OpenedStorage DEF OpenStore
<1>2. ASSUME NEW p \in Processes, ApplyMigration(p) PROVE Storage'
  <2>1. /\ handle[p] # None /\ pc[p] \notin {"reading", "renamed"}
        /\ pc[p] \in {"migrating", "applied", "catching"} /\ pc'[p] \in {"migrating", "applied", "catching"}
        /\ acked' = acked /\ log' = log
        /\ \A q \in Processes \ {p} : pc'[q] = pc[q]
    BY <1>0, <1>2 DEF ApplyMigration, ShapeOf
  <2>2. PICK db \in Databases : Commit(p, db) /\ db = [Target(p).db EXCEPT !.applied = @ \cup {Pending(p)}]
    BY <1>2, ApplyCommits
  <2>3. Target(p) \in Handles /\ Target(p).db \in Databases BY <2>1, TargetType
  <2>4. Target(p).db.segs \subseteq db.segs BY <2>2, <2>3 DEF Databases
  <2>5. QED BY <2>1, <2>2, <2>3, <2>4, CommitStored
<1>3. ASSUME NEW p \in Processes, RecordMigration(p) PROVE Storage'
  <2>1. /\ handle[p] # None /\ pc[p] \notin {"reading", "renamed"}
        /\ pc[p] \in {"migrating", "applied", "catching"} /\ pc'[p] \in {"migrating", "applied", "catching"}
        /\ acked' = acked /\ log' = log
        /\ \A q \in Processes \ {p} : pc'[q] = pc[q]
    BY <1>0, <1>3 DEF RecordMigration, ShapeOf
  <2>2. PICK db \in Databases : Commit(p, db) /\ db = [Target(p).db EXCEPT !.version = @ + 1]
    BY <1>3, RecordCommits
  <2>3. Target(p) \in Handles /\ Target(p).db \in Databases BY <2>1, TargetType
  <2>4. Target(p).db.segs \subseteq db.segs BY <2>2, <2>3 DEF Databases
  <2>5. QED BY <2>1, <2>2, <2>3, <2>4, CommitStored
<1>4. ASSUME NEW p \in Processes, Migrated(p) PROVE Storage'
  <2>1. UNCHANGED disk /\ acked' = acked /\ log' \in log..MaxSegments
    BY <1>0, <1>4 DEF Migrated, TypeOK
  <2>2. \A q \in Processes \ {p} : pc'[q] = pc[q] /\ handle'[q] = handle[q] /\ aside'[q] = aside[q]
    BY <1>0, <1>4 DEF Migrated
  <2>3. StorageOf(p)'
    BY <1>0, <1>4, <2>1, QuietStored DEF Migrated, StorageOf, ShapeOf
  <2>4. QED BY <2>1, <2>2, <2>3, QuietStorage
<1>5. ASSUME NEW p \in Processes, IndexSegment(p) PROVE Storage'
  <2>1. /\ handle[p] # None /\ pc[p] \notin {"reading", "renamed"}
        /\ pc[p] \in {"migrating", "applied", "catching"} /\ pc'[p] \in {"migrating", "applied", "catching"}
        /\ acked' = acked /\ log' = log
        /\ \A q \in Processes \ {p} : pc'[q] = pc[q]
    BY <1>0, <1>5 DEF IndexSegment, ShapeOf
  <2>2. PICK db \in Databases : Commit(p, db) /\ \E s \in Segments : db = [Target(p).db EXCEPT !.segs = @ \cup {s}]
    BY <1>5, IndexCommits
  <2>3. Target(p) \in Handles /\ Target(p).db \in Databases BY <2>1, TargetType
  <2>4. Target(p).db.segs \subseteq db.segs BY <2>2, <2>3 DEF Databases
  <2>5. QED BY <2>1, <2>2, <2>3, <2>4, CommitStored
<1>6. ASSUME NEW p \in Processes, CaughtUp(p) PROVE Storage'
  <2>1. UNCHANGED disk /\ acked' = acked /\ log' \in log..MaxSegments
    BY <1>0, <1>6 DEF CaughtUp, TypeOK
  <2>2. \A q \in Processes \ {p} : pc'[q] = pc[q] /\ handle'[q] = handle[q] /\ aside'[q] = aside[q]
    BY <1>0, <1>6 DEF CaughtUp
  <2>3. StorageOf(p)'
    <3>1. acked \subseteq Segments BY <1>0 DEF AckedStored, Segments
    <3>2. pc'[p] = "built" => aside[p] # None /\ Segments \subseteq aside[p].db.segs
      BY <1>0, <1>6 DEF CaughtUp, Target
    <3>3. QED BY <1>0, <1>6, <2>1, <3>1, <3>2, QuietStored DEF CaughtUp, StorageOf, ShapeOf
  <2>4. QED BY <2>1, <2>2, <2>3, QuietStorage
<1>7. ASSUME NEW p \in Processes, AppendLog(p) PROVE Storage'
  <2>1. UNCHANGED disk /\ acked' = acked /\ log' \in log..MaxSegments
    BY <1>0, <1>7 DEF AppendLog, TypeOK
  <2>2. \A q \in Processes \ {p} : pc'[q] = pc[q] /\ handle'[q] = handle[q] /\ aside'[q] = aside[q]
    BY <1>0, <1>7 DEF AppendLog
  <2>3. StorageOf(p)'
    BY <1>0, <1>7, <2>1, QuietStored DEF AppendLog, StorageOf, ShapeOf
  <2>4. QED BY <2>1, <2>2, <2>3, QuietStorage
<1>8. ASSUME NEW p \in Processes, Close(p) PROVE Storage'
  <2>1. handle[p] # None /\ pc[p] \notin {"reading", "renamed"} /\ aside[p] = None
    BY <1>8 DEF Close
  <2>2. \A q \in Processes \ {p} : pc'[q] = pc[q] /\ handle'[q] = handle[q] /\ aside'[q] = aside[q]
    BY <1>0, <1>8 DEF Close
  <2>3. /\ handle[p] \in Handles /\ handle[p].file \in DOMAIN file /\ handle[p].path = "archive"
        /\ handle[p].file = at["archive"] /\ handle[p].db = Stored("archive")
        /\ handle[p].dirty <=> wal["archive"] # None
    BY <1>0, <2>1 DEF ShapeOf, CurrentOf, StorageOf
  <2>4. at["archive"] # None /\ "archive" \in Paths BY <1>0, <2>3 DEF Paths
  <2>5. LogsBelong' /\ at' = at /\ Stored("archive")' = Stored("archive")
    BY <1>0, <1>8, <2>3, <2>4, CheckpointStored DEF Close
  <2>6. AckedStored'
    <3>1. acked' = acked \cup handle[p].db.segs /\ log' = log BY <1>8 DEF Close
    <3>2. handle[p].db.segs \subseteq 1..log BY <2>1 DEF AllSound, Sound
    <3>3. QED BY <1>0, <2>3, <2>4, <2>5, <3>1, <3>2 DEF AckedStored
  <2>7. StorageOf(p)' BY <1>0, <1>8, <2>1 DEF Close, StorageOf
  <2>8. QED BY <2>1, <2>2, <2>5, <2>6, <2>7, OthersApart DEF Storage
<1>9. ASSUME NEW p \in Processes, Attempt(p) PROVE Storage'
  <2>1. UNCHANGED disk /\ acked' = acked /\ log' \in log..MaxSegments
    BY <1>0, <1>9 DEF Attempt, TypeOK
  <2>2. \A q \in Processes \ {p} : pc'[q] = pc[q] /\ handle'[q] = handle[q] /\ aside'[q] = aside[q]
    BY <1>0, <1>9 DEF Attempt
  <2>3. StorageOf(p)'
    BY <1>0, <1>9, <2>1, QuietStored DEF Attempt, StorageOf, ShapeOf
  <2>4. QED BY <2>1, <2>2, <2>3, QuietStorage
<1>10. ASSUME NEW p \in Processes, CutShort(p) PROVE Storage'
  <2>1. UNCHANGED disk /\ acked' = acked /\ log' \in log..MaxSegments
    BY <1>0, <1>10 DEF CutShort, TypeOK
  <2>2. \A q \in Processes \ {p} : pc'[q] = pc[q] /\ handle'[q] = handle[q] /\ aside'[q] = aside[q]
    BY <1>0, <1>10 DEF CutShort
  <2>3. StorageOf(p)'
    BY <1>0, <1>10, <2>1, QuietStored DEF CutShort, StorageOf, ShapeOf
  <2>4. QED BY <2>1, <2>2, <2>3, QuietStorage
<1>11. ASSUME NEW p \in Processes, LoadStatus(p) PROVE Storage'
  <2>1. UNCHANGED disk /\ acked' = acked /\ log' \in log..MaxSegments
    BY <1>0, <1>11 DEF LoadStatus, TypeOK
  <2>2. \A q \in Processes \ {p} : pc'[q] = pc[q] /\ handle'[q] = handle[q] /\ aside'[q] = aside[q]
    BY <1>0, <1>11 DEF LoadStatus
  <2>3. StorageOf(p)'
    BY <1>0, <1>11, <2>1, QuietStored DEF LoadStatus, StorageOf, ShapeOf
  <2>4. QED BY <2>1, <2>2, <2>3, QuietStorage
<1>12. ASSUME NEW p \in Processes, SaveStatus(p) PROVE Storage'
  <2>1. UNCHANGED disk /\ acked' = acked /\ log' \in log..MaxSegments
    BY <1>0, <1>12 DEF SaveStatus, TypeOK
  <2>2. \A q \in Processes \ {p} : pc'[q] = pc[q] /\ handle'[q] = handle[q] /\ aside'[q] = aside[q]
    BY <1>0, <1>12 DEF SaveStatus
  <2>3. StorageOf(p)'
    BY <1>0, <1>12, <2>1, QuietStored DEF SaveStatus, StorageOf, ShapeOf
  <2>4. QED BY <2>1, <2>2, <2>3, QuietStorage
<1>13. ASSUME NEW p \in Processes, OpenForReplace(p) PROVE Storage'
  <2>1. aside[p] = None BY <1>0, <1>13 DEF OpenForReplace, ShapeOf
  <2>2. QED BY <1>13, <2>1, OpenedStorage DEF OpenForReplace
<1>14. ASSUME NEW p \in Processes, RemoveOldBuild(p) PROVE Storage'
  <2>1. /\ handle[p] # None /\ aside[p] = None /\ pc[p] = "replacing" /\ pc'[p] = "removed"
        /\ handle' = handle /\ aside' = aside /\ wal' = wal /\ acked' = acked /\ log' = log
    BY <1>0, <1>14 DEF RemoveOldBuild, ShapeOf
  <2>2. \A q \in Processes \ {p} : pc'[q] = pc[q] /\ handle'[q] = handle[q] /\ aside'[q] = aside[q]
    BY <1>0, <1>14 DEF RemoveOldBuild
  <2>3. at'["archive"] = at["archive"] /\ at'["rebuild"] = None
    BY <1>14 DEF RemoveOldBuild, TypeOK, Paths
  <2>4. at["archive"] # None BY <1>0, <2>1 DEF ShapeOf, CurrentOf
  <2>5. Stored("archive")' = Stored("archive")
    <3>1. file'[at["archive"]] = file[at["archive"]]
      BY <1>0, <1>14, <2>4 DEF RemoveOldBuild, Unlink, Apart, TypeOK, Paths
    <3>2. QED BY <2>1, <2>3, <3>1 DEF Stored
  <2>6. LogsBelong' BY <1>0, <2>1, <2>3 DEF LogsBelong, Paths
  <2>7. AckedStored' BY <1>0, <2>1, <2>3, <2>5 DEF AckedStored
  <2>8. StorageOf(p)' BY <1>0, <2>1, <2>5 DEF StorageOf
  <2>9. QED BY <2>1, <2>2, <2>6, <2>7, <2>8, OthersApart DEF Storage
<1>15. ASSUME NEW p \in Processes, RemoveOldLog(p) PROVE Storage'
  <2>1. /\ handle[p] # None /\ aside[p] = None /\ pc[p] = "removed" /\ pc'[p] = "clean"
        /\ handle' = handle /\ aside' = aside /\ at' = at /\ file' = file /\ acked' = acked /\ log' = log
    BY <1>0, <1>15 DEF RemoveOldLog, ShapeOf
  <2>2. \A q \in Processes \ {p} : pc'[q] = pc[q] /\ handle'[q] = handle[q] /\ aside'[q] = aside[q]
    BY <1>0, <1>15 DEF RemoveOldLog
  <2>3. wal'["archive"] = wal["archive"] /\ wal'["rebuild"] = None
    BY <1>15 DEF RemoveOldLog, TypeOK, Paths
  <2>4. Stored("archive")' = Stored("archive") BY <2>1, <2>3 DEF Stored
  <2>5. LogsBelong' BY <1>0, <2>1, <2>3 DEF LogsBelong, Paths
  <2>6. AckedStored' BY <1>0, <2>1, <2>4 DEF AckedStored
  <2>7. StorageOf(p)' BY <1>0, <2>1, <2>3, <2>4 DEF StorageOf
  <2>8. QED BY <2>1, <2>2, <2>5, <2>6, <2>7, OthersApart DEF Storage
<1>16. ASSUME NEW p \in Processes, OpenBuild(p) PROVE Storage'
  <2>1. /\ handle[p] # None /\ aside[p] = None /\ pc[p] = "clean" /\ pc'[p] = "migrating"
        /\ handle' = handle /\ acked' = acked /\ log' = log
        /\ aside'[p] = Handle("rebuild")
        /\ OpenPath("rebuild") /\ "rebuild" \in Paths
    BY <1>0, <1>16 DEF OpenBuild, ShapeOf, Paths
  <2>2. \A q \in Processes \ {p} : pc'[q] = pc[q] /\ handle'[q] = handle[q] /\ aside'[q] = aside[q]
    BY <1>0, <1>16 DEF OpenBuild
  <2>3. at["rebuild"] = None => wal["rebuild"] = None BY <1>0, <2>1 DEF StorageOf
  <2>4. /\ Handle("rebuild").db = Stored("rebuild")' /\ (Handle("rebuild").dirty <=> wal'["rebuild"] # None)
        /\ \A m \in Paths : at[m] # None => at'[m] = at[m] /\ Stored(m)' = Stored(m)
        /\ wal' = wal
        /\ LogsBelong'
    BY <1>0, <2>1, <2>3, OpenStored
  <2>5. at["archive"] # None /\ "archive" \in Paths BY <1>0, <2>1 DEF ShapeOf, CurrentOf, Paths
  <2>6. at'["archive"] = at["archive"] /\ Stored("archive")' = Stored("archive") BY <2>4, <2>5
  <2>7. AckedStored' BY <1>0, <2>1, <2>6 DEF AckedStored
  <2>8. StorageOf(p)' BY <1>0, <2>1, <2>4, <2>6 DEF StorageOf
  <2>9. QED BY <2>1, <2>2, <2>4, <2>7, <2>8, OthersApart DEF Storage
<1>17. ASSUME NEW p \in Processes, CloseBuild(p) PROVE Storage'
  <2>1. /\ handle[p] # None /\ aside[p] # None /\ pc[p] = "built" /\ pc'[p] = "swapping"
        /\ handle' = handle /\ aside'[p] = None /\ acked' = acked /\ log' = log
    BY <1>0, <1>17 DEF CloseBuild, ShapeOf
  <2>2. \A q \in Processes \ {p} : pc'[q] = pc[q] /\ handle'[q] = handle[q] /\ aside'[q] = aside[q]
    BY <1>0, <1>17 DEF CloseBuild
  <2>3. /\ aside[p] \in Handles /\ aside[p].file \in DOMAIN file /\ aside[p].path = "rebuild"
        /\ aside[p].file = at["rebuild"] /\ aside[p].db = Stored("rebuild")
        /\ aside[p].dirty <=> wal["rebuild"] # None
    BY <1>0, <2>1 DEF ShapeOf, CurrentOf, StorageOf
  <2>4. "archive" \in Paths /\ "rebuild" \in Paths BY DEF Paths
  <2>5. Apart /\ LogsBelong /\ Checkpoint(aside[p]) BY <1>0, <1>17 DEF CloseBuild
  <2>6. /\ wal'["rebuild"] = None /\ wal'["archive"] = wal["archive"]
        /\ at["archive"] # None => Stored("archive")' = Stored("archive")
        /\ at["rebuild"] # None => Stored("rebuild")' = Stored("rebuild")
        /\ LogsBelong'
        /\ at' = at
    <3>1. /\ wal'[aside[p].path] = None
          /\ \A n \in Paths : n # aside[p].path => wal'[n] = wal[n]
          /\ \A n \in Paths : at[n] # None => Stored(n)' = Stored(n)
          /\ LogsBelong'
          /\ at' = at
      BY <2>3, <2>5, CheckpointStored
    <3>2. QED BY <2>3, <2>4, <3>1
  <2>7. at["archive"] # None /\ Stored("archive")' = Stored("archive")
    BY <1>0, <2>1, <2>6 DEF ShapeOf, CurrentOf
  <2>8. at["rebuild"] # None BY <1>0, <2>1, <2>3
  <2>9. AckedStored' BY <1>0, <2>1, <2>6, <2>7 DEF AckedStored
  <2>10. acked' \subseteq Stored("rebuild")'.segs BY <1>0, <2>1, <2>3, <2>6, <2>8 DEF StorageOf
  <2>11. StorageOf(p)' BY <1>0, <2>1, <2>6, <2>7, <2>10 DEF StorageOf
  <2>12. QED BY <2>1, <2>2, <2>6, <2>9, <2>11, OthersApart DEF Storage
<1>18. ASSUME NEW p \in Processes, CheckpointOld(p) PROVE Storage'
  <2>1. /\ handle[p] # None /\ aside[p] = None /\ pc[p] = "swapping" /\ pc'[p] = "merged"
        /\ aside' = aside /\ acked' = acked /\ log' = log
    BY <1>0, <1>18 DEF CheckpointOld, ShapeOf
  <2>2. \A q \in Processes \ {p} : pc'[q] = pc[q] /\ handle'[q] = handle[q] /\ aside'[q] = aside[q]
    BY <1>0, <1>18, <2>1, MergeOldEffect DEF CheckpointOld
  <2>3. /\ handle[p] \in Handles /\ handle[p].file \in DOMAIN file /\ handle[p].path = "archive"
        /\ handle[p].file = at["archive"] /\ handle[p].db = Stored("archive")
        /\ handle[p].dirty <=> wal["archive"] # None
    BY <1>0, <2>1 DEF ShapeOf, CurrentOf, StorageOf
  <2>4. "archive" \in Paths /\ "rebuild" \in Paths BY DEF Paths
  <2>5. Apart /\ LogsBelong /\ Checkpoint(handle[p]) BY <1>0, <1>18 DEF CheckpointOld
  <2>6. /\ wal'["archive"] = None /\ wal'["rebuild"] = wal["rebuild"]
        /\ at["archive"] # None => Stored("archive")' = Stored("archive")
        /\ at["rebuild"] # None => Stored("rebuild")' = Stored("rebuild")
        /\ LogsBelong'
        /\ at' = at
    <3>1. /\ wal'[handle[p].path] = None
          /\ \A n \in Paths : n # handle[p].path => wal'[n] = wal[n]
          /\ \A n \in Paths : at[n] # None => Stored(n)' = Stored(n)
          /\ LogsBelong'
          /\ at' = at
      BY <2>3, <2>5, CheckpointStored
    <3>2. QED BY <2>3, <2>4, <3>1
  <2>7. at["archive"] # None /\ Stored("archive")' = Stored("archive")
    BY <1>0, <2>1, <2>6 DEF ShapeOf, CurrentOf
  <2>8. at["rebuild"] # None BY <1>0, <2>1 DEF CurrentOf
  <2>9. AckedStored' BY <1>0, <2>1, <2>6, <2>7 DEF AckedStored
  <2>10. acked' \subseteq Stored("rebuild")'.segs BY <1>0, <2>1, <2>6, <2>8 DEF StorageOf
  <2>11. handle'[p] = [handle[p] EXCEPT !.dirty = FALSE] BY <1>0, <1>18, <2>1, MergeOldEffect
  <2>12. handle'[p].db = handle[p].db /\ ~handle'[p].dirty BY <2>3, <2>11 DEF Handles
  <2>13. StorageOf(p)' BY <1>0, <2>1, <2>3, <2>6, <2>7, <2>10, <2>12 DEF StorageOf
  <2>14. QED BY <2>1, <2>2, <2>6, <2>9, <2>13, OthersApart DEF Storage
<1>19. ASSUME NEW p \in Processes, Rename(p) PROVE Storage'
  <2>1. /\ handle[p] # None /\ aside[p] = None /\ pc[p] = "merged" /\ pc'[p] = "renamed"
        /\ handle' = handle /\ aside' = aside /\ wal' = wal /\ acked' = acked /\ log' = log
    BY <1>0, <1>19 DEF Rename, ShapeOf
  <2>2. \A q \in Processes \ {p} : pc'[q] = pc[q] /\ handle'[q] = handle[q] /\ aside'[q] = aside[q]
    BY <1>0, <1>19 DEF Rename
  <2>3. at'["archive"] = at["rebuild"] /\ at'["rebuild"] = None /\ at["rebuild"] # None /\ at["archive"] # None
    BY <1>0, <1>19, <2>1 DEF Rename, TypeOK, Paths, CurrentOf, ShapeOf
  <2>4. wal["archive"] = None /\ wal["rebuild"] = None BY <1>0, <2>1 DEF StorageOf
  <2>5. file'[at["rebuild"]] = file[at["rebuild"]]
    BY <1>0, <1>19, <2>3 DEF Rename, Unlink, Apart, TypeOK, Paths
  <2>6. Stored("archive")' = Stored("rebuild") BY <2>1, <2>3, <2>4, <2>5 DEF Stored
  <2>7. LogsBelong' BY <2>1, <2>4 DEF LogsBelong, Paths
  <2>8. acked \subseteq Stored("rebuild").segs /\ ~handle[p].dirty BY <1>0, <2>1 DEF StorageOf
  <2>9. AckedStored' BY <1>0, <2>1, <2>3, <2>6, <2>8 DEF AckedStored
  <2>10. StorageOf(p)' BY <2>1, <2>8 DEF StorageOf
  <2>11. QED BY <2>1, <2>2, <2>7, <2>9, <2>10, OthersApart DEF Storage
<1>20. ASSUME NEW p \in Processes, CloseOld(p) PROVE Storage'
  <2>1. UNCHANGED disk /\ acked' = acked /\ log' \in log..MaxSegments
    BY <1>0, <1>20 DEF CloseOld, Checkpoint, StorageOf
  <2>2. \A q \in Processes \ {p} : pc'[q] = pc[q] /\ handle'[q] = handle[q] /\ aside'[q] = aside[q]
    BY <1>0, <1>20 DEF CloseOld
  <2>3. StorageOf(p)'
    BY <1>0, <1>20 DEF CloseOld, StorageOf, ShapeOf
  <2>4. QED BY <2>1, <2>2, <2>3, QuietStorage
<1>21. ASSUME NEW p \in Processes, FailRebuild(p) PROVE Storage'
  <2>1. /\ acked' = acked /\ log' = log /\ aside'[p] = None
        /\ handle'[p] = IF pc[p] = "failed" THEN None ELSE handle[p]
    BY <1>0, <1>21 DEF FailRebuild
  <2>2. \A q \in Processes \ {p} : pc'[q] = pc[q] /\ handle'[q] = handle[q] /\ aside'[q] = aside[q]
    BY <1>0, <1>21 DEF FailRebuild
  <2>3. CASE aside[p] # None /\ Checkpoint(aside[p]) /\ Go(p, "failed")
    <3>1. /\ handle[p] # None /\ pc[p] \notin {"reading", "renamed", "failed"} /\ pc'[p] = "failed"
          /\ handle'[p] = handle[p]
      BY <1>0, <2>1, <2>3 DEF ShapeOf
    <3>2. /\ aside[p] \in Handles /\ aside[p].file \in DOMAIN file /\ aside[p].path = "rebuild"
          /\ aside[p].file = at["rebuild"] /\ aside[p].db = Stored("rebuild")
          /\ aside[p].dirty <=> wal["rebuild"] # None
      BY <1>0, <2>3 DEF ShapeOf, CurrentOf, StorageOf
    <3>3. at["archive"] # None /\ "archive" \in Paths BY <1>0, <3>1 DEF ShapeOf, CurrentOf, Paths
    <3>4. /\ wal'["archive"] = wal["archive"] /\ Stored("archive")' = Stored("archive")
          /\ LogsBelong' /\ at' = at
      BY <1>0, <2>3, <3>2, <3>3, CheckpointStored
    <3>5. AckedStored' BY <1>0, <2>1, <3>4 DEF AckedStored
    <3>6. StorageOf(p)' BY <1>0, <2>1, <3>1, <3>4 DEF StorageOf
    <3>7. QED BY <2>2, <3>1, <3>4, <3>5, <3>6, OthersApart DEF Storage
  <2>4. CASE /\ aside[p] = None /\ UNCHANGED disk /\ Go(p, "failed")
             /\ pc[p] \in {"replacing", "removed", "clean", "swapping", "merged"}
    <3>1. StorageOf(p)' BY <1>0, <2>1, <2>4, QuietStored DEF StorageOf
    <3>2. QED BY <1>0, <2>1, <2>2, <2>4, <3>1, QuietStorage
  <2>5. CASE pc[p] = "failed" /\ Checkpoint(handle[p]) /\ Go(p, "idle")
    <3>1. handle[p] # None /\ pc'[p] = "idle" /\ handle'[p] = None BY <1>0, <2>1, <2>5 DEF ShapeOf
    <3>2. /\ handle[p] \in Handles /\ handle[p].file \in DOMAIN file /\ handle[p].path = "archive"
          /\ handle[p].file = at["archive"] /\ handle[p].db = Stored("archive")
          /\ handle[p].dirty <=> wal["archive"] # None
      BY <1>0, <2>5, <3>1 DEF ShapeOf, CurrentOf, StorageOf
    <3>3. at["archive"] # None /\ "archive" \in Paths BY <1>0, <3>2 DEF Paths
    <3>4. Stored("archive")' = Stored("archive") /\ LogsBelong' /\ at' = at
      BY <1>0, <2>5, <3>2, <3>3, CheckpointStored
    <3>5. AckedStored' BY <1>0, <2>1, <3>4 DEF AckedStored
    <3>6. StorageOf(p)' BY <2>1, <3>1 DEF StorageOf
    <3>7. pc[p] \notin {"reading", "renamed"} BY <2>5
    <3>8. QED BY <2>2, <3>1, <3>4, <3>5, <3>6, <3>7, OthersApart DEF Storage
  <2>6. QED BY <1>21, <2>3, <2>4, <2>5 DEF FailRebuild
<1>22. ASSUME NEW p \in Processes, OpenReadOnly(p) PROVE Storage'
  <2>1. UNCHANGED disk /\ acked' = acked /\ log' \in log..MaxSegments
    BY <1>0, <1>22 DEF OpenReadOnly, TypeOK
  <2>2. \A q \in Processes \ {p} : pc'[q] = pc[q] /\ handle'[q] = handle[q] /\ aside'[q] = aside[q]
    BY <1>0, <1>22, ReaderEffect DEF OpenReadOnly
  <2>3. StorageOf(p)'
    BY <1>0, <1>22, <2>1, QuietStored DEF OpenReadOnly, StorageOf, ShapeOf
  <2>4. QED BY <2>1, <2>2, <2>3, QuietStorage
<1>23. ASSUME NEW p \in Processes, CloseReader(p) PROVE Storage'
  <2>1. UNCHANGED disk /\ acked' = acked /\ log' \in log..MaxSegments
    BY <1>0, <1>23 DEF CloseReader, TypeOK
  <2>2. \A q \in Processes \ {p} : pc'[q] = pc[q] /\ handle'[q] = handle[q] /\ aside'[q] = aside[q]
    BY <1>0, <1>23 DEF CloseReader
  <2>3. StorageOf(p)'
    BY <1>0, <1>23, <2>1, QuietStored DEF CloseReader, StorageOf, ShapeOf
  <2>4. QED BY <2>1, <2>2, <2>3, QuietStorage
<1>24. ASSUME NEW p \in Processes, Crash(p) PROVE Storage'
  <2>1. UNCHANGED disk /\ acked' = acked /\ log' \in log..MaxSegments
    BY <1>0, <1>24 DEF Crash, TypeOK
  <2>2. \A q \in Processes \ {p} : pc'[q] = pc[q] /\ handle'[q] = handle[q] /\ aside'[q] = aside[q]
    BY <1>0, <1>24 DEF Crash
  <2>3. StorageOf(p)'
    BY <1>0, <1>24, <2>1, QuietStored DEF Crash, StorageOf, ShapeOf
  <2>4. QED BY <2>1, <2>2, <2>3, QuietStorage
<1>25. CASE UNCHANGED vars
  BY <1>0, <1>25, QuietOf, QuietBase DEF vars, disk, Storage
<1>26. QED
  BY <1>1, <1>2, <1>3, <1>4, <1>5, <1>6, <1>7, <1>8, <1>9, <1>10, <1>11, <1>12, <1>13,
     <1>14, <1>15, <1>16, <1>17, <1>18, <1>19, <1>20, <1>21, <1>22, <1>23, <1>24, <1>25 DEF Next

-----------------------------------------------------------------------------
(* The notes. *)

LEMMA LeastOf ==
  ASSUME NEW T \in SUBSET Nat, T # {}
  PROVE  \E n \in T : \A m \in T : n <= m
<1> DEFINE R == {ss \in Nat \X Nat : ss[1] < ss[2]}
<1>1. IsWellFoundedOn(R, Nat) BY NatLessThanWellFounded DEF OpToRel
<1> HIDE DEF R
<1>2. PICK n \in T : \A m \in T : ~ (<<m, n>> \in R) BY <1>1, WFMin
<1> USE DEF R
<1>3. ASSUME NEW m \in T PROVE n <= m
  <2>1. <<m, n>> \in Nat \X Nat /\ <<m, n>>[1] = m /\ <<m, n>>[2] = n OBVIOUS
  <2>2. ~(m < n) BY <1>2, <2>1
  <2>3. QED BY <2>2
<1>4. QED BY <1>3

LEMMA LastType ==
  ASSUME NEW a \in Seq(BOOLEAN)
  PROVE  /\ Last(a) \in 0..Len(a)
         /\ \A i \in Succeeded(a) : i \in 1..Len(a) /\ i <= Last(a)
         /\ Last(a) > 0 => Last(a) \in Succeeded(a)
<1>1. Succeeded(a) \subseteq 1..Len(a) /\ Len(a) \in Nat BY DEF Succeeded
<1>2. CASE Succeeded(a) = {}
  BY <1>1, <1>2 DEF Last
<1>3. CASE Succeeded(a) # {}
  <2> DEFINE Mirror == {Len(a) - i : i \in Succeeded(a)}
  <2>1. Mirror \in SUBSET Nat /\ Mirror # {} BY <1>1, <1>3
  <2>2. PICK n \in Mirror : \A m \in Mirror : n <= m BY <2>1, LeastOf
  <2>3. PICK j \in Succeeded(a) : n = Len(a) - j BY <2>2
  <2>4. ASSUME NEW i \in Succeeded(a) PROVE j >= i
    <3>1. Len(a) - i \in Mirror BY <2>4
    <3>2. n <= Len(a) - i BY <2>2, <3>1
    <3>3. i \in Nat /\ j \in Nat /\ Len(a) \in Nat BY <1>1
    <3>4. QED BY <2>3, <3>2, <3>3
  <2>5. /\ Max(Succeeded(a)) \in Succeeded(a)
        /\ \A i \in Succeeded(a) : Max(Succeeded(a)) >= i
    BY <2>3, <2>4 DEF Max
  <2>6. Last(a) = Max(Succeeded(a)) BY <1>3 DEF Last
  <2>7. QED BY <1>1, <2>5, <2>6
<1>4. QED BY <1>2, <1>3

(* What one more attempt leaves.                                           *)
LEMMA LeftAfter ==
  ASSUME NEW a \in Seq(BOOLEAN), Len(a) > 0
  PROVE  /\ a[Len(a)] => Left(a) = [success |-> Len(a), since |-> 0]
         /\ ~a[Len(a)] => Left(a) = [Left(SubSeq(a, 1, Len(a) - 1)) EXCEPT
                                       !.since = IF @ = 0 THEN Len(a) ELSE @]
<1> DEFINE n == Len(a)
           b == SubSeq(a, 1, n - 1)
<1>0. n \in Nat \ {0} /\ DOMAIN a = 1..n /\ \A i \in 1..n : a[i] \in BOOLEAN
  OBVIOUS
<1>1. CASE a[n]
  <2>1. n \in Succeeded(a) BY <1>0, <1>1 DEF Succeeded
  <2>2. Last(a) = n BY <1>0, <2>1, LastType
  <2>3. QED BY <1>1, <2>2 DEF Left
<1>2. CASE ~a[n]
  <2>1. /\ b \in Seq(BOOLEAN) /\ Len(b) = n - 1
        /\ \A i \in 1..(n - 1) : b[i] = a[i]
    <3>1. \A i \in 1..(n - 1) : a[i] \in BOOLEAN BY <1>0
    <3>2. 1 \in Int /\ n - 1 \in Int BY <1>0
    <3>3. /\ b \in Seq(BOOLEAN)
          /\ Len(b) = IF 1 <= n - 1 THEN (n - 1) - 1 + 1 ELSE 0
          /\ \A i \in 1..((n - 1) - 1 + 1) : b[i] = a[1 + i - 1]
      BY <3>1, <3>2, SubSeqProperties
    <3>4. Len(b) = n - 1 BY <1>0, <3>3
    <3>5. ASSUME NEW i \in 1..(n - 1) PROVE b[i] = a[i]
      <4>1. i \in 1..((n - 1) - 1 + 1) /\ 1 + i - 1 = i BY <1>0, <3>5
      <4>2. QED BY <3>3, <4>1
    <3>6. QED BY <3>3, <3>4, <3>5
  <2>2. Succeeded(b) = Succeeded(a)
    <3>1. DOMAIN b = 1..(n - 1) BY <2>1
    <3>2. ASSUME NEW i \in 1..n PROVE i \in Succeeded(a) <=> i \in Succeeded(b)
      <4>1. CASE i = n BY <1>0, <1>2, <3>1, <4>1 DEF Succeeded
      <4>2. CASE i # n
        <5>0. n \in Nat /\ i \in 1..n BY <1>0, <3>2
        <5> HIDE DEF n
        <5>1. i \in 1..(n - 1) BY <4>2, <5>0
        <5>2. b[i] = a[i] BY <2>1, <5>1
        <5>3. QED BY <1>0, <3>1, <5>1, <5>2 DEF Succeeded
      <4>3. QED BY <4>1, <4>2
    <3>3. Succeeded(a) \subseteq 1..n /\ Succeeded(b) \subseteq 1..n BY <1>0, <3>1 DEF Succeeded
    <3>4. QED BY <3>2, <3>3
  <2>3. Last(b) = Last(a) BY <2>2 DEF Last
  <2>4. Last(b) \in 0..(n - 1) BY <2>1, LastType
  <2> HIDE DEF b
  <2>5. Left(b) = [success |-> Last(a), since |-> IF Last(a) = n - 1 THEN 0 ELSE Last(a) + 1]
    BY <2>1, <2>3 DEF Left
  <2>6. Left(a) = [success |-> Last(a), since |-> Last(a) + 1] BY <1>0, <2>3, <2>4 DEF Left
  <2>7. [Left(b) EXCEPT !.since = IF @ = 0 THEN n ELSE @] = [success |-> Last(a), since |-> Last(a) + 1]
    BY <1>0, <2>3, <2>4, <2>5
  <2>8. QED BY <1>2, <2>6, <2>7 DEF b
<1>3. QED BY <1>1, <1>2 DEF b

LEMMA NotedStep == TypeOK /\ Shape /\ Noted /\ [Next]_vars => Noted'
<1> SUFFICES ASSUME TypeOK, Shape, Noted, [Next]_vars PROVE Noted'
  OBVIOUS
<1>0. /\ attempts \in Seq(BOOLEAN) /\ Len(attempts) \in Nat
      /\ note \in [Processes -> Notes \cup {None}] /\ unsure \in BOOLEAN
  BY DEF TypeOK
<1>1. ASSUME NEW p \in Processes, Attempt(p) PROVE Noted'
  <2>1. PICK ok \in BOOLEAN :
          /\ attempts' = Append(attempts, ok)
          /\ note'[p] = [ok |-> ok, time |-> Len(attempts) + 1, read |-> None,
                         alone |-> ~\E q \in Processes : note[q] # None]
          /\ note'[p] # None
          /\ \A q \in Processes \ {p} :
               /\ note'[q] # None <=> note[q] # None
               /\ note'[q] # None => ~note'[q].alone
    BY <1>1, AttemptEffect
  <2>2. status' = status /\ unsure' = unsure BY <1>1 DEF Attempt
  <2>3. /\ Len(attempts') = Len(attempts) + 1 /\ attempts'[Len(attempts')] = ok
        /\ SubSeq(attempts', 1, Len(attempts') - 1) = attempts
    <3>1. /\ attempts' \in Seq(BOOLEAN) /\ Len(attempts') = Len(attempts) + 1
          /\ \A i \in 1..Len(attempts) : attempts'[i] = attempts[i]
          /\ attempts'[Len(attempts) + 1] = ok
      BY <1>0, <2>1, AppendProperties
    <3>2. SubSeq(attempts', 1, Len(attempts)) = attempts
      <4> DEFINE b == SubSeq(attempts', 1, Len(attempts))
      <4>1. \A i \in 1..Len(attempts) : attempts'[i] \in BOOLEAN BY <1>0, <3>1
      <4>2. /\ b \in Seq(BOOLEAN)
            /\ Len(b) = IF 1 <= Len(attempts) THEN Len(attempts) - 1 + 1 ELSE 0
            /\ \A i \in 1..(Len(attempts) - 1 + 1) : b[i] = attempts'[1 + i - 1]
        BY <1>0, <4>1, SubSeqProperties
      <4>3. Len(b) = Len(attempts) BY <1>0, <4>2
      <4>4. ASSUME NEW i \in 1..Len(b) PROVE b[i] = attempts[i]
        <5>1. i \in 1..(Len(attempts) - 1 + 1) /\ 1 + i - 1 = i /\ i \in 1..Len(attempts)
          BY <1>0, <4>3, <4>4
        <5>2. QED BY <3>1, <4>2, <5>1
      <4>5. QED BY <1>0, <4>2, <4>3, <4>4, SeqEqual
    <3>3. Len(attempts') - 1 = Len(attempts) BY <1>0, <3>1
    <3>4. QED BY <3>1, <3>2, <3>3
  <2>4. note'[p].alone => /\ \A q \in Processes : note[q] = None
                          /\ \A q \in Processes \ {p} : note'[q] = None
    <3>1. note'[p].alone = ~\E q \in Processes : note[q] # None BY <2>1
    <3>2. note'[p].alone => \A q \in Processes : note[q] = None BY <3>1
    <3>3. \A q \in Processes \ {p} : note'[q] # None <=> note[q] # None BY <2>1
    <3>4. QED BY <3>2, <3>3
  <2>5. note'[p].time = Len(attempts) + 1 /\ note'[p].read = None /\ note'[p].ok = ok
    BY <2>1
  <2>6. \A q \in Processes \ {p} : note'[q] # None => ~note'[q].alone BY <2>1
  <2>7. note'[p] # None BY <2>1
  <2>8. (\A q \in Processes : note[q] = None) /\ ~unsure => status = Left(attempts) BY DEF Noted
  <2>9. QED BY <2>2, <2>3, <2>4, <2>5, <2>6, <2>7, <2>8 DEF Noted
<1>2. ASSUME NEW p \in Processes, LoadStatus(p) PROVE Noted'
  <2>1. note[p] # None BY <1>2 DEF LoadStatus, Shape, ShapeOf
  <2>2. /\ note'[p].ok = note[p].ok /\ note'[p].time = note[p].time
        /\ note'[p].alone = note[p].alone
        /\ ~unsure' => ~unsure /\ note'[p].read = status
        /\ note'[p] # None
        /\ \A q \in Processes \ {p} : note'[q] = note[q]
    BY <1>2, <2>1, LoadEffect
  <2>3. status' = status /\ attempts' = attempts BY <1>2 DEF LoadStatus
  <2>4. ASSUME NEW q \in Processes \ {p} PROVE note'[q] # None => ~note'[q].alone
    BY <2>1, <2>2 DEF Noted
  <2>5. QED BY <2>1, <2>2, <2>3, <2>4 DEF Noted
<1>3. ASSUME NEW p \in Processes, SaveStatus(p) PROVE Noted'
  <2>1. note[p] # None /\ note[p].read # None BY <1>3 DEF SaveStatus, Shape, ShapeOf
  <2>2. /\ attempts' = attempts
        /\ note' = [note EXCEPT ![p] = None]
        /\ ~unsure' => /\ status' = After(note[p])
                       /\ note[p].alone /\ (~unsure \/ note[p].ok)
    BY <1>3 DEF SaveStatus
  <2>3. note[p] \in Notes BY <1>0, <2>1
  <2>4. note'[p] = None /\ \A q \in Processes \ {p} : note'[q] = note[q] BY <1>0, <2>2
  <2>5. ASSUME NEW q \in Processes PROVE note'[q] # None => ~note'[q].alone
    BY <2>1, <2>4 DEF Noted
  <2>6. ASSUME ~unsure' PROVE status' = Left(attempts)
    <3>1. note[p].alone /\ (~unsure \/ note[p].ok) BY <2>2, <2>6
    <3>2. /\ note[p].time = Len(attempts)
          /\ note[p].ok <=> attempts[Len(attempts)]
          /\ ~unsure => /\ note[p].read \in {None, status}
                        /\ status = Left(SubSeq(attempts, 1, Len(attempts) - 1))
      BY <2>1, <3>1 DEF Noted
    <3>3. Len(attempts) > 0 BY <1>0, <2>3, <3>2 DEF Notes
    <3>5. CASE note[p].ok
      <4>1. attempts[Len(attempts)] BY <3>2, <3>5
      <4>2. Left(attempts) = [success |-> Len(attempts), since |-> 0] BY <1>0, <3>3, <4>1, LeftAfter
      <4>3. After(note[p]) = [success |-> note[p].time, since |-> 0] BY <3>5 DEF After
      <4>4. QED BY <2>2, <2>6, <3>2, <4>2, <4>3
    <3>6. CASE ~note[p].ok
      <4>1. ~attempts[Len(attempts)] /\ ~unsure BY <3>1, <3>2, <3>6
      <4>2. status = Left(SubSeq(attempts, 1, Len(attempts) - 1)) BY <3>2, <4>1
      <4>3. Left(attempts) = [status EXCEPT !.since = IF @ = 0 THEN Len(attempts) ELSE @]
        BY <1>0, <3>3, <4>1, <4>2, LeftAfter
      <4>4. After(note[p]) = [status EXCEPT !.since = IF @ = 0 THEN Len(attempts) ELSE @]
        BY <2>1, <3>2, <3>6, <4>1 DEF After
      <4>5. QED BY <2>2, <2>6, <4>3, <4>4
    <3>7. QED BY <3>5, <3>6
  <2>7. QED BY <2>2, <2>5, <2>6 DEF Noted
<1>4. ASSUME NEW p \in Processes, Crash(p) PROVE Noted'
  <2>1. /\ status' = status /\ attempts' = attempts /\ unsure' = (unsure \/ note[p] # None)
        /\ note'[p] = None /\ \A q \in Processes \ {p} : note'[q] = note[q]
    BY <1>0, <1>4 DEF Crash
  <2>2. CASE note[p] = None
    <3>1. note' = note
      <4>1. note' = [note EXCEPT ![p] = None] BY <1>4 DEF Crash
      <4>2. QED BY <1>0, <2>2, <4>1
    <3>2. unsure' = unsure BY <1>0, <2>1, <2>2
    <3>3. QED BY <2>1, <3>1, <3>2 DEF Noted
  <2>3. CASE note[p] # None
    <3>1. unsure' BY <2>1, <2>3
    <3>2. ASSUME NEW q \in Processes PROVE note'[q] # None => ~note'[q].alone
      BY <2>1, <2>3 DEF Noted
    <3>3. QED BY <3>1, <3>2 DEF Noted
  <2>4. QED BY <2>2, <2>3
<1>5. CASE UNCHANGED syncs
  <2>1. status' = status /\ note' = note /\ attempts' = attempts /\ unsure' = unsure BY <1>5 DEF syncs
  <2>2. QED BY <2>1 DEF Noted
<1>6. UNCHANGED vars => UNCHANGED syncs BY DEF vars, syncs
<1>7. QED
  BY <1>1, <1>2, <1>3, <1>4, <1>5, <1>6
     DEF Next, OpenStore, ApplyMigration, RecordMigration, Migrated, IndexSegment, CaughtUp, AppendLog,
         Close, CutShort, OpenForReplace, RemoveOldBuild, RemoveOldLog, OpenBuild, CloseBuild,
         CheckpointOld, Rename, CloseOld, FailRebuild, OpenReadOnly, CloseReader

-----------------------------------------------------------------------------
(* The specification. *)

LEMMA Initially == Init => IInv
<1> SUFFICES ASSUME Init PROVE IInv
  OBVIOUS
<1>1. /\ file = << >> /\ DOMAIN file = {} /\ Len(file) = 0
      /\ \A n \in Paths : at[n] = None /\ wal[n] = None
      /\ \A p \in Processes : pc[p] = "idle" /\ handle[p] = None /\ aside[p] = None /\ note[p] = None
      /\ acked = {} /\ attempts = << >> /\ Len(attempts) = 0
      /\ "archive" \in Paths /\ "rebuild" \in Paths
  BY DEF Init, Paths
<1>2. TypeOK
  <2>1. file \in Seq(Databases) /\ Len(file) <= MaxFiles BY <1>1
  <2>2. at \in [Paths -> DOMAIN file \cup {None}] /\ wal \in [Paths -> Logs \cup {None}] BY DEF Init
  <2>3. /\ log \in 0..MaxSegments /\ status \in Statuses /\ identity \in BOOLEAN
    <3>1. log \in 0..MaxSegments BY DEF Init
    <3>2. status \in Statuses BY DEF Init, Statuses, NoStatus
    <3>3. identity \in BOOLEAN BY DEF Init
    <3>4. QED BY <3>1, <3>2, <3>3
  <2>4. /\ pc \in [Processes -> Places] /\ handle \in [Processes -> Handles \cup {None}]
        /\ aside \in [Processes -> Handles \cup {None}] /\ note \in [Processes -> Notes \cup {None}]
    BY DEF Init, Places
  <2>5. attempts \in Seq(BOOLEAN) /\ Len(attempts) <= MaxAttempts /\ unsure \in BOOLEAN
    <3>1. attempts \in Seq(BOOLEAN) BY <1>1
    <3>2. Len(attempts) <= MaxAttempts BY <1>1
    <3>3. unsure \in BOOLEAN BY DEF Init
    <3>4. QED BY <3>1, <3>2, <3>3
  <2>6. QED BY <1>1, <2>1, <2>2, <2>3, <2>4, <2>5 DEF TypeOK
<1>3. Shape BY <1>1 DEF Shape, ShapeOf
<1>4. Locks BY <1>1 DEF Locks, Current, CurrentOf, Apart, Exclusive, ReadersRead
<1>5. AllSound BY <1>1 DEF AllSound
<1>6. Stages BY <1>1 DEF Stages, StageOf
<1>7. Storage BY <1>1 DEF Storage, LogsBelong, AckedStored, StorageOf
<1>8. Noted
  <2>1. Succeeded(attempts) = {} BY <1>1 DEF Succeeded
  <2>2. Left(attempts) = [success |-> 0, since |-> 0] BY <1>1, <2>1 DEF Left, Last
  <2>3. QED BY <1>1, <2>2 DEF Noted, Init, NoStatus
<1>9. QED BY <1>2, <1>3, <1>4, <1>5, <1>6, <1>7, <1>8 DEF IInv

LEMMA Inductive == Spec => []IInv
<1>1. IInv /\ [Next]_vars => IInv'
  BY TypeStep, ShapeStep, LocksStep, SoundStep, StageStep, StorageStep, NotedStep DEF IInv
<1>2. QED BY Initially, <1>1, PTL DEF Spec

(* Every variable keeps its type, through the migrations, swaps and crashes *)
(* of any number of processes.                                              *)
THEOREM TypeCorrect == Spec => []TypeOK
<1>1. IInv => TypeOK BY DEF IInv
<1>2. QED BY Inductive, <1>1, PTL

(* However many processes open, rebuild and swap the archive, one at most  *)
(* appends to the log: the lock on the file that the archive's path leads  *)
(* to is held by whoever indexes or works, and rebuild keeps the lock on   *)
(* the old file until the new one has its name.                            *)
THEOREM Appenders == Spec => []OneAppender
<1>1. TypeOK /\ Shape /\ Locks => OneAppender
  <2> SUFFICES ASSUME TypeOK, Shape, Locks, NEW p \in Processes, NEW q \in Processes,
                      {pc[p], pc[q]} \subseteq {"catching", "working"}
               PROVE  p = q
    BY DEF OneAppender
  <2>1. handle[p] # None /\ pc[p] \notin {"reading", "renamed"} BY DEF Shape, ShapeOf
  <2>2. QED BY <2>1, Alone
<1>2. QED BY Inductive, <1>1, PTL DEF IInv

(* Whatever crashed between a migration and the record of it, segments are *)
(* only indexed in a database to which all migrations, and no others, have *)
(* been applied.                                                           *)
THEOREM SchemasComplete == Spec => []SchemaComplete
<1>1. TypeOK /\ Shape /\ AllSound /\ Stages => SchemaComplete
  <2> SUFFICES ASSUME TypeOK, Shape, AllSound, Stages, NEW p \in Processes,
                      pc[p] \in {"catching", "working", "built"}
               PROVE  Target(p).db.applied = 1..Versions
    BY DEF SchemaComplete
  <2>1. Target(p).db \in Databases BY TargetType
  <2>2. Target(p).db.version = Versions BY DEF Stages, StageOf
  <2>3. Sound(Target(p).db, log)
    BY DEF AllSound, Target, Shape, ShapeOf
  <2>4. QED BY <2>1, <2>2, <2>3 DEF Sound, Databases
<1>2. QED BY Inductive, <1>1, PTL DEF IInv

(* Segments that were indexed when the archive was closed are found under  *)
(* its path ever after, through crashes, migrations and rebuilds, and no   *)
(* write-ahead log is ever next to a file it does not belong to.           *)
THEOREM IndexKept == Spec => []IndexedKept
<1>1. Storage => IndexedKept BY DEF Storage, LogsBelong, AckedStored, IndexedKept
<1>2. QED BY Inductive, <1>1, PTL DEF IInv

(* sync-state.json names the last success and the first failure after it,  *)
(* after any number of attempts of any processes, unless the notes of two  *)
(* overlapped or one was lost and no success was noted alone since.        *)
THEOREM StatusTrue == Spec => []StatusTruthful
<1>1. Noted => StatusTruthful
  <2> SUFFICES ASSUME Noted, ~unsure, \A p \in Processes : note[p] = None
               PROVE  status = Left(attempts)
    BY DEF StatusTruthful, Left, Last, Succeeded
  <2>1. QED BY DEF Noted
<1>2. QED BY Inductive, <1>1, PTL DEF IInv

=============================================================================
