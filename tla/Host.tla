-------------------------------- MODULE Host --------------------------------
(***************************************************************************)
(* The files of a data directory and the processes of one machine that use *)
(* them: commands and the daemon open the archive, migrate its schema,     *)
(* index the segments of the log, append to the log and close; rebuild     *)
(* makes a new archive aside and renames it over the old one, whose lock   *)
(* it holds; readers open the archive in between; the daemon syncs without *)
(* it; and every sync notes its outcome in sync-state.json.                *)
(*                                                                         *)
(* A DuckDB database is a file and a write-ahead log, which DuckDB finds   *)
(* by the path of the file.  A lock is on the file itself, wherever its    *)
(* path leads by then.  A statement is durable once it returns.            *)
(***************************************************************************)
EXTENDS Integers, Sequences, FiniteSets, FiniteSetsExt

CONSTANTS
  Processes,
  None,          \* no file, no process, nothing open
  Versions,      \* the last migration's number
  Once,          \* the migrations that fail when they have been applied before
  MaxSegments,   \* bound: segments in the log
  MaxFiles,      \* bound: database files ever made
  MaxAttempts    \* bound: attempts to sync

Paths == {"archive", "rebuild"}   \* the archive's, and with .rebuild after it

(* What a database holds, what a process has open of one, sync-state.json, *)
(* and the outcome of an attempt to sync.                                  *)
Databases == [segs : SUBSET (1..MaxSegments), applied : SUBSET (1..Versions), version : 0..Versions]
Logs == [of : 1..MaxFiles, db : Databases]
Handles == [path : Paths, file : 1..MaxFiles, writes : BOOLEAN, dirty : BOOLEAN, db : Databases]
Statuses == [success : 0..MaxAttempts, since : 0..MaxAttempts]
Notes == [ok : BOOLEAN, time : 1..MaxAttempts, read : Statuses \cup {None}, alone : BOOLEAN]

NoStatus == [success |-> 0, since |-> 0]

ASSUME HostAssumption ==
  /\ Versions \in Nat \ {0}
  /\ MaxSegments \in Nat /\ MaxFiles \in Nat /\ MaxAttempts \in Nat
  /\ None \notin Nat \cup Logs \cup Handles \cup Statuses \cup Notes

VARIABLES
  \* The directory.
  at,        \* the file a path leads to, or None
  wal,       \* the write-ahead log next to a path: of which file, and what it leads to; or None
  file,      \* for each file ever made, what is in it: segments and schema
  identity,  \* the log has its identity.json
  log,       \* how many segments the log has
  status,    \* sync-state.json; a time is the number of an attempt
  \* The processes.
  pc,        \* where a process is
  handle,    \* the archive as it has it open, or None
  aside,     \* the database it builds aside, or None
  note,      \* the outcome of a sync it has yet to write down, or None
  \* History.
  acked,     \* segments that were indexed when a process closed the archive
  attempts,  \* the outcomes of all syncs, in the order of their times
  unsure     \* since the last lone success notes have overlapped or been lost, or
             \* the record could not be read

disk == <<at, wal, file>>
syncs == <<status, note, attempts, unsure>>
vars == <<at, wal, file, identity, log, status, pc, handle, aside, note, acked, attempts, unsure>>

Init ==
  /\ at = [n \in Paths |-> None]
  /\ wal = [n \in Paths |-> None]
  /\ file = << >>
  /\ log \in 0..MaxSegments    \* a log can outlive an archive
  /\ identity \in BOOLEAN /\ (log > 0 => identity)
  /\ status = NoStatus
  /\ pc = [p \in Processes |-> "idle"]
  /\ handle = [p \in Processes |-> None]
  /\ aside = [p \in Processes |-> None]
  /\ note = [p \in Processes |-> None]
  /\ acked = {}
  /\ attempts = << >>
  /\ unsure = FALSE

Segments == 1..log

-----------------------------------------------------------------------------
(* DuckDB. *)

Empty == [segs |-> {}, applied |-> {}, version |-> 0]

(* What a file holds, with the write-ahead log next to the path. *)
Stored(n) == IF wal[n] # None /\ wal[n].of = at[n] THEN wal[n].db ELSE file[at[n]]

Opened(p) == {handle[p], aside[p]} \ {None}

(* A file that no path leads to any more is as good as empty: it is not    *)
(* opened again.                                                           *)
Unlink(n) == file' = IF at[n] = None THEN file ELSE [file EXCEPT ![at[n]] = Empty]

(* No process has the file open; or none for writing. *)
Free(f)     == \A q \in Processes : \A h \in Opened(q) : h.file # f
Readable(f) == \A q \in Processes : \A h \in Opened(q) : h.file # f \/ ~h.writes

(* Opening a path locks its file, and makes it if there is none.  A dirty  *)
(* database has a write-ahead log that is not merged yet.                  *)
Handle(n) ==
  IF at[n] = None
  THEN [path |-> n, file |-> Len(file) + 1, writes |-> TRUE, dirty |-> FALSE, db |-> Empty]
  ELSE [path |-> n, file |-> at[n], writes |-> TRUE, dirty |-> wal[n] # None, db |-> Stored(n)]

OpenPath(n) ==
  \/ /\ at[n] # None
     /\ Free(at[n])
     /\ UNCHANGED disk
  \/ /\ at[n] = None
     /\ Len(file) < MaxFiles
     /\ file' = Append(file, Empty)
     /\ at' = [at EXCEPT ![n] = Len(file) + 1]
     /\ UNCHANGED wal

(* Merging the write-ahead log removes it, by its path.  Closing merges    *)
(* what is dirty, and leaves what is not alone.                            *)
Checkpoint(h) ==
  IF h.dirty
  THEN /\ file' = [file EXCEPT ![h.file] = h.db]
       /\ wal' = [wal EXCEPT ![h.path] = None]
       /\ UNCHANGED at
  ELSE UNCHANGED disk

-----------------------------------------------------------------------------
(* Opening for writing (store.Open and CatchUp): the archive, or what      *)
(* rebuild makes aside.                                                    *)
Target(p) == IF aside[p] # None THEN aside[p] ELSE handle[p]

Go(p, l) == pc' = [pc EXCEPT ![p] = l]

(* A statement that leaves db in the database. *)
Commit(p, db) ==
  LET h == [Target(p) EXCEPT !.db = db, !.dirty = TRUE]
  IN  /\ wal' = [wal EXCEPT ![h.path] = [of |-> h.file, db |-> db]]
      /\ IF aside[p] # None
         THEN aside' = [aside EXCEPT ![p] = h] /\ UNCHANGED handle
         ELSE handle' = [handle EXCEPT ![p] = h] /\ UNCHANGED aside
      /\ UNCHANGED <<at, file>>

OpenStore(p) ==
  /\ pc[p] = "idle"
  /\ OpenPath("archive")
  /\ handle' = [handle EXCEPT ![p] = Handle("archive")]
  /\ Go(p, "migrating")
  /\ UNCHANGED <<identity, log, aside, acked, syncs>>

(* migrate applies what comes after the recorded version, in order, and    *)
(* records each.  What fails closes the database (see Close).              *)
Pending(p) == Target(p).db.version + 1

ApplyMigration(p) ==
  /\ pc[p] = "migrating"
  /\ Pending(p) <= Versions
  /\ Pending(p) \notin Once \cap Target(p).db.applied
  /\ Commit(p, [Target(p).db EXCEPT !.applied = @ \cup {Pending(p)}])
  /\ Go(p, "applied")
  /\ UNCHANGED <<identity, log, acked, syncs>>

(* Mutant: the last version is recorded after any migration. *)
RecordLast(p) ==
  /\ pc[p] = "applied"
  /\ Commit(p, [Target(p).db EXCEPT !.version = Versions])
  /\ Go(p, "migrating")
  /\ UNCHANGED <<identity, log, acked, syncs>>

RecordMigration(p) ==
  /\ pc[p] = "applied"
  /\ Commit(p, [Target(p).db EXCEPT !.version = @ + 1])
  /\ Go(p, "migrating")
  /\ UNCHANGED <<identity, log, acked, syncs>>

(* The log is opened, which makes its identity. *)
Migrated(p) ==
  /\ pc[p] = "migrating"
  /\ Pending(p) > Versions
  /\ identity' = TRUE
  /\ Go(p, "catching")
  /\ UNCHANGED <<disk, log, handle, aside, acked, syncs>>

(* CatchUp: the segments that are not indexed yet, in some order. *)
IndexSegment(p) ==
  /\ pc[p] = "catching"
  /\ \E s \in Segments \ Target(p).db.segs :
       Commit(p, [Target(p).db EXCEPT !.segs = @ \cup {s}])
  /\ UNCHANGED <<identity, log, pc, acked, syncs>>

CaughtUp(p) ==
  /\ pc[p] = "catching"
  /\ Segments \subseteq Target(p).db.segs
  /\ Go(p, IF aside[p] # None THEN "built" ELSE "working")
  /\ UNCHANGED <<identity, disk, log, handle, aside, acked, syncs>>

(* A command or the daemon logs what it collects or imports, and catches   *)
(* up again.                                                               *)
AppendLog(p) ==
  /\ pc[p] = "working"
  /\ log < MaxSegments
  /\ log' = log + 1
  /\ Go(p, "catching")
  /\ UNCHANGED <<identity, disk, handle, aside, acked, syncs>>

(* Closing, at the end or because a step failed.  The daemon closes the    *)
(* archive to sync without it.                                             *)
Close(p) ==
  /\ handle[p] # None /\ handle[p].writes /\ aside[p] = None
  /\ pc[p] \in {"migrating", "applied", "catching", "working"}
  /\ Checkpoint(handle[p])
  /\ handle' = [handle EXCEPT ![p] = None]
  /\ acked' = acked \cup handle[p].db.segs
  /\ \/ Go(p, "idle")
     \/ pc[p] = "working" /\ Go(p, "syncing")
  /\ UNCHANGED <<identity, log, aside, syncs>>

-----------------------------------------------------------------------------
(* Syncing (syncNow with the archive open, daemonRun without it), and      *)
(* writing its outcome down (RecordSync, which reads sync-state.json and   *)
(* writes it back).                                                        *)
Attempt(p) ==
  /\ pc[p] \in {"working", "syncing"}
  /\ Len(attempts) < MaxAttempts
  /\ \E ok \in BOOLEAN :
       /\ log' \in log..MaxSegments   \* one that fails may have imported some
       /\ attempts' = Append(attempts, ok)
       /\ LET busy == \E q \in Processes : note[q] # None
          IN  note' = [q \in Processes |->
                CASE q = p -> [ok |-> ok, time |-> Len(attempts) + 1, read |-> None, alone |-> ~busy]
                  [] q # p /\ note[q] # None -> [note[q] EXCEPT !.alone = FALSE]
                  [] OTHER -> None]
  /\ Go(p, "noting")
  /\ UNCHANGED <<identity, disk, handle, aside, acked, status, unsure>>

(* An attempt that is cut short because the daemon ends is not noted. *)
CutShort(p) ==
  /\ pc[p] = "syncing"
  /\ log' \in log..MaxSegments
  /\ Go(p, "idle")
  /\ UNCHANGED <<identity, disk, handle, aside, acked, syncs>>

(* A record that cannot be read counts as none. *)
LoadStatus(p) ==
  /\ pc[p] = "noting" /\ note[p].read = None
  /\ \E read \in {status, NoStatus} :
       /\ note' = [note EXCEPT ![p].read = read]
       /\ unsure' = (unsure \/ read # status)
  /\ UNCHANGED <<identity, disk, log, pc, handle, aside, acked, status, attempts>>

(* Mutant: every failure starts anew. *)
AfterLatest(n) ==
  IF n.ok THEN [success |-> n.time, since |-> 0] ELSE [n.read EXCEPT !.since = n.time]

After(n) ==
  IF n.ok THEN [success |-> n.time, since |-> 0]
  ELSE [n.read EXCEPT !.since = IF @ = 0 THEN n.time ELSE @]

(* The record is written, or cannot be.  The command goes on to catch up;  *)
(* the daemon is done, or opens the archive again.                         *)
SaveStatus(p) ==
  /\ pc[p] = "noting" /\ note[p].read # None
  /\ \/ /\ status' = After(note[p])
        /\ unsure' = (~note[p].alone \/ (unsure /\ ~note[p].ok))
     \/ unsure' = TRUE /\ UNCHANGED status
  /\ note' = [note EXCEPT ![p] = None]
  /\ Go(p, IF handle[p] = None THEN "idle" ELSE "catching")
  /\ UNCHANGED <<identity, disk, log, handle, aside, acked, attempts>>

-----------------------------------------------------------------------------
(* runRebuild, and Store.ReplaceWith on systems other than Windows. *)
(* Mutant: a missing archive is not created, so nothing is locked. *)
OpenIfPresent(p) ==
  /\ pc[p] = "idle"
  /\ identity
  /\ at["archive"] # None => Free(at["archive"])
  /\ handle' = [handle EXCEPT ![p] = Handle("archive")]
  /\ Go(p, "replacing")
  /\ UNCHANGED <<identity, disk, log, aside, acked, syncs>>

OpenForReplace(p) ==
  /\ pc[p] = "idle"
  /\ identity
  /\ OpenPath("archive")
  /\ handle' = [handle EXCEPT ![p] = Handle("archive")]
  /\ Go(p, "replacing")
  /\ UNCHANGED <<identity, log, aside, acked, syncs>>

RemoveOldBuild(p) ==
  /\ pc[p] = "replacing"
  /\ Unlink("rebuild")
  /\ at' = [at EXCEPT !["rebuild"] = None]
  /\ Go(p, "removed")
  /\ UNCHANGED <<identity, wal, log, handle, aside, acked, syncs>>

RemoveOldLog(p) ==
  /\ pc[p] = "removed"
  /\ wal' = [wal EXCEPT !["rebuild"] = None]
  /\ Go(p, "clean")
  /\ UNCHANGED <<identity, at, file, log, handle, aside, acked, syncs>>

OpenBuild(p) ==
  /\ pc[p] = "clean"
  /\ OpenPath("rebuild")
  /\ aside' = [aside EXCEPT ![p] = Handle("rebuild")]
  /\ Go(p, "migrating")
  /\ UNCHANGED <<identity, log, handle, acked, syncs>>

(* What was built is checkpointed and closed. *)
CloseBuild(p) ==
  /\ pc[p] = "built"
  /\ Checkpoint(aside[p])
  /\ aside' = [aside EXCEPT ![p] = None]
  /\ Go(p, "swapping")
  /\ UNCHANGED <<identity, log, handle, acked, syncs>>

(* Mutant: the archive is renamed over with its write-ahead log. *)
KeepOldLog(p) ==
  /\ pc[p] = "swapping"
  /\ Go(p, "merged")
  /\ UNCHANGED <<identity, disk, log, handle, aside, acked, syncs>>

CheckpointOld(p) ==
  /\ pc[p] = "swapping"
  /\ Checkpoint(handle[p])
  /\ handle' = [handle EXCEPT ![p].dirty = FALSE]
  /\ Go(p, "merged")
  /\ UNCHANGED <<identity, log, aside, acked, syncs>>

Rename(p) ==
  /\ pc[p] = "merged"
  /\ Unlink("archive")
  /\ at' = [at EXCEPT !["archive"] = at["rebuild"], !["rebuild"] = None]
  /\ Go(p, "renamed")
  /\ UNCHANGED <<identity, wal, log, handle, aside, acked, syncs>>

CloseOld(p) ==
  /\ pc[p] = "renamed"
  /\ Checkpoint(handle[p])
  /\ handle' = [handle EXCEPT ![p] = None]
  /\ Go(p, "idle")
  /\ UNCHANGED <<identity, log, aside, acked, syncs>>

(* A step of rebuild fails: what it built and the archive are closed.      *)
FailRebuild(p) ==
  /\ \/ aside[p] # None /\ Checkpoint(aside[p]) /\ Go(p, "failed")
     \/ /\ aside[p] = None
        /\ pc[p] \in {"replacing", "removed", "clean", "swapping", "merged"}
        /\ UNCHANGED disk
        /\ Go(p, "failed")
     \/ pc[p] = "failed" /\ Checkpoint(handle[p]) /\ Go(p, "idle")
  /\ aside' = [aside EXCEPT ![p] = None]
  /\ handle' = [handle EXCEPT ![p] = IF pc[p] = "failed" THEN None ELSE @]
  /\ UNCHANGED <<identity, log, acked, syncs>>

-----------------------------------------------------------------------------
(* A reader opens the archive for one request and tries again while a      *)
(* writer has it.                                                          *)
OpenReadOnly(p) ==
  /\ pc[p] = "idle"
  /\ at["archive"] # None
  /\ Readable(at["archive"])
  /\ handle' = [handle EXCEPT ![p] = [Handle("archive") EXCEPT !.writes = FALSE]]
  /\ Go(p, "reading")
  /\ UNCHANGED <<identity, disk, log, aside, acked, syncs>>

CloseReader(p) ==
  /\ pc[p] = "reading"
  /\ handle' = [handle EXCEPT ![p] = None]
  /\ Go(p, "idle")
  /\ UNCHANGED <<identity, disk, log, aside, acked, syncs>>

(* A process dies: its locks go with it, the write-ahead logs stay. *)
Crash(p) ==
  /\ pc[p] # "idle"
  /\ Go(p, "idle")
  /\ handle' = [handle EXCEPT ![p] = None]
  /\ aside' = [aside EXCEPT ![p] = None]
  /\ note' = [note EXCEPT ![p] = None]
  /\ unsure' = (unsure \/ note[p] # None)
  /\ UNCHANGED <<identity, disk, log, acked, status, attempts>>

Next == \E p \in Processes :
  \/ OpenStore(p) \/ ApplyMigration(p) \/ RecordMigration(p) \/ Migrated(p)
  \/ IndexSegment(p) \/ CaughtUp(p) \/ AppendLog(p) \/ Close(p)
  \/ Attempt(p) \/ CutShort(p) \/ LoadStatus(p) \/ SaveStatus(p)
  \/ OpenForReplace(p) \/ RemoveOldBuild(p) \/ RemoveOldLog(p) \/ OpenBuild(p)
  \/ CloseBuild(p) \/ CheckpointOld(p) \/ Rename(p) \/ CloseOld(p) \/ FailRebuild(p)
  \/ OpenReadOnly(p) \/ CloseReader(p) \/ Crash(p)

Spec == Init /\ [][Next]_vars

-----------------------------------------------------------------------------
(* Properties. *)
Places == {"idle", "migrating", "applied", "catching", "working", "syncing", "noting",
           "replacing", "removed", "clean", "built", "swapping", "merged", "renamed", "failed", "reading"}

(* Every variable has its type, and a path leads to a file that was made. *)
TypeOK ==
  /\ file \in Seq(Databases) /\ Len(file) <= MaxFiles
  /\ at \in [Paths -> DOMAIN file \cup {None}]
  /\ wal \in [Paths -> Logs \cup {None}]
  /\ log \in 0..MaxSegments /\ identity \in BOOLEAN
  /\ status \in Statuses
  /\ pc \in [Processes -> Places]
  /\ handle \in [Processes -> Handles \cup {None}]
  /\ aside \in [Processes -> Handles \cup {None}]
  /\ note \in [Processes -> Notes \cup {None}]
  /\ acked \subseteq 1..MaxSegments
  /\ attempts \in Seq(BOOLEAN) /\ Len(attempts) <= MaxAttempts
  /\ unsure \in BOOLEAN

(* swap.go: "The old file's WAL is never removed by path: after the        *)
(* checkpoint there is none, and the path may already be the new file's."  *)
(* Whatever processes do and die, what was indexed when the archive was    *)
(* closed is found under its path ever after, and a write-ahead log is     *)
(* next to the file it belongs to.                                         *)
IndexedKept ==
  /\ acked # {} => at["archive"] # None /\ acked \subseteq Stored("archive").segs
  /\ \A n \in Paths : at[n] # None /\ wal[n] # None => wal[n].of = at[n]

(* archive.go: the write lock is taken first, "so two writers can't share  *)
(* a log".  The log has one appender, also while the archive is swapped.   *)
OneAppender ==
  \A p, q \in Processes :
    {pc[p], pc[q]} \subseteq {"catching", "working"} /\ {aside[p], aside[q]} = {None} => p = q

(* Nothing is indexed in a database whose schema lacks a migration, after  *)
(* whatever crashes between applying one and recording it.                 *)
SchemaComplete ==
  \A p \in Processes :
    pc[p] \in {"catching", "working", "built"} => Target(p).db.applied = 1..Versions

(* status.go: FailingSince "is the first failed attempt after the last     *)
(* success; it is zero while sync works".  That holds unless two notes     *)
(* overlapped, one was lost or not written, or the record could not be     *)
(* read; and again after the next success that is noted alone.             *)
StatusTruthful ==
  ~unsure /\ (\A p \in Processes : note[p] = None) =>
    LET succeeded == {i \in DOMAIN attempts : attempts[i]}
        last      == IF succeeded = {} THEN 0 ELSE Max(succeeded)
    IN  status = [success |-> last, since |-> IF last = Len(attempts) THEN 0 ELSE last + 1]
=============================================================================
