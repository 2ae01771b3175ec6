------------------------------- MODULE ObsLog -------------------------------
(***************************************************************************)
(* One machine's observation log (internal/obslog) and the commands that   *)
(* open it: every writer first takes DuckDB's lock on the archive, then    *)
(* opens the log, appends segments, joins or pairs a sync space, imports   *)
(* other devices' segments, and closes.  The daemon releases the lock but  *)
(* keeps the log handle while it syncs.  Processes may crash at any step   *)
(* and the machine may lose power.                                         *)
(*                                                                         *)
(* A file appears whole, by rename; the sync of its directory that makes   *)
(* the rename durable may fail, or be left out because the directory       *)
(* cannot be opened, after the file is already visible.  The directories   *)
(* themselves are durable only once the operating system has written them  *)
(* back; for space.key, sync.json and the imports, whose names no step     *)
(* syncs on purpose, the model does not follow when that is, and lets any  *)
(* power loss take them.                                                   *)
(***************************************************************************)
EXTENDS Integers, Sequences, FiniteSets

CONSTANTS
  Procs,            \* processes of this machine: daemon, CLI commands
  Contents,         \* what an observation can hold
  Size,             \* bytes of each content
  MaxSegmentBytes,  \* content bytes after which a segment is cut
  Spaces,           \* space ids
  None,             \* no process, no identity file
  MaxBatch,         \* bound: observations handed to one Append
  MaxSeq,           \* bound: sequence numbers used
  MaxUndo           \* bound: replaced files a power loss can still undo

ASSUME ObsLogAssumption ==
  /\ None \notin Procs
  /\ None \notin Spaces
  /\ Size \in [Contents -> Nat]
  /\ MaxSegmentBytes \in Nat
  /\ MaxBatch \in Nat
  /\ MaxSeq \in Nat
  /\ MaxUndo \in Nat

VARIABLES
  \* On disk, shared by the processes.
  segs,       \* this device's segments: first sequence number |-> segment
  unsynced,   \* those whose directory entry a power loss can still undo
  identity,   \* the space in identity.json, or None before it exists
  undo,       \* what files replaced without a sync may go back to: <<0, s>>
              \* identity.json with space s, <<f, s>> segment f with space s
  paired,     \* space.key and sync.json are both there
  foreign,    \* the spaces of the segments imported from other devices
  volatile,   \* parts of the directory tree a power loss can take as a whole
  lock,       \* holder of DuckDB's write lock, or None
  \* Of each process.
  pc,
  nextSeq,    \* Log.nextSeq
  space,      \* Log.Identity.Space
  batch,      \* observations Append still has to write
  rewrite,    \* segments AdoptSpace still has to rewrite
  \* History.
  acked,      \* <<number, content>> pairs reported as written, and synced
  told,       \* pairs reported as written without a sync of the directory
  doubt       \* identity.json went back to an earlier one, or a join did not
              \* see that this device is paired

disk  == <<segs, unsynced, identity, undo, paired, foreign, volatile>>
local == <<nextSeq, space, batch, rewrite>>
hist  == <<acked, told, doubt>>
vars  == <<segs, unsynced, identity, undo, paired, foreign, volatile, lock, pc,
           nextSeq, space, batch, rewrite, acked, told, doubt>>

(* The log's directory and, in it, devices/<id>. *)
Parts == {"root", "device"}

Phases == {"idle", "locked", "open", "writing", "renamed", "adopting",
           "failed", "detached", "reattached"}

(* The phases of a process that holds the archive's lock. *)
Holding == Phases \ {"idle", "detached"}

Segment == [space : Spaces, obs : Seq(Contents)]

Batches == UNION {[1..n -> Contents] : n \in 1..MaxBatch}

Init ==
  /\ segs = << >>
  /\ unsynced = {}
  /\ identity = None
  /\ undo = {}
  /\ paired = FALSE
  /\ foreign = {}
  /\ volatile = Parts
  /\ lock = None
  /\ pc = [p \in Procs |-> "idle"]
  /\ nextSeq = [p \in Procs |-> 1]
  /\ space = [p \in Procs |-> None]
  /\ batch = [p \in Procs |-> << >>]
  /\ rewrite = [p \in Procs |-> {}]
  /\ acked = {}
  /\ told = {}
  /\ doubt = FALSE

Goto(p, phase) == pc' = [pc EXCEPT ![p] = phase]

(* The process's memory is gone, and its lock with it. *)
Exit(p) ==
  /\ Goto(p, "idle")
  /\ lock' = IF lock = p THEN None ELSE lock
  /\ nextSeq' = [nextSeq EXCEPT ![p] = 1]
  /\ space' = [space EXCEPT ![p] = None]
  /\ batch' = [batch EXCEPT ![p] = << >>]
  /\ rewrite' = [rewrite EXCEPT ![p] = {}]

(* The numbers of a segment's observations. *)
Numbers(f) == f .. (f + Len(segs[f].obs) - 1)

(* A segment's observations with their numbers. *)
Pairs(f) == {<<f + i - 1, segs[f].obs[i]>> : i \in 1..Len(segs[f].obs)}

(* Mutant of IsLastSeq: the number in the last file's name. *)
IsLastName(n) ==
  \/ DOMAIN segs = {} /\ n = 0
  \/ n \in DOMAIN segs /\ \A g \in DOMAIN segs : g <= n

(* n is the number of the last record of the last segment, or 0. *)
IsLastSeq(n) ==
  \/ DOMAIN segs = {} /\ n = 0
  \/ \E f \in DOMAIN segs :
       /\ \A g \in DOMAIN segs : g <= f
       /\ n = f + Len(segs[f].obs) - 1

Bytes(b, n) ==
  LET sum[i \in 0..n] == IF i = 0 THEN 0 ELSE sum[i - 1] + Size[b[i]]
  IN  sum[n]

(* Append puts the first n observations of b in one segment: as many as    *)
(* fit, and always one.                                                    *)
IsChunk(b, n) ==
  /\ n >= 1
  /\ n = 1 \/ Bytes(b, n) <= MaxSegmentBytes
  /\ \A m \in (n + 1)..Len(b) : Bytes(b, m) > MaxSegmentBytes

-----------------------------------------------------------------------------
(* Opening and closing. *)

(* Mutant of TakeLock: an advisory lock. *)
TakeLockAnyway(p) == lock' = p

TakeLock(p) == lock = None /\ lock' = p

(* store.Open, or OpenForReplace for rebuild: the lock comes first.  When  *)
(* another process holds it the command gives up without a change.         *)
Lock(p) ==
  /\ pc[p] = "idle"
  /\ TakeLock(p)
  /\ Goto(p, "locked")
  /\ UNCHANGED <<disk, local, hist>>

(* A file is replaced without a sync: it can go back to what it was. *)
Replace(f, s) ==
  /\ Cardinality(undo) < MaxUndo
  /\ undo' = undo \cup {<<f, s>>}

(* writeFileAtomic for identity.json: the rename, then the sync of the     *)
(* log's directory, or none.  A sync that fails is the second case         *)
(* followed by Close, a crash in between the second followed by Crash: the *)
(* lock keeps everybody else from looking in between.                      *)
WriteIdentity(s) ==
  /\ identity' = s
  /\ \/ undo' = {u \in undo : u[1] # 0}
     \/ Replace(0, identity)

(* obslog.Open: read or create the identity, then find the next number. *)
OpenLog(p) ==
  /\ pc[p] = "locked"
  /\ \/ /\ identity # None
        /\ UNCHANGED <<identity, undo>>
     \/ /\ identity = None
        /\ \E s \in Spaces : WriteIdentity(s)
  /\ space' = [space EXCEPT ![p] = identity']
  /\ \E n \in 0..MaxSeq :
       /\ IsLastSeq(n)
       /\ nextSeq' = [nextSeq EXCEPT ![p] = n + 1]
  /\ Goto(p, "open")
  /\ UNCHANGED <<segs, unsynced, paired, foreign, volatile, lock, batch,
                 rewrite, hist>>

(* A command ends, after success or after an error. *)
Close(p) ==
  /\ pc[p] \in {"locked", "open", "failed", "detached", "reattached"}
  /\ Exit(p)
  /\ UNCHANGED <<disk, hist>>

(* daemonRun closes the archive before it syncs, keeping the log handle... *)
Detach(p) ==
  /\ pc[p] = "open"
  /\ paired
  /\ lock' = None
  /\ Goto(p, "detached")
  /\ UNCHANGED <<disk, local, hist>>

(* ...and opens it again to apply what it downloaded, with the old handle. *)
Reattach(p) ==
  /\ pc[p] = "detached"
  /\ TakeLock(p)
  /\ Goto(p, "reattached")
  /\ UNCHANGED <<disk, local, hist>>

-----------------------------------------------------------------------------
(* Appending. *)

StartAppend(p) ==
  /\ pc[p] = "open"
  /\ \E b \in Batches :
       /\ nextSeq[p] + Len(b) - 1 <= MaxSeq
       /\ batch' = [batch EXCEPT ![p] = b]
  /\ Goto(p, "writing")
  /\ UNCHANGED <<disk, lock, nextSeq, space, rewrite, hist>>

(* writeSegment up to the rename in writeFileAtomic, which replaces any    *)
(* file of that name.                                                      *)
RenameSegment(p) ==
  /\ pc[p] = "writing"
  /\ \E n \in 0..Len(batch[p]) :
       /\ IsChunk(batch[p], n)
       /\ LET new == [space |-> space[p], obs |-> SubSeq(batch[p], 1, n)]
          IN  segs' = [f \in DOMAIN segs \cup {nextSeq[p]} |->
                         IF f = nextSeq[p] THEN new ELSE segs[f]]
  /\ unsynced' = unsynced \cup {nextSeq[p]}
  /\ Goto(p, "renamed")
  /\ UNCHANGED <<identity, undo, paired, foreign, volatile, lock, local, hist>>

(* Mutant of SyncParent: the directory is not synced. *)
SkipSyncParent == UNCHANGED <<unsynced, undo>>

(* Every rename in devices/<id> so far is durable. *)
SyncParent ==
  /\ unsynced' = {}
  /\ undo' = {u \in undo : u[1] = 0}

(* The rest of writeFileAtomic and writeSegment: sync the directory, or go *)
(* on without when it cannot be opened, then move nextSeq past the         *)
(* segment and report it as written.                                       *)
SyncDir(p) ==
  /\ pc[p] = "renamed"
  /\ LET first == nextSeq[p]
         n     == Len(segs[first].obs)
     IN  /\ nextSeq' = [nextSeq EXCEPT ![p] = first + n]
         /\ batch' = [batch EXCEPT ![p] = SubSeq(@, n + 1, Len(@))]
         /\ Goto(p, IF n = Len(batch[p]) THEN "open" ELSE "writing")
  /\ \/ /\ SyncParent
        /\ acked' = acked \cup told \cup Pairs(nextSeq[p])
        /\ told' = {}
     \/ /\ told' = told \cup Pairs(nextSeq[p])
        /\ UNCHANGED <<unsynced, undo, acked>>
  /\ UNCHANGED <<segs, identity, paired, foreign, volatile, lock, space,
                 rewrite, doubt>>

(* Mutant of GiveUp: the caller keeps the handle and tries again. *)
TryAgain(p) == Goto(p, "open")

(* Every caller of Append and AdoptSpace returns their error and ends. *)
GiveUp(p) == Goto(p, "failed")

(* An I/O error: before the rename nothing happened; after it the segment  *)
(* is visible although Append reports failure and nextSeq stays.           *)
Fail(p) ==
  /\ pc[p] \in {"writing", "renamed", "adopting"}
  /\ batch' = [batch EXCEPT ![p] = << >>]
  /\ rewrite' = [rewrite EXCEPT ![p] = {}]
  /\ GiveUp(p)
  /\ UNCHANGED <<disk, lock, nextSeq, space, hist>>

-----------------------------------------------------------------------------
(* Spaces. *)

(* Mutant of MayJoin: any device without imports may join. *)
MayJoinPaired(readable) == foreign = {}

(* A device that is paired with another space, or holds other devices'     *)
(* segments, may not join; but runJoin only sees the first when it can     *)
(* read space.key and sync.json.                                           *)
MayJoin(readable) ==
  /\ foreign = {}
  /\ paired => ~readable

(* runJoin up to AdoptSpace's loop. *)
StartJoin(p, s) ==
  /\ pc[p] = "open"
  /\ s # space[p]
  /\ \E readable \in BOOLEAN :
       /\ MayJoin(readable)
       /\ doubt' = (doubt \/ (paired /\ ~readable))
  /\ space' = [space EXCEPT ![p] = s]
  /\ rewrite' = [rewrite EXCEPT ![p] = DOMAIN segs]
  /\ Goto(p, "adopting")
  /\ UNCHANGED <<disk, lock, nextSeq, batch, acked, told>>

(* AdoptSpace rewrites its segments in sequence order, each by             *)
(* writeFileAtomic: with a sync of the directory, or none.                 *)
RewriteSegment(p) ==
  /\ pc[p] = "adopting"
  /\ \E f \in rewrite[p] :
       /\ \A g \in rewrite[p] : f <= g
       /\ segs' = [segs EXCEPT ![f].space = space[p]]
       /\ rewrite' = [rewrite EXCEPT ![p] = @ \ {f}]
       /\ \/ SyncParent
          \/ /\ Replace(f, segs[f].space)
             /\ UNCHANGED unsynced
  /\ UNCHANGED <<identity, paired, foreign, volatile, lock, pc, nextSeq,
                 space, batch, hist>>

(* identity.json is written last. *)
FinishJoin(p) ==
  /\ pc[p] = "adopting"
  /\ rewrite[p] = {}
  /\ WriteIdentity(space[p])
  /\ Goto(p, "open")
  /\ UNCHANGED <<segs, unsynced, paired, foreign, volatile, lock, local, hist>>

(* devsync.Save, by pair, by join after AdoptSpace, or by joining the      *)
(* space this device is already in.  No directory is synced.               *)
Save(p) ==
  /\ pc[p] = "open"
  /\ ~paired
  /\ paired' = TRUE
  /\ UNCHANGED <<segs, unsynced, identity, undo, foreign, volatile, lock, pc,
                 local, hist>>

(* ImportSegment, during a sync with or without the lock: the segment must *)
(* be of this process's space.                                             *)
ImportSegment(p) ==
  /\ pc[p] \in {"open", "detached"}
  /\ paired
  /\ foreign' = foreign \cup {space[p]}
  /\ UNCHANGED <<segs, unsynced, identity, undo, paired, volatile, lock, pc,
                 local, hist>>

-----------------------------------------------------------------------------
(* Failures. *)

(* The process dies; the operating system drops its lock. *)
Crash(p) ==
  /\ pc[p] # "idle"
  /\ Exit(p)
  /\ UNCHANGED <<disk, hist>>

(* The operating system writes back every directory there is. *)
WriteBack ==
  /\ unsynced' = {}
  /\ undo' = {}
  /\ volatile' = volatile \cap
       ((IF identity = None THEN {"root"} ELSE {}) \cup
        (IF DOMAIN segs = {} THEN {"device"} ELSE {}))
  /\ UNCHANGED <<segs, identity, paired, foreign, lock, pc, local, hist>>

(* The spaces a power loss can leave in a file. *)
Versions(f, now) == {now} \cup {u[2] : u \in {v \in undo : v[1] = f}}

(* What a power loss can leave of identity.json and of this device's       *)
(* segment files when the directories "gone" are gone.                     *)
Identities(gone) == IF "root" \in gone THEN {None} ELSE Versions(0, identity)

Survivors(gone) ==
  IF gone = {} THEN {DOMAIN segs \ lost : lost \in SUBSET unsynced} ELSE {{}}

(* Directories that were not written back may be gone, and renames that    *)
(* were not synced undone, each on its own.  Without identity.json this    *)
(* device's segments are another's.                                        *)
LoseDisk(gone, id, files, back) ==
  LET root == "root" \notin gone
  IN  /\ identity' = id
      /\ segs' = [f \in IF id = None THEN {} ELSE files |->
                    [space |-> back[f], obs |-> segs[f].obs]]
      /\ paired' \in IF root THEN {paired, FALSE} ELSE {FALSE}
      /\ \E kept \in IF root THEN {foreign, {}} ELSE {{}} :
           foreign' = kept \cup IF id = None THEN {back[f] : f \in files} ELSE {}
      /\ volatile' = gone \cup IF id = None THEN {"device"} ELSE {}
      /\ acked' = IF id = None \/ gone # {} THEN {} ELSE acked
      /\ doubt' = (root /\ (doubt \/ id # identity))

(* The machine loses power. *)
PowerLoss ==
  /\ \E gone \in SUBSET volatile : \E id \in Identities(gone), files \in Survivors(gone) :
       \E back \in [files -> Spaces] :
         /\ \A f \in files : back[f] \in Versions(f, segs[f].space)
         /\ LoseDisk(gone, id, files, back)
  /\ unsynced' = {}
  /\ undo' = {}
  /\ lock' = None
  /\ pc' = [p \in Procs |-> "idle"]
  /\ batch' = [p \in Procs |-> << >>]
  /\ rewrite' = [p \in Procs |-> {}]
  /\ nextSeq' = [p \in Procs |-> 1]
  /\ space' = [p \in Procs |-> None]
  /\ told' = {}

Step(p) ==
  \/ Lock(p) \/ OpenLog(p) \/ Close(p) \/ Detach(p) \/ Reattach(p)
  \/ StartAppend(p) \/ RenameSegment(p) \/ SyncDir(p) \/ Fail(p)
  \/ (\E s \in Spaces : StartJoin(p, s))
  \/ RewriteSegment(p) \/ FinishJoin(p) \/ Save(p) \/ ImportSegment(p)
  \/ Crash(p)

Next == PowerLoss \/ WriteBack \/ \E p \in Procs : Step(p)

Spec == Init /\ [][Next]_vars

-----------------------------------------------------------------------------
(* Properties. *)

TypeOK ==
  /\ DOMAIN segs \subseteq Nat \ {0}
  /\ \A f \in DOMAIN segs : segs[f] \in Segment /\ segs[f].obs # << >>
  /\ segs = [f \in DOMAIN segs |-> segs[f]]
  /\ unsynced \subseteq DOMAIN segs
  /\ identity \in Spaces \cup {None}
  /\ undo \subseteq Nat \X (Spaces \cup {None})
  /\ paired \in BOOLEAN
  /\ foreign \subseteq Spaces
  /\ volatile \subseteq Parts
  /\ lock \in Procs \cup {None}
  /\ pc \in [Procs -> Phases]
  /\ nextSeq \in [Procs -> Nat \ {0}]
  /\ space \in [Procs -> Spaces \cup {None}]
  /\ batch \in [Procs -> Seq(Contents)]
  /\ rewrite \in [Procs -> SUBSET Nat]
  /\ acked \subseteq Nat \X Contents
  /\ told \subseteq Nat \X Contents
  /\ doubt \in BOOLEAN

(* The lock serialises writers: a process past store.Open holds it.  Two   *)
(* appenders at once would hand out the same numbers.                      *)
LockHeld == \A p \in Procs : pc[p] \in Holding <=> lock = p

(* No sequence number is used by two segments, whatever crashed or failed  *)
(* between a rename and the update of nextSeq.                             *)
SegmentsDisjoint ==
  \A f, g \in DOMAIN segs : f # g => Numbers(f) \cap Numbers(g) = {}

(* Segment f holds content a[2] under number a[1]. *)
Holds(f, a) == a[1] \in Numbers(f) /\ segs[f].obs[a[1] - f + 1] = a[2]

(* What writeSegment reported as written is in the log under the number it *)
(* was given; once a directory sync has followed, even one for a later     *)
(* segment, it is in a file no power loss takes on its own.  What was      *)
(* reported without a sync, because the directory could not be opened, is  *)
(* there until the next power loss.  Both claims end when devices/<id> or  *)
(* identity.json is lost as a whole: the code syncs neither's parent       *)
(* before it reports.                                                      *)
AckedStable ==
  /\ \A a \in acked : \E f \in DOMAIN segs \ unsynced : Holds(f, a)
  /\ \A a \in told : \E f \in DOMAIN segs : Holds(f, a)

(* A process that uses the log under the lock has identity.json's idea of  *)
(* the space.  So has a daemon that syncs without the lock, and imported   *)
(* segments are all of that space, or catch-up would refuse them - unless  *)
(* a power loss undid identity.json, or a join did not see that the device *)
(* was paired.                                                             *)
SpaceAgreement ==
  /\ \A p \in Procs : pc[p] \in {"open", "writing", "renamed"} => space[p] = identity
  /\ ~doubt =>
       /\ foreign \subseteq {identity}
       /\ \A p \in Procs : pc[p] \in {"detached", "reattached"} => space[p] = identity

(* What makes the above inductive.  Segments follow each other; the next   *)
(* number of a process that may still write is above them all, or that of  *)
(* the segment it has just renamed; joining excludes being paired, so      *)
(* nobody uses the old space meanwhile.                                    *)
SegmentsOrdered ==
  \A f, g \in DOMAIN segs : f < g => f + Len(segs[f].obs) <= g

NextSeqFree ==
  \A p \in Procs :
    /\ pc[p] \in {"open", "writing", "adopting"} =>
         \A f \in DOMAIN segs : f + Len(segs[f].obs) <= nextSeq[p]
    /\ pc[p] = "writing" => batch[p] # << >>
    /\ pc[p] = "renamed" =>
         /\ nextSeq[p] \in DOMAIN segs
         /\ \A f \in DOMAIN segs : f <= nextSeq[p]
         /\ Len(segs[nextSeq[p]].obs) <= Len(batch[p])

JoinExclusive ==
  /\ \A p \in Procs : pc[p] \in Phases \ {"idle", "locked", "failed"} =>
       identity # None /\ space[p] # None
  /\ \A p \in Procs : pc[p] \in {"detached", "reattached"} => paired
  /\ \A p \in Procs : pc[p] = "adopting" =>
       /\ rewrite[p] \subseteq DOMAIN segs
       /\ doubt \/ (~paired /\ foreign = {})
  /\ identity = None => DOMAIN segs = {}

IInv ==
  /\ TypeOK
  /\ LockHeld
  /\ SegmentsOrdered
  /\ NextSeqFree
  /\ JoinExclusive
  /\ SpaceAgreement
  /\ AckedStable

(* The numbered observations the files hold, and which of them are safe.   *)
Entries ==
  LET all == UNION {Numbers(f) : f \in DOMAIN segs}
  IN  [n \in all |-> LET f == CHOOSE f \in DOMAIN segs : n \in Numbers(f)
                     IN  segs[f].obs[n - f + 1]]

DirectoryStable == volatile = {} /\ <<0, None>> \notin undo

Stable ==
  IF DirectoryStable THEN UNION {Numbers(f) : f \in DOMAIN segs \ unsynced} ELSE {}

(* The files implement the device log: observations are never changed or   *)
(* renumbered, only ever added above the rest, and lost only before their  *)
(* directory, its parents and identity.json are on stable storage.         *)
Abstract == INSTANCE DeviceLog WITH entries <- Entries, stable <- Stable

ImplementsDeviceLog == Abstract!Spec

(* ADR 0005, decision 1: the projection "can be rebuilt from observations  *)
(* at any time".  Rebuilding refuses a segment whose space is not that of  *)
(* identity.json.                                                          *)
RebuildableAtAnyTime ==
  lock = None /\ identity # None =>
    \A f \in DOMAIN segs : segs[f].space = identity

=============================================================================
