------------------------------ MODULE Archive ------------------------------
(***************************************************************************)
(* One device's archive: the collector compares source files with what it  *)
(* last logged and appends observations to the log; catch-up indexes the   *)
(* log's segments in the database and projects the conversations they      *)
(* touch.  Meanwhile files change, a sync brings other devices' segments,  *)
(* the process dies or fails between any two steps, and the archive is     *)
(* rebuilt from the log.                                                   *)
(*                                                                         *)
(* The log keeps what ObsLog.tla shows it keeps: a segment is visible at   *)
(* once and stays.  One process holds the archive at a time (LockHeld      *)
(* there), so one is modelled.  The files are of one source; each is a     *)
(* conversation.  Every write to a file advances its modification time.    *)
(***************************************************************************)
EXTENDS Collector, Reconstruct

CONSTANTS
  Keys,         \* conversations
  Kinds,        \* what the source's AppendOnly() may say
  Rewritable,   \* those whose file may be rewritten
  Lines,        \* contents of a line
  Silent,       \* lines that hold no message
  Half,         \* a conversation row whose rows are being replaced
  Foreign,      \* segments other devices may have made
  MaxLen,       \* bound: lines of a file
  MaxEdits,     \* bound: changes of files
  MaxFaults     \* bound: crashes and failed projections together

Self == 1   \* this device; the devices of Foreign are other numbers

(* An observation of one conversation; only a tombstone has no content.    *)
Observation ==
  {o \in [key : Keys, kind : {"append", "snapshot", "tombstone"}, off : Nat,
          data : Seq(Lines)] :
     o.kind = "tombstone" \/ o.data # << >>}

(* Of one device no two segments hold the same number.  ObsLog shows it of *)
(* a device's log; of the segments that reach others it is an assumption   *)
(* where a power loss undid one that had been uploaded (see Sync).         *)
ASSUME ArchiveAssumption ==
  /\ Kinds \subseteq BOOLEAN /\ Rewritable \subseteq Keys
  /\ Torn \notin Lines /\ Silent \subseteq Lines
  /\ Foreign \subseteq [dev : Nat \ {Self}, first : Nat, obs : Seq(Observation)]
  /\ \A s, t \in Foreign : s.dev = t.dev =>
       s = t \/ s.first + Len(s.obs) <= t.first \/ t.first + Len(t.obs) <= s.first
  /\ None \notin Nat \cup Seq(Lines)
  /\ None \notin [kind : {"append", "snapshot"}, off : Nat, data : Seq(Lines)]
  /\ None \notin [data : Seq(Lines), mtime : Nat \cup {None}]
  /\ MaxLen \in Nat /\ MaxEdits \in Nat /\ MaxFaults \in Nat

VARIABLES
  appendOnly, \* what the source's AppendOnly() says
  file,       \* the source files: their lines and modification times
  segs,       \* the segments in the log
  \* The database.
  indexed,    \* segments in indexed_segments, their observations with them
  state,      \* collector_state: key |-> last logged data and mtime, or None
  row,        \* conversations: the versions a key's rows were made from
  \* The process.
  pc,
  collected,  \* this command has collected
  listing,    \* the segments CatchUp goes through
  affected,   \* the keys it has still to project
  queue,      \* keys the collector has still to look at
  stats,      \* key |-> mtime, for those looked up but not read
  fresh,      \* key |-> state to save
  batch,      \* observations to append
  \* History.
  lost,       \* keys a crash left indexed but not projected
  failed,     \* keys whose last projection failed
  faults

database == <<indexed, state, row>>
memory   == <<collected, listing, affected, queue, stats, fresh, batch>>
history  == <<lost, failed, faults>>
vars     == <<appendOnly, file, segs, indexed, state, row, pc, collected, listing,
              affected, queue, stats, fresh, batch, lost, failed, faults>>

NoKeys == [k \in {} |-> None]

Without(f, k) == [j \in DOMAIN f \ {k} |-> f[j]]
With(f, k, v) == [j \in DOMAIN f \cup {k} |-> IF j = k THEN v ELSE f[j]]

Forget ==
  /\ collected' = FALSE
  /\ listing' = {}
  /\ affected' = {}
  /\ queue' = {}
  /\ stats' = NoKeys
  /\ fresh' = NoKeys
  /\ batch' = << >>

Init ==
  /\ appendOnly \in Kinds
  /\ file = [k \in Keys |-> [data |-> << >>, mtime |-> 0]]
  /\ segs = {}
  /\ indexed = {}
  /\ state = [k \in Keys |-> None]
  /\ row = [k \in Keys |-> None]
  /\ pc = "idle"
  /\ collected = FALSE
  /\ listing = {} /\ affected = {} /\ queue = {}
  /\ stats = NoKeys /\ fresh = NoKeys
  /\ batch = << >>
  /\ lost = {} /\ failed = {}
  /\ faults = 0

-----------------------------------------------------------------------------
(* What the observations of a set of segments say of a conversation. *)

(* ObservationsFor: each with its device and sequence number. *)
ObsFor(S, k) ==
  UNION {{[dev |-> s.dev, seq |-> s.first + i - 1, kind |-> s.obs[i].kind,
           off |-> s.obs[i].off, data |-> s.obs[i].data] :
            i \in {i \in DOMAIN s.obs : s.obs[i].key = k}} : s \in S}

Tombstoned(S, k) ==
  \E s \in S : \E i \in DOMAIN s.obs :
    s.obs[i].key = k /\ s.obs[i].kind = "tombstone"

(* Of a source logged as snapshots, only each device's latest counts. *)
Live(S, k) ==
  IF appendOnly THEN ObsFor(S, k)
  ELSE {o \in ObsFor(S, k) :
          \A p \in ObsFor(S, k) : p.dev = o.dev => p.seq <= o.seq}

VersionsOf(S, k) ==
  Contents({[off |-> o.off, data |-> o.data, dev |-> o.dev, seq |-> o.seq] :
              o \in Live(S, k)})

HasMessages(versions) ==
  \E v \in versions : \E i \in DOMAIN v : v[i] \notin Silent

(* Mutant of Projected: what can be shown is, and tombstones come second. *)
ProjectedFirst(S, k, there) ==
  LET versions == VersionsOf(S, k)
  IN  IF HasMessages(versions) THEN versions
      ELSE IF Tombstoned(S, k) THEN None
      ELSE there

(* Project's outcome: a tombstone removes the conversation; without a      *)
(* message the outcome is Pending and what is there stays.                 *)
Projected(S, k, there) ==
  LET versions == VersionsOf(S, k)
  IN  IF Tombstoned(S, k) THEN None
      ELSE IF HasMessages(versions) THEN versions
      ELSE there

(* This device's own observations of k, in order. *)
OwnObs(S, k) ==
  LET own == {o \in ObsFor(S, k) : o.dev = Self /\ o.kind # "tombstone"}
  IN  [i \in 1..Cardinality(own) |->
         CHOOSE o \in own : Cardinality({p \in own : p.seq < o.seq}) = i - 1]

NextSeq ==
  LET own == {s \in segs : s.dev = Self}
  IN  1 + Cardinality(UNION {{<<s.first, i>> : i \in DOMAIN s.obs} : s \in own})

-----------------------------------------------------------------------------
(* The files, and the other devices. *)

(* The clock of the file system. *)
Now == Max({file[k].mtime : k \in Keys})

Change(k, data) ==
  /\ Now < MaxEdits
  /\ Len(data) <= MaxLen
  /\ file' = [file EXCEPT ![k] = [data |-> data, mtime |-> Now + 1]]
  /\ UNCHANGED <<appendOnly, segs, database, pc, memory, history>>

EndsTorn(k) == file[k].data # << >> /\ Last(file[k].data) = Torn

(* The agent's tool writes a line, or the rest of one. *)
Write(k, l) ==
  Change(k, Append(IF EndsTorn(k) THEN Front(file[k].data) ELSE file[k].data, l))

(* It writes part of a line. *)
WriteTorn(k) ==
  /\ appendOnly
  /\ ~EndsTorn(k)
  /\ Change(k, Append(file[k].data, Torn))

Rewrite(k) ==
  /\ k \in Rewritable
  /\ \E n \in 1..MaxLen : \E data \in [1..n -> Lines] :
       /\ ~IsPrefix(file[k].data, data)
       /\ Change(k, data)

(* A sync, with or without the lock, imports another device's segment. *)
Import(s) ==
  /\ s \notin segs
  /\ segs' = segs \cup {s}
  /\ UNCHANGED <<appendOnly, file, database, pc, memory, history>>

-----------------------------------------------------------------------------
(* Catch-up. *)

StartCatchUp ==
  /\ pc \in {"idle", "saved"}
  /\ listing' = segs
  /\ pc' = "indexing"
  /\ UNCHANGED <<appendOnly, file, segs, database, collected, affected, queue,
                 stats, fresh, batch, history>>

(* Mutant of Gained: only new conversations. *)
GainedNew(s)   == {k \in {s.obs[i].key : i \in DOMAIN s.obs} : ObsFor(indexed, k) = {}}

(* The conversations a segment has observations of. *)
Gained(s) == {s.obs[i].key : i \in DOMAIN s.obs}

(* IndexSegment, one transaction.  A segment imported since is taken too   *)
(* when its device's turn has not come.                                    *)
IndexSegment(s) ==
  /\ pc = "indexing"
  /\ s \in segs \ indexed
  /\ indexed' = indexed \cup {s}
  /\ affected' = affected \cup Gained(s)
  /\ UNCHANGED <<appendOnly, file, segs, state, row, pc, collected, listing,
                 queue, stats, fresh, batch, history>>

EndIndexing ==
  /\ pc = "indexing"
  /\ listing \subseteq indexed
  /\ pc' = "projecting"
  /\ listing' = {}
  /\ UNCHANGED <<appendOnly, file, segs, database, collected, affected, queue,
                 stats, fresh, batch, history>>

(* Removing a conversation, or replacing some of its rows, takes several   *)
(* transactions; the first clears content_hash.                            *)
BeginReplace(k) ==
  /\ pc = "projecting"
  /\ k \in affected
  /\ row[k] \notin {None, Half}
  /\ Projected(indexed, k, row[k]) # row[k]
  /\ row' = [row EXCEPT ![k] = Half]
  /\ UNCHANGED <<appendOnly, file, segs, indexed, state, pc, memory, history>>

(* Project, up to its last transaction. *)
Project(k) ==
  /\ pc = "projecting"
  /\ k \in affected
  /\ row' = [row EXCEPT ![k] = Projected(indexed, k, @)]
  /\ affected' = affected \ {k}
  /\ lost' = lost \ {k} /\ failed' = failed \ {k}
  /\ UNCHANGED <<appendOnly, file, segs, indexed, state, pc, collected,
                 listing, queue, stats, fresh, batch, faults>>

(* Project returns an error, which CatchUp counts and goes on. *)
ProjectFails(k) ==
  /\ pc = "projecting"
  /\ faults < MaxFaults
  /\ k \in affected
  /\ affected' = affected \ {k}
  /\ failed' = failed \cup {k}
  /\ faults' = faults + 1
  /\ UNCHANGED <<appendOnly, file, segs, database, pc, collected, listing,
                 queue, stats, fresh, batch, lost>>

EndCatchUp ==
  /\ pc = "projecting"
  /\ affected = {}
  /\ pc' = IF collected THEN "done" ELSE "ready"
  /\ UNCHANGED <<appendOnly, file, segs, database, memory, history>>

-----------------------------------------------------------------------------
(* Collecting. *)

(* Mutant of Collectable: tombstones are not looked at. *)
AllKeys == Keys

(* The keys no tombstone in the index forbids to record again. *)
Collectable == {k \in Keys : ~Tombstoned(indexed, k)}

StartCollect ==
  /\ pc = "ready"
  /\ queue' = Collectable
  /\ collected' = TRUE
  /\ pc' = "collecting"
  /\ UNCHANGED <<appendOnly, file, segs, database, listing, affected, stats,
                 fresh, batch, history>>

(* What the collector makes of the file. *)
Complete(k) == IF appendOnly THEN CompleteLines(file[k].data) ELSE file[k].data

(* A worker looks at the modification time.  An incremental collection     *)
(* goes no further when it is the one saved.                               *)
Stat(k) ==
  /\ pc = "collecting"
  /\ k \in queue
  /\ queue' = queue \ {k}
  /\ \/ stats' = With(stats, k, file[k].mtime)
     \/ /\ state[k] # None
        /\ state[k].mtime = file[k].mtime
        /\ UNCHANGED stats
  /\ UNCHANGED <<appendOnly, file, segs, database, pc, collected, listing,
                 affected, fresh, batch, history>>

(* It reads the file, which may have changed since, and compares. *)
Read(k) ==
  /\ pc = "collecting"
  /\ k \in DOMAIN stats
  /\ LET data == Complete(k)
         prev == IF state[k] = None THEN None ELSE state[k].data
         o    == Observe(appendOnly, prev, data)
     IN  /\ fresh' = IF data = << >> THEN fresh
                     ELSE With(fresh, k, [data |-> data, mtime |-> stats[k]])
         /\ batch' = IF o = None THEN batch
                     ELSE Append(batch, [key |-> k, kind |-> o.kind, off |-> o.off,
                                         data |-> o.data])
  /\ stats' = Without(stats, k)
  /\ UNCHANGED <<appendOnly, file, segs, database, pc, collected, listing,
                 affected, queue, history>>

(* The file cannot be read; the collection goes on without it. *)
Unreadable(k) ==
  /\ pc = "collecting"
  /\ k \in queue \cup DOMAIN stats
  /\ queue' = queue \ {k}
  /\ stats' = Without(stats, k)
  /\ UNCHANGED <<appendOnly, file, segs, database, pc, collected, listing,
                 affected, fresh, batch, history>>

(* Log.Append writes the batch, in one segment or several. *)
AppendSegment ==
  /\ pc = "collecting"
  /\ queue = {} /\ DOMAIN stats = {}
  /\ \E n \in 1..Len(batch) :
       /\ segs' = segs \cup {[dev |-> Self, first |-> NextSeq,
                               obs |-> SubSeq(batch, 1, n)]}
       /\ batch' = SubSeq(batch, n + 1, Len(batch))
  /\ UNCHANGED <<appendOnly, file, database, pc, collected, listing, affected,
                 queue, stats, fresh, history>>

(* Mutant of Appended: the state is saved whatever is left to append. *)
AppendLater == TRUE

(* The log is written first. *)
Appended == batch = << >>

EndAppend ==
  /\ pc = "collecting"
  /\ queue = {} /\ DOMAIN stats = {}
  /\ Appended
  /\ pc' = "saving"
  /\ UNCHANGED <<appendOnly, file, segs, database, memory, history>>

(* Mutant of NewState: the time is looked up again. *)
NewStateNow(k) == [fresh[k] EXCEPT !.mtime = file[k].mtime]

NewState(k) == fresh[k]

SaveState(k) ==
  /\ pc = "saving"
  /\ k \in DOMAIN fresh
  /\ state' = [state EXCEPT ![k] = NewState(k)]
  /\ fresh' = Without(fresh, k)
  /\ UNCHANGED <<appendOnly, file, segs, indexed, row, pc, collected, listing,
                 affected, queue, stats, batch, history>>

EndCollect ==
  /\ pc = "saving"
  /\ DOMAIN fresh = {}
  /\ pc' = "saved"
  /\ UNCHANGED <<appendOnly, file, segs, database, memory, history>>

-----------------------------------------------------------------------------
(* The end of a command, and rebuilding. *)

Close ==
  /\ pc \in {"ready", "done"}
  /\ pc' = "idle"
  /\ Forget
  /\ UNCHANGED <<appendOnly, file, segs, database, history>>

(* The process dies, is cancelled or gives up on an error. *)
Crash ==
  /\ pc # "idle"
  /\ faults < MaxFaults
  /\ faults' = faults + 1
  /\ lost' = lost \cup affected
  /\ pc' = "idle"
  /\ Forget
  /\ UNCHANGED <<appendOnly, file, segs, database, failed>>

(* rebuild: catch-up on an empty database, which then replaces the other,  *)
(* failed projections or not.  Until then nothing else has changed.        *)
Rebuild(F) ==
  /\ pc = "idle"
  /\ F # {} => faults < MaxFaults
  /\ \A k \in F : ObsFor(segs, k) # {}
  /\ indexed' = segs
  /\ row' = [k \in Keys |-> IF k \in F THEN None ELSE Projected(segs, k, None)]
  /\ state' = [k \in Keys |->
                 IF Replay(OwnObs(segs, k)) = None THEN None
                 ELSE [data |-> Replay(OwnObs(segs, k)), mtime |-> None]]
  /\ lost' = {} /\ failed' = F
  /\ faults' = IF F = {} THEN faults ELSE faults + 1
  /\ UNCHANGED <<appendOnly, file, segs, pc, memory>>

Edit == \E k \in Keys : (\E l \in Lines : Write(k, l)) \/ WriteTorn(k) \/ Rewrite(k)

CatchUp ==
  \/ StartCatchUp \/ EndIndexing \/ EndCatchUp
  \/ \E s \in segs : IndexSegment(s)
  \/ \E k \in Keys : BeginReplace(k) \/ Project(k)

Collect ==
  \/ StartCollect \/ AppendSegment \/ EndAppend \/ EndCollect
  \/ \E k \in Keys : Stat(k) \/ Read(k) \/ SaveState(k)

Next ==
  \/ Edit \/ (\E s \in Foreign : Import(s))
  \/ CatchUp \/ Collect
  \/ (\E k \in Keys : ProjectFails(k) \/ Unreadable(k))
  \/ Close \/ Crash
  \/ \E F \in SUBSET Keys : Rebuild(F)

Spec == Init /\ [][Next]_vars

(* The daemon and the schedule start a command that collects again and     *)
(* again; a command goes on until it ends; a file that can be read again   *)
(* and again is read at last.                                              *)
Fairness ==
  /\ WF_vars(CatchUp) /\ WF_vars(Collect) /\ WF_vars(Close)
  /\ SF_vars(StartCollect)
  /\ \A k \in Keys : SF_vars(Stat(k)) /\ SF_vars(Read(k))

FairSpec == Spec /\ Fairness

-----------------------------------------------------------------------------
(* Properties. *)

TypeOK ==
  /\ file \in [Keys -> [data : Seq(Lines \cup {Torn}), mtime : 0..MaxEdits]]
  /\ indexed \subseteq segs /\ listing \subseteq segs
  /\ \A k \in Keys :
       /\ state[k] = None \/ state[k].data \in Seq(Lines) \ {<< >>}
       /\ row[k] \in {None, Half} \/ row[k] \subseteq Seq(Lines) \ {<< >>}
  /\ pc \in {"idle", "indexing", "projecting", "ready", "collecting", "saving",
             "saved", "done"}
  /\ affected \cup queue \cup lost \cup failed \subseteq Keys
  /\ DOMAIN stats \cup DOMAIN fresh \subseteq Keys
  /\ batch # << >> => pc = "collecting"
  /\ affected # {} => pc \in {"indexing", "projecting"}

(* What the database shows of a conversation is what its indexed           *)
(* observations say.                                                       *)
Current(k) == row[k] = Projected(indexed, k, None)

Deleted == {k \in Keys : Tombstoned(indexed, k)}

(* Those catch-up has dealt with. *)
Settled == Keys \ (lost \cup failed \cup affected)

(* CatchUp leaves no conversation stale that it did not fail on, nor die   *)
(* over, as long as it has anything to show.                               *)
CurrentUnlessMissed ==
  \A k \in Settled :
    LET shown == Projected(indexed, k, None)
    IN  shown # None \/ k \in Deleted => row[k] = shown

(* The collector may skip a file whose time it knows: those lines are      *)
(* logged, though the file is written to between the look and the read.    *)
SkipSafe ==
  \A k \in Keys :
    state[k] # None /\ state[k].mtime = file[k].mtime =>
      state[k].data = Complete(k)

(* What the collector remembers as logged is in the log, line by line,     *)
(* whatever crashed between writing the log and saving the state.          *)
StateLogged ==
  \A k \in Keys : state[k] # None =>
    \A i \in DOMAIN state[k].data :
      \E o \in ObsFor(segs, k) :
        /\ o.dev = Self
        /\ o.off < i /\ i <= End(o)
        /\ o.data[i - o.off] = state[k].data[i]

(* And it is shown: every line the collector will not log again is in a    *)
(* version of the conversation once catch-up has seen the log.  Snapshots  *)
(* need that no process died: between the log and the state there may be a *)
(* later snapshot that the state does not know of.                         *)
StateShown ==
  segs = indexed /\ (appendOnly \/ faults = 0) =>
    \A k \in Settled : state[k] # None =>
      \/ /\ row[k] # None
         /\ \A i \in DOMAIN state[k].data :
              \E v \in row[k] : i <= Len(v) /\ v[i] = state[k].data[i]
      \/ Projected(indexed, k, None) = None

(* Only this device has it. *)
Own == {k \in Keys : \A s \in Foreign : \A i \in DOMAIN s.obs : s.obs[i].key # k}

(* A file that only grows is one version, however often the same lines     *)
(* were logged again and whatever was half written: no false divergence.   *)
NoFalseDivergence ==
  \A k \in Own \ Rewritable : row[k] \notin {None, Half} =>
    \E n \in 1..Len(file[k].data) : row[k] = {SubSeq(file[k].data, 1, n)}

(* A deleted conversation does not come back. *)
NoResurrection ==
  [][\A k \in Deleted : row[k] = None => row'[k] = None]_vars

(* And the collector records no more of it. *)
DeletedNotRecorded ==
  [][\A k \in Deleted : \A s \in segs' \ segs :
       s.dev = Self => \A i \in DOMAIN s.obs : s.obs[i].key # k]_vars

(* Once a file stops changing, all its complete lines are collected, and   *)
(* shown unless a crash or a failure lost them on the way.                 *)
EventuallyShown ==
  \A k \in Keys : <>[]
    (Complete(k) # << >> /\ k \notin Deleted =>
       /\ state[k] # None /\ state[k].data = Complete(k)
       /\ k \in lost \cup failed \/ row[k] = Projected(segs, k, row[k]))

(* catchup.go says of CatchUp that it "is how the archive recovers from a  *)
(* crash between writing the log and updating the projection": when it has *)
(* run, what it did not fail on is current.                                *)
CrashRecovered ==
  pc = "ready" => \A k \in Keys \ failed : Current(k)

=============================================================================
