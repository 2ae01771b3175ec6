# A formal model of chatstrata

chatstrata archives the conversations of AI coding tools. A *collector* compares
each tool's files with what it logged of them before and appends the difference
to this device's *observation log*; *catch-up* indexes the logs of all devices in
a DuckDB database and *projects* every conversation the new observations touch;
a *sync client* exchanges encrypted log segments with other devices through a
*relay*. The logs are the data; the database is derived from them.

This directory holds TLA+ modules of that system, the TLC configurations that
check them on small instances, and TLAPS proofs. Paths below are relative to the
repository's `internal/` directory.

## Contents

1. Inventory of the system
2. The modules and the code they model
3. The runs: what each shows, and its bounds
4. Fairness
5. What is proved, and how
6. Where the code and its documentation disagree
7. What is only model-checked, and what is not modelled
8. Plan

## 1. Inventory of the system

| component | code | state | operations | what makes it correct |
|---|---|---|---|---|
| observation log | `obslog/obslog.go` | segment files `devices/<id>/<first>.seg`, `identity.json`; per handle `nextSeq` and the identity | `Open`, `Append` (one or more `writeSegment`), `AdoptSpace`, `ImportSegment`, `Segments`, `Read` | numbers are used once; what was reported as written stays, once its directory is synced; all segments a device uses are of one space |
| archive lock, commands | `cli/archive.go`, `cli/synccmds.go` | DuckDB's exclusive lock; the daemon's log handle | `openArchive`, `Close`, `daemonRun` | whoever writes holds the lock |
| collector | `project/collect.go` | `collector_state` (length, hash and time per file) | `Collect` with its workers, `observe` | nothing is skipped that was not logged; the log is written before the state; logging twice is harmless |
| version reconstruction | `project/reconstruct.go` | none (a function of the observations) | `reconstruct`, `agrees`, `firstReaching` | independent of delivery; nothing dropped; real forks kept, false ones not made |
| catch-up | `project/catchup.go` | `indexed_segments`; the list of affected conversations, in memory | `CatchUp`, `recomputeOwnState` | after it, the database shows what the indexed observations say |
| projection | `project/project.go` | conversation rows, divergence rows | `Project`, `merge`, `order`, `applyTombstone` | a function of the observations; deletion is final |
| observation index | `store/obsindex.go` | `observations`, `indexed_segments`, `collector_state`, `tombstones` | `IndexSegment`, `ObservationsFor`, `IsTombstoned`, `SetCollectorState` | a segment is indexed whole or not at all |
| conversation rows | `store/ingest.go` | conversations, messages, content blocks, raw events | `Ingest`, `updateConversation`, `deleteConversation` | an interrupted replacement is repaired the next time |
| rebuild and swap | `cli/logcmds.go`, `store/swap.go` | a second database file beside the first, and the write-ahead logs of both | `runRebuild`, `OpenForReplace`, `Replace` | the old archive stays until the new one is complete; no writer slips in between |
| sync client | `devsync/sync.go`, `devsync/space.go`, `cli/synccmds.go` | `space.key`, `sync.json` | `Sync` (push, then pull), `pair`, `join` | all devices end with all segments |
| sync status | `devsync/status.go`, `cli/syncstatus.go` | `sync-state.json` | `RecordSync`, `LoadStatus` | the last success, and the first failure since |
| relay | `relay/relay.go` | a directory per space: token hash, segments | register, list, get, put | a segment is created once and never changes |
| schema migrations | `store/store.go` | the version recorded in the database | `Open` with `migrate` | nothing works on a schema that lacks a migration |
| search index | `store/store.go`, `store/ftsext.go` | full-text index and its coverage | `RefreshSearchIndex` | a search does not miss text silently |
| readers | `cli/read.go`, `cli/mcp.go`, `cli/analyze.go` | none | read-only opens that wait for a writer | |
| source adapters | `sources/...`, `model`, `pystr` | none (functions of a session's content) | discover, parse | a message keeps its id, role and place while the session grows |
| schedules, maintenance | `cli/schedule.go`, `cli/maintenance.go` | unit files | install, remove, report | |
| guards, golden tests, tools | `guard`, `golden`, `tools` | none | checks on the repository | |

How they interact. Every command that writes opens the archive (lock, then log,
then a catch-up), works, and closes it. Collection of all installed sources is
one `Collect` each and a catch-up at the end. The collector writes the log
first, the state in the database second; catch-up reads the log and writes the
database. The daemon runs collections in a loop and, between them, *closes the
archive* while it exchanges segments with the relay, so that other commands can
run; it keeps its log handle meanwhile. A sync writes segments of other devices
into the log's directory, with or without the lock. The source tools write
their files at any time.

What is hard here:

- **Crashes.** Four writes in a row (segment, directory sync, collector state,
  rows), each of which may be the last one.
- **Interleaving.** A file changes between the look at its time and the read; a
  sync adds segments while a catch-up lists them; another command runs while the
  daemon syncs.
- **Delivery.** Observations of one file, overlapping and from several devices,
  arrive in any order, some of them late or never.
- **Long sequences.** Forks, rewrites, deletions and rebuilds one after the other.

`PROJECT.json` lists the hazards one by one, each at its line, with the
properties that watch it.

## 2. The modules and the code they model

`DeviceLog` is the abstract promise of a device's log: observations get numbers
above all those in use, never change, and are not lost once stable.

**`ObsLog`** is the log's directory and the processes that use it.

| model | code |
|---|---|
| `segs` | this device's segment files: the number in the name, the space in the header, the observations |
| `unsynced` | renames a power loss can undo: those after the last `fsync` of the directory |
| `undo` | what `identity.json`, or a segment that `AdoptSpace` rewrote, goes back to if a power loss undoes a replacement that was not synced |
| `volatile` | the log's directory and `devices/<id>`, as long as a power loss can take them as a whole |
| `identity`, `paired`, `foreign` | `identity.json`; `space.key` with `sync.json`; the spaces of imported segments |
| `lock` | DuckDB's lock on the archive |
| `pc`, `nextSeq`, `space`, `batch`, `rewrite` | a process: where it is, `Log.nextSeq`, `Log.Identity.Space`, what `Append` and `AdoptSpace` have left to do |
| `acked`, `told` | history: what `writeSegment` has returned success for, with a sync of the directory since and without |
| `doubt` | history: a power loss undid `identity.json`, or a join did not see that the device is paired |
| `Lock`, `OpenLog`, `Close` | `openArchive`, `obslog.Open` with `lastSeq`, `archive.Close` |
| `StartAppend`, `RenameSegment`, `SyncDir` | `Append`, and `writeSegment` split at the rename; the directory is synced after it, or cannot be opened and is not |
| `WriteIdentity` | `writeFileAtomic` of `identity.json`, by `OpenLog` and `FinishJoin`: renamed, and synced or not |
| `Fail`, `GiveUp` | an I/O error before or after the rename; every caller returns it |
| `StartJoin`, `RewriteSegment`, `FinishJoin`, `Save` | `runJoin`, which may not be able to read whether the device is paired; the loop of `AdoptSpace`, its last write; `devsync.Save`, which syncs no directory |
| `Detach`, `Reattach` | `daemonRun` closing the archive around a sync |
| `ImportSegment` | `Log.ImportSegment` |
| `WriteBack` | the operating system writes all directories back (external) |
| `Crash`, `PowerLoss` | the end of a process; of all, with any of the unsynced renames undone, `space.key`, `sync.json` or the imports gone, and directories that were not written back gone with what is in them |

A segment appears by rename, so in one step; its bytes were synced before. A
content has a `Size`, so that a batch is cut where the code cuts it.

What is durable follows `writeFileAtomic` closely. It renames, then opens the
directory and syncs it; if it cannot open it, it returns success all the same
(`obslog.go:562-566`). So `SyncDir` has two outcomes that both report success, and
`AckedStable` says of each what it is worth: synced, now or by a later segment's sync,
the observations are in a file that no power loss takes on its own (`acked`); not
synced, they are there until the next power loss (`told`). Nothing syncs the directory
that holds `devices/<id>`, or that of the log (`obslog.go:235`), so a power loss can take
either as a whole until the operating system wrote it back (`volatile`), which ends
both claims; the same holds when `identity.json`, whose creation was not synced, goes
and the log gets a new device id, to which the old segments are another device's.

`identity.json` is visible from its rename on, though it can be undone: a process that dies
between the two, or whose sync fails, leaves the new identity. The next join finds
nothing to do (`obslog.go:340`) and the device syncs; a power loss then brings the old identity
back beside segments of the new space. The model has all of this, and
`SpaceAgreement` excepts the states after such a loss (`doubt`), as nothing in the code
guards against it. It also excepts those after a join that could not read `space.key` or
`sync.json` and so did not see that the device is paired (`synccmds.go:126`).

The model is wider than a file system where that is simpler: a power loss may take
`space.key` with `sync.json`, and all imports, at any time, whether they were
written back or not, and undoes renames in one directory in any combination.

**`Collector`** holds what the collector makes of one file, `Observe`,
`CompleteLines`, and `Replay`, what `recomputeOwnState` makes of the
observations again. **`Reconstruct`** holds `reconstruct`: the order of the
fragments, the passes over them (`Placement`), `Agrees`, `Extended`, the forks,
the versions that are kept and their contributors. In both a file is a sequence
of lines: the code compares bytes and hashes of prefixes, the model compares the
lines, which is the same if hashes do not collide and lines are of one length.
Both are written without recursion operators.

**`Adapters`** holds what the six sources' `Parse` makes of a session's records:
which of them become messages, with their ids, roles, blocks, order and times,
and the conversation's title, project, raw events and span. A record is a TLA+
record of the fields that decide these. **`Merge`** holds `order` and `merge` of
`project/project.go`: which version leads, which messages of the others are new,
where the fork is, in which order the branches follow, which divergences are
reported.

**`Histories`** drives `Collector` and `Reconstruct`: several devices' copies of
one session, of any of the six sources, grow, take over what another copy holds,
or are rewritten (a source that is logged as snapshots changes at will);
`Collect` logs the difference with what was logged before, and may fail to save
that; `ImportLegacy` imports what the Python archive made of a copy.
**`Sessions`** puts the whole way from observations to what is shown on top:
`Live` (each device's latest snapshot), the versions as candidates, the imports
behind them, `Merged`, and `Shown`. The properties of both quantify over every
subset of the observations and imports, that is over every state of delivery
(projection does not depend on the order of delivery, as `reconstruct` sorts what
there is; the code does sort, and the model takes a set).

**`Archive`** is one device with its files, log, database and process.

| model | code |
|---|---|
| `file` | the source's files: lines and modification time |
| `segs` | the log, own and foreign segments; `ObsLog` shows why it only grows |
| `indexed` | `indexed_segments` with `observations`, written in one transaction |
| `state` | `collector_state` |
| `row` | the versions a conversation's rows were made from; `Half` between the transactions of a replacement; `None` when there are no rows |
| `pc`, `listing`, `affected`, `queue`, `stats`, `fresh`, `batch` | the process's memory: where it is, `CatchUp`'s list of segments and of affected conversations, the collector's work list, the times looked up, the states to save, the observations to append |
| `StartCatchUp`, `IndexSegment`, `EndIndexing`, `Project`, `ProjectFails`, `EndCatchUp` | `CatchUp` |
| `BeginReplace` | the first transaction of `updateConversation` or `deleteConversation` |
| `StartCollect`, `Stat`, `Read`, `Unreadable`, `AppendSegment`, `EndAppend`, `SaveState`, `EndCollect` | `Collect` and the two halves of `observe`, by workers in any order |
| `Rebuild` | `rebuild`: a catch-up on an empty database, swapped in |
| `Import` | a sync that brings a segment |
| `Close`, `Crash` | the end of a command; a death, a cancellation or an error that ends it |
| `Write`, `WriteTorn`, `Rewrite` | the source's tool (external) |
| `appendOnly` | what the source's `AppendOnly()` says; never changes |
| `lost`, `failed`, `faults` | history: keys a crash left indexed but not projected, keys whose last projection failed, and how many such events there were |

**`Rows`** is what `Archive` has as one intermediate state: the rows of one
conversation while `Ingest` and `RemoveConversation` work on them, a statement at
a time.

| model | code |
|---|---|
| `conv`, `messages`, `blocks`, `events`, `divergences` | the tables; of a message, its own columns and its blocks apart, as they are deleted apart |
| `target`, `keep`, `steps`, `branches` | the process's memory: what it stores, how many rows it keeps, the statements left |
| `Ingest` | `Store.Ingest` up to its first write: unchanged, updated in place, replaced, or inserted |
| `ClearHash`, `DeleteBlocks`, `DeleteMessages`, `DeleteEvents`, `DeleteConversation` | the statements of `updateConversation` and `deleteConversation`, each a transaction |
| `Commit` | `appendRows` and the conversation's row, in one transaction |
| `ClearDivergences`, `InsertDivergence`, `RemoveDivergences` | `ReplaceDivergences`, and the end of `RemoveConversation` |
| `Leave` | the end of `Project`, by an error, a crash or success |
| `buried` | history: a tombstone is known, so `Project` only removes |

**`Sync`** is several devices, their logs as `ObsLog` leaves them, and relays.

| model | code |
|---|---|
| `held`, `unsynced`, `saved` | a device's log with its copies of the others'; own segments a power loss can undo; the relay in `sync.json` |
| `store`, `token`, `uploads` | a relay's segments and `token.sha256`; PUT requests on their way or being received |
| `pc`, `via`, `queue`, `device`, `todo` | a client: the place in `Client.sync`, its relay, devices left, the device at hand, segments left |
| `Begin`, `PushDevice`, `PushList`, `Upload` | `Sync` or `Reseed`: the push loop, the local list before the relay's |
| `PullDevices`, `PullDevice`, `PullList`, `Download`, `Synced` | the pull loop, `download` with `ImportSegment` |
| `Register`, `Registered`, `RegisterFails`, `Refuse` | `authorize`: the token file is made and written, or the write fails part of the way; torn, it matches nothing |
| `Lists`, `Listed` | a listing; without a token file it is a 404, which the client takes for an empty one |
| `Conflict`, `Receive`, `Link` | `putSegment`: the look at the file, the content, the link |
| `Return`, `Abort` | the end of a sync; an error, a timeout or a crash |
| `Lose`, `CrashRelay`, `PowerLoss` | the network, the relay's and a device's machine |
| `TokensLeft` | what a power loss leaves of the token file, which nothing syncs: all of it, a part, or none |
| `lives`, `moves`, `crashes`, `failures`, `goal` | history: bounds, and what a sync has to have moved |
| `intact`, `known`, `forked` | history: no relay lost segments; none lost the token of a space it has segments of; the segments a device lost in a power loss when there was already a copy of them |

A listing and a download are one step each, at the time the relay answers. An
upload is not: it may be handled long after its client gave up. A segment's
content is the number of power losses its device had when it was written, which
is what tells two segments of one number apart. A device that loses power keeps its
log up to the last segment: of what `ObsLog` says a power loss can take, that is the
part that leaves the device the same and its log without a gap. A device whose
`devices/<id>` or `identity.json` is lost as a whole is left out here.

`SyncMeansSynced` compares contents. After a sync that reports success the relay has each
segment the device had when it began, and the device each the relay had, *with the
content that the device which wrote it has under that number*. The exception is `forked`: a
segment that was uploaded before its directory entry was synced, and then lost in a
power loss. Its device gives the number to another segment, the relay answers 409, the client
takes that for its own (`sync.go:184`), and the sync succeeds although the relay holds
the earlier one (section 7). Of such a segment only the number is compared. Without the
exception TLC finds a violation on the instance of the run `sync`.

**`Host`** is the files of one data directory and the processes that use them. A
DuckDB database is a file and a write-ahead log, which DuckDB finds by the
*path*, while a lock is on the *file*: it is what the swap of a rebuilt archive
has to get right.

| model | code |
|---|---|
| `at`, `wal`, `file` | where the archive's path and that of the build beside it lead; the `.wal` next to each path, with the file it was written for; what is in every file ever made |
| `log`, `identity`, `status` | the number of segments; whether there is an `identity.json`, which `rebuild` asks for; `sync-state.json` |
| `handle`, `aside` | the archive as a process has it open, and the database `runRebuild` makes beside it |
| `pc`, `note` | where a process is; the result of a sync it has yet to record |
| `OpenStore`, `ApplyMigration`, `RecordMigration`, `Migrated` | `store.Open` with `migrate`, a statement at a time |
| `IndexSegment`, `CaughtUp`, `AppendLog`, `Close` | `CatchUp`, work, and closing, which merges the write-ahead log |
| `Attempt`, `CutShort`, `LoadStatus`, `SaveStatus` | `syncNow` and the daemon's sync; `RecordSync`, which reads the file, starts from nothing if it cannot, and writes it back, if it can |
| `OpenForReplace`, `RemoveOldBuild`, `RemoveOldLog`, `OpenBuild`, `CloseBuild`, `CheckpointOld`, `Rename`, `CloseOld`, `FailRebuild` | `runRebuild` and `Store.ReplaceWith` |
| `OpenReadOnly`, `CloseReader` | the readers' requests |
| `Crash` | the end of a process; its locks go, the write-ahead logs stay |
| `acked`, `attempts`, `unsure` | history: segments indexed when the archive was closed; all results of syncs; whether notes overlapped or were lost, or the record could not be read or written |

`Search`: the full-text index beside the blocks it was made from, and what `search`
finds with both (`store/store.go`, `cli/read.go`, the end of `CatchUp`).

| in the model | in the code |
|---|---|
| `text` | the text of each row of `content_blocks`, by its id, which depends on its message and place |
| `index` | what `RebuildFTS` made: the texts of that time, by the same ids |
| `loadable` | whether `LoadFTS` finds the DuckDB extension |
| `StartCatchUp`, `Project`, `Refresh`, `LeaveIndex` | `CatchUp`: conversations projected, counted or failed, and its end, which makes the index anew, or not |
| `FTSNeedsRebuild`, `Pending` | `FTSNeedsRebuild` and `FTSCoverage` |
| `Reindex`, `Rebuild`, `Install` | `reindex`, `rebuild`; builds of the program with the extension and without |
| `Ranked`, `Fresh`, `Found`, `Shares` | `runSearch`: ranked matches, those of blocks not indexed yet, the search without an index, the slots of each |
| `inserted`, `edited`, `missed` | history: blocks that are new since the index was made, or not what it says; changes no catch-up has looked at the index after |

`MCObsLog`, `MCHistories`, `MCArchive`, `MCRows`, `MCSync`, `MCHost` and `MCSearch`
instantiate them for TLC. `ObsLogProofs`, `HostProofs`, `RowsProofs`, `SyncProofs`,
`SearchProofs`, `ReconstructProofs`, `HistoriesProofs` and `ArchiveProofs` prove theorems
about the modules they are named for; the last two build on `ReconstructProofs`.

Definitions commented "Mutant" or "Mutant of ..." are plausible mistakes in the operator they
name. No specification uses them: put in place of that operator they break the
property `PROJECT.json` names, which shows that the property can fail.

## 3. The runs

| run | question | result |
|---|---|---|
| `obslog` | two processes append, join, pair, import, crash and lose power | holds: no number used twice (`SegmentsDisjoint`), one writer (`LockHeld`), what was reported as written is there, and stays once its directory is synced (`AckedStable`), one space unless `identity.json` was undone or a pairing not seen (`SpaceAgreement`), and the files implement `DeviceLog` |
| `obslog_rebuildable` | can the archive be rebuilt at any time? | no, see 6 |
| `histories` | two devices' copies of one session of any source, every subset of what they logged and imported delivered | overlapping parts of one history make one version (`OneHistory`); nothing delivered is dropped (`NothingDropped`); logging twice changes nothing (`RelogIgnored`); a fragment that says no more than one before it with the same start changes nothing (`StaleIgnored`); of all versions every message is shown once (`EachOnce`), branches in the order they began (`BranchesInOrder`), a complete version as it is (`WholeShownAsIs`); divergences are reported exactly when live versions disagree (`Flagged`); importing what is there adds nothing (`LegacyAddsNothing`) |
| `histories_keep_both` | is what each device saw shown? | no, see 6 |
| `archive_mixed` | one file of an append-only or a snapshot source, rewritten, with other devices' continuation and deletion | the database is current except where a fault is recorded (`CurrentUnlessMissed`); what is logged is shown (`StateShown`); skipping by time is safe (`SkipSafe`); a deleted conversation does not come back (`NoResurrection`), nor is it recorded again (`DeletedNotRecorded`) |
| `archive_live` | two growing transcripts | what the collector believes logged is logged (`StateLogged`); a growing file is one version, however often it was logged (`NoFalseDivergence`); when a file stops changing, its complete lines end up logged and shown, or marked lost by a fault (`EventuallyShown`) |
| `archive_crash` | does catch-up repair a crash? | no, see 6 |
| `rows` | versions of a conversation stored over one another, and removed, with a stop after any statement | a hash that is stored is that of the rows there (`HashHonest`); references hold at every commit, as DuckDB demands (`Referential`); a projection that ends leaves exactly what it was given, whatever it found (`Projected`); rows that are right are not rewritten (`KeepsLeading`) |
| `sync` | a writer and a reader that reseeds, two relays, delayed uploads, power losses, a move | no gaps anywhere (`NoGaps`); after a sync that succeeds both sides have the segments as their writers have them, but for those a writer lost when they were copied (`SyncMeansSynced`); a segment on a relay is not replaced (`SegmentsKept`) |
| `sync_live` | two daemons, a move of both, a relay that crashes and loses segments or its token, a write of a token that fails | what is written arrives (`EventuallyEverywhere`) |
| `host` | two processes open, migrate, index, append, read, sync and rebuild, and die anywhere | what was indexed stays under the archive's path, and no write-ahead log ends up next to another file (`IndexedKept`); the log has one appender, also during a swap (`OneAppender`); nothing is indexed in a half-migrated schema (`SchemaComplete`); `sync-state.json` is true unless notes overlapped or were lost or it could not be read or written, and again after the next success noted alone (`StatusTruthful`) |
| `search` | blocks come, go and change, catch-ups end early, extensions come and go | a block is found unless its text changed since the index was made (`NewestFound`); new matches get a quarter of the slots and no slot is wasted (`SlotsShared`); few blocks are missing from the index after a catch-up that looked at it (`LagBounded`); an index is made only when new blocks pay for it (`RebuildsPaid`) |

The type invariants of `ObsLog`, `Host`, `Rows`, `Sync` and `Search` are proved
(section 5) and not checked again in the runs; those of `Histories` and `Archive` are.

Bounds, and why they are enough.

- `obslog`: two processes (the lock, and a log handle used by one while the
  other holds the lock, need two); two contents, one that fits in a segment and
  one larger than the limit, batches of two, so that a batch is one segment or
  two; two numbers, so that a segment follows another, or holds two
  observations and is named for the first; two spaces; one replaced
  file that a power loss can undo (`MaxUndo`), `identity.json` or a segment, next to any
  number of new segments. The processes and the spaces are interchangeable, which is used as a symmetry.
  557,594 distinct states.
- `histories`: two devices whose copies are ordered as their ids are; for sources
  of lines a first line and any two of three or four others, one of each kind the
  adapter treats in its own way, so that there is a start, a middle to fork in and
  an end to extend; for sources of documents three or four that grow, fork and are
  edited; three observations and imports in all for claude_code, where ids and
  lines tell every case apart, and two for the others, which is enough for two
  versions, or a version and an import.
- `archive_mixed`: one key; both kinds of source; two contents, one of which
  holds no message; a segment each of two other devices; two edits and one fault.
- `archive_live`: two keys, for a batch cut into two segments with a crash
  between them; files of two lines; two edits in all, which is what makes a file stop
  changing; one fault, anywhere.
- `rows`: six conversations that differ in each way the code tells apart: longer,
  a message's blocks changed, blocks gone, an indexed column, only divergences.
  Any sequence of them is stored, so the run needs no bound.
- `sync`: one device writes two segments, so that they can move out of order; two
  uploads on their way, so that an old one can meet a new one; one power loss of
  each device and one move. A power loss that undoes nothing is a sync cut short,
  and an upload may stay on its way for ever, so failed requests (`Lose`, `Abort`)
  add little here and are left to `sync_live`, as are crashes of a relay. The
  relays are interchangeable, which is used as a symmetry. 527,753 distinct states.
- `sync_live`: one segment, a move of each device, one crash of a relay that may
  lose segments or its token, one failed request or failed write of a token. 760,428
  distinct states.
- `host`: two processes, one to rebuild or write and one to come in between;
  two migrations, of which the second cannot be applied twice, as 0003, which adds
  a column; one segment, which is indexed or not; three files, so that an archive,
  a build that was left behind and a new build exist in turn; three attempts to
  sync, so that a failure, a second one and a success come in any order. The
  processes are interchangeable, which is used as a symmetry. 2,014,863 distinct states.
- `search`: five blocks and an index that is made anew when one block is missing or
  half as many as it holds, so that an index of four needs two; one word, as
  one query does not look at others; limits to six, so that a quarter is one and both
  kinds of match exceed their share. Blocks are interchangeable, which is used as a
  symmetry.

Deadlock is checked in all runs but those of `Histories`, which stops when all
observations have been made and says so in its configurations.

## 4. Fairness

Two runs assume some.

`archive_live`: weak fairness of `CatchUp`, `Collect` and
`Close`: a command does not stop in the middle other than by a crash. Strong
fairness of `StartCollect`: the daemon's loop and the schedules start a
collection again and again, and not every command is a catch-up only. Strong
fairness of `Stat` and `Read` for each key: each time a file's turn comes the
worker either goes on or meets a file it cannot read, and a file that is there
can be read in the end. Edits, imports, crashes, failed projections and
unreadable files are not fair, and neither is `Rebuild`, so nothing relies on
someone running it.

`sync_live`: weak fairness of each client's next step and of its return, as the
daemon's loop starts a sync again and again and `Client.HTTP` has a timeout; and
of each relay's handling of what reaches it. Requests fail only `MaxFailures`
times, after which a sync gets through: nothing arrives over a network that
always fails. A relay whose token file a crash or a failed write has torn is left
out, as it refuses everyone for good.

## 5. What is proved, and how

`ObsLogProofs` proves for all processes, contents, sizes, spaces and bounds:

| theorem | says |
|---|---|
| `TypeCorrect` | `Spec => []TypeOK` |
| `MutualExclusion` | `Spec => []LockHeld` |
| `NumbersUnique` | `Spec => []SegmentsDisjoint` |
| `Durability` | `Spec => []AckedStable` |
| `OneSpace` | `Spec => []SpaceAgreement` |
| `Refinement` | `Spec => ImplementsDeviceLog` |

They rest on `ObsLogAssumption` only. All come from `Invariance`, that `IInv` is
inductive. `SegmentsDisjoint` and `AckedStable` are not inductive: a process
about to write may, as far as they say, hold a `nextSeq` some segment already
covers. `IInv` adds:

- `SegmentsOrdered`: the numbers of a segment end before the next segment's begin,
  so that the last record of the last segment (`IsLastSeq`) is above all.
- `NextSeqFree`: the next number of a process that may still write is above every
  segment, or is that of the segment it has just renamed. Only a process with
  the lock changes segments, so `LockHeld` keeps this true for the one that has it.
  A process whose write failed has given up, which is what excuses it: after a
  failed directory sync its `nextSeq` is stale.
- `JoinExclusive`: a joining process excludes pairing and imports, so nobody uses
  the old space meanwhile, unless it did not see the pairing (`doubt`); a detached
  process is of a paired device; and without `identity.json` there is no segment of
  this device.

None of these assumes that an acknowledgement comes with a sync, or that `identity.json`
is durable when it is seen: `LossKeeps` has what a power loss leaves whichever
subset of renames and directories it takes, and `AckedStep` and `SpaceStep` treat it as one more
step.

The refinement maps `entries` to the numbered observations in the files and
`stable` to those in segments whose directory entry is synced, or to none while the
directory itself, or `identity.json`, can still be lost (`DirectoryStable`). A rename is
`Extend`, a directory sync or `WriteBack` is `Persist`, a power loss `Lose`; a report of success without a
sync is a stutter, as are rewriting a segment for another space, which changes no
entry, and all else.

`HostProofs` proves for all processes, migrations (any of which may fail when
applied twice) and bounds:

| theorem | says |
|---|---|
| `TypeCorrect` | `Spec => []TypeOK` |
| `Appenders` | `Spec => []OneAppender` |
| `SchemasComplete` | `Spec => []SchemaComplete` |
| `IndexKept` | `Spec => []IndexedKept` |
| `StatusTrue` | `Spec => []StatusTruthful` |

They rest on `HostAssumption`: the bounds are natural numbers and `None` is none
of the values it stands in for. All come from `Inductive`, the conjunction of

- `Shape`: what a process has open by where it is;
- `Locks`: what is open is what its path leads to, except for the old archive of a
  process that has just renamed over it (`Current`); the two paths lead to two
  files (`Apart`); a file is open twice only for reading (`Exclusive`). From these
  follows `Alone`: while one process has the archive open, other than for
  reading, no other has anything open, or it is about to close an old file.
  `OneAppender` is a consequence;
- `AllSound`: wherever a database is, in a file, a write-ahead log or a process,
  the recorded version is applied and only segments of the log are indexed; and
  `Stages`: what the version is by where a process is;
- `Storage`: a writer's database is what its path stores, file and write-ahead
  log together; a write-ahead log belongs to the file its path leads to; from the
  removal of the old build to the rename there is none beside the archive that
  could be taken for the new one's; and what was built has all that was ever
  acknowledged. `IndexedKept` alone is not inductive: it says nothing of the build
  that `Rename` puts in the archive's place;
- `Noted`: a lone note is about the last attempt and has read what is there, and
  while nothing is unsure it is all that the file lacks. The greatest number of a
  set, in which `StatusTruthful` is stated, exists by the well-foundedness of `<`.

Each step of each part has its own lemma (`TypeStep` to `NotedStep`), an action at a
time. What several actions share is in lemmas about the operators they are made
of: a statement (`CommitEffect`, `CommitStored`), merging a write-ahead log
(`CheckpointStored`), opening a path (`OpenType`, `OpenFresh`, `OpenStored`).

`RowsProofs` proves for any set of conversations with any number of messages, blocks
and events:

| theorem | says |
|---|---|
| `TypeCorrect` | `Spec => []TypeOK` |
| `HashesHonest` | `Spec => []HashHonest` |
| `RowsReferential` | `Spec => []Referential` |
| `ProjectsExactly` | `Spec => []Projected` |
| `LeadingKept` | `Spec => KeepsLeading` |

They rest on `RowsAssumption`: there is a conversation, its messages, blocks and
events are sequences, and `None` is no conversation, hash or row. `HashHonest` and `Projected` say nothing while an
update is under way; `IInv` adds what holds then:

- `Writing`: while statements are left, the rows up to `keep` are those of the target
  (which is why `Commit`, which adds the others, ends with the target's rows), the hash is
  gone from the first deletion on, and the statements left are an end of the plan;
- `Maximal`: `keep` is as far as rows and target agree, whatever has been deleted, so
  that `KeepsLeading`, stated over the rows as they are at each step, follows from it;
- `Finished`: what holds between the commit and the end of a projection, while the
  divergences are written;
- `Whole`: the conversation's row is the last to go, so without it there is no row at all;
- `Tables`: the types the lemmas about sequences and sequences of statements need.

`SyncProofs` proves for all devices, clients, relays and bounds:

| theorem | says |
|---|---|
| `TypeCorrect` | `Spec => []TypeOK` |
| `NeverAGap` | `Spec => []NoGaps` |
| `OneContentHolds` | `Spec => []OneContent` |
| `SuccessMeansSynced` | `Spec => []SyncMeansSynced` |
| `RelaysKeep` | `Spec => SegmentsKept` |

They rest on `SyncAssumption`: each client has a device, there is a relay, the bounds
are natural numbers and `None` is no state of a token. The run `sync` has no crash of a
relay and no failed request, which would make it too large; the theorems have both.
`NoGaps` and `SyncMeansSynced` depend on each other and on what is on its way, so
`IInv` is about all of it:

- `Whole`: while no relay has lost a segment, a log that has a segment has those
  before it (`Gapless`, which `GaplessCount` shows to be the interval `NoGaps` states);
  `Own`: a device's own log does, whatever the relays lose;
- `Sent`: those before a segment that is on its way are on the relay already. An
  upload is sent for the least number left, and a relay does not forget;
- `AllClients`: what each client has left. While pushing (`Pushing`), `todo` is of
  segments the device has, all below them are in `todo` or on the relay, and of its
  goal each is on the relay, of a device yet to come, or in `todo`. While pulling
  (`Pulling`), the same of the device's log, and all of its goal to upload is on the
  relay. In the end nothing is left, which is `SyncMeansSynced`;
- `Contents`, `Tokens`: contents are of a life the device has had; while no relay lost a
  token (`known`), one that has segments has a token, or what is left of one, so that it
  answers 404 only if it has none. `SyncMeansSynced` needs that for what is downloaded
  only: what is uploaded is compared with the relay itself, segment by segment.

These are about numbers. That a number stands for one segment is `OneContent`: every copy of
a segment that is not `forked`, at a device, a relay or on its way, is what its writer has
under that number. It is inductive by itself beside `IInv`: a number is given to a new
segment only when the device has none of it, and then nobody has a copy, unless it is
`forked` (`AppendOne`); a power loss that takes a segment somebody has makes it so
(`PowerLossOne`); a relay's loss only removes copies (`CrashRelayOne`).

A client's part of the invariant is stated over values (`Client(c, p, q, e, t, g, H,
S, i, k)`), so that `ClientGrows` can say once that more segments at hand and at the
relay, put there by anybody, are no harm. A power loss takes segments from a device's
own log only, and stops all of its clients.

`SearchProofs` proves for all blocks, words, limits and policies of when to make the index:

| theorem | says |
|---|---|
| `TypeCorrect` | `Spec => []TypeOK` |
| `AllFound` | `Spec => []NewestFound` |
| `SlotsAreShared` | `Spec => []SlotsShared` |
| `LagIsBounded` | `Spec => []LagBounded` |
| `EachRebuildPaid` | `Spec => RebuildsPaid` |

They rest on `SearchAssumption`: there are finitely many blocks, `None` is neither
a word nor an index, the least number of missing blocks and the divisor are positive.
`IInv` adds `Faithful`, that the index says of a block that was not edited what its text
is, and that too few blocks are missing (`~Enough`) not only between commands but whenever
nothing has changed since the index was last looked at (`Seen`), as at the start of a
catch-up that finds nothing to do. `EachRebuildPaid` counts: the blocks there are are
indexed or inserted (part of `TypeOK`), those missing are inserted, and they are at least
the share of those indexed (`Quotient`). `SlotsAreShared` is about `Shares` alone, which
`SharesOf` shows for all numbers.

`ReconstructProofs` proves of `reconstruct`, for any set of fragments of any number of
devices (`Given`: finitely many, none empty, no two of one number):

| theorem | says |
|---|---|
| `ContentsTyped` | the versions are nonempty sequences of observed lines |
| `ShownOrWaits` | every fragment has its lines in a version that is returned, at their place, or comes after a gap none reaches across |
| `NothingInvented` | every line of a version was observed at its place, and every version has all of some observation |
| `Attributed` | a fragment is attributed a version unless it waits so, and every version is attributed one |
| `OneVersion` | fragments of one history make one version, a beginning of it |
| `BeginningReached` | that beginning ends before the first line that none of them has, and nowhere else |
| `OnePass` | the first pass of the loop places every fragment that is placed at all |
| `Restated` | a fragment that starts where one before it in the order does, and says no more, changes no version |

`Versions` is recursive functions: a pass over the fragments in order, and passes until
one changes nothing. The provers cannot instantiate induction theorems, so the induction
is done once over sets: `LeastOf` and `GreatestOf` from the well-founded minimum, `UpTo`
from them, `Steps` that a function can be iterated. `PassRun` and `PlacementRun` then
turn the recursive functions into finite runs of `Place`, and `PlacementIn` says that a set
closed under `Place` holds what the passes end with. The other results are such sets:
`PlaceMade` (lines are observed ones), `PlacedContained` (a placed fragment is part
of a candidate). That a fragment left over waits (`PlacementStuck`) is that the passes
end: each that does not change nothing places a fragment. `Longest` and `KeptContinues` say
that dropping candidates that begin another loses nothing.

`OnePass` holds because fragments are sorted by where they start: when one waits, none of
those after it can be placed (`PlaceWaits`), so the versions stay as they are. `Restated`
compares two placements, with the fragment and without. `SortedInsert` says that the order
with it is the order without, with one place more; up to that place the two have the same
versions, and after it they have again (`PlaceAlike`), if placing it changes none. That is the
case when the versions are `Quiet`: each that agrees with it is long enough to have it, and
there is one that agrees, unless all of them end before its start. They are so once the fragment
it restates has had its turn (`QuietAfter`) and stay so through those between the two, which
start at the same line and are no shorter (`QuietStays`).

`HistoriesProofs` proves for all devices, copies and sources:

| theorem | says |
|---|---|
| `HistoriesTyped` | `Spec => []TypeOK` |
| `HistoriesNothingDropped` | `Spec => []NothingDropped` |
| `HistoriesOneHistory` | `Spec => []OneHistory` |
| `HistoriesRelogIgnored` | `Spec => []RelogIgnored` |
| `HistoriesStaleIgnored` | `Spec => []StaleIgnored` |

They rest on `HistoriesAssumption`: finitely many devices, with numbers; the copies of a
session are nonempty sequences of records. `IInv` says that what a device logged is all of
a copy or its end, in the order of the log; so whatever is delivered satisfies `Given`
(`DeliveredGiven`) and the theorems of `ReconstructProofs` apply. They hold in every state of
delivery at once, as the properties quantify over it.

`ArchiveProofs` proves for all conversations, lines, files, segments of other devices and bounds:

| theorem | says |
|---|---|
| `ArchiveTyped` | `Spec => []TypeOK` |
| `ArchiveStateLogged` | `Spec => []StateLogged` |
| `ArchiveSkipSafe` | `Spec => []SkipSafe` |
| `ArchiveNoResurrection` | `Spec => NoResurrection` |
| `ArchiveDeletedNotRecorded` | `Spec => DeletedNotRecorded` |
| `ArchiveCurrentUnlessMissed` | `Spec => []CurrentUnlessMissed` |
| `ArchiveNoFalseDivergence` | `Spec => []NoFalseDivergence` |
| `ArchiveStateShown` | `Spec => []StateShown` |

They rest on `ArchiveAssumption`. Beyond the types of the constants it says that what other
devices wrote is segments of observations, of which no two of one device share a number.
`NumbersUnique` proves it of the log of each device, and `OneContentHolds` of all copies
of a segment, but for one that its device uploaded and then lost in a power loss (section 7):
there the relay keeps the earlier segment, which may be longer than the one that took
its number, and another device may get observations whose numbers overlap. The theorems
of `ArchiveProofs` do not speak of an archive that holds such a log. `None` is nothing else. None of the properties is inductive. The parts of the
invariant, each of which TLC checked before it was proved:

- `TypeInv`, `PhaseInv`, `NumberInv`: types; a phase's variables are empty outside of it; own
  segments follow each other and end before `NextSeq`. With the last, an observation has its
  number alone (`ObsForDistinct`), which `reconstruct` needs, and a new one comes after all.
- `LogInv`: what `state` remembers is in the log (`StateLog`); what `fresh` is about to
  remember is in the log or in `batch`, which is appended before it is saved (`FreshLog`); an own
  observation starts at the beginning or goes on from one logged before it (`OwnLog`,
  `WaitLog`), so none waits behind a gap. `ReplayOwn` shows by induction over the log that what
  `recomputeOwnState` makes of the observations again is in them too, which is the case
  of a state that was lost: by a crash before `SaveState` or by a rebuild.
- `SkipInv`: what is remembered of a file, in `stats`, `fresh` or `state`, is no newer than the
  file, and is what the file holds when it is as new. The time is looked up before the file
  is read, so a change in between leaves the older time: this is why the order matters.
- `DeletedInv`: nothing of a deleted conversation is in the work list or the batch. A
  tombstone can only be indexed before the collection starts.
- `NotMissed`: outside of catch-up and of a replacement, rows differ from what the index
  makes only for keys that are `affected`, `lost` or `failed`.
- `GrowInv`: while a file only grows, what was logged, remembered and shown of it is a part
  or a beginning of it; then `OneVersion` applies. `GrowEdit` shows that writing keeps it.
- `SnapshotInv`, `NewestInv`: of a source that is logged as snapshots, every own observation
  is one, and the newest is the one remembered or about to be, while no fault has happened.

`ArchiveStateShown` combines them: a remembered line is in the log, so in an indexed
observation, which is part of a version (`ShownOrWaits` with `OwnLog`), or is the newest snapshot.

## 6. Where the code and its documentation disagree

- `obslog_rebuildable`. `AdoptSpace` rewrites the segments one at a time and
  `identity.json` last. Stopped in between, the log holds segments of two spaces,
  and a catch-up that has them still to index refuses them. ADR 0005 says the
  archive "can be rebuilt from observations at any time". Joining again repairs it.
- `histories_keep_both`. A message without a native id, as each prompt in a codex
  transcript, is known to `merge` by its position alone. When two devices resume
  one session with different prompts, both prompts stand at the same position and
  the second is taken for the first: one device's prompt is not shown, and no
  divergence is reported when its version has nothing else.
  `spec/projection/scenarios.json` says "Keep both; neither overwrites the other."
- `archive_crash`. A segment is marked as indexed in one transaction, the
  conversations it touches are projected afterwards from a list in memory. After
  a crash between the two, no catch-up looks at them again until they gain an
  observation; a deletion can stay without effect. The comment on `CatchUp` says
  it "is how the archive recovers from a crash between writing the log and
  updating the projection".

`CurrentUnlessMissed` says exactly how far `archive_crash` reaches: a conversation is
current unless a crash or a failed projection is on record for it or it has
nothing to show.

## 7. What is only model-checked, and what is not modelled

`ObsLog`, `Host`, `Rows`, `Sync`, `Search`, `Reconstruct`, `Histories` and `Archive` have
theorems. Checked by TLC only, on the instances of section 3:

- the properties of `Sessions` (`EachOnce`, `BranchesInOrder`, `Flagged`, `LegacyAddsNothing`,
  `WholeShownAsIs`), and `Adapters` and `Merge` with them, as operators that `Sessions`
  applies. Their folds over sequences are of many kinds, and what each computes would need
  an induction of its own, as in `ReconstructProofs`; and a theorem of the specification needs
  that each of the six adapters makes a sequence of messages of whatever a copy holds;
- liveness (`EventuallyShown`, `EventuallyEverywhere`), which is out of the prover's reach.

`NoGaps` in `Sync` is about segments by their numbers: where a relay keeps the earlier of
two segments of one number, all numbers are there and observations may still be
missing between them.

Assumed, of what is not in the repository: a DuckDB statement is durable once it
returns; DuckDB merges the write-ahead log it finds by the path when it opens or
closes; the lock is on the file; a process that dies loses its locks and nothing
else. `Host` has no power loss (`ObsLog` and `Sync` do), so that a power loss may undo
the rename of a swap is left out; and it has the swap as it is on systems other than
Windows, where the old archive is closed before the rename.

Left out of the models:

- *Encodings.* Records, checksums, zstd, age, JSON, join codes: what a segment
  says is what was written to it. The limits on the size of a record when read
  (`readRecord`) and of an upload (`MaxSegmentBytes` of the relay) are therefore
  not met; a segment that exceeds the second would stop every later sync.
- *Bytes.* Lines are of one length and compared whole. In the code an append that
  starts exactly at the end of several versions agrees with each of them
  (`reconstruct.go:120`), and which one it is attached to depends on lengths in
  bytes that two different continuations share by chance.
- *Discovery of sessions* and what `Parse` takes from payloads, models and metadata.
- *Words and scores*: a text in `Search` is the one word it has. How the DuckDB extension
  splits, stems and scores, and that a substring is found where a word is not, is left out.
- *Schedules, maintenance, the SQL of the readers and the MCP server*: formatting,
  argument checks and calls to the system's service manager.
- *Guards, golden tests and tools*, which are no part of the behaviour while the
  program runs.

What the models leave open, and no property claims:

- a change within the resolution of a file's time is not seen until a full collection;
- divergences of a removed conversation stay if the process stops just before they
  are deleted;
- a segment uploaded before its directory entry was synced, and undone by a power
  loss, leaves the relay and the device with different segments of one number, and a sync
  that reports success (`forked` in `Sync`; `SyncMeansSynced` excepts exactly these;
  `SegmentsKept` says the relay at least does not change its mind). `docs/rewrite/sync.md`
  (lines 118-121) makes no exception. `ArchiveAssumption` leaves the effect on the archive of
  the others out;
- what is reported as written without a sync of its directory, or before the operating
  system wrote `devices/<id>` itself back, can be lost in a power loss (`AckedStable`);
- a power loss can bring back the `identity.json` of before a join, beside segments
  imported since, which catch-up then refuses, and a join that cannot read the pairing goes
  ahead (`doubt` in `ObsLog`);
- a relay that loses its token file answers 404 for a space it has segments of: a
  sync then downloads nothing and succeeds (`known` in `Sync`);
- two syncs that note their results at the same time: one note can undo the other
  (`unsure` in `Host`), and a record that cannot be read or written is lost, until the next
  success that is noted alone;
- a process that dies between a migration that cannot be repeated and the record of
  it leaves an archive that no command opens (`store.go:318`); `ApplyMigration` is then
  disabled and `Close` is what is left; a rebuild makes a new archive;
- a conversation whose latest snapshot has no messages keeps the rows made before
  (`project.go:99`); a rebuild does not make those rows;
- a block whose text changed under its id, which is made of its message and place, is
  in the index with its earlier text, and `FTSCoverage` does not count it as missing
  (`store.go:236`): a search for the new text finds nothing until the index is made for some
  other reason. `cli/read.go:433` has it that an empty result means nothing matched;
  `NewestFound` holds but for these blocks (`edited`);
- a fragment that some version has already can take a version away. ADR 0005 (line 58) says that
  "A shorter or stale observation never removes history"; `StaleIgnored`, and the theorem
  `Restated`, say so of one that starts where a fragment before it does. It is not so of
  every fragment, as one that starts exactly at the end of a version extends it, whatever that
  version has of other devices (`reconstruct.go:120`). With copies qa, qab, qc and qca of lines
  of one length: a device logs qa and then b at 2; another logs qc, then the rewritten copy qab
  whole, without saving its state, and then a at 2 of the copy qca. All but the first
  device's b make the versions qab and qca. That b, which qab has, also extends qc, to
  qcb; now a at 2 agrees with neither, and forks the first version that is long enough, to qaa:
  qca is gone, and no device's log has a gap. It takes two continuations that begin at one
  byte, and no run has it: those of section 3 have fewer observations. So no property here says
  that what is shown never gets shorter by another device's fragment, nor does one
  look at the vacuous agreement itself: `histories_keep_both` shows another fault, that of
  messages known by their position (`project.go:187`);
- a device that only logged what two branches share is listed among the devices of
  one of them (`reconstruct.go:105`).

## 8. Plan

What is left, in order:

1. `Histories` with five observations and a rewritten copy, for the version that a fragment
   of another device takes away (section 7).
2. Theorems about `Sessions`: of `Merge`, that each message is taken once, and that a
   complete version is shown as it is.
3. `Rows` under `Archive` as a refinement: `Half` is any state of `Rows` between
   `Ingest` and `Commit`.
4. A power loss in `Host`: the rename of a swap and the segments it indexed undone
   separately.
5. `Search` beside `Rows`: which updates of a conversation leave an id with another text.
6. Readers that wait for a writer (`waitForWriter`) and the daemon's pause, for liveness.
7. Lines of different lengths in `Collector`, for the case of section 7 in which the
   place a fragment is attached to depends on lengths.

