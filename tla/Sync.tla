-------------------------------- MODULE Sync --------------------------------
(***************************************************************************)
(* Devices that exchange log segments through relays (internal/devsync and *)
(* internal/relay).  A sync first uploads what the relay lacks and then    *)
(* downloads what the device lacks; several processes of one device may    *)
(* sync at once, as a sync does not hold the archive's lock.  An upload    *)
(* may outlive the client that gave up waiting for its answer, and relays  *)
(* and devices lose power.                                                 *)
(*                                                                         *)
(* Segments are numbered 1, 2, ... in the order of their first sequence    *)
(* numbers.  Of the losses ObsLog describes, a device has the one that     *)
(* leaves no gap here: its last segment goes if its directory is not yet   *)
(* synced.  All devices have the key of one space; encryption is left out. *)
(***************************************************************************)
EXTENDS Integers, FiniteSets, Functions, FiniteSetsExt

CONSTANTS
  Devices,
  Clients,         \* processes that sync: daemons and commands
  DeviceOf,        \* the device of each client
  Relays,
  None,            \* no token file
  Writers,         \* bound: devices that write segments
  MaxSegments,     \* bound: segments such a device writes
  MaxUploads,      \* bound: uploads on their way at once
  MaxMoves,        \* bound: changes of a device's relay
  MaxPowerLosses,  \* bound: of each device
  MaxCrashes,      \* bound: of all relays
  MaxFailures      \* bound: requests lost and syncs cut short

ASSUME SyncAssumption ==
  /\ DeviceOf \in [Clients -> Devices]
  /\ Relays # {}
  /\ None \notin {"writing", "whole", "torn"}
  /\ {MaxSegments, MaxUploads, MaxMoves, MaxPowerLosses, MaxCrashes,
      MaxFailures} \subseteq Nat

VARIABLES
  \* Of each device.
  held,      \* its log: for each device, segment number |-> content
  unsynced,  \* the devices whose last own segment a power loss can undo
  saved,     \* the relay in sync.json
  \* Of each relay.
  store,     \* the segments it keeps, as in held
  token,     \* token.sha256: None, "writing", "whole" or "torn"
  uploads,   \* PUT requests on their way or being handled
  \* Of each client.
  pc,
  via,       \* Client.Space.Relay
  queue,     \* devices still to push or pull
  device,    \* the device being pushed or pulled
  todo,      \* its segments still to move, or those the device has
  \* History.
  lives,     \* each device's power losses; tells segments of one number apart
  moves,     \* changes of relay
  crashes,   \* relay crashes
  failures,  \* requests lost and syncs cut short
  intact,    \* no relay has lost a segment
  known,     \* no relay has lost the token of a space it has segments of
  forked,    \* segments a device lost when there was a copy elsewhere
  goal       \* what a client's sync has to have uploaded and downloaded

devices == <<held, unsynced, saved>>
relays  == <<store, token, uploads>>
clients == <<pc, via, queue, device, todo, goal>>
history == <<lives, moves, crashes, failures, intact, known, forked>>
vars    == <<devices, relays, clients, history>>

Empty == [e \in Devices |-> << >>]

Numbers(log) == {s \in Devices \X (1..MaxSegments) : s[2] \in DOMAIN log[s[1]]}

(* log with one more segment. *)
Plus(log, e, n, content) ==
  [log EXCEPT ![e] = [i \in DOMAIN @ \cup {n} |-> IF i = n THEN content ELSE @[i]]]

(* log without the segments in gone. *)
Minus(log, gone) ==
  [e \in Devices |-> Restrict(log[e], {n \in DOMAIN log[e] : <<e, n>> \notin gone})]

Init ==
  /\ held = [d \in Devices |-> Empty]
  /\ unsynced = {}
  /\ saved \in {[d \in Devices |-> r] : r \in Relays}
  /\ store = [r \in Relays |-> Empty]
  /\ token = [r \in Relays |-> None]
  /\ uploads = {}
  /\ pc = [c \in Clients |-> "idle"]
  /\ via = [c \in Clients |-> saved[DeviceOf[c]]]
  /\ queue = [c \in Clients |-> {}]
  /\ device = [c \in Clients |-> DeviceOf[c]]
  /\ todo = [c \in Clients |-> {}]
  /\ lives = [d \in Devices |-> 0]
  /\ moves = 0
  /\ crashes = 0
  /\ failures = 0
  /\ intact = TRUE
  /\ known = TRUE
  /\ forked = {}
  /\ goal = [c \in Clients |-> [up |-> {}, down |-> {}]]

-----------------------------------------------------------------------------
(* A device. *)

(* writeSegment renames a new segment into place... *)
Append(d) ==
  LET n == Cardinality(DOMAIN held[d][d]) + 1
  IN  /\ d \in Writers \ unsynced
      /\ n <= MaxSegments
      /\ held' = [held EXCEPT ![d] = Plus(@, d, n, lives[d])]
      /\ unsynced' = unsynced \cup {d}
      /\ UNCHANGED <<saved, relays, clients, history>>

(* ...and syncs the directory. *)
SyncDir(d) ==
  /\ d \in unsynced
  /\ unsynced' = unsynced \ {d}
  /\ UNCHANGED <<held, saved, relays, clients, history>>

(* sync --set-relay. *)
SetRelay(d, r) ==
  /\ moves < MaxMoves
  /\ saved[d] # r
  /\ saved' = [saved EXCEPT ![d] = r]
  /\ moves' = moves + 1
  /\ UNCHANGED <<held, unsynced, relays, clients, lives, crashes, failures,
                 intact, known, forked>>

Stopped(cs) ==
  /\ pc' = [c \in Clients |-> IF c \in cs THEN "idle" ELSE pc[c]]
  /\ queue' = [c \in Clients |-> IF c \in cs THEN {} ELSE queue[c]]
  /\ todo' = [c \in Clients |-> IF c \in cs THEN {} ELSE todo[c]]
  /\ goal' = [c \in Clients |-> IF c \in cs THEN [up |-> {}, down |-> {}] ELSE goal[c]]
  /\ device' = [c \in Clients |-> IF c \in cs THEN DeviceOf[c] ELSE device[c]]
  /\ via' = [c \in Clients |-> IF c \in cs THEN saved[DeviceOf[c]] ELSE via[c]]

(* Another device, a relay or an upload on its way has segment s too. *)
Copied(s) ==
  \/ \E d \in Devices \ {s[1]} : s \in Numbers(held[d])
  \/ \E r \in Relays : s \in Numbers(store[r])
  \/ \E q \in uploads : s = <<q.device, q.number>>

PowerLoss(d) ==
  /\ lives[d] < MaxPowerLosses
  /\ lives' = [lives EXCEPT ![d] = @ + 1]
  /\ \E gone \in SUBSET IF d \in unsynced THEN {<<d, Cardinality(DOMAIN held[d][d])>>} ELSE {} :
       /\ held' = [held EXCEPT ![d] = Minus(@, gone)]
       /\ forked' = forked \cup {s \in gone : Copied(s)}
  /\ unsynced' = unsynced \ {d}
  /\ Stopped({c \in Clients : DeviceOf[c] = d})
  /\ UNCHANGED <<saved, relays, moves, crashes, failures, intact, known>>

-----------------------------------------------------------------------------
(* A relay. *)

(* authorize lets a request in.  The token file is read under a lock, so   *)
(* nobody sees it half written, unless a crash or an error left it so.     *)
Admits(r) == token[r] = "whole"

(* Mutant of Lists: an unknown space is an error. *)
ListsKnown(r) == Admits(r)

(* A listing is answered: by the segments... *)
Lists(r) == Admits(r) \/ token[r] = None

(* ...or, where the token file is missing, by 404, which the client takes  *)
(* for none.                                                               *)
Listed(r) == IF Admits(r) THEN store[r] ELSE Empty

(* The first upload to a space creates the token file... *)
Register(q) ==
  /\ q \in uploads
  /\ token[q.relay] = None
  /\ token' = [token EXCEPT ![q.relay] = "writing"]
  /\ UNCHANGED <<store, uploads, devices, clients, history>>

(* ...and writes the hash to it. *)
Registered(r) ==
  /\ token[r] = "writing"
  /\ token' = [token EXCEPT ![r] = "whole"]
  /\ UNCHANGED <<store, uploads, devices, clients, history>>

(* A write that fails part of the way. *)
RegisterFails(r) ==
  /\ failures < MaxFailures
  /\ failures' = failures + 1
  /\ token[r] = "writing"
  /\ token' = [token EXCEPT ![r] = "torn"]
  /\ UNCHANGED <<store, uploads, devices, clients, lives, moves, crashes,
                 intact, known, forked>>

Exists(q) == q.number \in DOMAIN store[q.relay][q.device]

(* Mutant of NextUp: the newest first. *)
NextUpNewest(c) == Max(todo[c])

NextUp(c) == Min(todo[c])

(* The client goes on if it still waits for the answer to q, be it 201 or  *)
(* 409.                                                                    *)
Waits(c, q) ==
  /\ pc[c] = "waiting" /\ c = q.client
  /\ via[c] = q.relay /\ device[c] = q.device /\ NextUp(c) = q.number
  /\ held[DeviceOf[c]][q.device][q.number] = q.content

Answer(q) ==
  LET answered == {c \in Clients : Waits(c, q)}
  IN  /\ pc' = [c \in Clients |-> IF c \in answered THEN "uploading" ELSE pc[c]]
      /\ todo' = [c \in Clients |-> todo[c] \ IF c \in answered THEN {q.number} ELSE {}]
      /\ UNCHANGED <<via, queue, device, goal>>

(* The file is there when the request comes in... *)
Conflict(q) ==
  /\ q \in uploads
  /\ Admits(q.relay)
  /\ ~q.received /\ Exists(q)
  /\ uploads' = uploads \ {q}
  /\ Answer(q)
  /\ UNCHANGED <<store, token, devices, history>>

(* ...or its content is received... *)
Receive(q) ==
  /\ q \in uploads
  /\ Admits(q.relay)
  /\ ~q.received /\ ~Exists(q)
  /\ uploads' = (uploads \ {q}) \cup {[q EXCEPT !.received = TRUE]}
  /\ UNCHANGED <<store, token, devices, clients, history>>

(* Mutant of Linked: the content is renamed into place. *)
RenamedOver(q) == Plus(store[q.relay], q.device, q.number, q.content)

(* ...and linked into place, unless another upload came first. *)
Linked(q) ==
  IF Exists(q) THEN store[q.relay]
  ELSE Plus(store[q.relay], q.device, q.number, q.content)

Link(q) ==
  /\ q \in uploads
  /\ q.received
  /\ store' = [store EXCEPT ![q.relay] = Linked(q)]
  /\ uploads' = uploads \ {q}
  /\ Answer(q)
  /\ UNCHANGED <<token, devices, history>>

(* The hash in the token file is cut short and matches no token: 403.      *)
Refuse(q) ==
  /\ q \in uploads
  /\ token[q.relay] = "torn"
  /\ uploads' = uploads \ {q}
  /\ UNCHANGED <<store, token, devices, clients, history>>

(* A request, or its answer, is lost. *)
Lose(q) ==
  /\ q \in uploads
  /\ failures < MaxFailures
  /\ failures' = failures + 1
  /\ uploads' = uploads \ {q}
  /\ UNCHANGED <<store, token, devices, clients, lives, moves, crashes,
                 intact, known, forked>>

(* What a crash can leave of a token file: it is not synced. *)
TokensLeft(was) == IF was = "whole" THEN {None, "torn", "whole"}
                   ELSE IF was = None THEN {None} ELSE {None, "torn"}

(* The relay stops, perhaps for want of power.  Nothing syncs the          *)
(* directories of its segments either, so it may lose any of them.         *)
CrashRelay(r) ==
  /\ crashes < MaxCrashes
  /\ crashes' = crashes + 1
  /\ \E gone \in SUBSET Numbers(store[r]), left \in TokensLeft(token[r]) :
       /\ store' = [store EXCEPT ![r] = Minus(@, gone)]
       /\ token' = [token EXCEPT ![r] = left]
       /\ intact' = (intact /\ gone = {})
       /\ known' = (known /\ (left = None => store'[r] = Empty))
  /\ uploads' = {q \in uploads : q.relay # r}
  /\ UNCHANGED <<devices, clients, lives, moves, failures, forked>>

-----------------------------------------------------------------------------
(* A client. *)

Goto(c, phase) == pc' = [pc EXCEPT ![c] = phase]

(* Mutant of PushDevices: a reseed uploads the device's own segments only. *)
PushDevicesOwn(d, reseed) == {d}

(* The devices to push: itself, or all in the log. *)
PushDevices(d, reseed) ==
  IF reseed THEN {e \in Devices : held[d][e] # << >>} ELSE {d}

(* Sync or Reseed. *)
Begin(c, reseed) ==
  LET d == DeviceOf[c]
  IN  /\ pc[c] = "idle"
      /\ Goto(c, "uploading")
      /\ via' = [via EXCEPT ![c] = saved[d]]
      /\ queue' = [queue EXCEPT ![c] = PushDevices(d, reseed)]
      /\ goal' = [goal EXCEPT ![c].up =
                    {s \in Numbers(held[d]) : reseed \/ s[1] = d}]
      /\ UNCHANGED <<device, todo, devices, relays, history>>

(* The next device to push: its segments here... *)
PushDevice(c, e) ==
  /\ pc[c] = "uploading" /\ todo[c] = {}
  /\ e \in queue[c]
  /\ queue' = [queue EXCEPT ![c] = @ \ {e}]
  /\ device' = [device EXCEPT ![c] = e]
  /\ todo' = [todo EXCEPT ![c] = DOMAIN held[DeviceOf[c]][e]]
  /\ Goto(c, IF held[DeviceOf[c]][e] = << >> THEN "uploading" ELSE "comparing")
  /\ UNCHANGED <<via, goal, devices, relays, history>>

(* ...that the relay lacks. *)
PushList(c) ==
  /\ pc[c] = "comparing"
  /\ Lists(via[c])
  /\ todo' = [todo EXCEPT ![c] = @ \ DOMAIN Listed(via[c])[device[c]]]
  /\ Goto(c, "uploading")
  /\ UNCHANGED <<via, queue, device, goal, devices, relays, history>>

Upload(c) ==
  LET n == NextUp(c)
  IN  /\ pc[c] = "uploading"
      /\ todo[c] # {}
      /\ Cardinality(uploads) < MaxUploads
      /\ uploads' = uploads \cup
           {[client |-> c, relay |-> via[c], device |-> device[c], number |-> n,
             content |-> held[DeviceOf[c]][device[c]][n], received |-> FALSE]}
      /\ Goto(c, "waiting")
      /\ UNCHANGED <<via, queue, device, todo, goal, store, token,
                     devices, history>>

(* All is pushed: which other devices has the relay segments of? *)
PullDevices(c) ==
  LET others == {e \in Devices \ {DeviceOf[c]} : Listed(via[c])[e] # << >>}
  IN  /\ pc[c] = "uploading" /\ todo[c] = {}
      /\ queue[c] = {}
      /\ Lists(via[c])
      /\ queue' = [queue EXCEPT ![c] = others]
      /\ goal' = [goal EXCEPT ![c].down =
                    {s \in Numbers(Listed(via[c])) : s[1] \in others}]
      /\ Goto(c, "downloading")
      /\ UNCHANGED <<via, device, todo, devices, relays, history>>

(* The next of them: what is here already... *)
PullDevice(c, e) ==
  /\ pc[c] = "downloading" /\ todo[c] = {}
  /\ e \in queue[c]
  /\ queue' = [queue EXCEPT ![c] = @ \ {e}]
  /\ device' = [device EXCEPT ![c] = e]
  /\ todo' = [todo EXCEPT ![c] = DOMAIN held[DeviceOf[c]][e]]
  /\ Goto(c, "listing")
  /\ UNCHANGED <<via, goal, devices, relays, history>>

(* ...and what is there. *)
PullList(c) ==
  /\ pc[c] = "listing"
  /\ Lists(via[c])
  /\ todo' = [todo EXCEPT ![c] = DOMAIN Listed(via[c])[device[c]] \ @]
  /\ Goto(c, "downloading")
  /\ UNCHANGED <<via, queue, device, goal, devices, relays, history>>

(* Mutant of NextDown: as a map yields them. *)
NextDownNewest(c) == Max(todo[c])

NextDown(c) == Min(todo[c])

(* A segment is downloaded and imported, if it has not come meanwhile. *)
Download(c) ==
  LET d == DeviceOf[c]
      e == device[c]
      n == NextDown(c)
  IN  /\ pc[c] = "downloading"
      /\ todo[c] # {}
      /\ Admits(via[c]) /\ n \in DOMAIN store[via[c]][e]
      /\ held' = IF n \in DOMAIN held[d][e] THEN held
                 ELSE [held EXCEPT ![d] = Plus(@, e, n, store[via[c]][e][n])]
      /\ todo' = [todo EXCEPT ![c] = @ \ {n}]
      /\ UNCHANGED <<pc, via, queue, device, goal, unsynced, saved, relays, history>>

Synced(c) ==
  /\ pc[c] = "downloading" /\ todo[c] = {}
  /\ queue[c] = {}
  /\ Goto(c, "synced")
  /\ UNCHANGED <<via, queue, device, todo, goal, devices, relays, history>>

(* The answer never comes, or is an error. *)
Stuck(c) ==
  \/ pc[c] = "waiting" /\ \A q \in uploads : ~Waits(c, q)
  \/ /\ pc[c] = "downloading" /\ todo[c] # {}
     /\ NextDown(c) \notin DOMAIN Listed(via[c])[device[c]]
     /\ Lists(via[c])
  \/ ~Lists(via[c]) /\ token[via[c]] # "writing"

(* The sync has ended or cannot go on... *)
Return(c) ==
  /\ pc[c] # "idle"
  /\ pc[c] = "synced" \/ Stuck(c)
  /\ Stopped({c})
  /\ UNCHANGED <<devices, relays, history>>

(* ...or a request fails or times out, or the process dies. *)
Abort(c) ==
  /\ pc[c] # "idle"
  /\ failures < MaxFailures
  /\ failures' = failures + 1
  /\ Stopped({c})
  /\ UNCHANGED <<devices, relays, lives, moves, crashes, intact, known, forked>>

-----------------------------------------------------------------------------
Work(c) ==
  \/ (\E reseed \in BOOLEAN : Begin(c, reseed))
  \/ (\E e \in Devices : PushDevice(c, e) \/ PullDevice(c, e))
  \/ PushList(c) \/ Upload(c)
  \/ PullDevices(c) \/ PullList(c) \/ Download(c)
  \/ Synced(c)

Handle(q) == Register(q) \/ Conflict(q) \/ Receive(q) \/ Link(q) \/ Refuse(q)

Next ==
  \/ (\E d \in Devices : Append(d) \/ SyncDir(d) \/ PowerLoss(d))
  \/ (\E d \in Devices, r \in Relays : SetRelay(d, r))
  \/ (\E c \in Clients : Work(c) \/ Return(c) \/ Abort(c))
  \/ (\E q \in uploads : Handle(q) \/ Lose(q))
  \/ (\E r \in Relays : Registered(r) \/ RegisterFails(r) \/ CrashRelay(r))

Spec == Init /\ [][Next]_vars

(* Daemons sync again and again, and a client does not wait for ever       *)
(* (Client.HTTP has a timeout); a relay handles what reaches it.           *)
FairSpec ==
  /\ Spec
  /\ \A c \in Clients : WF_vars(Work(c)) /\ WF_vars(Return(c))
  /\ \A r \in Relays :
       WF_vars(Registered(r) \/ \E q \in uploads : q.relay = r /\ Handle(q))

-----------------------------------------------------------------------------
(* Properties. *)

(* What a device or a relay has of the log of a device. *)
Segments == UNION {[S -> 0..MaxPowerLosses] : S \in SUBSET (1..MaxSegments)}

TypeOK ==
  /\ held \in [Devices -> [Devices -> Segments]]
  /\ unsynced \subseteq {d \in Devices : held[d][d] # << >>}
  /\ saved \in [Devices -> Relays]
  /\ store \in [Relays -> [Devices -> Segments]]
  /\ token \in [Relays -> {None, "writing", "whole", "torn"}]
  /\ \A q \in uploads :
       /\ q.number \in 1..MaxSegments /\ q.content \in 0..lives[q.device]
       /\ q.received => token[q.relay] = "whole"
  /\ pc \in [Clients -> {"idle", "comparing", "uploading", "waiting", "listing",
                         "downloading", "synced"}]
  /\ \A c \in Clients : pc[c] = "waiting" => todo[c] # {}

WithoutGaps(log) == \A e \in Devices : DOMAIN log[e] = 1..Cardinality(DOMAIN log[e])

(* "an interrupted sync leaves whole segments behind and resumes": wherever *)
(* syncs, uploads and moves were interrupted, no relay and no device has   *)
(* a gap in a device's log, which the projection would have to wait for,   *)
(* unless a relay lost segments.  By the numbers alone: between two        *)
(* segments of different lives of their device, which the next property    *)
(* excepts, observations may still be missing.                             *)
NoGaps ==
  intact => /\ \A r \in Relays : WithoutGaps(store[r])
            /\ \A d \in Devices : WithoutGaps(held[d])

(* log has segment s, and it is the one its device has. *)
Has(log, s) ==
  /\ s \in Numbers(log)
  /\ s \notin forked => /\ s \in Numbers(held[s[1]])
                       /\ log[s[1]][s[2]] = held[s[1]][s[1]][s[2]]

(* A sync that reports success has uploaded what the device had when it    *)
(* began, of itself or, for a reseed, of all, and has downloaded what the  *)
(* relay had by then, whoever else synced and whatever crashed: the relay  *)
(* and the device have those segments as the devices that wrote them have  *)
(* them, though a relay takes a number it has for the segment.  Excepted   *)
(* are relays that lost segments or, for what is downloaded, a token; and  *)
(* a segment its device lost when it was already copied, as the device     *)
(* may write another of that number, which nobody compares with the copy.  *)
SyncMeansSynced ==
  \A c \in Clients : pc[c] = "synced" /\ intact =>
    /\ \A s \in goal[c].up : Has(store[via[c]], s)
    /\ known => \A s \in goal[c].down : Has(held[DeviceOf[c]], s)

(* "Link rather than rename, so a concurrent upload of the same segment    *)
(* can't replace one that already landed": not even one that was delayed   *)
(* past a power loss of its device.                                        *)
SegmentsKept ==
  [][\A r \in Relays, e \in Devices :
       \A n \in DOMAIN store[r][e] \cap DOMAIN store'[r][e] :
         store'[r][e][n] = store[r][e][n]]_vars

(* What a device writes reaches every other device that shares a relay     *)
(* with it in the end, unless a crash or a failed write made that relay    *)
(* refuse the space.                                                       *)
EventuallyEverywhere ==
  \A e \in Writers : \A d \in Devices \ {e} :
    <>[](saved[d] = saved[e] /\ token[saved[d]] # "torn") =>
      \A n \in 1..MaxSegments :
        n \in DOMAIN held[e][e] ~> n \in DOMAIN held[d][e] \/ n \notin DOMAIN held[e][e]

=============================================================================
