-------------------------------- MODULE Rows --------------------------------
(***************************************************************************)
(* The database rows of one conversation, and how the projection replaces  *)
(* them (internal/store/ingest.go and the end of Projector.Project).       *)
(* DuckDB checks foreign keys against committed data, so rows are deleted  *)
(* one statement and one transaction at a time; the process may die        *)
(* between any two.  Rows that are already right are kept, as rewriting    *)
(* them would leave dead space in the file.                                *)
(*                                                                         *)
(* Nothing writes to the tables attachments and message_embeddings, which  *)
(* are left out.                                                           *)
(***************************************************************************)
EXTENDS Integers, Sequences, FiniteSets, SequencesExt

CONSTANTS
  Conversations,   \* parsed conversations, each with its divergences
  None             \* no row, no hash, nothing to store

(* Of a conversation, head stands for the indexed columns (project and     *)
(* started_at) and rest for the others; a message has a head (its own      *)
(* columns, its id among them) and blocks.                                 *)

(* contentHash: everything that is stored in the conversation's rows.      *)
Hash(c) == [head |-> c.head, rest |-> c.rest, messages |-> c.messages,
            events |-> c.events]

(* The conversation's own row. *)
Row(c, hash) == [hash |-> hash, head |-> c.head, rest |-> c.rest]

ASSUME RowsAssumption ==
  /\ Conversations # {}
  /\ None \notin Conversations
  /\ \A c \in Conversations : None \notin {Hash(c), Row(c, Hash(c)), Row(c, None)}
  /\ \A c \in Conversations :
       /\ DOMAIN c = {"head", "rest", "messages", "events", "divergences"}
       /\ \A s \in {c.messages, c.events} : s \in Seq({s[i] : i \in DOMAIN s})
       /\ \A i \in DOMAIN c.messages :
            LET b == c.messages[i].blocks IN b \in Seq({b[j] : j \in DOMAIN b})

VARIABLES
  \* The database.
  conv,         \* the row in conversations, or None
  messages,     \* the messages' own columns, by sequence_index
  blocks,       \* content_blocks: <<message, block_index, content>>
  events,       \* raw_events, by line_number
  divergences,
  \* The process.
  pc,
  target,       \* the conversation to store, or None to remove what is there
  keep,         \* how many messages and events to keep
  steps,        \* statements still to execute
  branches,     \* divergences still to insert
  \* History.
  buried        \* a tombstone is known

rows == <<conv, messages, blocks, events, divergences>>
vars == <<conv, messages, blocks, events, divergences, pc, target, keep, steps,
          branches, buried>>

Nothing == [messages |-> 0, events |-> 0]

Init ==
  /\ conv = None
  /\ messages = << >> /\ blocks = {} /\ events = << >>
  /\ divergences = {}
  /\ pc = "idle"
  /\ target = None
  /\ keep = Nothing
  /\ steps = << >>
  /\ branches = {}
  /\ buried = FALSE

-----------------------------------------------------------------------------
(* buildRows, for the messages after the first n. *)
MessageRows(c) == [i \in DOMAIN c.messages |-> c.messages[i].head]

BlockRows(c, n) ==
  UNION {{<<i, j, c.messages[i].blocks[j]>> : j \in DOMAIN c.messages[i].blocks} :
           i \in {i \in DOMAIN c.messages : i > n}}

BlocksAt(S, i) == {b \in S : b[1] = i}

(* Message i is stored as c would store it, blocks included. *)
SameMessage(c, i) ==
  /\ i \in DOMAIN messages \cap DOMAIN c.messages
  /\ messages[i] = c.messages[i].head
  /\ BlocksAt(blocks, i) = BlocksAt(BlockRows(c, 0), i)

SameEvent(c, i) ==
  i \in DOMAIN events \cap DOMAIN c.events /\ events[i] = c.events[i]

SameMessages(c, n) == \A i \in 1..n : SameMessage(c, i)
SameEvents(c, n)   == \A i \in 1..n : SameEvent(c, i)

(* Mutant of Kept: the messages are compared without their blocks. *)
KeptHeads(c) ==
  [messages |-> Max({n \in 0..Len(messages) : IsPrefix(SubSeq(messages, 1, n), MessageRows(c))}),
   events   |-> Max({n \in 0..Len(events) : SameEvents(c, n)})]

(* Mutant of Kept: the last matching message is not kept. *)
KeptBefore(c) ==
  [messages |-> Max({n \in 0..Len(messages) : n = 0 \/ SameMessages(c, n + 1)}),
   events   |-> Max({n \in 0..Len(events) : SameEvents(c, n)})]

(* storedMessagePrefix and storedEventPrefix. *)
Kept(c) ==
  [messages |-> Max({n \in 0..Len(messages) : SameMessages(c, n)}),
   events   |-> Max({n \in 0..Len(events) : SameEvents(c, n)})]

(* Mutant of UpdateSteps: the hash is left alone until the commit. *)
UpdateStepsHashKept == <<"blocks", "messages", "events">>

UpdateSteps == <<"hash", "blocks", "messages", "events">>

(* Mutant of DeleteSteps: from the top down. *)
DeleteStepsTopDown == <<"hash", "conversation", "messages", "blocks", "events">>

DeleteSteps == <<"hash", "blocks", "messages", "events", "conversation">>

Plan(p, k, s) == pc' = p /\ keep' = k /\ steps' = s

-----------------------------------------------------------------------------
(* Ingest finds the conversation unchanged... *)
IngestUnchanged(c) ==
  /\ conv # None /\ conv.hash = Hash(c)
  /\ Plan("stored", Nothing, << >>)

(* ...or updates it in place, deleting only rows that are not kept, if any *)
(* are...                                                                  *)
IngestUpdate(c) ==
  /\ conv # None /\ conv.hash # Hash(c)
  /\ conv.head = c.head
  /\ LET k == Kept(c)
     IN  Plan("writing", k, IF k.messages < Len(messages) \/ k.events < Len(events)
                            THEN UpdateSteps ELSE << >>)

(* ...or deletes it first, as an indexed column changes... *)
IngestReplace(c) ==
  /\ conv # None /\ conv.hash # Hash(c)
  /\ conv.head # c.head
  /\ Plan("writing", Nothing, DeleteSteps)

(* ...or has only to insert it. *)
IngestNew ==
  /\ conv = None
  /\ Plan("writing", Nothing, << >>)

Ingest(c) ==
  /\ pc = "idle"
  /\ ~buried
  /\ target' = c
  /\ IngestUnchanged(c) \/ IngestUpdate(c) \/ IngestReplace(c) \/ IngestNew
  /\ UNCHANGED <<rows, branches, buried>>

(* A tombstone is known. *)
RemoveConversation ==
  /\ pc = "idle"
  /\ buried' = TRUE
  /\ \/ conv = None /\ Plan("done", Nothing, << >>)
     \/ conv # None /\ Plan("writing", Nothing, DeleteSteps)
  /\ UNCHANGED <<rows, target, branches>>

(* One statement, in its own transaction. *)
Execute(step) ==
  /\ pc = "writing"
  /\ steps # << >> /\ Head(steps) = step
  /\ steps' = Tail(steps)
  /\ UNCHANGED <<divergences, pc, target, keep, branches, buried>>

ClearHash ==
  /\ Execute("hash")
  /\ conv' = [conv EXCEPT !.hash = None]
  /\ UNCHANGED <<messages, blocks, events>>

DeleteBlocks ==
  /\ Execute("blocks")
  /\ blocks' = {b \in blocks : b[1] <= keep.messages}
  /\ UNCHANGED <<conv, messages, events>>

DeleteMessages ==
  /\ Execute("messages")
  /\ messages' = SubSeq(messages, 1, keep.messages)
  /\ UNCHANGED <<conv, blocks, events>>

DeleteEvents ==
  /\ Execute("events")
  /\ events' = SubSeq(events, 1, keep.events)
  /\ UNCHANGED <<conv, messages, blocks>>

DeleteConversation ==
  /\ Execute("conversation")
  /\ conv' = None
  /\ UNCHANGED <<messages, blocks, events>>

(* The rest of the rows and the conversation's own, in one transaction. *)
Commit ==
  /\ pc = "writing" /\ steps = << >> /\ target # None
  /\ LET c == target
     IN  /\ messages' = messages \o
              SubSeq(MessageRows(c), keep.messages + 1, Len(c.messages))
         /\ blocks' = blocks \cup BlockRows(c, keep.messages)
         /\ events' = events \o SubSeq(c.events, keep.events + 1, Len(c.events))
         /\ conv' = Row(c, Hash(c))
  /\ pc' = "stored"
  /\ UNCHANGED <<divergences, target, keep, steps, branches, buried>>

(* Project replaces the divergences whatever Ingest did... *)
ClearDivergences ==
  /\ pc = "stored"
  /\ divergences' = {}
  /\ branches' = target.divergences
  /\ pc' = "branching"
  /\ UNCHANGED <<conv, messages, blocks, events, target, keep, steps, buried>>

(* ...one by one. *)
InsertDivergence ==
  /\ pc = "branching"
  /\ \E b \in branches :
       /\ divergences' = divergences \cup {b}
       /\ branches' = branches \ {b}
  /\ UNCHANGED <<conv, messages, blocks, events, pc, target, keep, steps, buried>>

EndBranching ==
  /\ pc = "branching" /\ branches = {}
  /\ pc' = "done"
  /\ UNCHANGED <<rows, target, keep, steps, branches, buried>>

(* The last statement of RemoveConversation. *)
RemoveDivergences ==
  /\ pc = "writing" /\ steps = << >> /\ target = None
  /\ divergences' = {}
  /\ pc' = "done"
  /\ UNCHANGED <<conv, messages, blocks, events, target, keep, steps, branches,
                 buried>>

(* Project returns, with an error or without; or the process dies.  What   *)
(* is not in the database is forgotten.                                    *)
Leave ==
  /\ pc # "idle"
  /\ Plan("idle", Nothing, << >>)
  /\ target' = None
  /\ branches' = {}
  /\ UNCHANGED <<rows, buried>>

Next ==
  \/ (\E c \in Conversations : Ingest(c)) \/ RemoveConversation
  \/ ClearHash \/ DeleteBlocks \/ DeleteMessages \/ DeleteEvents
  \/ DeleteConversation \/ Commit
  \/ ClearDivergences \/ InsertDivergence \/ EndBranching \/ RemoveDivergences
  \/ Leave

Spec == Init /\ [][Next]_vars

-----------------------------------------------------------------------------
(* Properties. *)

TypeOK ==
  /\ conv = None \/ /\ DOMAIN conv = {"hash", "head", "rest"}
                    /\ conv.hash \in {Hash(c) : c \in Conversations} \cup {None}
  /\ \E c \in Conversations : IsPrefix(messages, MessageRows(c))
  /\ \E c \in Conversations : blocks \subseteq BlockRows(c, 0)
  /\ \E c \in Conversations : IsPrefix(events, c.events)
  /\ pc \in {"idle", "writing", "stored", "branching", "done"}
  /\ target \in Conversations \cup {None}
  /\ keep.messages <= Len(messages) /\ keep.events <= Len(events)
  /\ divergences \cup branches \subseteq UNION {c.divergences : c \in Conversations}
  /\ target = None => branches = {} /\ pc \in {"idle", "writing", "done"}

(* The rows of c, and no others. *)
Exactly(c) ==
  /\ conv # None /\ conv.head = c.head /\ conv.rest = c.rest
  /\ messages = MessageRows(c)
  /\ blocks = BlockRows(c, 0)
  /\ events = c.events

(* A stored hash tells the truth: the rows are those of the conversation   *)
(* hashed, whatever was interrupted.  Ingest relies on it to skip.         *)
HashHonest ==
  conv # None /\ conv.hash # None =>
    \E c \in Conversations : conv.hash = Hash(c) /\ Exactly(c)

(* What DuckDB checks at every commit: no block without its message, no    *)
(* message without its conversation.                                       *)
Referential ==
  /\ \A b \in blocks : b[1] \in DOMAIN messages
  /\ messages # << >> => conv # None

(* When Project has returned without an error the rows are those it was    *)
(* given, or gone, whatever an interrupted run had left.                   *)
Projected ==
  pc = "done" =>
    IF target # None
    THEN Exactly(target) /\ divergences = target.divergences
    ELSE conv = None /\ messages = << >> /\ blocks = {} /\ events = << >>

(* "keeps the leading messages and raw events that are stored exactly as   *)
(* rows would store them": while a conversation is brought up to date in   *)
(* place, those are neither deleted nor written again.  (Once its blocks   *)
(* are gone, a message may look like one that is to have none.)            *)
KeepsLeading ==
  [][pc = "writing" /\ target # None /\ conv # None /\ conv.head = target.head =>
       /\ \A n \in DOMAIN messages :
            SameMessages(target, n) /\ target.messages[n].blocks # << >> =>
              /\ n \in DOMAIN messages' /\ messages'[n] = messages[n]
              /\ BlocksAt(blocks', n) = BlocksAt(blocks, n)
       /\ \A n \in DOMAIN events : SameEvents(target, n) =>
            n \in DOMAIN events' /\ events'[n] = events[n]]_vars

=============================================================================
