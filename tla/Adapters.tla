------------------------------ MODULE Adapters ------------------------------
(***************************************************************************)
(* What the source adapters (internal/sources) make of a session: the      *)
(* messages, their order and their native ids, the title, the project, the *)
(* raw events and the time span.                                           *)
(*                                                                         *)
(* A record of a session is a TLA+ record of the fields that decide these; *)
(* a field that is absent, or null, is None or left out.  Names of models  *)
(* and tools, payloads and metadata are left out.  The content of a JSONL  *)
(* source is the sequence of its records, one per line, the malformed ones *)
(* left out; that of a source that logs a whole session is << doc >>, one  *)
(* line that holds the document.  Times are numbers, and so are ids, an    *)
(* empty one being None.                                                   *)
(***************************************************************************)
EXTENDS Integers, Sequences, SequencesExt

CONSTANT None   \* no value

(* Each source's AppendOnly(). *)
AppendOnly(source) == source \in {"claude_code", "codex_cli"}

(* Str and NonEmpty of srcutil: a string field, and one that is not empty. *)
Str(e, f)      == IF f \in DOMAIN e THEN e[f] ELSE None
NonEmpty(e, f) == IF Str(e, f) = "" THEN None ELSE Str(e, f)

(* Of a text that is only white space nothing is left to show. *)
Blank == " "
Strip(t) == IF t = Blank THEN "" ELSE t

First(a, b) == IF a # None THEN a ELSE b

Block(type, text, tool) == [type |-> type, text |-> text, tool |-> tool]
TextBlock(text) == Block("text", text, None)

Message(id, role, time, blocks) ==
  [id |-> id, role |-> role, time |-> time, blocks |-> blocks]

Flat(f) == FlattenSeq(f)

(* Times, without those that could not be read. *)
Known(s) == {s[i] : i \in DOMAIN s} \ {None}
Times(ms) == Known([i \in DOMAIN ms |-> ms[i].time])

(* srcutil.Span *)
Earliest(T) == IF T = {} THEN None ELSE Min(T)
Latest(T)   == IF T = {} THEN None ELSE Max(T)

(* FirstUserLine: of the first user message with a text block that is not  *)
(* empty and does not turn out blank.                                      *)
FirstUserLine(ms) ==
  LET Texts(m) == SelectSeq(m.blocks, LAMBDA b : b.type = "text" /\ b.text \notin {None, ""})
      Lines    == SelectSeq(ms, LAMBDA m : /\ m.role = "user"
                                           /\ Texts(m) # << >>
                                           /\ Strip(Texts(m)[1].text) # "")
  IN  IF Lines = << >> THEN None ELSE Texts(Lines[1])[1].text

Conversation(title, project, messages, events, start, end) ==
  [title |-> title, project |-> project, messages |-> messages,
   events |-> events, start |-> start, end |-> end]

(* The first value of a field in records that satisfy a test. *)
FirstField(content, f, Test(_)) ==
  LET es == SelectSeq(content, LAMBDA e : Test(e) /\ Str(e, f) # None)
  IN  IF es = << >> THEN None ELSE es[1][f]

-----------------------------------------------------------------------------
(* claude_code: one event a line. *)

BlockTypes == {"text", "thinking", "tool_use", "tool_result", "image"}

(* convertBlock keeps what it does not know as a block without text. *)
ConvertBlock(raw) == IF raw.type \in BlockTypes THEN raw ELSE TextBlock(None)

ConvertBlocks(raws) == [i \in DOMAIN raws |-> ConvertBlock(raws[i])]

ClaudeMessages(e) ==
  IF e.type \in {"user", "assistant", "system"} /\ e.content # << >>
  THEN <<Message(e.id, e.type, e.time, ConvertBlocks(e.content))>>
  ELSE << >>

ClaudeConversation(content) ==
  LET ms == Flat([i \in DOMAIN content |-> ClaudeMessages(content[i])])
      Summary(e) == e.type = "summary"
      InDir(e)   == NonEmpty(e, "cwd") # None
  IN  Conversation(First(Strip(FirstField(content, "summary", Summary)), FirstUserLine(ms)),
                   FirstField(content, "cwd", InDir), ms, content,
                   Earliest(Times(ms)), Latest(Times(ms)))

-----------------------------------------------------------------------------
(* codex_cli: one event a line. *)

ToolCalls   == {"function_call", "custom_tool_call"}
ToolOutputs == {"function_call_output", "custom_tool_call_output"}

(* responseBlocks: of a message only text counts, and a developer's is not *)
(* conversation.                                                           *)
ResponseBlocks(e) ==
  IF e.kind = "message" /\ NonEmpty(e, "text") # None /\ e.role \in {"user", "assistant"}
    THEN <<TextBlock(e.text)>>
  ELSE IF e.kind = "reasoning" THEN <<Block("thinking", NonEmpty(e, "text"), None)>>
  ELSE IF e.kind \in ToolCalls THEN <<Block("tool_use", None, Str(e, "call"))>>
  ELSE IF e.kind \in ToolOutputs THEN <<Block("tool_result", Str(e, "text"), Str(e, "call"))>>
  ELSE IF e.kind = "web_search_call" THEN <<Block("tool_use", None, Str(e, "id"))>>
  ELSE << >>

ResponseRole(e) ==
  IF e.kind = "message" THEN e.role
  ELSE IF e.kind \in ToolOutputs THEN "tool" ELSE "assistant"

(* A call and its output have one id. *)
ResponseId(e) == First(Str(e, "call"), Str(e, "id"))

CodexMessages(e) ==
  IF e.type = "event_msg" /\ e.kind = "user_message" /\ NonEmpty(e, "text") # None
    THEN <<Message(None, "user", e.time, <<TextBlock(e.text)>>)>>
  ELSE IF e.type = "response_item" /\ ResponseBlocks(e) # << >>
    THEN <<Message(ResponseId(e), ResponseRole(e), e.time, ResponseBlocks(e))>>
  ELSE << >>

CodexConversation(content) ==
  LET ms == Flat([i \in DOMAIN content |-> CodexMessages(content[i])])
      InDir(e) == e.type \in {"session_meta", "turn_context"} /\ NonEmpty(e, "cwd") # None
      span == Known([i \in DOMAIN content |-> content[i].time])
  IN  Conversation(FirstUserLine(ms), FirstField(content, "cwd", InDir), ms, content,
                   Earliest(span), Latest(span))

-----------------------------------------------------------------------------
(* omp: a title slot, a header and messages, one a line; the title slot is *)
(* rewritten in place.                                                     *)

(* The map roles; a message of another role is skipped. *)
OmpRoles == [user |-> "user", assistant |-> "assistant", toolResult |-> "tool"]

(* contentBlocks leaves out empty texts and what it does not know. *)
ContentBlock(raw) ==
  IF raw.type \in {"text", "thinking"} /\ raw.text \in {None, ""} THEN << >>
  ELSE IF raw.type = "toolCall" THEN <<Block("tool_use", None, raw.tool)>>
  ELSE IF raw.type \in {"text", "thinking", "image"} THEN <<raw>>
  ELSE << >>

ContentBlocks(raws) == Flat([i \in DOMAIN raws |-> ContentBlock(raws[i])])

(* textOf: None when there is no text block. *)
TextOf(raws) ==
  LET texts == SelectSeq(raws, LAMBDA b : b.type = "text" /\ b.text # None)
  IN  IF texts = << >> THEN None ELSE texts[1].text

OmpBlocks(e) ==
  IF e.role = "toolResult" THEN <<Block("tool_result", TextOf(e.content), Str(e, "call"))>>
  ELSE ContentBlocks(e.content)

OmpMessages(e) ==
  IF e.type = "message" /\ e.role \in DOMAIN OmpRoles /\ OmpBlocks(e) # << >>
    THEN <<Message(e.id, OmpRoles[e.role], e.time, OmpBlocks(e))>>
  ELSE IF e.type = "custom_message" /\ TextOf(e.content) \notin {None, ""}
    THEN <<Message(e.id, IF e.role = "user" THEN "user" ELSE "assistant", e.time,
                   <<TextBlock(TextOf(e.content))>>)>>
  ELSE << >>

(* The last header's title wins over the first title slot; a header's time *)
(* replaces the start found so far.                                        *)
OmpConversation(content) ==
  LET ms      == Flat([i \in DOMAIN content |-> OmpMessages(content[i])])
      Titled(e) == Str(e, "title") \notin {None, "", Blank}
      Header(e) == e.type = "session"
      Slot(e)   == e.type = "title" /\ Titled(e)
      HeaderTitle(e) == Header(e) /\ Titled(e)
      timed   == SelectLastInSeq(content, LAMBDA e : Header(e) /\ e.time # None)
      after   == SubSeq(content, timed + 1, Len(content))
      started == Times(Flat([i \in DOMAIN after |-> OmpMessages(after[i])]))
                   \cup (IF timed = 0 THEN {} ELSE {content[timed].time})
  IN  Conversation(First(FirstField(Reverse(content), "title", HeaderTitle),
                         First(FirstField(content, "title", Slot), FirstUserLine(ms))),
                   FirstField(Reverse(content), "cwd", Header), ms, content,
                   Earliest(started), Latest(Times(ms)))

-----------------------------------------------------------------------------
(* opencode: a document with a session's rows of messages, each with its   *)
(* parts; in the 2.x format with its own kinds of rows.                    *)

(* toolMessages and toolV2: the use of a tool and, once it has finished,   *)
(* its result, which take the id of the call.                              *)
ToolMessages(p, time, finished) ==
  <<Message(p.call, "assistant", time, <<Block("tool_use", None, p.call)>>)>> \o
  IF p.status \in finished
  THEN <<Message(p.call, "tool", time, <<Block("tool_result", p.text, p.call)>>)>>
  ELSE << >>

(* partBlocks, and what assistantV2 does alike: texts that are not empty,  *)
(* reasoning with or without, patches; steps and other parts are left out. *)
PartBlocks(p) ==
  IF p.type = "text" /\ NonEmpty(p, "text") # None THEN <<TextBlock(p.text)>>
  ELSE IF p.type = "reasoning" THEN <<Block("thinking", NonEmpty(p, "text"), None)>>
  ELSE IF p.type = "patch" THEN <<Block("tool_result", None, None)>>
  ELSE << >>

(* The blocks between two tools become one message. *)
RowMessages(row, role, finished) ==
  LET parts == row.parts
      Ends  == {i \in DOMAIN parts : parts[i].type = "tool"} \cup {Len(parts) + 1}
      Pending(i) == LET before == SubSeq(parts, 1 + Max({0} \cup {j \in Ends : j < i}), i - 1)
                    IN  Flat([j \in DOMAIN before |-> PartBlocks(before[j])])
      At(i) == (IF Pending(i) # << >> THEN <<Message(row.id, role, row.time, Pending(i))>> ELSE << >>) \o
               (IF i \in DOMAIN parts THEN ToolMessages(parts[i], row.time, finished) ELSE << >>)
  IN  Flat([i \in 1..(Len(parts) + 1) |-> IF i \in Ends THEN At(i) ELSE << >>])

OpencodeMessages(row) ==
  RowMessages(row, IF row.role = "user" THEN "user" ELSE "assistant", {"completed"})

(* A row's own time, and when it was done, are part of the span. *)
RowTimes(rows) ==
  LET At(f) == Known([i \in DOMAIN rows |-> Str(rows[i], f)])
  IN  [start |-> Earliest(At("time")), end |-> Latest(At("time") \cup At("done"))]

OpencodeConversation(doc) ==
  LET ms == Flat([i \in DOMAIN doc.rows |-> OpencodeMessages(doc.rows[i])])
      span == RowTimes(doc.rows)
  IN  Conversation(doc.title, doc.project, ms, doc.rows, span.start, span.end)

(* parseV2, attachment: a user's or system row is a text and files. *)
PromptMessages(row) ==
  LET texts  == IF NonEmpty(row, "text") # None THEN <<TextBlock(row.text)>> ELSE << >>
      blocks == texts \o [i \in DOMAIN row.files |-> Block("attachment", row.files[i], None)]
  IN  IF blocks = << >> THEN << >> ELSE <<Message(row.id, row.type, row.time, blocks)>>

OpencodeV2Messages(row) ==
  IF row.type \in {"user", "system"} THEN PromptMessages(row)
  ELSE IF row.type = "assistant" THEN RowMessages(row, "assistant", {"completed", "error"})
  ELSE << >>

OpencodeV2Conversation(doc) ==
  LET ms == Flat([i \in DOMAIN doc.rows |-> OpencodeV2Messages(doc.rows[i])])
      span == RowTimes(doc.rows)
      session == [title |-> doc.title, project |-> doc.project]
  IN  Conversation(First(NonEmpty(doc, "title"), First(FirstUserLine(ms), doc.title)),
                   doc.project, ms, <<session>> \o doc.rows, span.start, span.end)

-----------------------------------------------------------------------------
(* hermes: a document with the session's row and its messages' rows. *)

(* messageBlocks: the calls, then the text, then the reasoning; all of a   *)
(* tool's row is its result.                                               *)
HermesBlocks(row) ==
  LET calls == IF row.role = "assistant"
               THEN [i \in DOMAIN row.calls |-> Block("tool_use", None, row.calls[i])]
               ELSE << >>
      texts == IF NonEmpty(row, "text") # None THEN <<TextBlock(row.text)>> ELSE << >>
      thoughts == IF row.role = "assistant" /\ NonEmpty(row, "reasoning") # None
                  THEN <<Block("thinking", row.reasoning, None)>> ELSE << >>
  IN  IF row.role = "tool" THEN <<Block("tool_result", NonEmpty(row, "text"), row.call)>>
      ELSE calls \o texts \o thoughts

(* Rows that a rewind left behind are not active, and those that were      *)
(* compacted still count.                                                  *)
HermesMessages(row) ==
  IF /\ row.active \/ row.compacted
     /\ row.role \in {"user", "assistant", "system", "tool"}
     /\ HermesBlocks(row) # << >>
  THEN <<Message(row.id, row.role, row.time, HermesBlocks(row))>>
  ELSE << >>

(* The session's own times, or if one is missing the messages' as well. *)
HermesConversation(doc) ==
  LET ms == Flat([i \in DOMAIN doc.rows |-> HermesMessages(doc.rows[i])])
      all == IF None \in {doc.started, doc.ended} THEN Times(ms) ELSE {}
      name == First(NonEmpty(doc, "title"), doc.name)
      session == [title |-> doc.title, project |-> doc.project, name |-> doc.name,
                  started |-> doc.started, ended |-> doc.ended]
  IN  Conversation(First(NonEmpty([name |-> name], "name"), First(FirstUserLine(ms), name)),
                   doc.project, ms, <<session>> \o doc.rows,
                   Earliest(all \cup ({doc.started} \ {None})),
                   Latest(all \cup ({doc.ended} \ {None})))

-----------------------------------------------------------------------------
(* claude_export: one conversation of an export. *)

(* messageBlocks: the text counts only when there is no content. *)
ExportBlocks(m) ==
  LET texts == IF NonEmpty(m, "text") # None THEN <<TextBlock(m.text)>> ELSE << >>
  IN  (IF m.content # << >> THEN ConvertBlocks(m.content) ELSE texts)
        \o [i \in DOMAIN m.files |-> Block("attachment", m.files[i], None)]

ExportMessages(m) ==
  IF ExportBlocks(m) = << >> THEN << >>
  ELSE <<Message(m.id, IF m.sender = "human" THEN "user" ELSE "assistant", m.time,
                 ExportBlocks(m))>>

ExportConversation(doc) ==
  LET ms == Flat([i \in DOMAIN doc.rows |-> ExportMessages(doc.rows[i])])
  IN  Conversation(First(doc.title, FirstUserLine(ms)), None, ms, <<doc>>,
                   Earliest(Times(ms) \cup ({doc.started} \ {None})),
                   Latest(Times(ms) \cup ({doc.ended} \ {None})))

-----------------------------------------------------------------------------
(* Parse of the source. *)
Parse(source, content) ==
  CASE source = "claude_code"   -> ClaudeConversation(content)
    [] source = "codex_cli"     -> CodexConversation(content)
    [] source = "omp"           -> OmpConversation(content)
    [] source = "opencode"      -> IF content[1].v2 THEN OpencodeV2Conversation(content[1])
                                   ELSE OpencodeConversation(content[1])
    [] source = "hermes"        -> HermesConversation(content[1])
    [] source = "claude_export" -> ExportConversation(content[1])

(* What import-legacy makes of a session that the Python app had, which    *)
(* did not read opencode's 2.x format: its raw events, which for opencode  *)
(* lack the session's row and so the title.                                *)
Importable(source, content) == source = "opencode" => ~content[1].v2

Legacy(source, content) ==
  IF source = "opencode" THEN <<[content[1] EXCEPT !.title = None]>> ELSE content

=============================================================================
