---------------------------- MODULE MCHistories ----------------------------
(* Two devices, whose ids are ordered like the numbers, and small sessions *)
(* of every source: for those of lines every order of some lines after the *)
(* first, for the others a few documents that grow, fork and are edited.   *)
EXTENDS Sessions

(* A first line and at most two of the others, in their order. *)
After(first, lines) ==
  {<<first>> \o [i \in 1..Cardinality(S) |->
     lines[CHOOSE n \in S : Cardinality({m \in S : m < n}) = i - 1]] :
     S \in kSubset(0, DOMAIN lines) \cup kSubset(1, DOMAIN lines) \cup kSubset(2, DOMAIN lines)}

Text(id, type, time, text) ==
  [type |-> type, id |-> id, time |-> time, content |-> <<TextBlock(text)>>]

Claude ==
  After([type |-> "user", id |-> 1, time |-> 1, content |-> <<TextBlock("q")>>, cwd |-> "dir"],
        <<Text(2, "assistant", 2, "a"), Text(3, "assistant", 3, "b"),
          [type |-> "summary", id |-> None, time |-> None, content |-> << >>, summary |-> "s"]>>)

Event(kind, text, time) == [type |-> "event_msg", kind |-> kind, text |-> text, time |-> time]
Item(kind, call, time) ==
  [type |-> "response_item", kind |-> kind, call |-> call, time |-> time]

Codex ==
  After([type |-> "session_meta", kind |-> None, time |-> 1, cwd |-> "dir"],
        <<Event("user_message", "x", 2), Event("user_message", "y", 3),
          Item("function_call", 1, 4), Item("function_call_output", 1, 5)>>)

OmpText(id, time, role) ==
  [type |-> "message", id |-> id, time |-> time, role |-> role, content |-> <<TextBlock("t")>>]

Omp ==
  After([type |-> "session", id |-> None, time |-> 1, title |-> Blank, cwd |-> "dir"],
        <<OmpText(1, 2, "user"), OmpText(2, 3, "toolResult"),
          [type |-> "title", id |-> None, time |-> None, title |-> "t"]>>)

Part(type, text)   == [type |-> type, text |-> text]
Tool(call, status) == [type |-> "tool", text |-> "out", call |-> call, status |-> status]
Row(id, role, time, parts) == [id |-> id, role |-> role, time |-> time, parts |-> parts]

Document(rows, size) ==
  [v2 |-> FALSE, title |-> "t", project |-> "dir", rows |-> rows, size |-> size]

Ask    == Row(1, "user", 1, <<Part("text", "q")>>)
Answer == Row(2, "assistant", 2, <<Part("text", "a"), Tool(3, "completed"), Part("text", "b")>>)
Other  == Row(4, "assistant", 3, <<Part("step-start", None), Part("reasoning", "r")>>)

Opencode == {<<Document(<<Ask>>, 9)>>, <<Document(<<Ask, Answer>>, 3)>>,
             <<Document(<<Ask, Other>>, 2)>>, <<Document(<<Ask, Answer, Other>>, 4)>>}

Prompt == [type |-> "user", id |-> 1, time |-> 1, text |-> "q", files |-> <<"f">>]
Reply(id, time, parts) == [type |-> "assistant", id |-> id, time |-> time, parts |-> parts]

OpencodeV2 ==
  {<<[Document(rows, Len(rows)) EXCEPT !.v2 = TRUE]>> :
     rows \in {<<Prompt>>, <<Prompt, Reply(2, 2, <<Tool(3, "error")>>)>>,
               <<Prompt, Reply(4, 3, <<Part("text", "a")>>)>>}}

HermesRow(id, role, active, compacted) ==
  [id |-> id, role |-> role, time |-> id, active |-> active, compacted |-> compacted,
   calls |-> <<7>>, call |-> 7, text |-> "t", reasoning |-> None]

Hermes ==
  {<<[title |-> None, name |-> "n", project |-> "dir", started |-> 1, ended |-> None,
      rows |-> rows, size |-> Len(rows)]>> :
     rows \in {<<HermesRow(1, "user", TRUE, FALSE)>>,
               <<HermesRow(1, "user", FALSE, TRUE), HermesRow(2, "assistant", TRUE, FALSE)>>,
               <<HermesRow(1, "user", FALSE, FALSE), HermesRow(3, "tool", TRUE, FALSE)>>}}

ExportRow(id, sender) ==
  [id |-> id, sender |-> sender, time |-> id, text |-> "t", content |-> << >>, files |-> <<"f">>]

Export ==
  {<<[title |-> "t", started |-> 1, ended |-> 9, rows |-> rows, size |-> Len(rows)]>> :
     rows \in {<<ExportRow(1, "human")>>,
               <<ExportRow(1, "human"), ExportRow(2, "assistant")>>,
               <<ExportRow(1, "human"), ExportRow(3, "assistant")>>}}

MCDevices == 1..2
MCCopies  == [claude_code |-> Claude, codex_cli |-> Codex, omp |-> Omp,
              opencode |-> Opencode \cup OpencodeV2, hermes |-> Hermes,
              claude_export |-> Export]
CodexCopies == [codex_cli |-> Codex]
MCMaxObs    == [s \in DOMAIN MCCopies |-> IF s = "claude_code" THEN 3 ELSE 2]
=============================================================================
