------------------------------ MODULE RowsProofs ------------------------------
(***************************************************************************)
(* Proofs about Rows, for every set of conversations: a stored hash tells  *)
(* the truth wherever a projection is interrupted, no row is without its   *)
(* parent between two statements, a projection that returns has made the   *)
(* rows exactly those of its conversation, and an update in place leaves   *)
(* alone what is already right.                                            *)
(***************************************************************************)
EXTENDS Rows, SequenceTheorems, WellFoundedInduction, TLAPS

-----------------------------------------------------------------------------
(* Vocabulary. *)

(* What the rows of messages and of events may hold. *)
Heads == UNION {{c.messages[i].head : i \in DOMAIN c.messages} : c \in Conversations}
Lines == UNION {{c.events[i] : i \in DOMAIN c.events} : c \in Conversations}

(* SameMessages and SameEvents, of rows given as parameters. *)
Agree(c, m, b, n) ==
  \A i \in 1..n :
    /\ i \in DOMAIN m \cap DOMAIN c.messages
    /\ m[i] = c.messages[i].head
    /\ BlocksAt(b, i) = BlocksAt(BlockRows(c, 0), i)

AgreeEvents(c, e, n) ==
  \A i \in 1..n : i \in DOMAIN e \cap DOMAIN c.events /\ e[i] = c.events[i]

(* The statements that are left, in either of their two orders. *)
Ahead(s) == {s[i] : i \in DOMAIN s}

Plans ==
  {UpdateSteps, <<"blocks", "messages", "events">>, <<"messages", "events">>,
   <<"events">>, << >>,
   DeleteSteps, <<"blocks", "messages", "events", "conversation">>,
   <<"messages", "events", "conversation">>, <<"events", "conversation">>,
   <<"conversation">>}

-----------------------------------------------------------------------------
(* Lemmas about the plans. *)

LEMMA Plan0 == Ahead(<< >>) = {}
BY DEF Ahead

LEMMA Plan1 ==
  ASSUME NEW a
  PROVE  /\ <<a>> # << >>
         /\ Tail(<<a>>) = << >>
         /\ Head(<<a>>) = a
         /\ Ahead(<<a>>) = {a}
<1>1. DOMAIN <<a>> = {1} OBVIOUS
<1>2. Ahead(<<a>>) = {a} BY <1>1 DEF Ahead
<1>3. QED BY <1>2

LEMMA Plan2 ==
  ASSUME NEW a, NEW b
  PROVE  /\ <<a, b>> # << >>
         /\ Tail(<<a, b>>) = <<b>>
         /\ Head(<<a, b>>) = a
         /\ Ahead(<<a, b>>) = {a, b}
<1>1. DOMAIN <<a, b>> = {1, 2} OBVIOUS
<1>2. Ahead(<<a, b>>) = {a, b} BY <1>1 DEF Ahead
<1>3. QED BY <1>2

LEMMA Ahead3 ==
  ASSUME NEW a, NEW b, NEW c
  PROVE  Ahead(<<a, b, c>>) = {a, b, c}
<1>1. DOMAIN <<a, b, c>> = {1, 2, 3} OBVIOUS
<1>2. QED BY <1>1 DEF Ahead

LEMMA Plan3 ==
  ASSUME NEW a, NEW b, NEW c
  PROVE  /\ <<a, b, c>> # << >>
         /\ Tail(<<a, b, c>>) = <<b, c>>
         /\ Head(<<a, b, c>>) = a
         /\ Ahead(<<a, b, c>>) = {a, b, c}
<1>1. Ahead(<<a, b, c>>) = {a, b, c} BY Ahead3
<1>2. QED BY <1>1

LEMMA Ahead4 ==
  ASSUME NEW a, NEW b, NEW c, NEW d
  PROVE  Ahead(<<a, b, c, d>>) = {a, b, c, d}
<1>1. DOMAIN <<a, b, c, d>> = {1, 2, 3, 4} OBVIOUS
<1>2. QED BY <1>1 DEF Ahead

LEMMA Plan4 ==
  ASSUME NEW a, NEW b, NEW c, NEW d
  PROVE  /\ <<a, b, c, d>> # << >>
         /\ Tail(<<a, b, c, d>>) = <<b, c, d>>
         /\ Head(<<a, b, c, d>>) = a
         /\ Ahead(<<a, b, c, d>>) = {a, b, c, d}
<1>1. Ahead(<<a, b, c, d>>) = {a, b, c, d} BY Ahead4
<1>2. QED BY <1>1

LEMMA Ahead5 ==
  ASSUME NEW a, NEW b, NEW c, NEW d, NEW e
  PROVE  Ahead(<<a, b, c, d, e>>) = {a, b, c, d, e}
<1>1. DOMAIN <<a, b, c, d, e>> = {1, 2, 3, 4, 5} OBVIOUS
<1>2. QED BY <1>1 DEF Ahead

LEMMA Plan5 ==
  ASSUME NEW a, NEW b, NEW c, NEW d, NEW e
  PROVE  /\ <<a, b, c, d, e>> # << >>
         /\ Tail(<<a, b, c, d, e>>) = <<b, c, d, e>>
         /\ Head(<<a, b, c, d, e>>) = a
         /\ Ahead(<<a, b, c, d, e>>) = {a, b, c, d, e}
<1>1. Ahead(<<a, b, c, d, e>>) = {a, b, c, d, e} BY Ahead5
<1>2. QED BY <1>1

(* What a plan has before and after its next statement. *)
Advances(s) ==
  /\ s # << >> /\ Tail(s) \in Plans
  /\ Ahead(s) = {Head(s)} \cup Ahead(Tail(s))
  /\ Head(s) \notin Ahead(Tail(s))
  /\ Head(s) = "hash" => {"blocks", "messages", "events"} \subseteq Ahead(Tail(s))
  /\ Head(s) = "blocks" =>
       {"messages", "events"} \subseteq Ahead(Tail(s)) /\ "hash" \notin Ahead(s)
  /\ Head(s) = "messages" =>
       "events" \in Ahead(Tail(s)) /\ {"hash", "blocks"} \cap Ahead(s) = {}
  /\ Head(s) = "events" => {"hash", "blocks", "messages"} \cap Ahead(s) = {}
  /\ Head(s) = "conversation" => Ahead(Tail(s)) = {}

LEMMA PlanAdvances ==
  ASSUME NEW s \in Plans, s # << >>
  PROVE  Advances(s)
<1>1. CASE s = UpdateSteps
  <2>1. /\ s # << >> /\ Tail(s) = <<"blocks", "messages", "events">> /\ Head(s) = "hash"
        /\ Ahead(s) = {"hash", "blocks", "messages", "events"}
    BY <1>1, Plan4 DEF UpdateSteps
  <2>2. Ahead(Tail(s)) = {"blocks", "messages", "events"}
    <3>1. Ahead(<<"blocks", "messages", "events">>) = {"blocks", "messages", "events"}
      BY Ahead3
    <3>2. QED BY <2>1, <3>1, Zenon
  <2>3. Tail(s) \in Plans BY <2>1, Zenon DEF Plans
  <2>4. QED BY <2>1, <2>2, <2>3 DEF Advances
<1>2. CASE s = <<"blocks", "messages", "events">>
  <2>1. /\ s # << >> /\ Tail(s) = <<"messages", "events">> /\ Head(s) = "blocks"
        /\ Ahead(s) = {"blocks", "messages", "events"}
    BY <1>2, Plan3
  <2>2. Ahead(Tail(s)) = {"messages", "events"} BY <2>1, Plan2
  <2>3. Tail(s) \in Plans BY <2>1, Zenon DEF Plans
  <2>4. QED BY <2>1, <2>2, <2>3 DEF Advances
<1>3. CASE s = <<"messages", "events">>
  <2>1. /\ s # << >> /\ Tail(s) = <<"events">> /\ Head(s) = "messages"
        /\ Ahead(s) = {"messages", "events"}
    BY <1>3, Plan2
  <2>2. Ahead(Tail(s)) = {"events"} BY <2>1, Plan1
  <2>3. Tail(s) \in Plans BY <2>1, Zenon DEF Plans
  <2>4. QED BY <2>1, <2>2, <2>3 DEF Advances
<1>4. CASE s = <<"events">>
  <2>1. /\ s # << >> /\ Tail(s) = << >> /\ Head(s) = "events"
        /\ Ahead(s) = {"events"}
    BY <1>4, Plan1
  <2>2. Ahead(Tail(s)) = {} BY <2>1, Plan0
  <2>3. Tail(s) \in Plans BY <2>1, Zenon DEF Plans
  <2>4. QED BY <2>1, <2>2, <2>3 DEF Advances
<1>5. CASE s = DeleteSteps
  <2>1. /\ s # << >> /\ Tail(s) = <<"blocks", "messages", "events", "conversation">> /\ Head(s) = "hash"
        /\ Ahead(s) = {"hash", "blocks", "messages", "events", "conversation"}
    BY <1>5, Plan5 DEF DeleteSteps
  <2>2. Ahead(Tail(s)) = {"blocks", "messages", "events", "conversation"}
    <3>1. Ahead(<<"blocks", "messages", "events", "conversation">>) = {"blocks", "messages", "events", "conversation"}
      BY Ahead4
    <3>2. QED BY <2>1, <3>1, Zenon
  <2>3. Tail(s) \in Plans BY <2>1, Zenon DEF Plans
  <2>4. QED BY <2>1, <2>2, <2>3 DEF Advances
<1>6. CASE s = <<"blocks", "messages", "events", "conversation">>
  <2>1. /\ s # << >> /\ Tail(s) = <<"messages", "events", "conversation">> /\ Head(s) = "blocks"
        /\ Ahead(s) = {"blocks", "messages", "events", "conversation"}
    BY <1>6, Plan4
  <2>2. Ahead(Tail(s)) = {"messages", "events", "conversation"}
    <3>1. Ahead(<<"messages", "events", "conversation">>) = {"messages", "events", "conversation"}
      BY Ahead3
    <3>2. QED BY <2>1, <3>1, Zenon
  <2>3. Tail(s) \in Plans BY <2>1, Zenon DEF Plans
  <2>4. QED BY <2>1, <2>2, <2>3 DEF Advances
<1>7. CASE s = <<"messages", "events", "conversation">>
  <2>1. /\ s # << >> /\ Tail(s) = <<"events", "conversation">> /\ Head(s) = "messages"
        /\ Ahead(s) = {"messages", "events", "conversation"}
    BY <1>7, Plan3
  <2>2. Ahead(Tail(s)) = {"events", "conversation"} BY <2>1, Plan2
  <2>3. Tail(s) \in Plans BY <2>1, Zenon DEF Plans
  <2>4. QED BY <2>1, <2>2, <2>3 DEF Advances
<1>8. CASE s = <<"events", "conversation">>
  <2>1. /\ s # << >> /\ Tail(s) = <<"conversation">> /\ Head(s) = "events"
        /\ Ahead(s) = {"events", "conversation"}
    BY <1>8, Plan2
  <2>2. Ahead(Tail(s)) = {"conversation"} BY <2>1, Plan1
  <2>3. Tail(s) \in Plans BY <2>1, Zenon DEF Plans
  <2>4. QED BY <2>1, <2>2, <2>3 DEF Advances
<1>9. CASE s = <<"conversation">>
  <2>1. /\ s # << >> /\ Tail(s) = << >> /\ Head(s) = "conversation"
        /\ Ahead(s) = {"conversation"}
    BY <1>9, Plan1
  <2>2. Ahead(Tail(s)) = {} BY <2>1, Plan0
  <2>3. Tail(s) \in Plans BY <2>1, Zenon DEF Plans
  <2>4. QED BY <2>1, <2>2, <2>3 DEF Advances
<1>10. QED BY <1>1, <1>2, <1>3, <1>4, <1>5, <1>6, <1>7, <1>8, <1>9 DEF Plans

LEMMA PlansStart ==
  /\ << >> \in Plans /\ Ahead(<< >>) = {}
  /\ UpdateSteps \in Plans
  /\ Ahead(UpdateSteps) = {"hash", "blocks", "messages", "events"}
  /\ DeleteSteps \in Plans
  /\ Ahead(DeleteSteps) = {"hash", "blocks", "messages", "events", "conversation"}
<1>1. Ahead(<< >>) = {} BY Plan0
<1>2. Ahead(UpdateSteps) = {"hash", "blocks", "messages", "events"}
  BY Ahead4 DEF UpdateSteps
<1>3. Ahead(DeleteSteps) = {"hash", "blocks", "messages", "events", "conversation"}
  BY Ahead5 DEF DeleteSteps
<1>4. << >> \in Plans /\ UpdateSteps \in Plans /\ DeleteSteps \in Plans
  BY Zenon DEF Plans
<1>5. QED BY <1>1, <1>2, <1>3, <1>4

-----------------------------------------------------------------------------
(* Lemmas about the greatest number of a set, and about rows. *)

LEMMA MaxOf ==
  ASSUME NEW N \in Nat, NEW S \in SUBSET (0..N), S # {}
  PROVE  Max(S) \in S /\ \A n \in S : n <= Max(S)
<1> DEFINE T == {N - n : n \in S}
           R == {ss \in Nat \X Nat : ss[1] < ss[2]}
<1>1. IsWellFoundedOn(R, Nat) BY NatLessThanWellFounded DEF OpToRel
<1>2. T \in SUBSET Nat /\ T # {}
  <2>1. \A n \in S : n \in 0..N /\ N - n \in Nat OBVIOUS
  <2>2. QED BY <2>1
<1> HIDE DEF R
<1>3. PICK k \in T : \A m \in T : ~ (<<m, k>> \in R) BY <1>1, <1>2, WFMin
<1> USE DEF R
<1>4. PICK j \in S : k = N - j BY <1>3
<1>5. ASSUME NEW n \in S PROVE j >= n
  <2>1. N - n \in T BY <1>5
  <2>2. <<N - n, k>> \in Nat \X Nat /\ <<N - n, k>>[1] = N - n /\ <<N - n, k>>[2] = k
    BY <1>2, <1>3, <2>1
  <2>3. ~(N - n < k) BY <1>3, <2>1, <2>2
  <2>4. n \in Nat /\ j \in Nat BY <1>4, <1>5
  <2>5. QED BY <1>4, <2>3, <2>4
<1>6. /\ Max(S) \in S
      /\ \A n \in S : Max(S) >= n
  BY <1>4, <1>5 DEF Max
<1>7. QED BY <1>6

(* A parsed conversation's sequences. *)
LEMMA Parsed ==
  ASSUME NEW c \in Conversations
  PROVE  /\ c # None
         /\ Hash(c) # None /\ Row(c, Hash(c)) # None /\ Row(c, None) # None
         /\ Len(c.messages) \in Nat /\ DOMAIN c.messages = 1..Len(c.messages)
         /\ c.events \in Seq(Lines) /\ Len(c.events) \in Nat
         /\ MessageRows(c) \in Seq(Heads) /\ Len(MessageRows(c)) = Len(c.messages)
         /\ \A i \in DOMAIN c.messages : MessageRows(c)[i] = c.messages[i].head
<1>1. c # None BY RowsAssumption
<1>2. Hash(c) # None /\ Row(c, Hash(c)) # None /\ Row(c, None) # None
  <2>1. None \notin {Hash(c), Row(c, Hash(c)), Row(c, None)} BY RowsAssumption
  <2>2. QED BY <2>1, Zenon
<1>3. /\ c.messages \in Seq({c.messages[i] : i \in DOMAIN c.messages})
      /\ c.events \in Seq({c.events[i] : i \in DOMAIN c.events})
  <2>1. \A s \in {c.messages, c.events} : s \in Seq({s[i] : i \in DOMAIN s})
    BY RowsAssumption
  <2>2. QED BY <2>1, Zenon
<1>4. Len(c.messages) \in Nat /\ DOMAIN c.messages = 1..Len(c.messages) BY <1>3
<1>5. Len(c.events) \in Nat /\ c.events \in Seq(Lines)
  <2>1. {c.events[i] : i \in DOMAIN c.events} \subseteq Lines BY DEF Lines
  <2>2. QED BY <1>3, <2>1
<1>6. /\ MessageRows(c) \in Seq(Heads) /\ Len(MessageRows(c)) = Len(c.messages)
      /\ \A i \in DOMAIN c.messages : MessageRows(c)[i] = c.messages[i].head
  <2>1. \A i \in DOMAIN c.messages : c.messages[i].head \in Heads BY DEF Heads
  <2>2. QED BY <1>4, <2>1 DEF MessageRows
<1>7. QED BY <1>1, <1>2, <1>4, <1>5, <1>6

LEMMA BlockRow ==
  ASSUME NEW c, NEW n
  PROVE  \A b : b \in BlockRows(c, n) <=>
           \E i \in DOMAIN c.messages : i > n /\
             \E j \in DOMAIN c.messages[i].blocks :
               b = <<i, j, c.messages[i].blocks[j]>>
BY DEF BlockRows

(* A row, and a hash, tell one thing only. *)
LEMMA RowParts ==
  ASSUME NEW c, NEW h, NEW g
  PROVE  /\ Row(c, h).hash = h /\ Row(c, h).head = c.head /\ Row(c, h).rest = c.rest
         /\ [Row(c, h) EXCEPT !.hash = g] = Row(c, g)
         /\ DOMAIN Row(c, h) = {"hash", "head", "rest"}
BY DEF Row

LEMMA HashParts ==
  ASSUME NEW c, NEW d, Hash(c) = Hash(d)
  PROVE  /\ c.head = d.head /\ c.rest = d.rest
         /\ c.messages = d.messages /\ c.events = d.events
<1>1. /\ Hash(c).head = c.head /\ Hash(c).rest = c.rest
      /\ Hash(c).messages = c.messages /\ Hash(c).events = c.events
      /\ Hash(d).head = d.head /\ Hash(d).rest = d.rest
      /\ Hash(d).messages = d.messages /\ Hash(d).events = d.events
  BY DEF Hash
<1>2. QED BY <1>1

(* Rows that agree with a conversation go on doing so while the leading    *)
(* ones are there.                                                         *)
LEMMA AgreeKept ==
  ASSUME NEW c, NEW m, NEW b, NEW n \in Nat, NEW m2, NEW b2,
         Agree(c, m, b, n),
         \A i \in 1..n : /\ i \in DOMAIN m2 /\ m2[i] = m[i]
                         /\ BlocksAt(b2, i) = BlocksAt(b, i)
  PROVE  Agree(c, m2, b2, n)
BY DEF Agree

LEMMA BlocksKept ==
  ASSUME NEW b, NEW k \in Nat,
         NEW n \in Nat, n <= k
  PROVE  BlocksAt({x \in b : x[1] <= k}, n) = BlocksAt(b, n)
BY DEF BlocksAt

LEMMA BlocksGone ==
  ASSUME NEW b, NEW k \in Nat,
         NEW n \in Nat, n > k
  PROVE  BlocksAt({x \in b : x[1] <= k}, n) = {}
BY DEF BlocksAt

(* A message with blocks has rows for them. *)
LEMMA BlocksThere ==
  ASSUME NEW c \in Conversations, NEW n \in DOMAIN c.messages,
         c.messages[n].blocks # << >>
  PROVE  BlocksAt(BlockRows(c, 0), n) # {}
<1> DEFINE b == c.messages[n].blocks
<1>1. b \in Seq({b[j] : j \in DOMAIN b}) BY RowsAssumption
<1>2. 1 \in DOMAIN b BY <1>1
<1>3. n > 0 BY Parsed
<1>4. <<n, 1, b[1]>> \in BlockRows(c, 0) BY <1>2, <1>3, BlockRow
<1>5. <<n, 1, b[1]>>[1] = n OBVIOUS
<1>6. QED BY <1>4, <1>5 DEF BlocksAt

(* The rows of c from the first: what Commit adds to the rows that are     *)
(* kept makes it whole.                                                    *)
LEMMA MessagesWhole ==
  ASSUME NEW c \in Conversations, NEW m \in Seq(Heads), NEW b,
         Agree(c, m, b, Len(m))
  PROVE  /\ Len(m) <= Len(c.messages)
         /\ m \o SubSeq(MessageRows(c), Len(m) + 1, Len(c.messages)) = MessageRows(c)
<1> DEFINE r == MessageRows(c)
<1>1. /\ r \in Seq(Heads) /\ Len(r) = Len(c.messages) /\ Len(r) \in Nat /\ Len(m) \in Nat
      /\ DOMAIN c.messages = 1..Len(r)
      /\ \A i \in DOMAIN c.messages : r[i] = c.messages[i].head
  BY Parsed
<1>2. \A i \in 1..Len(m) : i \in 1..Len(r) /\ m[i] = r[i] BY <1>1 DEF Agree
<1>3. Len(m) <= Len(r)
  <2>1. CASE Len(m) = 0 BY <1>1, <2>1
  <2>2. CASE Len(m) > 0 BY <1>1, <1>2, <2>2, Len(m) \in 1..Len(m)
  <2>3. QED BY <1>1, <2>1, <2>2
<1> HIDE DEF r
<1>4. m \o SubSeq(r, Len(m) + 1, Len(r)) = r BY <1>1, <1>2, <1>3
<1>5. QED BY <1>1, <1>3, <1>4 DEF r

LEMMA EventsWhole ==
  ASSUME NEW c \in Conversations, NEW e \in Seq(Lines),
         AgreeEvents(c, e, Len(e))
  PROVE  /\ Len(e) <= Len(c.events)
         /\ e \o SubSeq(c.events, Len(e) + 1, Len(c.events)) = c.events
<1> DEFINE r == c.events
<1>1. /\ r \in Seq(Lines) /\ Len(r) \in Nat /\ Len(e) \in Nat
      /\ DOMAIN r = 1..Len(r)
  BY Parsed
<1>2. \A i \in 1..Len(e) : i \in 1..Len(r) /\ e[i] = r[i] BY <1>1 DEF AgreeEvents
<1> HIDE DEF r
<1>3. Len(e) <= Len(r)
  <2>1. CASE Len(e) = 0 BY <1>1, <2>1
  <2>2. CASE Len(e) > 0 BY <1>1, <1>2, <2>2, Len(e) \in 1..Len(e)
  <2>3. QED BY <1>1, <2>1, <2>2
<1>4. e \o SubSeq(r, Len(e) + 1, Len(r)) = r BY <1>1, <1>2, <1>3
<1>5. QED BY <1>3, <1>4 DEF r

LEMMA BlocksWhole ==
  ASSUME NEW c \in Conversations, NEW m, NEW b, NEW n \in Nat,
         Agree(c, m, b, n),
         \A x \in b : x[1] \in 1..n
  PROVE  b \cup BlockRows(c, n) = BlockRows(c, 0)
<1>1. ASSUME NEW x \in b PROVE x \in BlockRows(c, 0)
  <2>1. x[1] \in 1..n /\ x \in BlocksAt(b, x[1]) BY <1>1 DEF BlocksAt
  <2>2. BlocksAt(b, x[1]) = BlocksAt(BlockRows(c, 0), x[1]) BY <2>1 DEF Agree
  <2>3. QED BY <2>1, <2>2 DEF BlocksAt
<1>2. \A i \in DOMAIN c.messages : i \in Nat /\ i > 0 BY Parsed
<1>3. ASSUME NEW x \in BlockRows(c, n) PROVE x \in BlockRows(c, 0)
  BY <1>2, <1>3, BlockRow
<1>4. ASSUME NEW x \in BlockRows(c, 0), x \notin BlockRows(c, n) PROVE x \in b
  <2>1. PICK i \in DOMAIN c.messages : i > 0 /\ \E j \in DOMAIN c.messages[i].blocks :
               x = <<i, j, c.messages[i].blocks[j]>>
    BY <1>4, BlockRow
  <2>2. i <= n BY <1>2, <1>4, <2>1, BlockRow
  <2>3. i \in 1..n /\ x[1] = i BY <1>2, <2>1, <2>2
  <2>4. x \in BlocksAt(BlockRows(c, 0), i) BY <1>4, <2>3 DEF BlocksAt
  <2>5. BlocksAt(b, i) = BlocksAt(BlockRows(c, 0), i) BY <2>3 DEF Agree
  <2>6. QED BY <2>4, <2>5 DEF BlocksAt
<1>5. QED BY <1>1, <1>3, <1>4

LEMMA BlocksFirst ==
  ASSUME NEW c \in Conversations
  PROVE  \A x \in BlockRows(c, 0) : x[1] \in 1..Len(c.messages)
BY Parsed, BlockRow

LEMMA PrefixCut ==
  ASSUME NEW S, NEW m \in Seq(S), NEW t, IsPrefix(m, t), NEW n \in 0..Len(m)
  PROVE  IsPrefix(SubSeq(m, 1, n), t)
BY DEF IsPrefix

-----------------------------------------------------------------------------
(* The inductive invariant. *)

Tables ==
  /\ messages \in Seq(Heads) /\ events \in Seq(Lines)
  /\ conv # None => \E d \in Conversations : conv \in {Row(d, Hash(d)), Row(d, None)}
  /\ target \in Conversations \cup {None}
  /\ keep \in [messages : Nat, events : Nat]
  /\ steps \in Plans

(* The conversation's row is the last to go. *)
Whole == conv = None => messages = << >> /\ events = << >>

(* Where the statements stand. *)
Writing ==
  pc = "writing" =>
    /\ "hash" \in Ahead(steps) => conv # None
    /\ steps # << >> /\ "hash" \notin Ahead(steps) => conv = None \/ conv.hash = None
    /\ "blocks" \notin Ahead(steps) => \A b \in blocks : b[1] <= keep.messages
    /\ "messages" \notin Ahead(steps) => Len(messages) = keep.messages
    /\ "events" \notin Ahead(steps) => Len(events) = keep.events
    /\ "conversation" \in Ahead(steps) \/ target = None => keep = Nothing
    /\ target = None => conv = None \/ "conversation" \in Ahead(steps)
    /\ target # None => /\ Agree(target, messages, blocks, keep.messages)
                        /\ AgreeEvents(target, events, keep.events)

(* Nothing that is right goes. *)
Maximal ==
  pc = "writing" /\ target # None /\ conv # None /\ conv.head = target.head =>
    /\ \A n \in DOMAIN messages :
         Agree(target, messages, blocks, n) /\ target.messages[n].blocks # << >> =>
           n <= keep.messages
    /\ \A n \in DOMAIN events : AgreeEvents(target, events, n) => n <= keep.events

(* What has been reached. *)
Finished ==
  /\ pc = "idle" => target = None
  /\ pc \in {"stored", "branching"} => target # None
  /\ pc \in {"stored", "branching", "done"} /\ target # None => Exactly(target)
  /\ pc = "done" /\ target = None => conv = None
  /\ pc = "branching" => divergences \cup branches = target.divergences
  /\ pc = "done" /\ target # None => divergences = target.divergences

IInv ==
  /\ Tables /\ TypeOK
  /\ Referential /\ Whole /\ HashHonest
  /\ Writing /\ Maximal /\ Finished

-----------------------------------------------------------------------------
LEMMA Initially == Init => IInv
<1> SUFFICES ASSUME Init PROVE IInv OBVIOUS
<1> USE DEF Init
<1>1. Tables BY PlansStart DEF Tables, Nothing
<1>2. TypeOK
  <2>1. PICK c \in Conversations : TRUE BY RowsAssumption
  <2>2. Len(MessageRows(c)) \in Nat /\ Len(c.events) \in Nat BY Parsed
  <2>3. IsPrefix(<< >>, MessageRows(c)) /\ IsPrefix(<< >>, c.events)
    BY <2>2 DEF IsPrefix
  <2>4. keep.messages <= Len(messages) /\ keep.events <= Len(events) BY DEF Nothing
  <2>5. QED BY <2>3, <2>4 DEF TypeOK
<1>3. Referential BY DEF Referential
<1>4. Whole BY DEF Whole
<1>5. HashHonest BY DEF HashHonest
<1>6. Writing /\ Maximal /\ Finished BY DEF Writing, Maximal, Finished
<1>7. QED BY <1>1, <1>2, <1>3, <1>4, <1>5, <1>6 DEF IInv

(* A step that leaves the rows of messages alone leaves alone what is said *)
(* of them alone.                                                          *)
LEMMA RowsStay ==
  ASSUME IInv, UNCHANGED <<conv, messages, blocks, events>>
  PROVE  Referential' /\ Whole' /\ HashHonest'
<1>1. Referential' BY DEF IInv, Referential
<1>2. Whole' BY DEF IInv, Whole
<1>3. HashHonest' BY DEF IInv, HashHonest, Exactly
<1>4. QED BY <1>1, <1>2, <1>3

(* What Ingest keeps: as much as is right, and no more.                    *)
LEMMA KeptRight ==
  ASSUME IInv, NEW c \in Conversations
  PROVE  /\ Kept(c) \in [messages : Nat, events : Nat]
         /\ Kept(c).messages <= Len(messages) /\ Kept(c).events <= Len(events)
         /\ Agree(c, messages, blocks, Kept(c).messages)
         /\ AgreeEvents(c, events, Kept(c).events)
         /\ \A n \in DOMAIN messages : Agree(c, messages, blocks, n) => n <= Kept(c).messages
         /\ \A n \in DOMAIN events : AgreeEvents(c, events, n) => n <= Kept(c).events
<1> DEFINE M == {n \in 0..Len(messages) : SameMessages(c, n)}
           E == {n \in 0..Len(events) : SameEvents(c, n)}
<1>1. /\ Len(messages) \in Nat /\ DOMAIN messages = 1..Len(messages)
      /\ Len(events) \in Nat /\ DOMAIN events = 1..Len(events)
  BY DEF IInv, Tables
<1>2. \A n : SameMessages(c, n) <=> Agree(c, messages, blocks, n)
  BY DEF SameMessages, SameMessage, Agree
<1>3. \A n : SameEvents(c, n) <=> AgreeEvents(c, events, n)
  BY DEF SameEvents, SameEvent, AgreeEvents
<1>4. 0 \in M /\ 0 \in E
  BY <1>1 DEF SameMessages, SameEvents
<1>5. Max(M) \in M /\ \A n \in M : n <= Max(M)
  <2>1. M \in SUBSET (0..Len(messages)) /\ M # {} BY <1>4
  <2>2. QED BY <1>1, <2>1, MaxOf
<1>6. Max(E) \in E /\ \A n \in E : n <= Max(E)
  <2>1. E \in SUBSET (0..Len(events)) /\ E # {} BY <1>4
  <2>2. QED BY <1>1, <2>1, MaxOf
<1>7. Kept(c) = [messages |-> Max(M), events |-> Max(E)] BY DEF Kept
<1> HIDE DEF Kept
<1>8. Kept(c).messages = Max(M) /\ Kept(c).events = Max(E) BY <1>7
<1>9. Max(M) \in 0..Len(messages) /\ Agree(c, messages, blocks, Max(M))
  BY <1>2, <1>5
<1>10. Max(E) \in 0..Len(events) /\ AgreeEvents(c, events, Max(E))
  BY <1>3, <1>6
<1>11. ASSUME NEW n \in DOMAIN messages, Agree(c, messages, blocks, n)
       PROVE  n <= Max(M)
  <2>1. n \in M BY <1>1, <1>2, <1>11
  <2>2. QED BY <1>5, <2>1
<1>12. ASSUME NEW n \in DOMAIN events, AgreeEvents(c, events, n)
       PROVE  n <= Max(E)
  <2>1. n \in E BY <1>1, <1>3, <1>12
  <2>2. QED BY <1>6, <2>1
<1> HIDE DEF M, E
<1>13. Kept(c) \in [messages : Nat, events : Nat] BY <1>1, <1>7, <1>9, <1>10
<1>14. QED BY <1>1, <1>8, <1>9, <1>10, <1>11, <1>12, <1>13

-----------------------------------------------------------------------------
(* The steps that leave the rows alone. *)

(* TypeOK and Tables, when the rows stay. *)
LEMMA TypesStay ==
  ASSUME IInv, UNCHANGED <<conv, messages, blocks, events>>,
         pc' \in {"idle", "writing", "stored", "branching", "done"},
         target' \in Conversations \cup {None},
         keep' \in [messages : Nat, events : Nat],
         keep'.messages <= Len(messages), keep'.events <= Len(events),
         steps' \in Plans,
         (divergences \cup branches)' \subseteq UNION {c.divergences : c \in Conversations},
         target' = None => branches' = {} /\ pc' \in {"idle", "writing", "done"}
  PROVE  Tables' /\ TypeOK'
<1>1. Tables' BY DEF IInv, Tables
<1>2. TypeOK' BY DEF IInv, TypeOK
<1>3. QED BY <1>1, <1>2

LEMMA NothingKept ==
  ASSUME IInv
  PROVE  /\ Nothing \in [messages : Nat, events : Nat]
         /\ Nothing.messages = 0 /\ Nothing.events = 0
         /\ Nothing.messages <= Len(messages) /\ Nothing.events <= Len(events)
<1>1. Nothing.messages = 0 /\ Nothing.events = 0 BY DEF Nothing
<1>2. Nothing \in [messages : Nat, events : Nat] BY DEF Nothing
<1>3. Len(messages) \in Nat /\ Len(events) \in Nat BY DEF IInv, Tables
<1>4. QED BY <1>1, <1>2, <1>3

LEMMA AgreeNothing ==
  ASSUME NEW c, NEW m, NEW b, NEW e
  PROVE  Agree(c, m, b, 0) /\ AgreeEvents(c, e, 0)
BY DEF Agree, AgreeEvents

LEMMA IngestUnchangedKeeps ==
  ASSUME IInv, NEW c \in Conversations, Ingest(c), IngestUnchanged(c)
  PROVE  IInv'
<1>1. /\ UNCHANGED <<conv, messages, blocks, events>>
      /\ divergences' = divergences /\ branches' = branches
      /\ target' = c /\ pc' = "stored" /\ keep' = Nothing /\ steps' = << >>
      /\ conv # None /\ conv.hash = Hash(c)
  BY DEF Ingest, IngestUnchanged, Plan, rows
<1>2. Referential' /\ Whole' /\ HashHonest' BY <1>1, RowsStay
<1>3. c # None /\ Hash(c) # None BY Parsed
<1>4. Tables' /\ TypeOK'
  <2>1. divergences \cup branches \subseteq UNION {d.divergences : d \in Conversations}
    BY DEF IInv, TypeOK
  <2>2. target' # None BY <1>1, <1>3
  <2>3. QED BY <1>1, <2>1, <2>2, NothingKept, PlansStart, TypesStay
<1>5. Writing' /\ Maximal' BY <1>1 DEF Writing, Maximal
<1>6. Exactly(c)
  <2>1. conv.hash # None BY <1>1, <1>3, Zenon
  <2>2. PICK d \in Conversations : conv.hash = Hash(d) /\ Exactly(d)
    BY <1>1, <2>1 DEF IInv, HashHonest
  <2>3. /\ c.head = d.head /\ c.rest = d.rest
        /\ c.messages = d.messages /\ c.events = d.events
    BY <1>1, <2>2, Hash(c) = Hash(d), HashParts
  <2>4. MessageRows(c) = MessageRows(d) BY <2>3 DEF MessageRows
  <2>5. BlockRows(c, 0) = BlockRows(d, 0) BY <2>3 DEF BlockRows
  <2>6. QED BY <2>2, <2>3, <2>4, <2>5 DEF Exactly
<1>7. Exactly(c)' BY <1>1, <1>6 DEF Exactly
<1>8. Finished' BY <1>1, <1>3, <1>7 DEF Finished, Exactly
<1>9. QED BY <1>2, <1>4, <1>5, <1>8 DEF IInv

LEMMA IngestUpdateKeeps ==
  ASSUME IInv, NEW c \in Conversations, Ingest(c), IngestUpdate(c)
  PROVE  IInv'
<1>1. /\ UNCHANGED <<conv, messages, blocks, events>>
      /\ divergences' = divergences /\ branches' = branches
      /\ target' = c /\ pc' = "writing" /\ keep' = Kept(c)
      /\ steps' = IF Kept(c).messages < Len(messages) \/ Kept(c).events < Len(events)
                  THEN UpdateSteps ELSE << >>
      /\ conv # None
  BY DEF Ingest, IngestUpdate, Plan, rows
<1>2. Referential' /\ Whole' /\ HashHonest' BY <1>1, RowsStay
<1>3. c # None BY Parsed
<1>4. steps' \in Plans BY <1>1, PlansStart
<1>5. Tables' /\ TypeOK'
  <2>1. divergences \cup branches \subseteq UNION {d.divergences : d \in Conversations}
    BY DEF IInv, TypeOK
  <2>2. target' # None BY <1>1, <1>3
  <2>3. /\ keep' \in [messages : Nat, events : Nat]
        /\ keep'.messages <= Len(messages) /\ keep'.events <= Len(events)
    BY <1>1, KeptRight
  <2>4. QED BY <1>1, <1>4, <2>1, <2>2, <2>3, TypesStay
<1>6. Len(messages) \in Nat /\ Len(events) \in Nat /\ DOMAIN messages = 1..Len(messages)
  BY DEF IInv, Tables
<1>7. Agree(c, messages, blocks, Kept(c).messages) /\ AgreeEvents(c, events, Kept(c).events)
  BY KeptRight
<1>8. Writing'
  <2>1. CASE steps' = UpdateSteps
    <3>1. Ahead(steps') = {"hash", "blocks", "messages", "events"} BY <2>1, PlansStart
    <3>2. QED BY <1>1, <1>3, <1>7, <3>1 DEF Writing
  <2>2. CASE ~(Kept(c).messages < Len(messages) \/ Kept(c).events < Len(events))
    <3>1. steps' = << >> /\ Ahead(steps') = {} BY <1>1, <2>2, PlansStart
    <3>2. Len(messages) = Kept(c).messages /\ Len(events) = Kept(c).events
      <4>1. Kept(c).messages \in Nat /\ Kept(c).events \in Nat BY KeptRight
      <4>2. QED BY <1>6, <2>2, <4>1, KeptRight
    <3>3. \A b \in blocks : b[1] <= Kept(c).messages
      BY <1>6, <3>2 DEF IInv, Referential
    <3>4. QED BY <1>1, <1>3, <1>7, <3>1, <3>2, <3>3 DEF Writing
  <2>3. QED BY <1>1, <2>1, <2>2
<1>9. Maximal' BY <1>1, KeptRight DEF Maximal
<1>10. Finished' BY <1>1 DEF Finished
<1>11. QED BY <1>2, <1>5, <1>8, <1>9, <1>10 DEF IInv

LEMMA IngestReplaceKeeps ==
  ASSUME IInv, NEW c \in Conversations, Ingest(c), IngestReplace(c)
  PROVE  IInv'
<1>1. /\ UNCHANGED <<conv, messages, blocks, events>>
      /\ divergences' = divergences /\ branches' = branches
      /\ target' = c /\ pc' = "writing" /\ keep' = Nothing /\ steps' = DeleteSteps
      /\ conv # None /\ conv.head # c.head
  BY DEF Ingest, IngestReplace, Plan, rows
<1>2. Referential' /\ Whole' /\ HashHonest' BY <1>1, RowsStay
<1>3. c # None BY Parsed
<1>4. Tables' /\ TypeOK'
  <2>1. divergences \cup branches \subseteq UNION {d.divergences : d \in Conversations}
    BY DEF IInv, TypeOK
  <2>2. target' # None BY <1>1, <1>3
  <2>3. QED BY <1>1, <2>1, <2>2, NothingKept, PlansStart, TypesStay
<1>5. Writing'
  <2>1. Ahead(steps') = {"hash", "blocks", "messages", "events", "conversation"}
    BY <1>1, PlansStart
  <2>2. keep'.messages = 0 /\ keep'.events = 0 BY <1>1, NothingKept
  <2>3. Agree(c, messages, blocks, 0) /\ AgreeEvents(c, events, 0) BY AgreeNothing
  <2>4. QED BY <1>1, <1>3, <2>1, <2>2, <2>3 DEF Writing
<1>6. Maximal' BY <1>1 DEF Maximal
<1>7. Finished' BY <1>1 DEF Finished
<1>8. QED BY <1>2, <1>4, <1>5, <1>6, <1>7 DEF IInv

LEMMA IngestNewKeeps ==
  ASSUME IInv, NEW c \in Conversations, Ingest(c), IngestNew
  PROVE  IInv'
<1>1. /\ UNCHANGED <<conv, messages, blocks, events>>
      /\ divergences' = divergences /\ branches' = branches
      /\ target' = c /\ pc' = "writing" /\ keep' = Nothing /\ steps' = << >>
      /\ conv = None
  BY DEF Ingest, IngestNew, Plan, rows
<1>2. Referential' /\ Whole' /\ HashHonest' BY <1>1, RowsStay
<1>3. c # None BY Parsed
<1>4. Tables' /\ TypeOK'
  <2>1. divergences \cup branches \subseteq UNION {d.divergences : d \in Conversations}
    BY DEF IInv, TypeOK
  <2>2. target' # None BY <1>1, <1>3
  <2>3. QED BY <1>1, <2>1, <2>2, NothingKept, PlansStart, TypesStay
<1>5. Writing'
  <2>1. Ahead(steps') = {} BY <1>1, PlansStart
  <2>2. keep'.messages = 0 /\ keep'.events = 0 BY <1>1, NothingKept
  <2>3. Agree(c, messages, blocks, 0) /\ AgreeEvents(c, events, 0) BY AgreeNothing
  <2>4. messages = << >> /\ events = << >> BY <1>1 DEF IInv, Whole
  <2>5. blocks = {} BY <2>4 DEF IInv, Referential
  <2>6. QED BY <1>1, <1>3, <2>1, <2>2, <2>3, <2>4, <2>5 DEF Writing
<1>6. Maximal' BY <1>1 DEF Maximal
<1>7. Finished' BY <1>1 DEF Finished
<1>8. QED BY <1>2, <1>4, <1>5, <1>6, <1>7 DEF IInv

LEMMA RemoveConversationKeeps ==
  ASSUME IInv, RemoveConversation
  PROVE  IInv'
<1>1. /\ UNCHANGED <<conv, messages, blocks, events>>
      /\ divergences' = divergences /\ branches' = branches /\ target' = target
      /\ pc = "idle" /\ keep' = Nothing
      /\ \/ conv = None /\ pc' = "done" /\ steps' = << >>
         \/ conv # None /\ pc' = "writing" /\ steps' = DeleteSteps
  BY DEF RemoveConversation, Plan, rows
<1>2. Referential' /\ Whole' /\ HashHonest' BY <1>1, RowsStay
<1>3. target = None BY <1>1 DEF IInv, Finished
<1>4. Tables' /\ TypeOK'
  <2>1. divergences \cup branches \subseteq UNION {d.divergences : d \in Conversations}
    BY DEF IInv, TypeOK
  <2>2. branches = {} BY <1>3 DEF IInv, TypeOK
  <2>3. QED BY <1>1, <1>3, <2>1, <2>2, NothingKept, PlansStart, TypesStay
<1>5. Writing'
  <2>1. CASE pc' = "done" BY <2>1 DEF Writing
  <2>2. CASE conv # None /\ pc' = "writing" /\ steps' = DeleteSteps
    <3>1. Ahead(steps') = {"hash", "blocks", "messages", "events", "conversation"}
      BY <2>2, PlansStart
    <3>2. QED BY <1>1, <1>3, <2>2, <3>1 DEF Writing
  <2>3. QED BY <1>1, <2>1, <2>2
<1>6. Maximal' BY <1>1, <1>3 DEF Maximal
<1>7. Finished' BY <1>1, <1>3 DEF Finished
<1>8. QED BY <1>2, <1>4, <1>5, <1>6, <1>7 DEF IInv

LEMMA LeaveKeeps ==
  ASSUME IInv, Leave
  PROVE  IInv'
<1>1. /\ UNCHANGED <<conv, messages, blocks, events>>
      /\ divergences' = divergences /\ branches' = {} /\ target' = None
      /\ pc' = "idle" /\ keep' = Nothing /\ steps' = << >>
  BY DEF Leave, Plan, rows
<1>2. Referential' /\ Whole' /\ HashHonest' BY <1>1, RowsStay
<1>3. Tables' /\ TypeOK'
  <2>1. divergences \subseteq UNION {d.divergences : d \in Conversations}
    BY DEF IInv, TypeOK
  <2>2. QED BY <1>1, <2>1, NothingKept, PlansStart, TypesStay
<1>4. Writing' /\ Maximal' /\ Finished' BY <1>1 DEF Writing, Maximal, Finished
<1>5. QED BY <1>2, <1>3, <1>4 DEF IInv

LEMMA ClearDivergencesKeeps ==
  ASSUME IInv, ClearDivergences
  PROVE  IInv'
<1>1. /\ UNCHANGED <<conv, messages, blocks, events>>
      /\ divergences' = {} /\ branches' = target.divergences /\ target' = target
      /\ pc = "stored" /\ pc' = "branching" /\ keep' = keep /\ steps' = steps
  BY DEF ClearDivergences
<1>2. Referential' /\ Whole' /\ HashHonest' BY <1>1, RowsStay
<1>3. target # None /\ Exactly(target) BY <1>1 DEF IInv, Finished
<1>4. Tables' /\ TypeOK'
  <2>1. target \in Conversations BY <1>3 DEF IInv, Tables
  <2>2. target.divergences \subseteq UNION {d.divergences : d \in Conversations}
    BY <2>1
  <2>3. /\ keep \in [messages : Nat, events : Nat] /\ steps \in Plans
        /\ keep.messages <= Len(messages) /\ keep.events <= Len(events)
    BY DEF IInv, Tables, TypeOK
  <2>4. QED BY <1>1, <1>3, <2>1, <2>2, <2>3, TypesStay
<1>5. Writing' /\ Maximal' BY <1>1 DEF Writing, Maximal
<1>6. Finished' BY <1>1, <1>3 DEF Finished, Exactly
<1>7. QED BY <1>2, <1>4, <1>5, <1>6 DEF IInv

LEMMA InsertDivergenceKeeps ==
  ASSUME IInv, InsertDivergence
  PROVE  IInv'
<1>1. /\ UNCHANGED <<conv, messages, blocks, events>>
      /\ target' = target
      /\ pc = "branching" /\ pc' = "branching" /\ keep' = keep /\ steps' = steps
  BY DEF InsertDivergence
<1>2. Referential' /\ Whole' /\ HashHonest' BY <1>1, RowsStay
<1>3. target # None /\ Exactly(target) BY <1>1 DEF IInv, Finished
<1>4. divergences' \cup branches' = divergences \cup branches
  BY DEF InsertDivergence
<1>5. Tables' /\ TypeOK'
  <2>1. divergences \cup branches \subseteq UNION {d.divergences : d \in Conversations}
    BY DEF IInv, TypeOK
  <2>2. /\ keep \in [messages : Nat, events : Nat] /\ steps \in Plans
        /\ keep.messages <= Len(messages) /\ keep.events <= Len(events)
        /\ target \in Conversations \cup {None}
    BY DEF IInv, Tables, TypeOK
  <2>3. (divergences \cup branches)' \subseteq UNION {d.divergences : d \in Conversations}
    BY <1>4, <2>1
  <2>4. QED BY <1>1, <1>3, <2>2, <2>3, TypesStay
<1>6. Writing' /\ Maximal' BY <1>1 DEF Writing, Maximal
<1>7. Finished'
  <2>1. divergences \cup branches = target.divergences BY <1>1 DEF IInv, Finished
  <2>2. QED BY <1>1, <1>3, <1>4, <2>1 DEF Finished, Exactly
<1>8. QED BY <1>2, <1>5, <1>6, <1>7 DEF IInv

LEMMA EndBranchingKeeps ==
  ASSUME IInv, EndBranching
  PROVE  IInv'
<1>1. /\ UNCHANGED <<conv, messages, blocks, events>>
      /\ divergences' = divergences /\ branches' = branches /\ target' = target
      /\ branches = {}
      /\ pc = "branching" /\ pc' = "done" /\ keep' = keep /\ steps' = steps
  BY DEF EndBranching, rows
<1>2. Referential' /\ Whole' /\ HashHonest' BY <1>1, RowsStay
<1>3. target # None /\ Exactly(target) BY <1>1 DEF IInv, Finished
<1>4. Tables' /\ TypeOK'
  <2>1. divergences \cup branches \subseteq UNION {d.divergences : d \in Conversations}
    BY DEF IInv, TypeOK
  <2>2. /\ keep \in [messages : Nat, events : Nat] /\ steps \in Plans
        /\ keep.messages <= Len(messages) /\ keep.events <= Len(events)
        /\ target \in Conversations \cup {None}
    BY DEF IInv, Tables, TypeOK
  <2>3. QED BY <1>1, <1>3, <2>1, <2>2, TypesStay
<1>5. Writing' /\ Maximal' BY <1>1 DEF Writing, Maximal
<1>6. Finished'
  <2>1. divergences = target.divergences BY <1>1 DEF IInv, Finished
  <2>2. QED BY <1>1, <1>3, <2>1 DEF Finished, Exactly
<1>7. QED BY <1>2, <1>4, <1>5, <1>6 DEF IInv

LEMMA RemoveDivergencesKeeps ==
  ASSUME IInv, RemoveDivergences
  PROVE  IInv'
<1>1. /\ UNCHANGED <<conv, messages, blocks, events>>
      /\ divergences' = {} /\ branches' = branches /\ target' = target
      /\ pc = "writing" /\ steps = << >> /\ target = None
      /\ pc' = "done" /\ keep' = keep /\ steps' = steps
  BY DEF RemoveDivergences
<1>2. Referential' /\ Whole' /\ HashHonest' BY <1>1, RowsStay
<1>3. Tables' /\ TypeOK'
  <2>1. /\ keep \in [messages : Nat, events : Nat] /\ steps \in Plans
        /\ keep.messages <= Len(messages) /\ keep.events <= Len(events)
    BY DEF IInv, Tables, TypeOK
  <2>2. branches = {} BY <1>1 DEF IInv, TypeOK
  <2>3. QED BY <1>1, <2>1, <2>2, TypesStay
<1>4. Writing' /\ Maximal' BY <1>1 DEF Writing, Maximal
<1>5. conv = None
  <2>1. Ahead(steps) = {} BY <1>1, PlansStart
  <2>2. QED BY <1>1, <2>1 DEF IInv, Writing
<1>6. Finished' BY <1>1, <1>5 DEF Finished
<1>7. QED BY <1>2, <1>3, <1>4, <1>6 DEF IInv

-----------------------------------------------------------------------------
(* The statements. *)

LEMMA ExecuteStep ==
  ASSUME IInv, NEW step, Execute(step)
  PROVE  /\ pc = "writing" /\ pc' = pc /\ target' = target /\ keep' = keep
         /\ divergences' = divergences /\ branches' = branches
         /\ steps # << >> /\ steps' \in Plans /\ Head(steps) = step
         /\ Advances(steps) /\ steps' = Tail(steps)
         /\ Finished'
<1>1. /\ pc = "writing" /\ pc' = pc /\ target' = target /\ keep' = keep
      /\ divergences' = divergences /\ branches' = branches
      /\ steps # << >> /\ Head(steps) = step /\ steps' = Tail(steps)
  BY DEF Execute
<1>2. Advances(steps) BY <1>1, PlanAdvances DEF IInv, Tables
<1>3. steps' \in Plans BY <1>1, <1>2 DEF Advances
<1>4. Finished' BY <1>1 DEF Finished
<1>5. QED BY <1>1, <1>2, <1>3, <1>4

(* What is not of the rows in TypeOK. *)
LEMMA ExecuteTypes ==
  ASSUME IInv, NEW step, Execute(step),
         messages' \in Seq(Heads), events' \in Seq(Lines),
         conv' # None => \E d \in Conversations : conv' \in {Row(d, Hash(d)), Row(d, None)},
         keep.messages <= Len(messages'), keep.events <= Len(events'),
         \E c \in Conversations : IsPrefix(messages', MessageRows(c)),
         \E c \in Conversations : blocks' \subseteq BlockRows(c, 0),
         \E c \in Conversations : IsPrefix(events', c.events)
  PROVE  Tables' /\ TypeOK'
<1>1. Tables' BY ExecuteStep DEF IInv, Tables
<1>2. conv' = None \/ /\ DOMAIN conv' = {"hash", "head", "rest"}
                      /\ conv'.hash \in {Hash(c) : c \in Conversations} \cup {None}
  <2>1. SUFFICES ASSUME conv' # None
                 PROVE  /\ DOMAIN conv' = {"hash", "head", "rest"}
                        /\ conv'.hash \in {Hash(c) : c \in Conversations} \cup {None}
    OBVIOUS
  <2>2. PICK d \in Conversations : conv' \in {Row(d, Hash(d)), Row(d, None)} BY <2>1
  <2>3. CASE conv' = Row(d, Hash(d)) BY <2>3, RowParts
  <2>4. CASE conv' = Row(d, None) BY <2>4, RowParts
  <2>5. QED BY <2>2, <2>3, <2>4
<1>3. TypeOK' BY <1>2, ExecuteStep DEF IInv, TypeOK
<1>4. QED BY <1>1, <1>3

LEMMA ClearHashKeeps ==
  ASSUME IInv, ClearHash
  PROVE  IInv'
<1>1. /\ Execute("hash") /\ conv' = [conv EXCEPT !.hash = None]
      /\ UNCHANGED <<messages, blocks, events>>
  BY DEF ClearHash
<1>2. /\ pc = "writing" /\ pc' = pc /\ target' = target /\ keep' = keep
      /\ steps # << >> /\ Advances(steps) /\ Head(steps) = "hash" /\ steps' = Tail(steps)
      /\ Finished'
  BY <1>1, ExecuteStep
<1>3. /\ Ahead(steps) = {"hash"} \cup Ahead(steps') /\ "hash" \notin Ahead(steps')
      /\ {"blocks", "messages", "events"} \subseteq Ahead(steps')
  BY <1>2 DEF Advances
<1>4. conv # None BY <1>2, <1>3 DEF IInv, Writing
<1>5. PICK d \in Conversations : conv = Row(d, Hash(d)) \/ conv = Row(d, None)
  BY <1>4 DEF IInv, Tables
<1>6. /\ conv' = Row(d, None) /\ conv' # None
      /\ conv'.hash = None /\ conv'.head = conv.head
  <2>1. conv' = Row(d, None) BY <1>1, <1>5, RowParts
  <2>2. Row(d, None) # None BY Parsed
  <2>3. conv.head = d.head BY <1>5, RowParts
  <2>4. QED BY <2>1, <2>2, <2>3, RowParts
<1>7. Tables' /\ TypeOK'
  <2>1. /\ messages \in Seq(Heads) /\ events \in Seq(Lines)
        /\ keep.messages <= Len(messages) /\ keep.events <= Len(events)
        /\ \E c \in Conversations : IsPrefix(messages, MessageRows(c))
        /\ \E c \in Conversations : blocks \subseteq BlockRows(c, 0)
        /\ \E c \in Conversations : IsPrefix(events, c.events)
    BY DEF IInv, Tables, TypeOK
  <2>2. QED BY <1>1, <1>6, <2>1, ExecuteTypes
<1>8. Referential' /\ Whole' /\ HashHonest'
  BY <1>1, <1>6 DEF IInv, Referential, Whole, HashHonest
<1>9. Writing' BY <1>1, <1>2, <1>3, <1>6 DEF IInv, Writing
<1>10. Maximal' BY <1>1, <1>2, <1>4, <1>6 DEF IInv, Maximal
<1>11. QED BY <1>2, <1>7, <1>8, <1>9, <1>10 DEF IInv

LEMMA DeleteBlocksKeeps ==
  ASSUME IInv, DeleteBlocks
  PROVE  IInv'
<1> DEFINE k == keep.messages
<1>1. /\ Execute("blocks") /\ blocks' = {b \in blocks : b[1] <= k}
      /\ UNCHANGED <<conv, messages, events>>
  BY DEF DeleteBlocks
<1>2. /\ pc = "writing" /\ pc' = pc /\ target' = target /\ keep' = keep
      /\ steps # << >> /\ Advances(steps) /\ Head(steps) = "blocks" /\ steps' = Tail(steps)
      /\ Finished'
  BY <1>1, ExecuteStep
<1>3. /\ Ahead(steps) = {"blocks"} \cup Ahead(steps') /\ "hash" \notin Ahead(steps)
      /\ {"messages", "events"} \subseteq Ahead(steps')
  BY <1>2 DEF Advances
<1>4. k \in Nat BY DEF IInv, Tables
<1>5. Tables' /\ TypeOK'
  <2>1. /\ messages \in Seq(Heads) /\ events \in Seq(Lines)
        /\ keep.messages <= Len(messages) /\ keep.events <= Len(events)
        /\ conv # None => \E d \in Conversations : conv \in {Row(d, Hash(d)), Row(d, None)}
        /\ \E c \in Conversations : IsPrefix(messages, MessageRows(c))
        /\ \E c \in Conversations : IsPrefix(events, c.events)
    BY DEF IInv, Tables, TypeOK
  <2>2. PICK c \in Conversations : blocks \subseteq BlockRows(c, 0) BY DEF IInv, TypeOK
  <2>3. blocks' \subseteq BlockRows(c, 0) BY <1>1, <2>2
  <2>4. QED BY <1>1, <2>1, <2>3, ExecuteTypes
<1>6. Referential' BY <1>1 DEF IInv, Referential
<1>7. Whole' BY <1>1 DEF IInv, Whole
<1>8. conv = None \/ conv.hash = None BY <1>2, <1>3 DEF IInv, Writing
<1>9. HashHonest' BY <1>1, <1>8 DEF HashHonest
<1>10. Writing'
  <2>1. target # None => Agree(target, messages, blocks', k)
    <3>1. SUFFICES ASSUME target # None PROVE Agree(target, messages, blocks', k)
      OBVIOUS
    <3>2. Agree(target, messages, blocks, k) BY <1>2, <3>1 DEF IInv, Writing
    <3>3. \A i \in 1..k : i \in Nat /\ i <= k BY <1>4
    <3>4. \A i \in 1..k : BlocksAt(blocks', i) = BlocksAt(blocks, i)
      BY <1>1, <1>4, <3>3, BlocksKept
    <3>5. \A i \in 1..k : i \in DOMAIN messages BY <3>2 DEF Agree
    <3>6. QED BY <1>4, <3>2, <3>4, <3>5, AgreeKept
  <2>2. QED BY <1>1, <1>2, <1>3, <1>8, <2>1 DEF IInv, Writing
<1>11. Maximal'
  <2>1. SUFFICES ASSUME target # None, conv # None, conv.head = target.head
                 PROVE  /\ \A n \in DOMAIN messages :
                             Agree(target, messages, blocks', n) /\
                             target.messages[n].blocks # << >> => n <= k
                        /\ \A n \in DOMAIN events :
                             AgreeEvents(target, events, n) => n <= keep.events
    BY <1>1, <1>2 DEF Maximal
  <2>2. \A n \in DOMAIN events : AgreeEvents(target, events, n) => n <= keep.events
    BY <1>2, <2>1 DEF IInv, Maximal
  <2>3. ASSUME NEW n \in DOMAIN messages, Agree(target, messages, blocks', n),
               target.messages[n].blocks # << >>, ~(n <= k)
        PROVE  FALSE
    <3>1. n \in Nat /\ n \in 1..n /\ n > k
      <4>1. DOMAIN messages = 1..Len(messages) /\ Len(messages) \in Nat
        BY DEF IInv, Tables
      <4>2. QED BY <1>4, <2>3, <4>1
    <3>2. BlocksAt(blocks', n) = {} BY <1>1, <1>4, <3>1, BlocksGone
    <3>3. /\ BlocksAt(blocks', n) = BlocksAt(BlockRows(target, 0), n)
          /\ n \in DOMAIN target.messages
      BY <2>3, <3>1 DEF Agree
    <3>4. target \in Conversations BY <2>1 DEF IInv, Tables
    <3>5. BlocksAt(BlockRows(target, 0), n) # {} BY <2>3, <3>3, <3>4, BlocksThere
    <3>6. QED BY <3>2, <3>3, <3>5
  <2>4. QED BY <2>2, <2>3
<1>12. QED BY <1>2, <1>5, <1>6, <1>7, <1>9, <1>10, <1>11 DEF IInv

LEMMA DeleteMessagesKeeps ==
  ASSUME IInv, DeleteMessages
  PROVE  IInv'
<1> DEFINE k == keep.messages
<1>1. /\ Execute("messages") /\ messages' = SubSeq(messages, 1, k)
      /\ UNCHANGED <<conv, blocks, events>>
  BY DEF DeleteMessages
<1>2. /\ pc = "writing" /\ pc' = pc /\ target' = target /\ keep' = keep
      /\ steps # << >> /\ Advances(steps) /\ Head(steps) = "messages"
      /\ steps' = Tail(steps) /\ Finished'
  BY <1>1, ExecuteStep
<1>3. /\ Ahead(steps) = {"messages"} \cup Ahead(steps')
      /\ "hash" \notin Ahead(steps) /\ "blocks" \notin Ahead(steps)
      /\ "events" \in Ahead(steps')
  BY <1>2 DEF Advances
<1>4. k \in Nat /\ k <= Len(messages) /\ messages \in Seq(Heads) /\ Len(messages) \in Nat
  BY DEF IInv, Tables, TypeOK
<1>5. /\ messages' \in Seq(Heads) /\ Len(messages') = k /\ DOMAIN messages' = 1..k
      /\ \A i \in 1..k : messages'[i] = messages[i]
  BY <1>1, <1>4
<1>6. Tables' /\ TypeOK'
  <2>1. /\ events \in Seq(Lines) /\ keep.events <= Len(events)
        /\ conv # None => \E d \in Conversations : conv \in {Row(d, Hash(d)), Row(d, None)}
        /\ \E c \in Conversations : blocks \subseteq BlockRows(c, 0)
        /\ \E c \in Conversations : IsPrefix(events, c.events)
    BY DEF IInv, Tables, TypeOK
  <2>2. PICK c \in Conversations : IsPrefix(messages, MessageRows(c))
    BY DEF IInv, TypeOK
  <2>3. IsPrefix(messages', MessageRows(c)) BY <1>1, <1>4, <2>2, PrefixCut
  <2>4. keep.messages <= Len(messages') BY <1>4, <1>5
  <2>5. QED BY <1>1, <1>5, <2>1, <2>3, <2>4, ExecuteTypes
<1>7. \A b \in blocks : b[1] <= k BY <1>2, <1>3 DEF IInv, Writing
<1>8. Referential'
  <2>1. \A b \in blocks : b[1] \in 1..Len(messages)
    BY <1>4 DEF IInv, Referential
  <2>2. \A b \in blocks : b[1] \in DOMAIN messages' BY <1>4, <1>5, <1>7, <2>1
  <2>3. messages' # << >> => messages # << >> BY <1>4, <1>5
  <2>4. QED BY <1>1, <2>2, <2>3 DEF IInv, Referential
<1>9. Whole' BY <1>1 DEF IInv, Whole
<1>10. conv = None \/ conv.hash = None BY <1>2, <1>3 DEF IInv, Writing
<1>11. HashHonest' BY <1>1, <1>10 DEF HashHonest
<1>12. Writing'
  <2>1. target # None => Agree(target, messages', blocks, k)
    <3>1. SUFFICES ASSUME target # None PROVE Agree(target, messages', blocks, k)
      OBVIOUS
    <3>2. Agree(target, messages, blocks, k) BY <1>2, <3>1 DEF IInv, Writing
    <3>3. QED BY <1>4, <1>5, <3>2, AgreeKept
  <2>2. QED BY <1>1, <1>2, <1>3, <1>5, <1>7, <1>10, <2>1 DEF IInv, Writing
<1>13. Maximal'
  <2>1. \A n \in DOMAIN messages' : n <= k BY <1>4, <1>5
  <2>2. QED BY <1>1, <1>2, <2>1 DEF IInv, Maximal
<1>14. QED BY <1>2, <1>6, <1>8, <1>9, <1>11, <1>12, <1>13 DEF IInv

LEMMA DeleteEventsKeeps ==
  ASSUME IInv, DeleteEvents
  PROVE  IInv'
<1> DEFINE k == keep.events
<1>1. /\ Execute("events") /\ events' = SubSeq(events, 1, k)
      /\ UNCHANGED <<conv, messages, blocks>>
  BY DEF DeleteEvents
<1>2. /\ pc = "writing" /\ pc' = pc /\ target' = target /\ keep' = keep
      /\ steps # << >> /\ Advances(steps) /\ Head(steps) = "events"
      /\ steps' = Tail(steps) /\ Finished'
  BY <1>1, ExecuteStep
<1>3. /\ Ahead(steps) = {"events"} \cup Ahead(steps')
      /\ {"hash", "blocks", "messages"} \cap Ahead(steps) = {}
  BY <1>2 DEF Advances
<1>4. k \in Nat /\ k <= Len(events) /\ events \in Seq(Lines) /\ Len(events) \in Nat
  BY DEF IInv, Tables, TypeOK
<1>5. /\ events' \in Seq(Lines) /\ Len(events') = k /\ DOMAIN events' = 1..k
      /\ \A i \in 1..k : events'[i] = events[i]
  BY <1>1, <1>4
<1>6. Tables' /\ TypeOK'
  <2>1. /\ messages \in Seq(Heads) /\ keep.messages <= Len(messages)
        /\ conv # None => \E d \in Conversations : conv \in {Row(d, Hash(d)), Row(d, None)}
        /\ \E c \in Conversations : blocks \subseteq BlockRows(c, 0)
        /\ \E c \in Conversations : IsPrefix(messages, MessageRows(c))
    BY DEF IInv, Tables, TypeOK
  <2>2. PICK c \in Conversations : IsPrefix(events, c.events)
    BY DEF IInv, TypeOK
  <2>3. IsPrefix(events', c.events) BY <1>1, <1>4, <2>2, PrefixCut
  <2>4. keep.events <= Len(events') BY <1>4, <1>5
  <2>5. QED BY <1>1, <1>5, <2>1, <2>3, <2>4, ExecuteTypes
<1>7. Referential' BY <1>1 DEF IInv, Referential
<1>8. Whole'
  <2>1. events = << >> => events' = << >> BY <1>4, <1>5
  <2>2. QED BY <1>1, <2>1 DEF IInv, Whole
<1>9. conv = None \/ conv.hash = None BY <1>2, <1>3 DEF IInv, Writing
<1>10. HashHonest' BY <1>1, <1>9 DEF HashHonest
<1>11. Writing'
  <2>1. target # None => AgreeEvents(target, events', k)
    <3>1. SUFFICES ASSUME target # None PROVE AgreeEvents(target, events', k)
      OBVIOUS
    <3>2. AgreeEvents(target, events, k) BY <1>2, <3>1 DEF IInv, Writing
    <3>3. QED BY <1>5, <3>2 DEF AgreeEvents
  <2>2. QED BY <1>1, <1>2, <1>3, <1>5, <1>9, <2>1 DEF IInv, Writing
<1>12. Maximal'
  <2>1. \A n \in DOMAIN events' : n <= k BY <1>4, <1>5
  <2>2. QED BY <1>1, <1>2, <2>1 DEF IInv, Maximal
<1>13. QED BY <1>2, <1>6, <1>7, <1>8, <1>10, <1>11, <1>12 DEF IInv

LEMMA DeleteConversationKeeps ==
  ASSUME IInv, DeleteConversation
  PROVE  IInv'
<1>1. /\ Execute("conversation") /\ conv' = None
      /\ UNCHANGED <<messages, blocks, events>>
  BY DEF DeleteConversation
<1>2. /\ pc = "writing" /\ pc' = pc /\ target' = target /\ keep' = keep
      /\ steps # << >> /\ Advances(steps) /\ Head(steps) = "conversation"
      /\ steps' = Tail(steps) /\ Finished'
  BY <1>1, ExecuteStep
<1>3. Ahead(steps) = {"conversation"} /\ Ahead(steps') = {}
  BY <1>2 DEF Advances
<1>4. messages = << >> /\ events = << >>
  <2>1. /\ Len(messages) = keep.messages /\ Len(events) = keep.events /\ keep = Nothing
    BY <1>2, <1>3 DEF IInv, Writing
  <2>2. Len(messages) = 0 /\ Len(events) = 0 BY <2>1, NothingKept
  <2>3. messages \in Seq(Heads) /\ events \in Seq(Lines) BY DEF IInv, Tables
  <2>4. QED BY <2>2, <2>3
<1>5. Tables' /\ TypeOK'
  <2>1. /\ messages \in Seq(Heads) /\ events \in Seq(Lines)
        /\ keep.messages <= Len(messages) /\ keep.events <= Len(events)
        /\ \E c \in Conversations : IsPrefix(messages, MessageRows(c))
        /\ \E c \in Conversations : blocks \subseteq BlockRows(c, 0)
        /\ \E c \in Conversations : IsPrefix(events, c.events)
    BY DEF IInv, Tables, TypeOK
  <2>2. QED BY <1>1, <2>1, ExecuteTypes
<1>6. Referential' BY <1>1, <1>4 DEF IInv, Referential
<1>7. Whole' BY <1>1, <1>4 DEF Whole
<1>8. HashHonest' BY <1>1 DEF HashHonest
<1>9. Writing' BY <1>1, <1>2, <1>3 DEF IInv, Writing
<1>10. Maximal' BY <1>1 DEF Maximal
<1>11. QED BY <1>2, <1>5, <1>6, <1>7, <1>8, <1>9, <1>10 DEF IInv

(* What Commit leaves: the rows of its conversation.                       *)
LEMMA Committed ==
  ASSUME IInv, Commit
  PROVE  /\ target \in Conversations /\ target # None
         /\ messages' = MessageRows(target) /\ blocks' = BlockRows(target, 0)
         /\ events' = target.events /\ conv' = Row(target, Hash(target))
         /\ keep.messages = Len(messages) /\ keep.events = Len(events)
         /\ keep.messages <= Len(target.messages) /\ keep.events <= Len(target.events)
<1>1. /\ pc = "writing" /\ steps = << >> /\ target # None
      /\ messages' = messages \o
           SubSeq(MessageRows(target), keep.messages + 1, Len(target.messages))
      /\ blocks' = blocks \cup BlockRows(target, keep.messages)
      /\ events' = events \o SubSeq(target.events, keep.events + 1, Len(target.events))
      /\ conv' = Row(target, Hash(target))
  BY DEF Commit
<1>2. Ahead(steps) = {} BY <1>1, PlansStart
<1>3. /\ Len(messages) = keep.messages /\ Len(events) = keep.events
      /\ Agree(target, messages, blocks, Len(messages))
      /\ AgreeEvents(target, events, Len(events))
  BY <1>1, <1>2 DEF IInv, Writing
<1>4. /\ target \in Conversations /\ messages \in Seq(Heads) /\ events \in Seq(Lines)
      /\ Len(messages) \in Nat /\ DOMAIN messages = 1..Len(messages)
  BY <1>1 DEF IInv, Tables
<1>5. /\ Len(messages) <= Len(target.messages)
      /\ messages \o SubSeq(MessageRows(target), Len(messages) + 1, Len(target.messages))
           = MessageRows(target)
  BY <1>3, <1>4, MessagesWhole
<1>6. /\ Len(events) <= Len(target.events)
      /\ events \o SubSeq(target.events, Len(events) + 1, Len(target.events))
           = target.events
  BY <1>3, <1>4, EventsWhole
<1>7. blocks \cup BlockRows(target, Len(messages)) = BlockRows(target, 0)
  <2>1. \A x \in blocks : x[1] \in 1..Len(messages) BY <1>4 DEF IInv, Referential
  <2>2. QED BY <1>3, <1>4, <2>1, BlocksWhole
<1>8. messages' = MessageRows(target) BY <1>1, <1>3, <1>5
<1>9. events' = target.events BY <1>1, <1>3, <1>6
<1>10. blocks' = BlockRows(target, 0) BY <1>1, <1>3, <1>7
<1>11. QED BY <1>1, <1>3, <1>4, <1>5, <1>6, <1>8, <1>9, <1>10

LEMMA CommitKeeps ==
  ASSUME IInv, Commit
  PROVE  IInv'
<1>1. /\ target \in Conversations /\ target # None
      /\ messages' = MessageRows(target) /\ blocks' = BlockRows(target, 0)
      /\ events' = target.events /\ conv' = Row(target, Hash(target))
      /\ keep.messages <= Len(target.messages) /\ keep.events <= Len(target.events)
  BY Committed
<1>2. /\ pc' = "stored"
      /\ divergences' = divergences /\ branches' = branches /\ target' = target
      /\ keep' = keep /\ steps' = steps
  BY DEF Commit
<1>3. /\ Len(target.messages) \in Nat /\ Len(target.events) \in Nat
      /\ MessageRows(target) \in Seq(Heads) /\ target.events \in Seq(Lines)
      /\ Len(MessageRows(target)) = Len(target.messages)
      /\ conv' # None
  BY <1>1, Parsed
<1>4. /\ conv'.hash = Hash(target) /\ conv'.head = target.head /\ conv'.rest = target.rest
      /\ DOMAIN conv' = {"hash", "head", "rest"}
  BY <1>1, RowParts
<1>5. Exactly(target)' BY <1>1, <1>2, <1>3, <1>4 DEF Exactly
<1>6. Tables' BY <1>1, <1>2, <1>3 DEF IInv, Tables
<1>7. TypeOK'
  <2>1. IsPrefix(MessageRows(target), MessageRows(target)) /\ IsPrefix(target.events, target.events)
    BY <1>3 DEF IsPrefix
  <2>2. keep'.messages <= Len(messages') /\ keep'.events <= Len(events')
    BY <1>1, <1>2, <1>3
  <2>3. QED BY <1>1, <1>2, <1>4, <2>1, <2>2 DEF IInv, TypeOK
<1>8. Referential'
  <2>1. DOMAIN messages' = 1..Len(target.messages) BY <1>1, <1>3
  <2>2. \A b \in blocks' : b[1] \in DOMAIN messages' BY <1>1, <2>1, BlocksFirst
  <2>3. QED BY <1>3, <2>2 DEF Referential
<1>9. Whole' BY <1>3 DEF Whole
<1>10. HashHonest'
  <2>1. target' = target /\ Exactly(target)' BY <1>2, <1>5
  <2>2. conv'.hash = Hash(target) BY <1>4
  <2>3. QED BY <1>1, <1>3, <1>4, <1>2, <1>5 DEF HashHonest, Exactly
<1>11. Writing' /\ Maximal' BY <1>2 DEF Writing, Maximal
<1>12. Finished' BY <1>1, <1>2, <1>5 DEF Finished, Exactly
<1>13. QED BY <1>6, <1>7, <1>8, <1>9, <1>10, <1>11, <1>12 DEF IInv

-----------------------------------------------------------------------------
(* The theorems. *)

LEMMA NextKeeps ==
  ASSUME IInv, [Next]_vars
  PROVE  IInv'
<1>1. ASSUME NEW c \in Conversations, Ingest(c) PROVE IInv'
  <2>1. IngestUnchanged(c) \/ IngestUpdate(c) \/ IngestReplace(c) \/ IngestNew
    BY <1>1 DEF Ingest
  <2>2. QED
    BY <1>1, <2>1, IngestUnchangedKeeps, IngestUpdateKeeps, IngestReplaceKeeps,
       IngestNewKeeps
<1>2. CASE RemoveConversation BY <1>2, RemoveConversationKeeps
<1>3. CASE ClearHash BY <1>3, ClearHashKeeps
<1>4. CASE DeleteBlocks BY <1>4, DeleteBlocksKeeps
<1>5. CASE DeleteMessages BY <1>5, DeleteMessagesKeeps
<1>6. CASE DeleteEvents BY <1>6, DeleteEventsKeeps
<1>7. CASE DeleteConversation BY <1>7, DeleteConversationKeeps
<1>8. CASE Commit BY <1>8, CommitKeeps
<1>9. CASE ClearDivergences BY <1>9, ClearDivergencesKeeps
<1>10. CASE InsertDivergence BY <1>10, InsertDivergenceKeeps
<1>11. CASE EndBranching BY <1>11, EndBranchingKeeps
<1>12. CASE RemoveDivergences BY <1>12, RemoveDivergencesKeeps
<1>13. CASE Leave BY <1>13, LeaveKeeps
<1>14. CASE UNCHANGED vars
  BY <1>14 DEF vars, IInv, Tables, TypeOK, Referential, Whole, HashHonest, Exactly,
     Writing, Maximal, Finished
<1>15. QED
  BY <1>1, <1>2, <1>3, <1>4, <1>5, <1>6, <1>7, <1>8, <1>9, <1>10, <1>11, <1>12,
     <1>13, <1>14 DEF Next

(* What the theorems rest on: the statements of an update come in an order *)
(* in which every prefix is safe.                                          *)
THEOREM Inductive == Spec => []IInv
<1>1. Init => IInv BY Initially
<1>2. IInv /\ [Next]_vars => IInv' BY NextKeeps
<1>3. QED BY <1>1, <1>2, PTL DEF Spec

(* The rows hold what some conversation has, or the beginning of it.       *)
THEOREM TypeCorrect == Spec => []TypeOK
<1>1. IInv => TypeOK BY DEF IInv
<1>2. QED BY <1>1, Inductive, PTL

(* A stored hash tells the truth, wherever Ingest was interrupted: the     *)
(* next one may skip a conversation whose hash is unchanged.               *)
THEOREM HashesHonest == Spec => []HashHonest
<1>1. IInv => HashHonest BY DEF IInv
<1>2. QED BY <1>1, Inductive, PTL

(* Every statement of deleteConversation and updateConversation, a         *)
(* transaction of its own, can be committed: it leaves no row without the  *)
(* row it refers to.                                                       *)
THEOREM RowsReferential == Spec => []Referential
<1>1. IInv => Referential BY DEF IInv
<1>2. QED BY <1>1, Inductive, PTL

(* When Project returns without an error the rows are those of the         *)
(* conversation it was given, or none, whatever was left before.           *)
THEOREM ProjectsExactly == Spec => []Projected
<1>1. ASSUME IInv PROVE Projected
  <2>1. SUFFICES ASSUME pc = "done"
                 PROVE IF target # None
                       THEN Exactly(target) /\ divergences = target.divergences
                       ELSE conv = None /\ messages = << >> /\ blocks = {} /\ events = << >>
    BY DEF Projected
  <2>2. CASE target # None BY <1>1, <2>1, <2>2 DEF IInv, Finished
  <2>3. CASE target = None
    <3>1. conv = None BY <1>1, <2>1, <2>3 DEF IInv, Finished
    <3>2. messages = << >> /\ events = << >> BY <1>1, <3>1 DEF IInv, Whole
    <3>3. blocks = {} BY <1>1, <3>2 DEF IInv, Referential
    <3>4. QED BY <2>3, <3>1, <3>2, <3>3
  <2>4. QED BY <2>2, <2>3
<1>2. QED BY <1>1, Inductive, PTL

(* What KeepsLeading says of one step. *)
LeavesLeading ==
  pc = "writing" /\ target # None /\ conv # None /\ conv.head = target.head =>
    /\ \A n \in DOMAIN messages :
         SameMessages(target, n) /\ target.messages[n].blocks # << >> =>
           /\ n \in DOMAIN messages' /\ messages'[n] = messages[n]
           /\ BlocksAt(blocks', n) = BlocksAt(blocks, n)
    /\ \A n \in DOMAIN events : SameEvents(target, n) =>
         n \in DOMAIN events' /\ events'[n] = events[n]

LEMMA LeavesLeadingStep ==
  ASSUME IInv, [Next]_vars
  PROVE  LeavesLeading
<1> SUFFICES ASSUME pc = "writing", target # None, conv # None, conv.head = target.head
             PROVE  /\ \A n \in DOMAIN messages :
                         SameMessages(target, n) /\ target.messages[n].blocks # << >> =>
                           /\ n \in DOMAIN messages' /\ messages'[n] = messages[n]
                           /\ BlocksAt(blocks', n) = BlocksAt(blocks, n)
                    /\ \A n \in DOMAIN events : SameEvents(target, n) =>
                         n \in DOMAIN events' /\ events'[n] = events[n]
  BY DEF LeavesLeading
<1>1. /\ keep.messages \in Nat /\ keep.messages <= Len(messages)
      /\ keep.events \in Nat /\ keep.events <= Len(events)
      /\ messages \in Seq(Heads) /\ events \in Seq(Lines)
      /\ Len(messages) \in Nat /\ DOMAIN messages = 1..Len(messages)
      /\ Len(events) \in Nat /\ DOMAIN events = 1..Len(events)
  BY DEF IInv, Tables, TypeOK
<1>2. \A n \in DOMAIN messages :
        SameMessages(target, n) /\ target.messages[n].blocks # << >> => n <= keep.messages
  <2>1. \A n : SameMessages(target, n) <=> Agree(target, messages, blocks, n)
    BY DEF SameMessages, SameMessage, Agree
  <2>2. QED BY <2>1 DEF IInv, Maximal
<1>3. \A n \in DOMAIN events : SameEvents(target, n) => n <= keep.events
  <2>1. \A n : SameEvents(target, n) <=> AgreeEvents(target, events, n)
    BY DEF SameEvents, SameEvent, AgreeEvents
  <2>2. QED BY <2>1 DEF IInv, Maximal
<1>4. SUFFICES
        /\ \A n \in 1..keep.messages :
             /\ n \in DOMAIN messages' /\ messages'[n] = messages[n]
             /\ BlocksAt(blocks', n) = BlocksAt(blocks, n)
        /\ \A n \in 1..keep.events : n \in DOMAIN events' /\ events'[n] = events[n]
  BY <1>1, <1>2, <1>3
<1>5. CASE UNCHANGED <<messages, blocks, events>> BY <1>1, <1>5
<1>6. CASE DeleteBlocks
  <2>1. /\ blocks' = {b \in blocks : b[1] <= keep.messages}
        /\ UNCHANGED <<messages, events>>
    BY <1>6 DEF DeleteBlocks
  <2>2. \A n \in 1..keep.messages : n \in Nat /\ n <= keep.messages BY <1>1
  <2>3. \A n \in 1..keep.messages : BlocksAt(blocks', n) = BlocksAt(blocks, n)
    BY <1>1, <2>1, <2>2, BlocksKept
  <2>4. QED BY <1>1, <2>1, <2>3
<1>7. CASE DeleteMessages
  <2>1. messages' = SubSeq(messages, 1, keep.messages) /\ UNCHANGED <<blocks, events>>
    BY <1>7 DEF DeleteMessages
  <2>2. QED BY <1>1, <2>1
<1>8. CASE DeleteEvents
  <2>1. events' = SubSeq(events, 1, keep.events) /\ UNCHANGED <<blocks, messages>>
    BY <1>8 DEF DeleteEvents
  <2>2. QED BY <1>1, <2>1
<1>9. CASE Commit
  <2>1. /\ target \in Conversations
        /\ messages' = MessageRows(target) /\ blocks' = BlockRows(target, 0)
        /\ events' = target.events
        /\ keep.messages <= Len(target.messages) /\ keep.events <= Len(target.events)
    BY <1>9, Committed
  <2>2. /\ Agree(target, messages, blocks, keep.messages)
        /\ AgreeEvents(target, events, keep.events)
    BY DEF IInv, Writing
  <2>3. /\ DOMAIN MessageRows(target) = DOMAIN target.messages
        /\ \A i \in DOMAIN target.messages : MessageRows(target)[i] = target.messages[i].head
    BY DEF MessageRows
  <2>4. \A n \in 1..keep.messages :
          /\ n \in DOMAIN messages' /\ messages'[n] = messages[n]
          /\ BlocksAt(blocks', n) = BlocksAt(blocks, n)
    BY <2>1, <2>2, <2>3 DEF Agree
  <2>5. \A n \in 1..keep.events : n \in DOMAIN events' /\ events'[n] = events[n]
    BY <2>1, <2>2 DEF AgreeEvents
  <2>6. QED BY <2>4, <2>5
<1>10. QED
  BY <1>5, <1>6, <1>7, <1>8, <1>9
  DEF Next, vars, Ingest, RemoveConversation, ClearHash, DeleteConversation,
      ClearDivergences, InsertDivergence, EndBranching, RemoveDivergences, Leave, rows

(* An update in place neither deletes nor rewrites the leading messages    *)
(* and events that are stored as they should be.                           *)
THEOREM LeadingKept == Spec => KeepsLeading
<1>1. IInv /\ [Next]_vars => [LeavesLeading]_vars BY LeavesLeadingStep
<1>2. Spec => [][LeavesLeading]_vars BY <1>1, Inductive, PTL DEF Spec
<1>3. QED BY <1>2 DEF KeepsLeading, LeavesLeading

=============================================================================
