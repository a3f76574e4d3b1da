------------------------------ MODULE ModelWire ------------------------------
(* What is sent to a model provider: a conversation is checked for complete    *)
(* groups of tool calls and results (model_selection.go) and put into the form *)
(* of the Messages protocol (provider_anthropic.go) or of Responses            *)
(* (responses.go); and the vectors that come back from an embedding request    *)
(* (openai.go Embed). The conversation is grown message by message, so that    *)
(* every one up to the bound is checked.                                       *)
EXTENDS Naturals, Sequences, FiniteSets, FiniteSetsExt, SequencesExt, Folds

CONSTANTS
  MaxMessages,   \* the longest conversation
  Inputs         \* the number of inputs of an embedding request

VARIABLES
  messages,      \* of the request
  data           \* of the embedding answer

vars == <<messages, data>>

\* A message; "items" says that it is kept as the provider's own output items, which hold
\* the same calls and perhaps reasoning besides.
Message(role, text, calls, items) ==
  [role |-> role, text |-> text, calls |-> calls, items |-> items, ref |-> ""]

Result(id) == [Message("tool", TRUE, <<>>, FALSE) EXCEPT !.ref = id]

Messages ==
  {Message("system", TRUE, <<>>, FALSE), Message("user", TRUE, <<>>, FALSE),
   Message("assistant", TRUE, <<>>, FALSE), Message("assistant", FALSE, <<>>, TRUE),
   Message("assistant", TRUE, <<"a">>, TRUE), Message("assistant", FALSE, <<"b">>, FALSE),
   Message("assistant", FALSE, <<"a", "b">>, FALSE), Message("assistant", FALSE, <<"a", "a">>, TRUE),
   Result("a"), Result("b")}

\* One vector of the answer: its index and its dimension.
Vectors == [index : 0 .. Inputs, dimension : 0 .. 2]

Init == messages = <<>> /\ data = <<>>

Say ==
  /\ Len(messages) < MaxMessages /\ data = <<>>
  /\ \E m \in Messages : messages' = Append(messages, m)
  /\ UNCHANGED data

Embedded ==
  /\ messages = <<>> /\ Len(data) < Inputs + 1
  /\ \E v \in Vectors : data' = Append(data, v)
  /\ UNCHANGED messages

Next == Say \/ Embedded

Spec == Init /\ [][Next]_vars

-----------------------------------------------------------------------------
(* completeMessageGroups *)

Groups == [ok |-> TRUE, pending |-> {}]

\* The calls awaited after message m, when g are awaited before it.
Grouped(m, g) ==
  CASE ~g.ok -> g
    [] m.role = "tool" ->
         [ok |-> m.ref \in g.pending, pending |-> g.pending \ {m.ref}]
    [] OTHER ->
         [ok |-> g.pending = {} /\ IsInjective(m.calls), pending |-> ToSet(m.calls)]

CompleteGroups(ms) ==
  LET g == FoldLeft(LAMBDA acc, m : Grouped(m, acc), Groups, ms) IN g.ok /\ g.pending = {}

-----------------------------------------------------------------------------
(* anthropicRequestFrom *)

Block(type, id) == [type |-> type, id |-> id]
Turn(role, blocks) == [role |-> role, blocks |-> blocks]

\* The blocks of a message: its text when there is one, then its calls.
Blocks(m) ==
  CASE m.role = "tool" -> <<Block("tool_result", m.ref)>>
    [] OTHER -> (IF m.text THEN <<Block("text", "")>> ELSE <<>>)
                  \o [i \in DOMAIN m.calls |-> Block("tool_use", m.calls[i])]

\* Mutant: every message is a turn of its own.
JoinedNever(turns, role, blocks) ==
  IF blocks = <<>> THEN turns ELSE Append(turns, Turn(role, blocks))

\* appendMessage: no empty message, and messages of one role become one.
Joined(turns, role, blocks) ==
  CASE blocks = <<>> -> turns
    [] turns # <<>> /\ Last(turns).role = role ->
         [turns EXCEPT ![Len(turns)].blocks = @ \o blocks]
    [] OTHER -> Append(turns, Turn(role, blocks))

\* System messages become the system prompt; results are the user's.
AnthropicMessages(ms) ==
  FoldLeft(LAMBDA turns, m :
             CASE m.role = "system" -> turns
               [] m.role = "tool" -> Joined(turns, "user", Blocks(m))
               [] OTHER -> Joined(turns, m.role, Blocks(m)),
           <<>>, ms)

-----------------------------------------------------------------------------
(* responsesInputFromMessages *)

\* A kept message is replayed item by item; otherwise a message and its calls follow.
InputItems(m) ==
  LET calls == [i \in DOMAIN m.calls |-> Block("function_call", m.calls[i])]
  IN CASE m.items -> <<Block("reasoning", "")>> \o calls
       [] m.role = "tool" -> <<Block("function_call_output", m.ref)>>
       [] OTHER -> <<Block("message", "")>> \o calls

\* The first message, when it is the system's, becomes the instructions.
ResponsesInput(ms) ==
  LET rest == IF ms # <<>> /\ Head(ms).role = "system" THEN Tail(ms) ELSE ms
  IN FoldLeft(LAMBDA items, m : items \o InputItems(m), <<>>, rest)

-----------------------------------------------------------------------------
(* Embed *)

NoVectors == [ok |-> TRUE, dimension |-> 0, at |-> [i \in 0 .. Inputs - 1 |-> 0]]

\* The vector at position n of the answer goes to the place its index names.
Placed(r, v, n) ==
  CASE ~r.ok -> r
    [] \/ v.index >= Inputs \/ v.dimension = 0
       \/ r.dimension # 0 /\ r.dimension # v.dimension
       \/ r.at[v.index] # 0 -> [r EXCEPT !.ok = FALSE]
    [] OTHER -> [ok |-> TRUE, dimension |-> v.dimension, at |-> [r.at EXCEPT ![v.index] = n]]

\* The answer, checked against the number of inputs first and for gaps last.
Embed(d) ==
  LET placed[n \in 0 .. Len(d)] == IF n = 0 THEN NoVectors ELSE Placed(placed[n - 1], d[n], n)
      r == placed[Len(d)]
  IN [r EXCEPT !.ok = @ /\ Len(d) = Inputs /\ \A i \in 0 .. Inputs - 1 : r.at[i] # 0]

-----------------------------------------------------------------------------
(* Properties *)

TypeOK ==
  /\ \A i \in DOMAIN messages : messages[i] \in Messages
  /\ \A i \in DOMAIN data : data[i] \in Vectors

\* Only results lie between positions i and j.
OnlyResults(i, j) == \A k \in i + 1 .. j - 1 : messages[k].role = "tool"

\* The results that answer a call c of message i.
AnswersTo(i, c) ==
  {j \in i + 1 .. Len(messages) :
     messages[j].role = "tool" /\ messages[j].ref = c /\ OnlyResults(i, j)}

\* A request leaves only when every call is answered exactly once, directly after the
\* message that made it, and every result answers a call
\* (model_selection.go completeMessageGroups).
GroupsExact ==
  CompleteGroups(messages) <=>
    /\ \A i \in DOMAIN messages : \A p \in DOMAIN messages[i].calls :
         Cardinality(AnswersTo(i, messages[i].calls[p])) = 1
    /\ \A i \in DOMAIN messages : IsInjective(messages[i].calls)
    /\ \A j \in DOMAIN messages : messages[j].role = "tool" =>
         \E i \in 1 .. j - 1 : messages[j].ref \in ToSet(messages[i].calls) /\ OnlyResults(i, j)

Uses(turn) == SelectSeq(turn.blocks, LAMBDA b : b.type = "tool_use")
Results(turn) == SelectSeq(turn.blocks, LAMBDA b : b.type = "tool_result")

\* In the form of the Messages protocol the roles alternate, and the calls of a turn are
\* answered, all of them and nothing else, at the start of the next one
\* (provider_anthropic.go anthropicRequestFrom).
TurnsAnswered ==
  LET turns == AnthropicMessages(messages)
  IN CompleteGroups(messages) =>
       /\ \A i \in 1 .. Len(turns) - 1 : turns[i].role # turns[i + 1].role
       /\ \A i \in DOMAIN turns : Uses(turns[i]) # <<>> =>
            /\ i < Len(turns)
            /\ {b.id : b \in ToSet(Uses(turns[i]))} = {b.id : b \in ToSet(Results(turns[i + 1]))}
            /\ IsPrefix(Results(turns[i + 1]), turns[i + 1].blocks)
       /\ \A i \in DOMAIN turns : Results(turns[i]) # <<>> => i > 1 /\ Uses(turns[i - 1]) # <<>>

\* In the form of Responses an output is preceded by its call, with nothing but calls and
\* outputs in between, whether the message is rebuilt or replayed
\* (responses.go responsesInputFromMessages).
OutputsFollowCalls ==
  LET items == ResponsesInput(messages)
  IN CompleteGroups(messages) =>
       \A j \in DOMAIN items : items[j].type = "function_call_output" =>
         \E i \in 1 .. j - 1 :
           /\ items[i] = Block("function_call", items[j].id)
           /\ \A k \in i .. j : items[k].type \in {"function_call", "function_call_output"}

\* The vectors of an answer are taken exactly when there is one for every input, all of one
\* dimension, and the vector of an input is the one that names it, in whatever order they
\* come (openai.go Embed).
VectorsExact ==
  LET whole ==
        /\ Len(data) = Inputs
        /\ {data[n].index : n \in DOMAIN data} = 0 .. Inputs - 1
        /\ \A n, k \in DOMAIN data : data[n].dimension = data[k].dimension /\ data[n].dimension > 0
  IN /\ Embed(data).ok <=> whole
     /\ whole => \A n \in DOMAIN data : Embed(data).at[data[n].index] = n

(* The request on the wire says what the messages say, in every protocol.     *)
WireExact == TypeOK /\ GroupsExact /\ TurnsAnswered /\ OutputsFollowCalls /\ VectorsExact
=============================================================================
