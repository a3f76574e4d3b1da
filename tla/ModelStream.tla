----------------------------- MODULE ModelStream -----------------------------
(* One answer of a model provider, read by the client of its protocol: Chat     *)
(* Completions (openai.go), Messages (provider_anthropic.go) or Responses       *)
(* (responses.go). The provider sends any events in any order, the transport    *)
(* may end or break after each of them, and the client decides whether it has   *)
(* an answer whose tool calls may be dispatched, a definite failure, or an      *)
(* outcome nobody knows.                                                        *)
(*                                                                              *)
(* The arguments of a tool call are the positions, in the stream, of the        *)
(* fragments they were put together from. An event that does not decode, is too *)
(* large, names another choice or changes the response's identity is "junk". An *)
(* event cut by the end of the stream is dropped by the chat reader, which is   *)
(* EndOfStream; the other two handle it as an event, which is Receive followed  *)
(* by EndOfStream.                                                              *)
EXTENDS Naturals, Sequences, FiniteSets, FiniteSetsExt, SequencesExt

CONSTANTS
  Slots,        \* 0 .. n: the indices of tool calls and of content blocks
  Ids,          \* the identifiers of tool calls
  MaxEvents     \* the longest stream of each protocol

VARIABLES
  protocol,     \* "chat", "messages" or "responses"
  sent,         \* the events read so far
  read,         \* what the reader has put together
  outcome       \* of Generate and of the checks dispatchModel makes on it

vars == <<protocol, sent, read, outcome>>

Protocols == {"chat", "messages", "responses"}
Finishes == {"stop", "tool_calls", "length", "content_filter", "refusal", "unsupported"}
Usages == {"none", "good", "bad"}

\* What the model's configuration asks of an answer (ModelCapabilities).
Capabilities == [usageRequired : BOOLEAN, parallel : BOOLEAN]

NoCapabilities == [usageRequired |-> FALSE, parallel |-> TRUE]

Outcome(kind, certain, category, calls) ==
  [kind |-> kind, certain |-> certain, category |-> category, calls |-> calls,
   caps |-> NoCapabilities, end |-> ""]

Prepared == Outcome("prepared", FALSE, "", <<>>)
Reading == Outcome("reading", FALSE, "", <<>>)
Unsent(category) == Outcome("unsent", TRUE, category, <<>>)
Unknown(category) == Outcome("failed", FALSE, category, <<>>)
Definite(category) == Outcome("failed", TRUE, category, <<>>)
Accepted(calls) == Outcome("accepted", FALSE, "", calls)

\* A call is what its fragments add up to: an identifier and the arguments.
Call(id, body) == [id |-> id, body |-> body]

IdsOf(calls) == {calls[i].id : i \in DOMAIN calls}

\* validateResponse: no two calls of a response have the same identifier.
Distinct(calls) == Cardinality(IdsOf(calls)) = Len(calls)

-----------------------------------------------------------------------------
(* Chat Completions *)

ChatEvents ==
  [k : {"fragment"}, slot : Slots, id : Ids \cup {""}] \cup [k : {"finish"}, reason : Finishes]
    \cup [k : {"usage"}, usage : {"good", "bad"}]
    \cup [k : {"text", "refusal", "error", "junk", "done"}]

ChatStart == [calls |-> [s \in {} |-> Call(<<>>, <<>>)], finish |-> "", usage |-> "none",
              refusal |-> FALSE, done |-> FALSE]

\* processEvent's errors.
ChatFault(r, e) ==
  CASE e.k = "junk" -> Unknown("protocol")
    [] e.k = "error" -> Definite("provider")
    [] e.k = "usage" /\ r.usage # "none" -> Unknown("protocol")
    [] e.k \in {"text", "refusal", "fragment", "finish"} /\ r.finish # "" -> Unknown("protocol")
    [] OTHER -> Reading

\* The call of the slot, lengthened by the fragment at position n.
Lengthened(calls, e, n) ==
  LET call == IF e.slot \in DOMAIN calls THEN calls[e.slot] ELSE Call(<<>>, <<>>)
      id == IF e.id = "" THEN call.id ELSE Append(call.id, e.id)
  IN [s \in DOMAIN calls \cup {e.slot} |->
        IF s = e.slot THEN Call(id, Append(call.body, n)) ELSE calls[s]]

ChatRead(r, e, n) ==
  CASE e.k = "fragment" -> [r EXCEPT !.calls = Lengthened(@, e, n)]
    [] e.k = "finish" -> [r EXCEPT !.finish = e.reason]
    [] e.k = "usage" -> [r EXCEPT !.usage = e.usage]
    [] e.k = "refusal" -> [r EXCEPT !.refusal = TRUE]
    [] e.k = "done" -> [r EXCEPT !.done = TRUE]
    [] OTHER -> r

\* normalizeModelOutput and then the usage of finalizeModelOutput, on a whole message.
ChatFinal(calls, r) ==
  CASE r.refusal -> Definite("refusal")
    [] r.finish = "length" -> Definite("output_limit")
    [] r.finish = "content_filter" -> Definite("content_filter")
    [] r.finish \notin {"stop", "tool_calls"} -> Unknown("protocol")
    [] <<>> \in IdsOf(calls) \/ (r.finish = "tool_calls") # (calls # <<>>) \/ ~Distinct(calls)
         -> Unknown("")
    [] r.usage = "bad" -> Unknown("protocol")
    [] OTHER -> Accepted(calls)

\* Mutant: the end of the connection is taken for the end of the answer.
ChatEndUndone(r) ==
  LET n == Cardinality(DOMAIN r.calls)
  IN CASE r.finish = "" -> Unknown("transport")
       [] DOMAIN r.calls # 0 .. n - 1 -> Unknown("protocol")
       [] OTHER -> ChatFinal([i \in 1 .. n |-> r.calls[i - 1]], r)

\* What decodeModelStream makes of the stream when its reading is over.
ChatEnd(r) ==
  LET n == Cardinality(DOMAIN r.calls)
  IN CASE ~r.done \/ r.finish = "" -> Unknown("transport")
       [] DOMAIN r.calls # 0 .. n - 1 -> Unknown("protocol")
       [] OTHER -> ChatFinal([i \in 1 .. n |-> r.calls[i - 1]], r)

-----------------------------------------------------------------------------
(* Messages; a ping changes nothing and is left out, and the usage comes with the reason. *)

MessagesEvents ==
  [k : {"message_start", "message_stop", "error", "junk"}]
    \cup [k : {"block_start"}, slot : Slots, type : {"tool_use"}, id : Ids]
    \cup [k : {"block_start"}, slot : Slots, type : {"text", "other"}, id : {""}]
    \cup [k : {"block_delta"}, slot : Slots, type : {"text", "tool_use"}]
    \cup [k : {"block_stop"}, slot : Slots]
    \cup [k : {"message_delta"}, reason : Finishes \ {"content_filter"}, usage : Usages]

MessagesStart == [started |-> FALSE, blocks |-> <<>>, finish |-> "", usage |-> "none",
                  finished |-> FALSE]

\* The block an event is about, when there is one that is still open.
OpenBlock(r, e) == e.slot < Len(r.blocks) /\ ~r.blocks[e.slot + 1].closed

\* handle's errors, in its order.
MessagesFault(r, e) ==
  CASE e.k = "junk" -> Unknown("protocol")
    [] r.finished -> Unknown("protocol")
    [] e.k = "error" -> Definite("provider")
    [] e.k = "message_start" /\ r.started -> Unknown("protocol")
    [] e.k = "block_start" /\ (~r.started \/ r.finish # "" \/ e.slot # Len(r.blocks))
         -> Unknown("protocol")
    [] e.k = "block_delta" /\ (~OpenBlock(r, e) \/ r.finish # "") -> Unknown("protocol")
    [] e.k = "block_delta" /\ r.blocks[e.slot + 1].type # e.type -> Unknown("protocol")
    [] e.k = "block_stop" /\ ~OpenBlock(r, e) -> Unknown("protocol")
    [] e.k = "message_delta" /\ (~r.started \/ r.finish # "") -> Unknown("protocol")
    [] e.k = "message_delta" /\ (\E i \in DOMAIN r.blocks : ~r.blocks[i].closed)
         -> Unknown("protocol")
    [] e.k = "message_stop" /\ (~r.started \/ r.finish = "") -> Unknown("protocol")
    [] OTHER -> Reading

MessagesRead(r, e, n) ==
  CASE e.k = "message_start" -> [r EXCEPT !.started = TRUE]
    [] e.k = "block_start" -> [r EXCEPT !.blocks = Append(@,
         [type |-> e.type, id |-> e.id, body |-> <<>>, closed |-> FALSE])]
    [] e.k = "block_delta" -> [r EXCEPT !.blocks[e.slot + 1].body = Append(@, n)]
    [] e.k = "block_stop" -> [r EXCEPT !.blocks[e.slot + 1].closed = TRUE]
    [] e.k = "message_delta" -> [[r EXCEPT !.finish = e.reason] EXCEPT !.usage = e.usage]
    [] e.k = "message_stop" -> [r EXCEPT !.finished = TRUE]
    [] OTHER -> r

\* The tool calls among the blocks, in their order.
ToolBlocks(blocks) ==
  LET tools == SelectSeq(blocks, LAMBDA b : b.type = "tool_use")
  IN [i \in DOMAIN tools |-> Call(<<tools[i].id>>, tools[i].body)]

\* finalizeAnthropicOutput, on a whole message.
MessagesFinal(r) ==
  LET calls == ToolBlocks(r.blocks)
  IN CASE \E i \in DOMAIN r.blocks : r.blocks[i].type = "other" -> Unknown("protocol")
       [] r.usage = "bad" -> Unknown("protocol")
       [] r.finish = "length" -> Definite("output_limit")
       [] r.finish = "refusal" -> Definite("refusal")
       [] r.finish \notin {"stop", "tool_calls"} -> Unknown("protocol")
       [] (r.finish = "tool_calls") # (calls # <<>>) \/ ~Distinct(calls) -> Unknown("protocol")
       [] OTHER -> Accepted(calls)

\* What decodeAnthropicStream makes of the stream when it has ended.
MessagesEnd(r) == IF r.finished THEN MessagesFinal(r) ELSE Unknown("transport")

-----------------------------------------------------------------------------
(* Responses *)

\* The response a final event carries; "calls" are its function calls by identifier.
Envelope(status, calls, typed, usage) ==
  [status |-> status, calls |-> calls, typed |-> typed, usage |-> usage]

NoEnvelope == Envelope("missing", <<>>, TRUE, "none")

Envelopes ==
  {Envelope(s, c, TRUE, "good") :
     s \in {"completed", "incomplete", ""}, c \in {<<>>} \cup {<<i, j>> : i, j \in Ids}}
    \cup {Envelope(s, <<>>, TRUE, "none") : s \in {"completed", "failed", "in_progress"}}
    \cup {Envelope("completed", <<>>, TRUE, "bad"), Envelope("completed", <<>>, FALSE, "good")}

ResponsesEvents ==
  [k : {"final"}, type : {"completed", "incomplete", "failed"}, envelope : Envelopes,
   regressed : {FALSE}]
    \cup [k : {"final"}, type : {"completed"}, envelope : {NoEnvelope}, regressed : BOOLEAN]
    \cup [k : {"delta", "junk"}, regressed : {FALSE}]

ResponsesStart == [type |-> "", envelope |-> NoEnvelope]

\* process's errors: the sequence number must increase.
ResponsesFault(r, e) ==
  IF e.k = "junk" \/ e.regressed THEN Unknown("protocol") ELSE Reading

\* A later final event replaces an earlier one.
ResponsesRead(r, e, n) ==
  IF e.k = "final" THEN [type |-> e.type, envelope |-> e.envelope] ELSE r

\* normalizeResponsesEnvelope.
ResponsesFinal(v) ==
  CASE v.status = "failed" -> Definite("provider")
    [] v.status \notin {"completed", "incomplete", ""} -> Unknown("protocol")
    [] ~v.typed \/ v.usage = "bad" -> Unknown("protocol")
    [] v.status = "incomplete" -> Definite("output_limit")
    [] OTHER -> Accepted([i \in DOMAIN v.calls |-> Call(<<v.calls[i]>>, <<>>)])

\* What decodeResponsesStream makes of the stream when it has ended.
ResponsesEnd(r) ==
  LET o == ResponsesFinal(r.envelope)
  IN CASE r.type = "" \/ r.envelope = NoEnvelope -> Unknown("transport")
       [] o.kind = "accepted" /\ r.type = "failed" -> Unknown("provider")
       [] OTHER -> o

-----------------------------------------------------------------------------
(* The three clients *)

Events ==
  CASE protocol = "chat" -> ChatEvents
    [] protocol = "messages" -> MessagesEvents
    [] protocol = "responses" -> ResponsesEvents

Fault(r, e) ==
  CASE protocol = "chat" -> ChatFault(r, e)
    [] protocol = "messages" -> MessagesFault(r, e)
    [] protocol = "responses" -> ResponsesFault(r, e)

Read(r, e, n) ==
  CASE protocol = "chat" -> ChatRead(r, e, n)
    [] protocol = "messages" -> MessagesRead(r, e, n)
    [] protocol = "responses" -> ResponsesRead(r, e, n)

End(r) ==
  CASE protocol = "chat" -> ChatEnd(r)
    [] protocol = "messages" -> MessagesEnd(r)
    [] protocol = "responses" -> ResponsesEnd(r)

UsageOf(r) == IF protocol = "responses" THEN r.envelope.usage ELSE r.usage

\* Generate's last checks, for a model with the capabilities c, and validateResponse,
\* which dispatchModel calls on what Generate returned.
Generated(o, usage, c) ==
  LET checked ==
    CASE c.usageRequired /\ usage = "none" -> Definite("usage")
      [] ~c.parallel /\ Len(o.calls) > 1 -> Definite("capability")
      [] ~Distinct(o.calls) -> Unknown("")
      [] OTHER -> o
  IN [checked EXCEPT !.caps = c]

Init ==
  /\ protocol \in Protocols
  /\ sent = <<>>
  /\ read = CASE protocol = "chat" -> ChatStart
              [] protocol = "messages" -> MessagesStart
              [] protocol = "responses" -> ResponsesStart
  /\ outcome = Prepared

\* validateModelRequest, the wire form and the context are checked before anything is sent.
Withhold ==
  /\ outcome = Prepared
  /\ outcome' \in {Unsent(category) : category \in {"capability", "request", "cancelled"}}
  /\ UNCHANGED <<protocol, sent, read>>

\* The request leaves, and a status of success comes back with a stream.
Send ==
  /\ outcome = Prepared
  /\ outcome' = Reading
  /\ UNCHANGED <<protocol, sent, read>>

\* A status other than success is an answer too: normalizeProviderError.
Refused ==
  /\ outcome = Reading /\ sent = <<>>
  /\ sent' = <<[k |-> "status", regressed |-> FALSE]>>
  /\ outcome' = Definite("provider")
  /\ UNCHANGED <<protocol, read>>

\* The capabilities only matter to an answer: they are chosen then.
Return(o, usage, end) ==
  IF o.kind = "accepted"
  THEN \E c \in Capabilities : outcome' = [Generated(o, usage, c) EXCEPT !.end = end]
  ELSE outcome' = [o EXCEPT !.end = end]

\* One event of the stream. The chat reader stops at [DONE], whatever follows.
Receive ==
  /\ outcome = Reading
  /\ Len(sent) < MaxEvents[protocol]
  /\ \E e \in Events :
       LET fault == Fault(read, e)
           next == Read(read, e, Len(sent) + 1)
       IN /\ sent' = Append(sent, e)
          /\ IF fault # Reading THEN outcome' = fault /\ UNCHANGED read
             ELSE /\ read' = next
                  /\ IF protocol = "chat" /\ next.done THEN Return(End(next), UsageOf(next), "")
                     ELSE UNCHANGED outcome
  /\ UNCHANGED protocol

\* The stream ends in order after what was sent.
EndOfStream ==
  /\ outcome = Reading
  /\ Return(End(read), UsageOf(read), "eof")
  /\ UNCHANGED <<protocol, sent, read>>

\* The connection breaks, times out, or the caller gives up: the scanner reports an error.
Broken ==
  /\ outcome = Reading
  /\ outcome' = [Unknown("transport") EXCEPT !.end = "broken"]
  /\ UNCHANGED <<protocol, sent, read>>

Next == Withhold \/ Send \/ Refused \/ Receive \/ EndOfStream \/ Broken

Spec == Init /\ [][Next]_vars

-----------------------------------------------------------------------------
(* What an answer is, said of the events alone. The sequence q is what was sent.   *)

At(q, k) == {i \in DOMAIN q : q[i].k = k}
AtSlot(q, k, s) == {i \in At(q, k) : q[i].slot = s}

Before(S, T) == \A i \in S, j \in T : i < j

\* The identifiers the fragments S bring, in their order.
IdsSent(q, S) == SelectSeq([i \in 1 .. Cardinality(S) |-> q[SetToSortSeq(S, <)[i]].id],
                           LAMBDA id : id # "")

SlotsSent(q, k) == {s \in Slots : AtSlot(q, k, s) # {}}

\* The calls the provider sent: every fragment of a slot, in order.
ChatCalls(q) ==
  [i \in 1 .. Cardinality(SlotsSent(q, "fragment")) |->
     LET S == AtSlot(q, "fragment", i - 1) IN Call(IdsSent(q, S), SetToSortSeq(S, <))]

\* One finish, of an answer; everything else but the usage is before it, [DONE] is last.
ChatWhole(q) ==
  LET calls == ChatCalls(q)
  IN /\ At(q, "error") = {} /\ At(q, "junk") = {} /\ At(q, "refusal") = {}
     /\ At(q, "done") = {Len(q)} /\ Cardinality(At(q, "finish")) = 1
     /\ Cardinality(At(q, "usage")) =< 1
     /\ \A i \in At(q, "usage") : q[i].usage = "good"
     /\ Before(At(q, "fragment") \cup At(q, "text"), At(q, "finish"))
     /\ SlotsSent(q, "fragment") = 0 .. Len(calls) - 1
     /\ <<>> \notin IdsOf(calls)
     /\ \A i \in At(q, "finish") : q[i].reason = IF calls = <<>> THEN "stop" ELSE "tool_calls"

\* The tool blocks the provider sent, each with every fragment of it.
MessagesCalls(q) ==
  LET tools == {i \in At(q, "block_start") : q[i].type = "tool_use"}
      order == SetToSortSeq(tools, <)
  IN [i \in DOMAIN order |->
        Call(<<q[order[i]].id>>, SetToSortSeq(AtSlot(q, "block_delta", q[order[i]].slot), <))]

\* The block of a slot opens once, after those of the lower slots, grows and closes.
BlockWhole(q, s) ==
  LET open == AtSlot(q, "block_start", s)
      grow == AtSlot(q, "block_delta", s)
      close == AtSlot(q, "block_stop", s)
  IN /\ Cardinality(open) =< 1 /\ Cardinality(close) = Cardinality(open)
     /\ open = {} => grow = {}
     /\ Before(open, grow \cup close) /\ Before(grow, close)
     /\ \A t \in Slots : t < s =>
          LET lower == AtSlot(q, "block_start", t)
          IN Before(lower, open) /\ (lower = {} => open = {})
     /\ \A i \in open : q[i].type # "other" /\ \A j \in grow : q[i].type = q[j].type

\* Start, the blocks, the reason, the stop.
MessagesWhole(q) ==
  /\ At(q, "error") = {} /\ At(q, "junk") = {}
  /\ \A k \in {"message_start", "message_delta", "message_stop"} : Cardinality(At(q, k)) = 1
  /\ Before(At(q, "message_start"), At(q, "block_start") \cup At(q, "message_delta"))
  /\ Before(At(q, "block_stop"), At(q, "message_delta"))
  /\ Before(At(q, "message_delta"), At(q, "message_stop"))
  /\ \A s \in Slots : BlockWhole(q, s)
  /\ \A i \in At(q, "message_delta") :
       /\ q[i].usage # "bad"
       /\ q[i].reason = IF MessagesCalls(q) = <<>> THEN "stop" ELSE "tool_calls"

\* The final event that counts, or none.
LastFinal(q) == IF At(q, "final") = {} THEN 0 ELSE Max(At(q, "final"))

ResponsesCalls(q) ==
  LET v == q[LastFinal(q)].envelope
  IN [i \in DOMAIN v.calls |-> Call(<<v.calls[i]>>, <<>>)]

\* The last final event carries a completed response, and no event is out of place.
ResponsesWhole(q) ==
  /\ At(q, "junk") = {} /\ LastFinal(q) # 0
  /\ \A i \in DOMAIN q : ~q[i].regressed
  /\ q[LastFinal(q)].type # "failed"
  /\ LET v == q[LastFinal(q)].envelope
     IN v.status \in {"completed", ""} /\ v.typed /\ v.usage # "bad"

Whole(q) ==
  /\ At(q, "status") = {}
  /\ CASE protocol = "chat" -> ChatWhole(q)
       [] protocol = "messages" -> MessagesWhole(q)
       [] protocol = "responses" -> ResponsesWhole(q)

SentCalls(q) ==
  CASE protocol = "chat" -> ChatCalls(q)
    [] protocol = "messages" -> MessagesCalls(q)
    [] protocol = "responses" -> ResponsesCalls(q)

\* The provider reported token usage.
UsageSent(q) ==
  CASE protocol = "chat" -> At(q, "usage") # {}
    [] protocol = "messages" -> \E i \in At(q, "message_delta") : q[i].usage # "none"
    [] protocol = "responses" -> q[LastFinal(q)].envelope.usage # "none"

\* The answer is one validateResponse and the model's configuration allow.
Allowed(q, c) ==
  /\ Distinct(SentCalls(q))
  /\ c.usageRequired => UsageSent(q)
  /\ c.parallel \/ Len(SentCalls(q)) =< 1

\* The provider itself said that there is no answer.
Said(q) ==
  \/ At(q, "error") # {} \/ At(q, "status") # {}
  \/ protocol = "chat" /\ At(q, "done") # {} /\ (At(q, "refusal") # {} \/ \E i \in At(q, "finish") :
       q[i].reason \in {"length", "content_filter"})
  \/ protocol = "messages" /\ At(q, "message_stop") # {} /\ \E i \in At(q, "message_delta") :
       q[i].reason \in {"length", "refusal"}
  \/ protocol = "responses" /\ LastFinal(q) # 0
       /\ q[LastFinal(q)].envelope.status \in {"failed", "incomplete"}

\* How a stream that is not over may go on to its end.
Endings ==
  CASE protocol = "chat" ->
         {<<[k |-> "done"]>>} \cup
         {<<[k |-> "finish", reason |-> r], [k |-> "done"]>> : r \in {"stop", "tool_calls"}}
    [] protocol = "messages" ->
         {<<[k |-> "message_stop"]>>} \cup
         {<<[k |-> "message_delta", reason |-> r, usage |-> "good"], [k |-> "message_stop"]>> :
            r \in {"stop", "tool_calls"}}
    [] protocol = "responses" ->
         {<<[k |-> "final", type |-> "completed", regressed |-> FALSE,
             envelope |-> Envelope("completed", <<>>, TRUE, "good")]>>}

-----------------------------------------------------------------------------
(* Properties *)

TypeOK ==
  /\ protocol \in Protocols
  /\ \A i \in DOMAIN sent : sent[i] \in Events \/ sent[i].k = "status"
  /\ Len(sent) =< MaxEvents[protocol]
  /\ outcome.kind \in {"prepared", "unsent", "reading", "failed", "accepted"}
  /\ outcome.certain \in BOOLEAN /\ outcome.caps \in Capabilities
  /\ outcome.kind # "accepted" => outcome.calls = <<>>

\* Tool calls are dispatched only from a whole answer, and they are exactly the calls the
\* provider sent, every fragment in its place: no cut, repeated, reordered or contradicted
\* stream is taken for an answer (decodeModelStream, decodeAnthropicStream,
\* decodeResponsesStream and the finalize functions).
WholeOnly ==
  outcome.kind = "accepted" =>
    Whole(sent) /\ Allowed(sent, outcome.caps) /\ outcome.calls = SentCalls(sent)

\* A good answer is never thrown away: a stream read to its end is not a whole answer when
\* it fails, and one given up before its end has no way to become one. Only a connection
\* that breaks is an excuse (the same functions).
WholeAccepted ==
  outcome.kind = "failed" /\ outcome.end # "broken" =>
    /\ ~(Whole(sent) /\ Allowed(sent, outcome.caps))
    /\ outcome.end = "" => \A e \in Endings :
         ~(Whole(sent \o e) /\ Allowed(sent \o e, outcome.caps))

\* A failure is definite, so that it is settled and not left for review as UNKNOWN, only
\* when the provider said so or its whole answer is one the configuration rules out; a
\* stream that was cut or makes no sense never is (CallError.Certain).
CertainIsSaid ==
  outcome.kind = "failed" /\ outcome.certain =>
    Said(sent) \/ (Whole(sent) /\ ~Allowed(sent, outcome.caps))

\* An answer is taken exactly when it is whole, and a failure is definite only when
\* it was said.
AnswerWhole == TypeOK /\ WholeOnly /\ WholeAccepted /\ CertainIsSaid
=============================================================================
