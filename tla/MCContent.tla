----------------------------- MODULE MCContent ------------------------------
(* What a request of a Run is made of and what comes back, in one run: memory *)
(* entries under concurrent edits ("edits"), the entries a Run uses ("use"),  *)
(* the summary of a local conversation ("local") and of one in a channel      *)
(* ("channel"), the form of the request ("wire") and the reading of the       *)
(* provider's answer ("answer"); and what the clients of the conversation are *)
(* shown of it ("events").  The variables of the idle parts are 0, those of   *)
(* Memory and ChatEvents stay where they start.                               *)
EXTENDS ChatEvents, Memory, Integers

VARIABLES
  part,
  msg, last, turn, summary, verified, task, sent, crashes,
  messages, data,
  protocol, events, read, outcome

context == <<msg, last, turn, summary, verified, task, sent, crashes>>
wire == <<messages, data>>
answer == <<protocol, events, read, outcome>>
all == <<part, vars, memoryVars, context, wire, answer>>

\* The instances satisfy what the proofs assume.
ASSUME Instances == EventsAssumption /\ MemoryAssumption

\* Three clients change entries; and one client, without new entries, around a Run.
EditStep == Changing(Clients, {"create", "update", "delete"})
UseStep == Changing({"c1"}, Actions \ {"create"}) \/ Choosing({First})

Local == INSTANCE ContextSummary
           WITH run <- turn, job <- task, MaxId <- 5, MaxRuns <- 2, MaxCrashes <- 1,
                Channel <- FALSE, Modes <- {TRUE, FALSE}

Shared == INSTANCE ContextSummary
            WITH run <- turn, job <- task, MaxId <- 4, MaxRuns <- 2, MaxCrashes <- 0,
                 Channel <- TRUE, Modes <- {TRUE}

Wire == INSTANCE ModelWire WITH MaxMessages <- 5, Inputs <- 2

Answer == INSTANCE ModelStream
            WITH sent <- events, Slots <- {0, 1}, Ids <- {"a", "b"},
                 MaxEvents <- [chat |-> 5, messages |-> 8, responses |-> 2]

NoContext == /\ msg = 0 /\ last = 0 /\ turn = 0 /\ summary = 0 /\ verified = 0 /\ task = 0
             /\ sent = 0 /\ crashes = 0
NoWire == messages = 0 /\ data = 0
NoAnswer == protocol = 0 /\ events = 0 /\ read = 0 /\ outcome = 0

MCInit ==
  /\ Init /\ MemoryInit
  /\ \/ part \in {"edits", "use", "events"} /\ NoContext /\ NoWire /\ NoAnswer
     \/ part = "local" /\ Local!Init /\ NoWire /\ NoAnswer
     \/ part = "channel" /\ Shared!Init /\ NoWire /\ NoAnswer
     \/ part = "wire" /\ NoContext /\ Wire!Init /\ NoAnswer
     \/ part = "answer" /\ NoContext /\ NoWire /\ Answer!Init
  /\ part # "events" => observer = "poll"

MCNext ==
  \/ part = "edits" /\ EditStep /\ UNCHANGED <<part, vars, context, wire, answer>>
  \/ part = "use" /\ UseStep /\ UNCHANGED <<part, vars, context, wire, answer>>
  \/ part = "local" /\ Local!Next /\ UNCHANGED <<part, vars, memoryVars, wire, answer>>
  \/ part = "channel" /\ Shared!Next /\ UNCHANGED <<part, vars, memoryVars, wire, answer>>
  \/ part = "wire" /\ Wire!Next /\ UNCHANGED <<part, vars, memoryVars, context, answer>>
  \/ part = "answer" /\ Answer!Next /\ UNCHANGED <<part, vars, memoryVars, context, wire>>
  \/ part = "events" /\ Next /\ UNCHANGED <<part, memoryVars, context, wire, answer>>

MCSpec == MCInit /\ [][MCNext]_all

\* A request has what its Run may see, in words where it is the latest, and no tool data
\* for a text-only Run (context_summary.go contextTail, context_compaction.go
\* planCompactionFor, input_queue.go moveInputMessage, service.go buildContextWithSummary).
ContextWhole ==
  CASE part = "local" -> Local!ContextWhole
    [] part = "channel" -> Shared!ContextWhole
    [] OTHER -> TRUE

\* A call starts only with memory as it is then (memory_context.go validateRequestMemory),
\* and a summary is saved only over the messages it was made of (context_compaction.go
\* applyCompaction).
ContentCurrent ==
  [][/\ SendsCurrent
     /\ part = "local" => Local!SavesTrue
     /\ part = "channel" => Shared!SavesTrue]_all

\* Of a provider's answer, tool calls come from whole answers only, a whole answer is
\* not thrown away and a definite failure is one the provider declared (openai.go,
\* provider_anthropic.go, responses.go); in a request, calls and results leave in
\* complete groups, turns alternate, outputs follow their calls and vectors belong to
\* their inputs (model_selection.go completeMessageGroups, openai.go Embed).
ProviderExact == /\ part = "answer" => Answer!AnswerWhole
                 /\ part = "wire" => Wire!WireExact
=============================================================================
