------------------------------- MODULE MCLive -------------------------------
(* Nobody waits for ever: at the Owner's gates with a single model slot        *)
(* ("gate"), in its input queue without crashes ("queue"), for a local process *)
(* that only answers ("pipe"), for an extension ("process").                   *)
EXTENDS ExecutionGate

VARIABLES
  part, input, moved, made, paused, resumed, edit, disp, lease, started, stops,
  pc, over, pending, box, writer, sent, incoming, loop, replies, done, failing, shut, peer, tree,
  config, closed, startMu, proc, client, hook, usage, spent, handler, turn, dispatched, resumes

gate == <<exclusive, chats, controlBusy, hostBusy, processBusy, slots, waiting, deciding, holds>>
queue == <<input, moved, made, paused, resumed, edit, disp, lease, started, stops>>
pipe == <<pc, over, pending, box, writer, sent, incoming, loop, replies, done, failing, shut, peer, tree>>
process == <<config, closed, startMu, proc, client, hook, usage, spent, handler, turn, dispatched,
             resumes>>
all == <<part, gate, queue, pipe, process>>

Queue == INSTANCE InputQueue WITH run <- made, crashes <- stops,
  Dispatchers <- {"web", "channel"}, Nobody <- "nobody", MaxInputs <- 2, MaxRuns <- 2,
  MaxPending <- 2, MaxDirect <- 0, MaxCrashes <- 0

Pipe == INSTANCE StdioClient WITH Callers <- {"c1", "c2"}, Handlers <- {}, MaxSlots <- 1,
  AllowRequests <- FALSE, MaxReplies <- 1, Reject <- "reject"

Process == INSTANCE ExtensionHost WITH
  HookCalls <- {"c1", "c2"}, HookRuns <- {"r"}, Signatures <- {"s1"}, MaxStarts <- 2,
  Requesters <- {}, MaxCalls <- 1, MaxResumes <- 0

MCInit ==
  /\ part \in {"gate", "queue", "pipe", "process"}
  /\ Init /\ Queue!Init /\ Pipe!PipeInit /\ Process!ProcessInit

\* Bound: the first call is c1's, the Host closes while it is under way and c2 has called,
\* only a kill fails, and the peer writes no garbage and nothing to a client that has
\* failed; the run "host" has the rest.
Bounded ==
  /\ pc'["c2"] # "idle" => pc["c1"] # "idle"
  /\ failing = "no" /\ failing' = "drain" /\ loop' # "over"
       => pc["c1"] \in {"writing", "waiting"} /\ pc["c2"] # "idle"
  /\ shut' = "failed" /\ shut # "failed" => shut = "kill"
  /\ incoming' \in {incoming, Pipe!Empty} \/ (~done /\ (incoming'.kind = "error" => peer = "gone"))

InGate(A) == part = "gate" /\ A /\ UNCHANGED <<part, queue, pipe, process>>
InQueue(A) == part = "queue" /\ A /\ UNCHANGED <<part, gate, pipe, process>>
InPipe(A) == part = "pipe" /\ A /\ Bounded /\ UNCHANGED <<part, gate, queue, process>>
InProcess(A) == part = "process" /\ A /\ UNCHANGED <<part, gate, queue, pipe>>

MCNext == InGate(Next) \/ InQueue(Queue!Next) \/ InPipe(Pipe!PipeNext) \/ InProcess(Process!ProcessNext)

\* The fairness of the components.  part never changes, so one conjunct can
\* state a fairness of each of them: WF of the disjunction is WF of the disjunct
\* of the component that runs.
MCFairness ==
  /\ \A w \in {"w1", "w2"} :
       LET d == IF w = "w1" THEN "web" ELSE "channel"
           c == IF w = "w1" THEN "c1" ELSE "c2" IN
       /\ WF_all(\/ InGate(ReleaseModel(w, "m1"))
                 \/ InQueue(\E k \in 1..2 : Queue!Pick(d, k))
                 \/ InPipe(Pipe!Step(c)) \/ InProcess(Process!Serve(c)))
       /\ WF_all(\/ InGate(ReleaseModel(w, "m2"))
                 \/ InQueue(Queue!CreateReads(d) \/ Queue!CreateBusy(d) \/ Queue!CreateRefused(d))
                 \/ InPipe(Pipe!Deadline(c)))
       /\ WF_all(InGate(Release(w)) \/ InQueue(\E r \in 1..2 : Queue!CreateCommits(d, r)))
       /\ WF_all(InGate(Unlock(w)) \/ InQueue(Queue!AdoptSteering(d)))
       /\ WF_all(\/ InGate(EndDecision(w))
                 \/ InQueue(\E s \in {"completed", "failed", "held"} : Queue!RunEnds(d, s)))
       /\ WF_all(InGate(EndHost(w)) \/ InQueue(Queue!Return(d)))
       /\ SF_all(InGate(GrantModel(w, "m1"))) /\ SF_all(InGate(GrantModel(w, "m2")))
  /\ WF_all(InGate(EndProcess) \/ InQueue(Queue!CancelCommits))
  /\ WF_all(InQueue(Queue!SteerCommits) \/ InPipe(Pipe!Reading \/ Pipe!EndOfFile))
  /\ WF_all(InQueue(Queue!Start) \/ InPipe(Pipe!Closing))

MCSpec == MCInit /\ [][MCNext]_all /\ MCFairness

\* Nobody waits for ever inside the Owner: a caller gets its model slot or gives up, an
\* exclusive boundary is given back (execution_gate.go), and a queued input is consumed,
\* cancelled or re-targeted, or the queue is paused (input_queue.go).
NobodyWaits ==
  /\ GateServes
  /\ \A k \in 1..2 : k \in Queue!Queued ~> (k \notin Queue!Queued \/ paused)

\* Every call of a local process returns, by its answer, its own timeout or the end of the
\* connection (mcpstdio/rpc.go Call, transport.go Write); every call of an extension returns,
\* though its process is replaced, abandoned or never answers (extensions.go clientFor).
CallsReturn ==
  \A c \in {"c1", "c2"} : (pc[c] = "lock" \/ hook[c].pc = "configured")
                            ~> (pc[c] = "returned" \/ hook[c].pc = "done")
=============================================================================
