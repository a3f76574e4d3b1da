------------------------------- MODULE MCHost -------------------------------
(* The extension side of the Owner in one run: the calls an extension makes    *)
(* through the Host API ("calls"), the process all hooks share ("process"),    *)
(* the bidirectional connection to it ("pipe"), and the changes of the state   *)
(* it keeps, with their paired backup ("state").                               *)
EXTENDS HostCalls, ExtensionState, ExtensionHost, StdioClient

VARIABLE part

calls == <<run, top, call, exec, up, crashes>>
process == <<config, closed, startMu, proc, client, hook, usage, spent, handler, turn, dispatched,
             resumes>>
pipe == <<pc, over, pending, box, writer, sent, incoming, loop, replies, done, failing, shut, peer, tree>>
all == <<part, calls, process, pipe, stateVars>>

\* The instance satisfies what the proofs assume.
ASSUME Instances == StateAssumption /\ ProcessAssumption /\ PipeAssumption

MCInit ==
  /\ part \in {"calls", "process", "pipe", "state"}
  /\ Init /\ ProcessInit /\ PipeInit /\ StateInit
  /\ part = "process" \/ config = "s1"

MCNext ==
  \/ part = "calls" /\ Next /\ UNCHANGED <<part, process, pipe, stateVars>>
  \/ part = "process" /\ ProcessNext /\ UNCHANGED <<part, calls, pipe, stateVars>>
  \/ part = "pipe" /\ PipeNext /\ UNCHANGED <<part, calls, process, stateVars>>
  \/ part = "state" /\ StateNext /\ UNCHANGED <<part, calls, process, pipe>>

MCSpec == MCInit /\ [][MCNext]_all

\* No late handler rewrites what happened to a host call (store.go), and a connection
\* with a half-written frame is closed (mcpstdio/transport.go Write).
HostFacts ==
  [][/\ CallsAreFacts
     /\ \A w \in Writers :
          pc[w] = "writing" /\ pc'[w] \notin {"writing", "waiting"} /\ peer = "stalled"
            => shut' # "open"]_all
=============================================================================
