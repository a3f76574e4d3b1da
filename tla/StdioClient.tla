----------------------------- MODULE StdioClient -----------------------------
(* The connection between the Owner and one local process (an extension or an *)
(* MCP server): the JSON-RPC client (internal/mcpstdio/rpc.go) over the       *)
(* bounded stdio transport (internal/mcpstdio/transport.go).                  *)
(*                                                                            *)
(* Goroutines: the callers of RPCClient.Call, the read loop, one handler for  *)
(* each request of the peer, and whoever closes.  The peer may stop reading   *)
(* its stdin, answer in any order, answer twice, write garbage or exit.       *)
EXTENDS Naturals, FiniteSets

CONSTANTS
  Callers,        \* the callers of RPCClient.Call
  Handlers,       \* bound: requests of the peer
  MaxSlots,       \* maxConcurrentHostRequests
  AllowRequests,  \* commandTransport.allowRequests: a bidirectional transport
  MaxReplies      \* bound: answers of the peer to one call

CONSTANT Reject   \* the read loop, writing a "busy" answer

VARIABLES
  pc,        \* where each goroutine is
  over,      \* callers whose context is over (the reject timeout included)
  pending,   \* RPCClient.pending
  box,       \* how many results were put in the wait channel of each call
  writer,    \* the holder of writeMu, or NoWriter
  sent,      \* calls whose frame the peer has read
  incoming,  \* commandConnection.incoming, one message
  loop,      \* RPCClient.readLoop: in Read's select, about to find the closing, or over
  replies,   \* answers the peer has given to each call
  done,      \* RPCClient.done is closed
  failing,   \* how far RPCClient.fail is
  shut,      \* how far commandConnection.Close is
  peer,      \* the process: "reads", "stalled" or "gone"
  tree       \* processes of its tree are alive

pipeVars == <<pc, over, pending, box, writer, sent, incoming, loop, replies, done, failing, shut, peer, tree>>

NoWriter == "none"
Writers == Callers \union Handlers \union {Reject}
Empty == [kind |-> "empty", of |-> NoWriter]

(* Every goroutine has a name of its own.                                     *)
PipeAssumption ==
  /\ Callers \intersect Handlers = {} /\ Reject \notin Callers \union Handlers
  /\ NoWriter \notin Writers
  /\ AllowRequests \in BOOLEAN /\ MaxSlots \in Nat /\ MaxReplies \in Nat

PipeTypeOK ==
  /\ pc \in [Writers -> {"idle", "handling", "lock", "writing", "closing", "waiting", "returned"}]
  /\ over \subseteq Callers \union {Reject} /\ pending \subseteq Callers
  /\ box \in [Callers -> 0..2] /\ writer \in Writers \union {NoWriter} /\ sent \subseteq Callers
  /\ incoming.kind \in {"empty", "reply", "request", "error"}
  /\ loop \in {"select", "ending", "over"} /\ replies \in [Callers -> 0..MaxReplies]
  /\ done \in BOOLEAN /\ failing \in {"no", "drain", "close", "closed"}
  /\ shut \in {"open", "grace", "terminate", "kill", "closed", "failed"}
  /\ peer \in {"reads", "stalled", "gone"} /\ tree \in BOOLEAN

PipeInit ==
  /\ pc = [w \in Writers |-> "idle"]
  /\ over = {} /\ pending = {} /\ box = [c \in Callers |-> 0]
  /\ writer = NoWriter /\ sent = {} /\ incoming = Empty /\ loop = "select"
  /\ replies = [c \in Callers |-> 0]
  /\ done = FALSE /\ failing = "no" /\ shut = "open" /\ peer = "reads" /\ tree = TRUE

GoesTo(w, p) == pc' = [pc EXCEPT ![w] = p]

(* A handler and the read loop live as long as the client (client.ctx).       *)
ContextOver(w) == w \in over \/ (w \notin Callers /\ done)

(* Where a goroutine goes when its Write is over.                             *)
After(w, ok) == IF w \in Callers THEN (IF ok THEN "waiting" ELSE "returned")
                ELSE IF w = Reject THEN "idle" ELSE "returned"

(* removePending, when a call returns an error.                               *)
Removed(w, ok) == IF w \in Callers /\ ~ok THEN pending \ {w} ELSE pending

(* Read first looks whether the connection is closing; afterwards its select  *)
(* takes a message or the closing, whichever it picks.  One message may still *)
(* be delivered while the connection closes, and while fail is under way.     *)
ReadAgain == IF loop = "over" THEN "over" ELSE IF shut = "open" THEN "select" ELSE "ending"

Ended(w, ok) ==
  /\ GoesTo(w, After(w, ok)) /\ pending' = Removed(w, ok)
  /\ loop' = IF w = Reject THEN ReadAgain ELSE loop

-----------------------------------------------------------------------------
(* Callers                                                                    *)

CallUnlocked(c) ==
  /\ pc[c] = "idle" /\ c \notin over
  /\ GoesTo(c, "lock") /\ pending' = pending \union {c}
  /\ UNCHANGED <<over, box, writer, sent, incoming, loop, replies, done, failing, shut, peer, tree>>

(* RPCClient.Call: under mu the call finds the client open and registers.     *)
Call(c) ==
  /\ pc[c] = "idle" /\ c \notin over
  /\ IF done
     THEN GoesTo(c, "returned") /\ UNCHANGED pending
     ELSE GoesTo(c, "lock") /\ pending' = pending \union {c}
  /\ UNCHANGED <<over, box, writer, sent, incoming, loop, replies, done, failing, shut, peer, tree>>

(* The caller's timeout, and the five seconds of a rejection.                 *)
Deadline(w) ==
  /\ w \in Callers \union {Reject} /\ w \notin over
  /\ pc[w] \in {"lock", "writing", "waiting"}
  /\ over' = over \union {w}
  /\ UNCHANGED <<pc, pending, box, writer, sent, incoming, loop, replies, done, failing, shut, peer, tree>>

ReceivePatient(c) ==
  /\ pc[c] = "waiting"
  /\ box[c] > 0 \/ done
  /\ GoesTo(c, "returned") /\ pending' = pending \ {c}
  /\ UNCHANGED <<over, box, writer, sent, incoming, loop, replies, done, failing, shut, peer, tree>>

(* RPCClient.Call returns: a result, its context, or the end of the client.   *)
Receive(c) ==
  /\ pc[c] = "waiting"
  /\ box[c] > 0 \/ c \in over \/ done
  /\ GoesTo(c, "returned") /\ pending' = pending \ {c}
  /\ UNCHANGED <<over, box, writer, sent, incoming, loop, replies, done, failing, shut, peer, tree>>

-----------------------------------------------------------------------------
(* commandConnection.Write                                                    *)

(* writeMu is taken without regard to the context: it was looked at on entry, *)
(* which is where a goroutine enters "lock".                                  *)
Lock(w) ==
  /\ pc[w] = "lock" /\ writer = NoWriter
  /\ IF shut # "open"
     THEN Ended(w, FALSE) /\ UNCHANGED <<over, writer>>
     ELSE GoesTo(w, "writing") /\ writer' = w /\ UNCHANGED <<pending, over, loop>>
  /\ UNCHANGED <<box, sent, incoming, replies, done, failing, shut, peer, tree>>

(* The peer reads the frame; a write to a process that is gone fails.         *)
Written(w) ==
  /\ pc[w] = "writing" /\ peer # "stalled"
  /\ Ended(w, peer = "reads") /\ writer' = NoWriter
  /\ sent' = IF w \in Callers /\ peer = "reads" THEN sent \union {w} ELSE sent
  /\ over' = over \ {Reject}
  /\ UNCHANGED <<box, incoming, replies, done, failing, shut, peer, tree>>

(* A context that ends during the write closes the whole connection, with     *)
(* writeMu held, before Write returns.                                        *)
WriteCancelled(w) ==
  /\ pc[w] = "writing" /\ ContextOver(w) /\ shut = "open"
  /\ GoesTo(w, "closing") /\ shut' = "grace"
  /\ UNCHANGED <<over, pending, box, writer, sent, incoming, loop, replies, done, failing, peer, tree>>

(* Close has returned, with the tree gone or with an error that says it may not be.  *)
Shut == shut \in {"closed", "failed"}

(* A writer that finds the connection closing returns; the one that closes it *)
(* returns when Close has.                                                    *)
WriteEnded(w) ==
  /\ \/ pc[w] = "writing" /\ shut # "open"
     \/ pc[w] = "closing" /\ Shut
  /\ Ended(w, FALSE) /\ writer' = NoWriter /\ over' = over \ {Reject}
  /\ UNCHANGED <<box, sent, incoming, replies, done, failing, shut, peer, tree>>

-----------------------------------------------------------------------------
(* commandConnection.Close, once: EOF on stdin, a grace, a request to         *)
(* terminate, a kill; whatever ends the process, the rest of its tree is      *)
(* killed before Close returns.  A kill that fails and a process that is not  *)
(* reaped in time end it too, with an error.                                  *)
CloseExited ==
  /\ shut \in {"grace", "terminate"} /\ peer = "gone"
  /\ \/ shut' = "closed" /\ tree' = FALSE
     \/ shut' = "failed" /\ UNCHANGED tree
  /\ UNCHANGED <<pc, over, pending, box, writer, sent, incoming, loop, replies, done, failing, peer>>

CloseTimer ==
  /\ shut \in {"grace", "terminate"} /\ peer # "gone"
  /\ shut' = IF shut = "grace" THEN "terminate" ELSE "kill"
  /\ UNCHANGED <<pc, over, pending, box, writer, sent, incoming, loop, replies, done, failing, peer, tree>>

CloseKill ==
  /\ shut = "kill"
  /\ \/ shut' = "closed" /\ tree' = FALSE /\ peer' = "gone"
     \/ shut' = "failed" /\ UNCHANGED <<tree, peer>>
  /\ UNCHANGED <<pc, over, pending, box, writer, sent, incoming, loop, replies, done, failing>>

-----------------------------------------------------------------------------
(* The read loop                                                              *)

Fail == /\ failing = "no" /\ failing' = "drain" /\ done' = TRUE

(* An answer goes to the call that waits for it, once.                        *)
ReadReply ==
  /\ loop = "select" /\ pc[Reject] = "idle" /\ incoming.kind = "reply"
  /\ incoming' = Empty /\ loop' = ReadAgain
  /\ box' = [box EXCEPT ![incoming.of] = @ + (IF incoming.of \in pending THEN 1 ELSE 0)]
  /\ pending' = pending \ {incoming.of}
  /\ UNCHANGED <<pc, over, writer, sent, replies, done, failing, shut, peer, tree>>

(* A request starts a handler when a slot is free; otherwise the read loop    *)
(* itself writes the rejection, unless its context, the client's, is over.    *)
ReadRequest ==
  /\ loop = "select" /\ pc[Reject] = "idle" /\ incoming.kind = "request"
  /\ incoming' = Empty /\ loop' = ReadAgain
  /\ IF Cardinality({h \in Handlers : pc[h] \notin {"idle", "returned"}}) < MaxSlots
     THEN GoesTo(incoming.of, "handling")
     ELSE pc' = [pc EXCEPT ![incoming.of] = "returned",
                           ![Reject] = IF ContextOver(Reject) THEN "idle" ELSE "lock"]
  /\ UNCHANGED <<over, pending, box, writer, sent, replies, done, failing, shut, peer, tree>>

(* EOF, a frame that is no message, or a closed connection ends the loop with *)
(* RPCClient.fail, which does nothing when it was called before.              *)
ReadError ==
  /\ loop # "over" /\ pc[Reject] = "idle"
  /\ shut # "open" \/ incoming.kind = "error"
  /\ loop' = "over"
  /\ Fail \/ (failing # "no" /\ UNCHANGED <<failing, done>>)
  /\ UNCHANGED <<pc, over, pending, box, writer, sent, incoming, replies, shut, peer, tree>>

(* RPCClient.Close by the Host: an abandoned call, a restart, the shutdown.   *)
CloseClient ==
  /\ Fail
  /\ UNCHANGED <<pc, over, pending, box, writer, sent, incoming, loop, replies, shut, peer, tree>>

(* fail: every pending call gets the error, then the connection is closed.    *)
FailDrain ==
  /\ failing = "drain"
  /\ failing' = "close" /\ pending' = {}
  /\ box' = [c \in Callers |-> box[c] + (IF c \in pending THEN 1 ELSE 0)]
  /\ UNCHANGED <<pc, over, writer, sent, incoming, loop, replies, done, shut, peer, tree>>

FailClose ==
  /\ failing = "close"
  /\ \/ shut = "open" /\ shut' = "grace" /\ UNCHANGED failing
     \/ Shut /\ failing' = "closed" /\ UNCHANGED shut
  /\ UNCHANGED <<pc, over, pending, box, writer, sent, incoming, loop, replies, done, peer, tree>>

(* The handler has its result; the answer is written with the lifetime of the *)
(* client for a context.                                                      *)
Handled(h) ==
  /\ pc[h] = "handling" /\ GoesTo(h, IF ContextOver(h) THEN "returned" ELSE "lock")
  /\ UNCHANGED <<over, pending, box, writer, sent, incoming, loop, replies, done, failing, shut, peer, tree>>

-----------------------------------------------------------------------------
(* The peer                                                                   *)

PeerReply(c) ==
  /\ peer # "gone" /\ c \in sent /\ incoming = Empty /\ replies[c] < MaxReplies
  /\ incoming' = [kind |-> "reply", of |-> c] /\ replies' = [replies EXCEPT ![c] = @ + 1]
  /\ UNCHANGED <<pc, over, pending, box, writer, sent, loop, done, failing, shut, peer, tree>>

(* A transport that is not bidirectional turns a request into an error.       *)
PeerRequest(h) ==
  /\ peer # "gone" /\ incoming = Empty /\ pc[h] = "idle" /\ shut = "open"
  /\ incoming' = IF AllowRequests THEN [kind |-> "request", of |-> h]
                 ELSE [kind |-> "error", of |-> NoWriter]
  /\ UNCHANGED <<pc, over, pending, box, writer, sent, loop, replies, done, failing, shut, peer, tree>>

PeerGarbage ==
  /\ peer # "gone" /\ incoming = Empty
  /\ incoming' = [kind |-> "error", of |-> NoWriter]
  /\ UNCHANGED <<pc, over, pending, box, writer, sent, loop, replies, done, failing, shut, peer, tree>>

PeerStalls ==
  /\ peer = "reads" /\ peer' = "stalled"
  /\ UNCHANGED <<pc, over, pending, box, writer, sent, incoming, loop, replies, done, failing, shut, tree>>

PeerExits ==
  /\ peer # "gone" /\ peer' = "gone"
  /\ UNCHANGED <<pc, over, pending, box, writer, sent, incoming, loop, replies, done, failing, shut, tree>>

(* The transport's read loop: EOF after the last message.                     *)
EndOfFile ==
  /\ peer = "gone" /\ incoming = Empty /\ shut = "open"
  /\ incoming' = [kind |-> "error", of |-> NoWriter]
  /\ UNCHANGED <<pc, over, pending, box, writer, sent, loop, replies, done, failing, shut, peer, tree>>

-----------------------------------------------------------------------------
Reading == ReadReply \/ ReadRequest \/ ReadError
Closing == CloseExited \/ CloseTimer \/ CloseKill \/ FailDrain \/ FailClose
Step(w) == \/ w \in Callers /\ Receive(w)
           \/ Lock(w) \/ Written(w) \/ WriteCancelled(w) \/ WriteEnded(w)
           \/ w \in Handlers /\ Handled(w)

PipeNext ==
  \/ \E c \in Callers : Call(c) \/ PeerReply(c)
  \/ \E w \in Writers : Deadline(w) \/ Step(w)
  \/ \E h \in Handlers : PeerRequest(h)
  \/ Reading \/ Closing \/ EndOfFile \/ CloseClient
  \/ PeerGarbage \/ PeerStalls \/ PeerExits

PipeSpec == PipeInit /\ [][PipeNext]_pipeVars

-----------------------------------------------------------------------------
(* A wait channel has room for one result: the read loop and fail between     *)
(* them send at most one, or the second would block the read loop, or fail    *)
(* with client.mu held (rpc.go readLoop, fail).                               *)
OneResult == \A c \in Callers : box[c] <= 1

(* Nothing is left waiting: a call that returned is not pending, and a failed *)
(* client has no pending call (rpc.go Call, removePending, fail).             *)
NoneForgotten ==
  /\ \A c \in Callers : pc[c] = "returned" => c \notin pending
  /\ failing \in {"close", "closed"} => pending = {}

(* When Close returns without saying that a kill failed or that the process   *)
(* was not reaped, the process and all it started are gone, whichever way the *)
(* process ended (transport.go Close).                                        *)
ClosedMeansGone == shut = "closed" => peer = "gone" /\ ~tree

(* Every call is settled: one result, though an answer may race the failing   *)
(* of the client, nothing pending after it returned, and nothing of the       *)
(* process left after a Close without error (rpc.go, transport.go).           *)
CallsSettled == PipeTypeOK /\ OneResult /\ NoneForgotten /\ ClosedMeansGone
=============================================================================
