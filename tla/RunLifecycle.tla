---------------------------- MODULE RunLifecycle ----------------------------
(***************************************************************************)
(* The durable lifecycle of the Runs of one conversation                   *)
(* (internal/harness: store.go, service.go, model_recovery.go,             *)
(* tool_verification.go, limit_continuation.go, input_queue.go).           *)
(*                                                                         *)
(* A Run is a row of fa.runs, an Attempt a row of fa.attempts: the record  *)
(* of one external call.  An Attempt is dispatched in a transaction of its *)
(* own BEFORE the call and settled in another one after it, so a crash, a  *)
(* lost answer or a failed write leaves a call whose outcome nobody knows. *)
(* The code's promise is that such an UNKNOWN is never repeated, never     *)
(* hidden and never run past.                                              *)
(*                                                                         *)
(* One executor at a time runs in a conversation: the lease of             *)
(* ExecutionGate.  It interleaves, one transaction a step, with a user who *)
(* steers and cancels, with crashes and with the recovery of the next      *)
(* Owner.  Calls made by extensions are the subject of HostCalls.          *)
(***************************************************************************)
EXTENDS Naturals, FiniteSets

CONSTANTS
  MaxRuns,       \* bound: Runs of the conversation
  MaxAttempts,   \* bound: Attempts of all its Runs
  MaxSteps,      \* childSteps(); 0 is an ordinary task, which has no cutoff
  ModelRetries,  \* Config.ModelRetries
  MaxRounds,     \* verification rounds of one tool call (2 in the code)
  MaxCalls,      \* bound: tool calls of one model response
  MaxInputs,     \* bound: steering inputs the user sends
  MaxCrashes,    \* bound: crashes of the Owner
  WritesMayFail  \* whether a settlement transaction can fail

\* What the constants must be; the instances of MCRun assume it.
LifecycleAssumption ==
  /\ MaxRuns \in Nat /\ MaxAttempts \in Nat /\ MaxSteps \in Nat
  /\ ModelRetries \in Nat /\ MaxRounds \in Nat /\ MaxCalls \in Nat
  /\ MaxInputs \in Nat /\ MaxCrashes \in Nat
  /\ WritesMayFail \in BOOLEAN

VARIABLES
  run,       \* fa.runs; the status "none" is a row that does not exist yet
  att,       \* fa.attempts with the recovery facts that fa.meta holds on them
  steer,     \* steer[r]: pending steering inputs whose target is Run r
  incoming,  \* the Run an acceptInput transaction has read, 0 when none is open
  inputs,    \* steering inputs accepted so far
  exec,      \* the execution under the conversation's lease
  up,        \* an Owner is serving
  crashes

vars == <<run, att, steer, incoming, inputs, exec, up, crashes>>
outside == <<incoming, inputs, up, crashes>>

Runs == 1..MaxRuns
Attempts == 1..MaxAttempts

Statuses == {"none", "running", "waiting_confirmation", "stopped", "limited",
             "unknown", "failed", "completed", "abandoned"}

\* reason: what the stop reason of a limited Run says to settleLimited; "settled"
\* is the settled_limit: prefix.  parent: the key run/limit-next of the parent.
RunRecord == [status : Statuses, reason : {"", "limit", "context", "settled"},
              steps : 0..MaxSteps, command : BOOLEAN, parent : 0..MaxRuns]

NoRun == [status |-> "none", reason |-> "", steps |-> 0, command |-> FALSE, parent |-> 0]

\* purpose: "chat" for what the conversation shows, "verify" for the read-only
\* calls of verifyUnknownTool.  number and root: ModelRecovery.  reserved: the
\* Number under recovery/model/<root>.  rounds: recovery/tool/<id>.  resolved:
\* whether attempt/replaced/<id> or attempt/verified/<id> exists.
AttemptRecord ==
  [run : 0..MaxRuns, kind : {"model", "tool"}, purpose : {"chat", "verify"},
   status : {"free", "pending", "dispatched", "finished", "unknown"},
   resolved : {"no", "replaced", "verified"}, root : 0..MaxAttempts,
   number : 0..ModelRetries, reserved : 0..ModelRetries, rounds : 0..MaxRounds]

NoAttempt == [run |-> 0, kind |-> "model", purpose |-> "chat", status |-> "free",
              resolved |-> "no", root |-> 0, number |-> 0, reserved |-> 0, rounds |-> 0]

\* at: the Attempt in hand; todo: pending calls the process loop has listed;
\* prev: the model Attempt being retried; orig: the tool Attempt being verified;
\* left: queries of a verification response; err: what process will return.
ExecRecord ==
  [pc : {"idle", "loop", "next", "tool", "toolcall", "dispatch", "modelcall",
         "reserve", "wait", "vreserve", "vquery", "vresolve", "vfail", "return",
         "settle", "command"},
   run : 0..MaxRuns, at : 0..MaxAttempts, todo : SUBSET Attempts,
   prev : 0..MaxAttempts, orig : 0..MaxAttempts, left : 0..MaxCalls,
   err : {"ok", "stop", "limit", "context", "unknown", "input"}, cancelled : BOOLEAN]

Idle == [pc |-> "idle", run |-> 0, at |-> 0, todo |-> {}, prev |-> 0, orig |-> 0,
         left |-> 0, err |-> "ok", cancelled |-> FALSE]

----------------------------------------------------------------------------
(* Predicates of the SQL *)

\* activeRunPredicate: the rows of the unique index one_active_run.
Active(r) ==
  \/ run[r].status \in {"running", "waiting_confirmation", "stopped", "unknown"}
  \/ run[r].status = "limited" /\ run[r].reason # "settled"

\* Not resolvedAttemptSQL: a call that may have acted and that nothing explains.
Unresolved(a) == att[a].status \in {"dispatched", "unknown"} /\ att[a].resolved = "no"

Of(r) == {a \in Attempts : att[a].run = r}
Pending(r) == {a \in Of(r) : att[a].status = "pending"}
UnresolvedOf(r) == {a \in Of(r) : Unresolved(a)}

Used == {a \in Attempts : att[a].status # "free"}
Fresh == Cardinality(Used) + 1
\* incrementStep: the row is updated only for a running Run within its budget.
MayStep(r) == run[r].status = "running" /\ (MaxSteps = 0 \/ run[r].steps < MaxSteps)
Stepped(r) ==
  [run EXCEPT ![r] = [run[r] EXCEPT !.steps = IF MaxSteps = 0 THEN 0 ELSE run[r].steps + 1]]
StepError == IF MaxSteps = 0 THEN "stop" ELSE "limit"

Now(r, s, why) == [run EXCEPT ![r] = [run[r] EXCEPT !.status = s, !.reason = why]]
SetStatus(r, s) == Now(r, s, "")

ToolCallsOf(r, new, k) ==
  [a \in Attempts |->
     IF a \in new..(new + k - 1)
     THEN [NoAttempt EXCEPT !.run = r, !.kind = "tool", !.status = "pending", !.root = a]
     ELSE att[a]]

Init ==
  /\ run = [r \in Runs |-> NoRun]
  /\ att = [a \in Attempts |-> NoAttempt]
  /\ steer = [r \in Runs |-> 0]
  /\ incoming = 0
  /\ inputs = 0
  /\ exec = Idle
  /\ up = TRUE
  /\ crashes = 0

----------------------------------------------------------------------------
(* How the executor's call chain goes on *)

Goto(p) == exec' = [exec EXCEPT !.pc = p]

\* An error e of a model or verification call: verifyUnknownTool catches it in its
\* deferred function, process returns it.
Fails(e) ==
  exec' = [exec EXCEPT !.pc = IF exec.orig # 0 THEN "vfail" ELSE "return",
                       !.err = e, !.prev = 0]

\* ErrInputPending: process breaks out of the switch (or continues), so the next
\* listed call is tried; verifyUnknownTool joins it to ErrUnknownResult.
SteeredAway == IF exec.orig # 0 THEN Fails("input") ELSE Goto("next")

Running(p) == up /\ exec.pc = p

----------------------------------------------------------------------------
(* Requests: createRun, Continue, startLimitSuccessor, ConfirmControl, Abandon *)

Starts(r) == exec' = [Idle EXCEPT !.pc = "loop", !.run = r]

\* createRunWithTool: refused while the conversation has an active Run.  An
\* explicit user command is born with its one pending tool call.
Create(r, command, parent) ==
  /\ run[r].status = "none" /\ \A q \in Runs : q < r => run[q].status # "none"
  /\ \A q \in Runs : ~Active(q)
  /\ command => Fresh \in Attempts
  /\ run' = [run EXCEPT ![r] = [NoRun EXCEPT !.status = "running", !.command = command,
                                              !.parent = parent]]
  /\ att' = IF command THEN ToolCallsOf(r, Fresh, 1) ELSE att
  /\ Starts(r)
  /\ UNCHANGED <<steer, outside>>

Submit(r, command) == Running("idle") /\ Create(r, command, 0)

SuccessorAgain(r, p) ==
  /\ Running("idle")
  /\ run[p].status = "limited" /\ run[p].reason = "settled"
  /\ Pending(p) = {} /\ UnresolvedOf(p) = {}
  /\ Create(r, FALSE, p)

\* startLimitSuccessor with successorTx: one linked Run for a settled limit.
Successor(r, p) ==
  /\ Running("idle")
  /\ run[p].status = "limited" /\ run[p].reason = "settled"
  /\ Pending(p) = {} /\ UnresolvedOf(p) = {}
  /\ \A q \in Runs : run[q].parent # p
  /\ Create(r, FALSE, p)

\* Service.Continue, reached from Continue and from Confirm.
Continue(r) ==
  /\ Running("idle")
  /\ run[r].status \notin {"none", "completed", "unknown", "failed", "abandoned"}
  /\ ~(run[r].status = "limited" /\ run[r].reason = "settled")
  /\ MaxSteps = 0 \/ run[r].steps < MaxSteps
  /\ UnresolvedOf(r) = {}
  /\ run' = SetStatus(r, "running")
  /\ Starts(r)
  /\ UNCHANGED <<att, steer, outside>>

\* A control proposal is the only call of its response (controlResponseError), so
\* settling it leaves no pending call; applying it completes the Run.
SettleProposal(r, a, applied) ==
  /\ Pending(r) = {a} /\ ~run[r].command
  /\ att' = [att EXCEPT ![a].status = "finished"]
  /\ run' = IF run[r].status \in {"waiting_confirmation", "stopped", "running"}
            THEN SetStatus(r, IF applied THEN "completed" ELSE "running")
            ELSE run

\* ConfirmControl: previewConfirmation, decideControlChange, settleControlProposal
\* and, for a rejected proposal, Continue.
ConfirmControl(r, applied) ==
  /\ Running("idle")
  /\ run[r].status \in {"waiting_confirmation", "stopped"}
  /\ UnresolvedOf(r) = {}
  /\ \E a \in Pending(r) : SettleProposal(r, a, applied)
  /\ IF applied \/ (MaxSteps > 0 /\ run[r].steps >= MaxSteps)
     THEN exec' = Idle
     ELSE Starts(r)
  /\ UNCHANGED <<steer, outside>>

AbandonClosingUnknown(r) ==
  /\ Running("idle")
  /\ run[r].status \notin {"none", "completed", "abandoned"}
  /\ \A a \in Of(r) : att[a].status # "dispatched"
  /\ att' = [a \in Attempts |->
               IF a \in Of(r) /\ att[a].kind = "tool" /\ att[a].status \in {"pending", "unknown"}
               THEN [att[a] EXCEPT !.status = "finished"] ELSE att[a]]
  /\ run' = SetStatus(r, "abandoned")
  /\ UNCHANGED <<steer, exec, outside>>

\* Store.Abandon under the exclusive boundary: pending calls are closed, unknown
\* facts are kept.
Abandon(r) ==
  /\ Running("idle")
  /\ run[r].status \notin {"none", "completed", "abandoned"}
  /\ \A a \in Of(r) : att[a].status # "dispatched"
  /\ att' = [a \in Attempts |->
               IF a \in Pending(r) THEN [att[a] EXCEPT !.status = "finished"] ELSE att[a]]
  /\ run' = SetStatus(r, "abandoned")
  /\ UNCHANGED <<steer, exec, outside>>

----------------------------------------------------------------------------
(* The process loop *)

\* ctx.Err or checkCurrentPermission.
LoopStops ==
  /\ Running("loop")
  /\ Fails("stop")
  /\ UNCHANGED <<run, att, steer, outside>>

\* adoptSteering refuses to pass an unresolved call.
LoopUnknown ==
  /\ Running("loop") /\ ~exec.cancelled /\ incoming = 0
  /\ UnresolvedOf(exec.run) # {}
  /\ Fails("unknown")
  /\ UNCHANGED <<run, att, steer, outside>>

\* What adoptSteeringForRetry writes: undispatched calls become NOT_RUN and the
\* Run is running, whatever it was.
Adopt(r) ==
  /\ att' = [a \in Attempts |->
               IF a \in Pending(r) THEN [att[a] EXCEPT !.status = "finished"] ELSE att[a]]
  /\ run' = SetStatus(r, "running")
  /\ steer' = [steer EXCEPT ![r] = 0]

\* With nothing pending a chat turn calls the model and a direct command ends.
Listed(todo) ==
  exec' = [exec EXCEPT !.pc = IF todo # {} THEN "next"
                              ELSE IF run[exec.run].command THEN "command" ELSE "dispatch",
                       !.todo = todo]

LoopAdopts ==
  /\ Running("loop") /\ ~exec.cancelled /\ incoming = 0
  /\ UnresolvedOf(exec.run) = {}
  /\ steer[exec.run] > 0
  /\ Adopt(exec.run)
  /\ Listed({})
  /\ UNCHANGED outside

\* No steering: the unresolved Attempts are listed in order of seq.
LoopLists ==
  /\ Running("loop") /\ ~exec.cancelled /\ incoming = 0
  /\ UnresolvedOf(exec.run) = {}
  /\ steer[exec.run] = 0
  /\ Listed(Pending(exec.run))
  /\ UNCHANGED <<run, att, steer, outside>>

\* The next listed call, or round again.
NextCall ==
  /\ Running("next")
  /\ \/ exec.todo = {} /\ Goto("loop")
     \/ \E a \in exec.todo :
          /\ \A b \in exec.todo : a <= b
          /\ exec' = [exec EXCEPT !.pc = "tool", !.at = a, !.todo = exec.todo \ {a}]
  /\ UNCHANGED <<run, att, steer, outside>>

\* FinishRunOutput for a direct command: only its own call may have run.
FinishCommand ==
  /\ Running("command")
  /\ IF exec.cancelled
     THEN Fails("stop") /\ UNCHANGED run
     ELSE IF Cardinality(Of(exec.run)) # 1 \/ run[exec.run].status # "running"
     THEN Fails("unknown") /\ UNCHANGED run
     ELSE /\ \E s \in {"completed", "failed"} : run' = SetStatus(exec.run, s)
          /\ Goto("return")
  /\ UNCHANGED <<att, steer, outside>>

----------------------------------------------------------------------------
(* executeToolWithContext, for a listed call and for a verification query *)

ToolDone ==
  exec' = IF exec.orig # 0
          THEN [exec EXCEPT !.pc = "vquery", !.left = @ - 1]
          ELSE [exec EXCEPT !.pc = "next"]

\* checkConfig, operationsDenied, a cancelled context, checkOperation.
ToolStops ==
  /\ Running("tool")
  /\ Fails("stop")
  /\ UNCHANGED <<run, att, steer, outside>>

\* A call that fails validation, that an extension denies or that the user
\* declines is answered without being dispatched.
ToolNotRun ==
  /\ Running("tool") /\ ~exec.cancelled
  /\ att[exec.at].status = "pending"
  /\ att' = [att EXCEPT ![exec.at].status = "finished"]
  /\ ToolDone
  /\ UNCHANGED <<run, steer, outside>>

\* errAwaitingApproval: FinishRun writes the status without reading it.
ToolAwaits ==
  /\ Running("tool") /\ ~exec.cancelled /\ exec.orig = 0
  /\ run' = SetStatus(exec.run, "waiting_confirmation")
  /\ Goto("return")
  /\ UNCHANGED <<att, steer, outside>>

\* A control proposal decided inside the Run (service.controlDecision).
ToolDecides(applied) ==
  /\ Running("tool") /\ ~exec.cancelled /\ exec.orig = 0
  /\ SettleProposal(exec.run, exec.at, applied)
  /\ Goto(IF applied THEN "return" ELSE "next")
  /\ UNCHANGED <<steer, outside>>

\* dispatchGuardedTool: steering first, then the budget, then the marker.
ToolDispatch ==
  /\ Running("tool") /\ ~exec.cancelled
  /\ IF steer[exec.run] > 0
     THEN SteeredAway /\ UNCHANGED <<run, att>>
     ELSE IF ~MayStep(exec.run)
     THEN Fails(StepError) /\ UNCHANGED <<run, att>>
     ELSE /\ att[exec.at].status = "pending"
          /\ att' = [att EXCEPT ![exec.at].status = "dispatched"]
          /\ run' = Stepped(exec.run)
          /\ Goto("toolcall")
  /\ UNCHANGED <<steer, outside>>

\* The tool answered (a certain error is an answer): saveGuardedTool.
ToolAnswers ==
  /\ Running("toolcall")
  /\ att' = [att EXCEPT ![exec.at].status = "finished"]
  /\ ToolDone
  /\ UNCHANGED <<run, steer, outside>>

MarkUnknown(a) ==
  /\ att' = [att EXCEPT ![a].status = "unknown"]
  /\ run' = SetStatus(att[a].run, "unknown")

\* The outcome is uncertain: markUnknown, then read-only verification unless this
\* call is itself part of one or retries are off.
ToolUncertain ==
  /\ Running("toolcall")
  /\ MarkUnknown(exec.at)
  /\ IF exec.orig = 0 /\ ModelRetries > 0
     THEN exec' = [exec EXCEPT !.pc = "vreserve", !.orig = exec.at]
     ELSE Fails("unknown")
  /\ UNCHANGED <<steer, outside>>

\* A settlement transaction of a model or tool call fails: the error is returned
\* and the Attempt stays dispatched.
SettlementLost ==
  /\ WritesMayFail /\ (Running("toolcall") \/ Running("modelcall"))
  /\ Fails("stop")
  /\ UNCHANGED <<run, att, steer, outside>>

----------------------------------------------------------------------------
(* generate, dispatchModel and retryModel *)

Purpose == IF exec.orig # 0 THEN "verify" ELSE "chat"

\* Configuration, context budget or waiting for a slot.
DispatchRefused ==
  /\ Running("dispatch")
  /\ \E e \in {"stop", "context"} : Fails(e)
  /\ UNCHANGED <<run, att, steer, outside>>

\* startGuardedModel with recordModelReplacement.
Dispatch ==
  /\ Running("dispatch") /\ ~exec.cancelled
  /\ IF Purpose = "chat" /\ steer[exec.run] > 0
     THEN exec' = [exec EXCEPT !.pc = "loop", !.prev = 0] /\ UNCHANGED <<run, att>>
     ELSE IF ~MayStep(exec.run)
     THEN Fails(StepError) /\ UNCHANGED <<run, att>>
     ELSE /\ Fresh \in Attempts
          /\ LET a == Fresh
                 p == exec.prev
                 new == [NoAttempt EXCEPT
                           !.run = exec.run, !.purpose = Purpose, !.status = "dispatched",
                           !.root = IF p = 0 THEN a ELSE att[p].root,
                           !.number = IF p = 0 THEN 0 ELSE att[p].number + 1]
             IN  /\ att' = [b \in Attempts |->
                              IF b = a THEN new
                              ELSE IF b = p THEN [att[b] EXCEPT !.resolved = "replaced"]
                              ELSE att[b]]
                 /\ exec' = [exec EXCEPT !.pc = "modelcall", !.at = a, !.prev = 0]
          /\ run' = Stepped(exec.run)
  /\ UNCHANGED <<steer, outside>>

\* saveGuardedModel: a chat answer without calls completes the Run, unless steering
\* arrived during the call; a verification answer changes no status.
ModelAnswers(k) ==
  /\ Running("modelcall")
  /\ Purpose = "chat" => Fresh + k <= MaxAttempts + 1
  /\ LET saved == IF Purpose = "chat" THEN ToolCallsOf(exec.run, Fresh, k) ELSE att
     IN  att' = [saved EXCEPT ![exec.at].status = "finished"]
  /\ IF Purpose = "chat"
     THEN IF k = 0 /\ steer[exec.run] = 0
          THEN run' = SetStatus(exec.run, "completed") /\ Goto("return")
          ELSE UNCHANGED run /\ Goto("loop")
     ELSE /\ UNCHANGED run
          /\ exec' = [exec EXCEPT !.pc = IF k = 0 THEN "vresolve" ELSE "vquery", !.left = k]
  /\ UNCHANGED <<steer, outside>>

\* canRetryModel, or the context_limit branch of dispatchModel.
MayRetry == ~exec.cancelled /\ att[exec.at].number < ModelRetries

RetryOr(e) ==
  \/ MayRetry /\ exec' = [exec EXCEPT !.pc = "reserve", !.prev = exec.at]
  \/ Fails(e)

\* A certain failure, or a response that is certainly invalid: failModel.
ModelFails ==
  /\ Running("modelcall")
  /\ att' = [att EXCEPT ![exec.at].status = "finished"]
  /\ run' = SetStatus(exec.run, "failed")
  /\ RetryOr("stop")
  /\ UNCHANGED <<steer, outside>>

\* The outcome is uncertain, or the response cannot be accepted: markUnknown.
ModelUncertain ==
  /\ Running("modelcall")
  /\ MarkUnknown(exec.at)
  /\ RetryOr("unknown")
  /\ UNCHANGED <<steer, outside>>

\* reserveModelRetry: durable before the wait, so a crash consumes it.
Reserve ==
  /\ Running("reserve")
  /\ LET p == exec.prev
         root == att[p].root
         number == att[p].number + 1
     IN  IF ~exec.cancelled /\ number = att[root].reserved + 1 /\ number <= ModelRetries
            /\ run[exec.run].status \in {"failed", "unknown", "running"}
         THEN /\ att' = [att EXCEPT ![root].reserved = number]
              /\ run' = SetStatus(exec.run, "running")
              /\ Goto("wait")
         ELSE Fails("stop") /\ UNCHANGED <<run, att>>
  /\ UNCHANGED <<steer, outside>>

\* The wait is cancelled: an uncertain result is returned as ErrUnknownResult.
WaitCancelled ==
  /\ Running("wait") /\ exec.cancelled
  /\ Fails(IF att[exec.prev].status = "unknown" THEN "unknown" ELSE "stop")
  /\ UNCHANGED <<run, att, steer, outside>>

\* Permission, configuration or context budget after the wait: returned as it is.
WaitFails ==
  /\ Running("wait") /\ ~exec.cancelled
  /\ \E e \in {"stop", "context"} : Fails(e)
  /\ UNCHANGED <<run, att, steer, outside>>

\* A context refusal whose compaction makes no progress: the Run stays failed.
WaitUncompacted ==
  /\ Running("wait") /\ att[exec.prev].status = "finished" /\ Purpose = "chat"
  /\ run' = IF run[exec.run].status = "running" THEN SetStatus(exec.run, "failed") ELSE run
  /\ Fails("stop")
  /\ UNCHANGED <<att, steer, outside>>

\* adoptSteeringForRetry and the rebuilt request.
WaitOver ==
  /\ Running("wait") /\ ~exec.cancelled
  /\ Purpose = "chat" => incoming = 0
  /\ IF Purpose = "chat" /\ UnresolvedOf(exec.run) \ {exec.prev} # {}
     THEN Fails("unknown") /\ UNCHANGED <<run, att, steer>>
     ELSE /\ Goto("dispatch")
          /\ IF Purpose = "chat" /\ steer[exec.run] > 0
             THEN Adopt(exec.run)
             ELSE UNCHANGED <<run, att, steer>>
  /\ UNCHANGED outside

----------------------------------------------------------------------------
(* verifyUnknownTool *)

\* reserveToolVerification.
VerifyRound ==
  /\ Running("vreserve") /\ ~exec.cancelled
  /\ att[exec.orig].rounds < MaxRounds
  /\ att' = [att EXCEPT ![exec.orig].rounds = @ + 1]
  /\ run' = IF run[exec.run].status \in {"running", "unknown"}
            THEN SetStatus(exec.run, "running") ELSE run
  /\ Goto("dispatch")
  /\ UNCHANGED <<steer, outside>>

\* Permission revoked, or the rounds are used up.
VerifyEnds ==
  /\ Running("vreserve")
  /\ Fails("unknown")
  /\ UNCHANGED <<run, att, steer, outside>>

\* startTool for the next query of the response, or another round.
VerifyQuery ==
  /\ Running("vquery") /\ ~exec.cancelled
  /\ IF exec.left = 0
     THEN Goto("vreserve") /\ UNCHANGED att
     ELSE IF run[exec.run].status # "running"
     THEN Fails("unknown") /\ UNCHANGED att
     ELSE /\ Fresh \in Attempts
          /\ att' = [att EXCEPT ![Fresh] =
                       [NoAttempt EXCEPT !.run = exec.run, !.kind = "tool", !.status = "pending",
                                         !.purpose = "verify", !.root = Fresh]]
          /\ exec' = [exec EXCEPT !.pc = "tool", !.at = Fresh]
  /\ UNCHANGED <<run, steer, outside>>

\* A query outside the read-only boundary, or a cancelled context.
VerifyQueryRefused ==
  /\ Running("vquery")
  /\ exec.left > 0 \/ exec.cancelled
  /\ Fails("unknown")
  /\ UNCHANGED <<run, att, steer, outside>>

Evidence(o) == {a \in Of(att[o].run) : /\ a > o /\ att[a].kind = "tool"
                                       /\ att[a].purpose = "verify" /\ att[a].status = "finished"}

\* The decision says happened and a later read matches the file receipt:
\* resolveVerifiedFile.  A direct command is never a file operation.
VerifyResolves ==
  /\ Running("vresolve") /\ ~exec.cancelled
  /\ Evidence(exec.orig) # {} /\ ~run[exec.run].command
  /\ IF steer[exec.run] > 0
     THEN Fails("input") /\ UNCHANGED att
     ELSE /\ att' = [att EXCEPT ![exec.orig].resolved = "verified"]
          /\ exec' = [exec EXCEPT !.pc = "next", !.orig = 0]
  /\ UNCHANGED <<run, steer, outside>>

\* Any other decision, or evidence that does not match.
VerifyInconclusive ==
  /\ Running("vresolve")
  /\ Fails("unknown")
  /\ UNCHANGED <<run, att, steer, outside>>

\* What process sees of a failed verification: ErrInputPending breaks out of the
\* switch although ErrUnknownResult is joined to it.
VerifyReturns ==
  exec' = IF exec.err = "input"
          THEN [exec EXCEPT !.pc = "next", !.orig = 0, !.left = 0, !.err = "ok"]
          ELSE [exec EXCEPT !.pc = "return", !.orig = 0, !.left = 0, !.err = "unknown"]

VerifyFailsSilently ==
  /\ Running("vfail")
  /\ VerifyReturns
  /\ UNCHANGED <<run, att, steer, outside>>

\* The deferred function of verifyUnknownTool: FinishRun(unknown).
VerifyFails ==
  /\ Running("vfail")
  /\ run' = SetStatus(exec.run, "unknown")
  /\ VerifyReturns
  /\ UNCHANGED <<att, steer, outside>>

VerifyFinishLost ==
  /\ WritesMayFail /\ Running("vfail")
  /\ VerifyReturns
  /\ UNCHANGED <<run, att, steer, outside>>

----------------------------------------------------------------------------
(* The deferred function of process *)

Return ==
  /\ Running("return")
  /\ LET r == exec.run
         to == CASE exec.err = "unknown" -> "unknown"
                 [] exec.err \in {"limit", "context"} -> "limited"
                 [] OTHER -> "stopped"
     IN  IF run[r].status = "running" /\ exec.err # "ok"
         THEN /\ run' = Now(r, to, IF to = "limited" THEN exec.err ELSE "")
              /\ exec' = IF to = "limited" THEN [exec EXCEPT !.pc = "settle"] ELSE Idle
         ELSE UNCHANGED run /\ exec' = Idle
  /\ UNCHANGED <<att, steer, outside>>

\* FinishRun's error is ignored.
ReturnLost ==
  /\ WritesMayFail /\ Running("return")
  /\ exec' = Idle
  /\ UNCHANGED <<run, att, steer, outside>>

Settled == run' = [run EXCEPT ![exec.run].reason = "settled"]

\* settleLimited: a limit by budget with nothing pending or unresolved frees the
\* conversation, unless a command session of the conversation is busy.
Settle ==
  /\ Running("settle")
  /\ \/ /\ run[exec.run].reason = "limit"
        /\ Pending(exec.run) \cup UnresolvedOf(exec.run) = {}
        /\ Settled
     \/ UNCHANGED run
  /\ exec' = Idle
  /\ UNCHANGED <<att, steer, outside>>

----------------------------------------------------------------------------
(* The user, crashes and recovery *)

\* CancelConversation.
Cancel ==
  /\ up /\ exec.pc \notin {"idle", "return", "settle"} /\ ~exec.cancelled
  /\ exec' = [exec EXCEPT !.cancelled = TRUE]
  /\ UNCHANGED <<run, att, steer, outside>>

Ended(r) == run[r].status \in {"completed", "failed", "abandoned"}

\* acceptInput(steer) reads the target's status inside its transaction, under
\* inputMu but without locking the row.  A target that has ended is target_ended,
\* which no Run reads.
AcceptReads(r) ==
  /\ up /\ incoming = 0 /\ inputs < MaxInputs
  /\ run[r].status # "none" /\ ~Ended(r)
  /\ incoming' = r
  /\ inputs' = inputs + 1
  /\ UNCHANGED <<run, att, steer, exec, up, crashes>>

AcceptCommits ==
  /\ up /\ incoming # 0
  /\ steer' = [steer EXCEPT ![incoming] = @ + 1]
  /\ incoming' = 0
  /\ UNCHANGED <<run, att, exec, inputs, up, crashes>>

\* CancelInput of a pending steering input; both it and adoption take inputMu.
CancelSteer(r) ==
  /\ up /\ incoming = 0 /\ steer[r] > 0
  /\ steer' = [steer EXCEPT ![r] = @ - 1]
  /\ UNCHANGED <<run, att, exec, outside>>

Crash ==
  /\ up /\ crashes < MaxCrashes
  /\ up' = FALSE
  /\ crashes' = crashes + 1
  /\ exec' = Idle
  /\ incoming' = 0
  /\ UNCHANGED <<run, att, steer, inputs>>

\* Store.recover, one transaction on opening.
Recover ==
  /\ ~up
  /\ up' = TRUE
  /\ att' = [a \in Attempts |->
               IF att[a].status = "dispatched" THEN [att[a] EXCEPT !.status = "unknown"]
               ELSE att[a]]
  /\ run' = [r \in Runs |->
               IF run[r].status \notin {"none", "abandoned", "unknown"} /\ UnresolvedOf(r) # {}
               THEN [run[r] EXCEPT !.status = "unknown", !.reason = ""]
               ELSE IF run[r].status = "running" THEN [run[r] EXCEPT !.status = "stopped"]
               ELSE run[r]]
  /\ UNCHANGED <<steer, incoming, inputs, exec, crashes>>

----------------------------------------------------------------------------
ExecStep ==
  \/ LoopStops \/ LoopUnknown \/ LoopAdopts \/ LoopLists \/ NextCall \/ FinishCommand
  \/ ToolStops \/ ToolNotRun \/ ToolAwaits \/ ToolDispatch \/ ToolAnswers
  \/ \E applied \in BOOLEAN : ToolDecides(applied)
  \/ ToolUncertain \/ SettlementLost
  \/ DispatchRefused \/ Dispatch
  \/ \E k \in 0..MaxCalls : ModelAnswers(k)
  \/ ModelFails \/ ModelUncertain \/ Reserve
  \/ WaitCancelled \/ WaitFails \/ WaitUncompacted \/ WaitOver
  \/ VerifyRound \/ VerifyEnds \/ VerifyQuery \/ VerifyQueryRefused
  \/ VerifyResolves \/ VerifyInconclusive \/ VerifyFails \/ VerifyFinishLost
  \/ Return \/ ReturnLost \/ Settle

UserStep ==
  \/ \E r \in Runs, command \in BOOLEAN : Submit(r, command)
  \/ \E r, p \in Runs : Successor(r, p)
  \/ \E r \in Runs : Continue(r) \/ Abandon(r) \/ AcceptReads(r) \/ CancelSteer(r)
  \/ \E r \in Runs, applied \in BOOLEAN : ConfirmControl(r, applied)
  \/ AcceptCommits
  \/ Cancel

Next == ExecStep \/ UserStep \/ Crash \/ Recover

Spec == Init /\ [][Next]_vars

----------------------------------------------------------------------------
\* Type correctness; the bounds on number, reserved and rounds say that retries
\* and verification rounds stay within their limits whatever crashes.
TypeOK ==
  /\ run \in [Runs -> RunRecord]
  /\ att \in [Attempts -> AttemptRecord]
  /\ steer \in [Runs -> 0..MaxInputs]
  /\ incoming \in 0..MaxRuns
  /\ inputs \in 0..MaxInputs
  /\ exec \in ExecRecord
  /\ up \in BOOLEAN
  /\ crashes \in 0..MaxCrashes

\* The conversation has at most one active Run, so no write of FinishRun, Continue,
\* reserveModelRetry or recover ever fails on the index one_active_run (an Owner
\* whose recover fails cannot be opened).
OneActiveRun == \A q, r \in Runs : Active(q) /\ Active(r) => q = r

\* An unresolved call keeps its conversation occupied: unless the user abandoned
\* the Run, no Run with an unexplained call is outside the active set once its
\* executor has left it, so no later request can run beside it.
UnresolvedBlocks ==
  \A r \in Runs :
    up /\ exec.run # r /\ UnresolvedOf(r) # {} => Active(r) \/ run[r].status = "abandoned"

\* Nothing is dispatched past an unresolved call: every other unresolved Attempt of
\* the Run is the one this dispatch replaces or, for the read-only calls of a
\* verification, the operation being verified.
DispatchAllowed ==
  \A a \in Attempts :
    att[a].status # "dispatched" /\ att'[a].status = "dispatched" =>
      \A b \in Attempts \ {a} :
        att[b].run = att'[a].run /\ Unresolved(b) =>
          \/ att'[b].resolved = "replaced"
          \/ att'[a].purpose = "verify" /\ b = exec.orig

\* Attempts are facts: what was dispatched never becomes pending again, UNKNOWN is
\* never rewritten into a result (not by recovery, retry, verification or
\* abandonment), and a resolution is never withdrawn.
FactsKept ==
  \A a \in Attempts :
    /\ att[a].status = "unknown" => att'[a].status = "unknown"
    /\ att[a].status = "finished" => att'[a].status = "finished"
    /\ att[a].status = "dispatched" => att'[a].status \notin {"free", "pending"}
    /\ att[a].resolved # "no" => att'[a].resolved = att[a].resolved

\* An ended Run stays ended: completed and abandoned Runs keep their status
\* through every crash and recovery, a settled limit and an explained
\* failure that its executor has left can only be abandoned.
EndedKept ==
  \A r \in Runs :
    /\ run[r].status \in {"completed", "abandoned"} => run'[r].status = run[r].status
    /\ run[r].status = "limited" /\ run[r].reason = "settled" =>
         run'[r] = run[r] \/ run'[r].status = "abandoned"
    /\ run[r].status = "failed" /\ exec.run # r /\ UnresolvedOf(r) = {} =>
         run'[r].status \in {"failed", "abandoned"}

\* A Run ends with every announced tool call answered: the history of the next
\* request has no dangling call.
EndedIsAnswered ==
  \A r \in Runs :
    /\ up /\ exec.run # r
    /\ run[r].status \in {"completed", "failed"} \/ run[r].reason = "settled"
    => Pending(r) = {}

\* Retries form chains: a replaced Attempt has exactly one replacement, numbered
\* one higher under the same root, and nothing is numbered beyond what was durably
\* reserved before the wait.
RetryChain ==
  \A a \in Used :
    /\ att[a].resolved = "replaced" =>
         \E b \in Used : /\ b > a /\ att[b].run = att[a].run
                         /\ att[b].root = att[a].root /\ att[b].number = att[a].number + 1
    /\ att[a].number <= att[att[a].root].reserved
    /\ \A b \in Used : att[a].root = att[b].root /\ att[a].number = att[b].number => a = b

\* A verified operation is a tool call that stays recorded UNKNOWN and that a later
\* finished read of the same Run supports.
VerifiedByLaterRead ==
  \A a \in Used :
    att[a].resolved = "verified" =>
      att[a].kind = "tool" /\ att[a].status = "unknown" /\ Evidence(a) # {}

\* One successor for a settled limit, however often the user continues, and the
\* parent's calls are all explained.
SuccessorUnique ==
  \A q \in Runs :
    run[q].parent # 0 =>
      /\ \A r \in Runs : run[r].parent = run[q].parent => q = r
      /\ UnresolvedOf(run[q].parent) = {}

\* A Run is running only while an execution works on it: nobody sees a task that
\* claims to run and that no executor will ever finish.
RunningIsExecuted ==
  up => \A r \in Runs : run[r].status = "running" => exec.run = r

\* A Run says what became of it: one at a time is active and it is executed, no
\* unexplained call is left behind and every announced call is answered (store.go
\* FinishRun, recover, one_active_run; model_recovery.go; tool_verification.go).
RunHonest == TypeOK /\ OneActiveRun /\ UnresolvedBlocks /\ EndedIsAnswered /\ RunningIsExecuted

\* Nothing is dispatched past an unresolved call, no ended Run comes back and no
\* outcome is rewritten, by whatever user, executor, crash or recovery (store.go
\* startGuardedModel, startTool, FinishRun, recover).
RunFacts == [][DispatchAllowed /\ EndedKept /\ FactsKept]_vars

\* Retries, successors and verifications lead from one call or Run to the next.
RunChained == RetryChain /\ SuccessorUnique /\ VerifiedByLaterRead
=============================================================================
