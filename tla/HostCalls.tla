----------------------------- MODULE HostCalls -----------------------------
(***************************************************************************)
(* Calls that an extension makes through the Host API while a turn waits   *)
(* for it (internal/harness/extensions.go, service.go embed and generate,  *)
(* taskservice.go RunWorkflow, store.go startWorkflow and finishWorkflow). *)
(*                                                                         *)
(* A request of the extension runs in a goroutine of its own              *)
(* (mcpstdio.RPCClient), so several of them interleave with each other and *)
(* with the turn.  endInvocation cancels them and does not wait: a handler *)
(* may write its Attempt and its Run long after the turn went on.          *)
(*                                                                         *)
(* A "workflow" Run is RunWorkflow: the workflow Attempt, the extension's  *)
(* calls, the settlement.  A "chat" Run is one model step of process with  *)
(* an optional extension's context.prepare hook before it.  The retries,   *)
(* steering and tools of the turn's own calls are in RunLifecycle.         *)
(***************************************************************************)
EXTENDS Naturals, FiniteSets

CONSTANTS
  MaxRuns,       \* bound: Runs of the conversation
  MaxHostCalls,  \* bound: Attempts made through the Host API
  ModelRetries,  \* Config.ModelRetries
  MaxCrashes     \* bound: crashes of the Owner

ASSUME HostAssumption ==
  /\ MaxRuns \in Nat /\ MaxHostCalls \in Nat
  /\ ModelRetries \in Nat /\ MaxCrashes \in Nat

VARIABLES
  run,     \* fa.runs
  top,     \* top[r]: the workflow Attempt, or the model Attempt of a chat step
  call,    \* the Attempts made through the Host API, with their handlers
  exec,    \* the turn under the conversation's lease
  up,      \* an Owner is serving
  crashes

vars == <<run, top, call, exec, up, crashes>>
owner == <<up, crashes>>

Runs == 1..MaxRuns
Calls == 1..MaxHostCalls

RunRecord ==
  [mode : {"workflow", "chat"},
   status : {"none", "running", "stopped", "failed", "unknown", "completed", "abandoned"}]

\* pc is where the handler is: "checked" has found its invocation active, "none"
\* has returned.  resolved: attempt/replaced or attempt/verified exists.
CallRecord ==
  [run : 0..MaxRuns, kind : {"generate", "embed", "tool"},
   status : {"free", "pending", "dispatched", "finished", "unknown"},
   resolved : BOOLEAN, number : 0..ModelRetries,
   pc : {"none", "checked", "pending", "calling", "reserve", "wait", "verify", "verifying"}]

NoCall == [run |-> 0, kind |-> "generate", status |-> "free", resolved |-> FALSE,
           number |-> 0, pc |-> "none"]

\* result: how the extension's answer reached RunWorkflow, then the status that
\* RunWorkflow has decided to settle with.
ExecRecord ==
  [pc : {"idle", "start", "open", "invoked", "ended", "inspect", "finish", "main", "answer"},
   run : 0..MaxRuns,
   result : {"none", "completed", "failed", "unknown"}]

Idle == [pc |-> "idle", run |-> 0, result |-> "none"]

Init ==
  /\ run = [r \in Runs |-> [mode |-> "chat", status |-> "none"]]
  /\ top = [r \in Runs |-> "none"]
  /\ call = [c \in Calls |-> NoCall]
  /\ exec = Idle
  /\ up = TRUE
  /\ crashes = 0

----------------------------------------------------------------------------
\* The unique index one_active_run on a state runs of the table.
Occupies(status) == status \in {"running", "stopped", "unknown"}
Fits(runs) ==
  \A q, r \in Runs : Occupies(runs[q].status) /\ Occupies(runs[r].status) => q = r

SetStatus(r, s) == [run EXCEPT ![r].status = s]

UnresolvedCalls(r) ==
  {c \in Calls : /\ call[c].run = r /\ ~call[c].resolved
                 /\ call[c].status \in {"dispatched", "unknown"}}

Unresolved(r) == top[r] \in {"dispatched", "unknown"} \/ UnresolvedCalls(r) # {}

\* invocation.ctx: alive from beginInvocation to endInvocation.
Live(r) == exec.pc = "invoked" /\ exec.run = r

At(p) == up /\ exec.pc = p
Goto(p) == exec' = [exec EXCEPT !.pc = p]
Handler(c, p) == up /\ call[c].pc = p

----------------------------------------------------------------------------
(* The turn *)

\* CreateRun.
Begin(r, mode) ==
  /\ At("idle")
  /\ run[r].status = "none" /\ \A q \in Runs : q < r => run[q].status # "none"
  /\ \A q \in Runs : ~Occupies(run[q].status)
  /\ run' = [run EXCEPT ![r] = [mode |-> mode, status |-> "running"]]
  /\ exec' = [Idle EXCEPT !.pc = IF mode = "workflow" THEN "start" ELSE "open", !.run = r]
  /\ UNCHANGED <<top, call, owner>>

\* startWorkflow, or its failure: FinishRun(failed).
StartWorkflow ==
  /\ At("start")
  /\ \/ /\ top' = [top EXCEPT ![exec.run] = "dispatched"]
        /\ Goto("open")
        /\ UNCHANGED run
     \/ /\ run' = SetStatus(exec.run, "failed")
        /\ exec' = Idle
        /\ UNCHANGED top
  /\ UNCHANGED <<call, owner>>

\* beginInvocation, or an error before it: a certain failure of a workflow, and
\* one that an optional extension's hook swallows.
OpenInvocation ==
  /\ At("open")
  /\ \/ Goto("invoked")
     \/ exec' = IF run[exec.run].mode = "workflow"
                THEN [exec EXCEPT !.pc = "ended", !.result = "failed"]
                ELSE [exec EXCEPT !.pc = "main"]
  /\ UNCHANGED <<run, top, call, owner>>

\* The extension answers, fails or times out; endInvocation.  A workflow answers
\* with output whatever became of its own calls; an error is uncertain or, when
\* workflowOutcomeUnknown does not know it, a failure.
EndInvocation ==
  /\ At("invoked")
  /\ IF run[exec.run].mode = "workflow"
     THEN \E s \in {"completed", "unknown", "failed"} :
            exec' = [exec EXCEPT !.pc = "ended", !.result = s]
     ELSE Goto("main")
  /\ UNCHANGED <<run, top, call, owner>>

\* RunWorkflow loads the Run: a persisted UNKNOWN, or a failed read, dominates the
\* output.
InspectRun ==
  /\ At("ended")
  /\ \/ exec' = [exec EXCEPT !.pc = "finish", !.result = "unknown"]
     \/ run[exec.run].status # "unknown" /\ exec' = [exec EXCEPT !.pc = "inspect"]
  /\ UNCHANGED <<run, top, call, owner>>

InspectNothing ==
  /\ At("inspect")
  /\ Goto("finish")
  /\ UNCHANGED <<run, top, call, owner>>

\* Then its Attempts: so does an unresolved operation, or a failed read.
InspectCalls ==
  /\ At("inspect")
  /\ \/ exec' = [exec EXCEPT !.pc = "finish", !.result = "unknown"]
     \/ UnresolvedCalls(exec.run) = {} /\ Goto("finish")
  /\ UNCHANGED <<run, top, call, owner>>

\* finishWorkflowUnknown, or finishWorkflow, which refuses a Run that is not
\* running; a refusal rolls both rows back and RunWorkflow returns.
FinishWorkflow ==
  /\ At("finish")
  /\ LET r == exec.run
         may == IF exec.result = "unknown" THEN {"running", "stopped", "unknown"} ELSE {"running"}
     IN  IF top[r] = "dispatched" /\ run[r].status \in may
         THEN /\ top' = [top EXCEPT ![r] = IF exec.result = "unknown" THEN "unknown" ELSE "finished"]
              /\ run' = SetStatus(r, exec.result)
         ELSE UNCHANGED <<run, top>>
  /\ exec' = Idle
  /\ UNCHANGED <<call, owner>>

\* startGuardedModel of the turn's own step: incrementStep wants a running Run.
\* Otherwise process returns; its deferred function touches a running Run only.
MainDispatch ==
  /\ At("main")
  /\ IF run[exec.run].status = "running"
     THEN top' = [top EXCEPT ![exec.run] = "dispatched"] /\ Goto("answer")
     ELSE exec' = Idle /\ UNCHANGED top
  /\ UNCHANGED <<run, call, owner>>

MainStops ==
  /\ At("main") /\ run[exec.run].status = "running"
  /\ run' = SetStatus(exec.run, "stopped")
  /\ exec' = Idle
  /\ UNCHANGED <<top, call, owner>>

\* saveGuardedModel, failModel and markUnknown write the Run unconditionally.
MainAnswers ==
  /\ At("answer")
  /\ \E o \in {<<"finished", "completed">>, <<"finished", "failed">>, <<"unknown", "unknown">>} :
       /\ top' = [top EXCEPT ![exec.run] = o[1]]
       /\ run' = SetStatus(exec.run, o[2])
  /\ exec' = Idle
  /\ UNCHANGED <<call, owner>>

\* Store.Abandon.
Abandon(r) ==
  /\ At("idle")
  /\ run[r].status \notin {"none", "completed", "abandoned"}
  /\ top[r] # "dispatched"
  /\ \A c \in Calls : call[c].run = r => call[c].status # "dispatched"
  /\ call' = [c \in Calls |->
                IF call[c].run = r /\ call[c].status = "pending"
                THEN [call[c] EXCEPT !.status = "finished"] ELSE call[c]]
  /\ run' = SetStatus(r, "abandoned")
  /\ UNCHANGED <<top, exec, owner>>

----------------------------------------------------------------------------
(* The handlers.  Their transactions use invocation.ctx, so they need it      *)
(* alive, except the settlements of generate and of tools, which use          *)
(* persistCtx.                                                                *)

\* The Attempt's status and where the handler goes on.
Settle(c, status, p) == [call EXCEPT ![c].status = status, ![c].pc = p]
Continue(c, p) == [call EXCEPT ![c].pc = p]

Persists(c) == call[c].kind # "embed" \/ Live(call[c].run)

\* handleHostRequest looks the invocation up.
Request(c, kind) ==
  /\ At("invoked") /\ call[c] = NoCall
  /\ \A d \in Calls : d < c => call[d] # NoCall
  /\ call' = [call EXCEPT ![c] = [NoCall EXCEPT !.run = exec.run, !.kind = kind, !.pc = "checked"]]
  /\ UNCHANGED <<run, top, exec, owner>>

\* startGuardedModel, or startTool.
StartCall(c) ==
  /\ Handler(c, "checked") /\ Live(call[c].run) /\ run[call[c].run].status = "running"
  /\ call' = IF call[c].kind = "tool" THEN Settle(c, "pending", "pending")
             ELSE Settle(c, "dispatched", "calling")
  /\ UNCHANGED <<run, top, exec, owner>>

\* executeToolWithContext: dispatchGuardedTool.
DispatchTool(c) ==
  /\ Handler(c, "pending") /\ Live(call[c].run) /\ run[call[c].run].status = "running"
  /\ call[c].status = "pending"
  /\ call' = Settle(c, "dispatched", "calling")
  /\ UNCHANGED <<run, top, exec, owner>>

\* A call that needs an approval nobody can give, or that is denied.
RejectTool(c) ==
  /\ Handler(c, "pending") /\ Live(call[c].run) /\ call[c].status = "pending"
  /\ call' = Settle(c, "finished", "none")
  /\ UNCHANGED <<run, top, exec, owner>>

\* A cancelled context, a Run that is not running, configuration, budget.
GiveUp(c) ==
  /\ up /\ call[c].pc \in {"checked", "pending", "reserve", "wait"}
  /\ call' = Continue(c, "none")
  /\ UNCHANGED <<run, top, exec, owner>>

Answered(c) ==
  /\ Handler(c, "calling") /\ Persists(c)
  /\ call' = Settle(c, "finished", "none")
  /\ UNCHANGED <<run, top, exec, owner>>

\* canRetryModel: only generate retries, only while its context lives.
AfterFailure(c) ==
  {"none"} \cup (IF call[c].kind = "generate" /\ Live(call[c].run) /\ call[c].number < ModelRetries
                 THEN {"reserve"} ELSE {})

\* failModel: the Run fails, whatever it was.
Failed(c) ==
  /\ Handler(c, "calling") /\ call[c].kind # "tool" /\ Persists(c)
  /\ \E p \in AfterFailure(c) : call' = Settle(c, "finished", p)
  /\ run' = SetStatus(call[c].run, "failed")
  /\ UNCHANGED <<top, exec, owner>>

\* markUnknown: one transaction, so a conversation that another Run occupies
\* refuses it as a whole.
Uncertain(c) ==
  /\ Handler(c, "calling") /\ Persists(c)
  /\ Fits(SetStatus(call[c].run, "unknown"))
  /\ \E p \in AfterFailure(c) \cup (IF call[c].kind = "tool" THEN {"verify"} ELSE {}) :
       call' = Settle(c, "unknown", p)
  /\ run' = SetStatus(call[c].run, "unknown")
  /\ UNCHANGED <<top, exec, owner>>

\* The settlement is refused: the Attempt stays dispatched.
SettlementLost(c) ==
  /\ Handler(c, "calling")
  /\ ~Persists(c) \/ ~Fits(SetStatus(call[c].run, "unknown"))
  /\ call' = Continue(c, "none")
  /\ UNCHANGED <<run, top, exec, owner>>

\* reserveModelRetry makes the Run running again, whatever made it fail.
ReserveRetry(c) ==
  /\ Handler(c, "reserve") /\ Live(call[c].run)
  /\ run[call[c].run].status \in {"failed", "unknown", "running"}
  /\ run' = SetStatus(call[c].run, "running")
  /\ call' = Continue(c, "wait")
  /\ UNCHANGED <<top, exec, owner>>

\* startGuardedModel with recordModelReplacement.
Retry(c, d) ==
  /\ Handler(c, "wait") /\ Live(call[c].run) /\ run[call[c].run].status = "running"
  /\ call[d] = NoCall /\ \A e \in Calls : e < d => call[e] # NoCall
  /\ call' = [call EXCEPT ![c].resolved = TRUE, ![c].pc = "none",
                          ![d] = [NoCall EXCEPT !.run = call[c].run, !.status = "dispatched",
                                                !.number = call[c].number + 1, !.pc = "calling"]]
  /\ UNCHANGED <<run, top, exec, owner>>

\* verifyUnknownTool: reserveToolVerification, then the decision.
VerifyTool(c) ==
  /\ Handler(c, "verify") /\ Live(call[c].run)
  /\ run' = IF run[call[c].run].status \in {"running", "unknown"}
            THEN SetStatus(call[c].run, "running") ELSE run
  /\ call' = Continue(c, "verifying")
  /\ UNCHANGED <<top, exec, owner>>

ToolVerified(c) ==
  /\ Handler(c, "verifying") /\ Live(call[c].run)
  /\ call' = [call EXCEPT ![c].resolved = TRUE, ![c].pc = "none"]
  /\ UNCHANGED <<run, top, exec, owner>>

\* FinishRun(unknown) of its deferred function, whose error is ignored.
VerifyFailed(c) ==
  /\ up /\ call[c].pc \in {"verify", "verifying"}
  /\ LET marked == SetStatus(call[c].run, "unknown")
     IN  run' = IF Fits(marked) THEN marked ELSE run
  /\ call' = Continue(c, "none")
  /\ UNCHANGED <<top, exec, owner>>

----------------------------------------------------------------------------
(* Crash and recovery *)

Crash ==
  /\ up /\ crashes < MaxCrashes
  /\ up' = FALSE /\ crashes' = crashes + 1
  /\ exec' = Idle
  /\ call' = [c \in Calls |-> IF call[c].status = "free" THEN NoCall
                              ELSE [call[c] EXCEPT !.pc = "none"]]
  /\ UNCHANGED <<run, top>>

Recovered ==
  [r \in Runs |->
     IF run[r].status \notin {"none", "abandoned", "unknown"} /\ Unresolved(r)
     THEN [run[r] EXCEPT !.status = "unknown"]
     ELSE IF run[r].status = "running" THEN [run[r] EXCEPT !.status = "stopped"]
     ELSE run[r]]

RecoverReplaying ==
  /\ ~up /\ Fits(Recovered)
  /\ up' = TRUE
  /\ run' = Recovered
  /\ top' = [r \in Runs |-> IF top[r] = "dispatched" THEN "unknown" ELSE top[r]]
  /\ call' = [c \in Calls |-> IF call[c].status = "dispatched"
                              THEN [call[c] EXCEPT !.status = "pending"] ELSE call[c]]
  /\ UNCHANGED <<exec, crashes>>

\* Store.recover; an Owner whose recover breaks the index does not open.
Recover ==
  /\ ~up /\ Fits(Recovered)
  /\ up' = TRUE
  /\ run' = Recovered
  /\ top' = [r \in Runs |-> IF top[r] = "dispatched" THEN "unknown" ELSE top[r]]
  /\ call' = [c \in Calls |-> IF call[c].status = "dispatched"
                              THEN [call[c] EXCEPT !.status = "unknown"] ELSE call[c]]
  /\ UNCHANGED <<exec, crashes>>

----------------------------------------------------------------------------
TurnStep ==
  \/ StartWorkflow \/ OpenInvocation \/ EndInvocation \/ InspectRun \/ InspectCalls
  \/ FinishWorkflow \/ MainDispatch \/ MainStops \/ MainAnswers

HandlerStep(c) ==
  \/ StartCall(c) \/ DispatchTool(c) \/ RejectTool(c) \/ GiveUp(c)
  \/ Answered(c) \/ Failed(c) \/ Uncertain(c) \/ SettlementLost(c)
  \/ ReserveRetry(c) \/ VerifyTool(c) \/ ToolVerified(c) \/ VerifyFailed(c)
  \/ \E d \in Calls : Retry(c, d)

Next ==
  \/ TurnStep
  \/ \E c \in Calls : HandlerStep(c)
  \/ \E c \in Calls, kind \in {"generate", "embed", "tool"} : Request(c, kind)
  \/ \E r \in Runs, mode \in {"workflow", "chat"} : Begin(r, mode)
  \/ \E r \in Runs : Abandon(r)
  \/ Crash \/ Recover

Spec == Init /\ [][Next]_vars

----------------------------------------------------------------------------
\* Type correctness.
TypeOK ==
  /\ run \in [Runs -> RunRecord]
  /\ top \in [Runs -> {"none", "dispatched", "finished", "unknown"}]
  /\ call \in [Calls -> CallRecord]
  /\ exec \in ExecRecord
  /\ up \in BOOLEAN
  /\ crashes \in 0..MaxCrashes

\* A workflow is presented as completed only when every operation it asked the
\* Host for is explained, also when it swallowed the error, answered before its
\* own calls returned, or had an UNKNOWN hidden by the retry of a parallel call
\* (the two inspections of RunWorkflow).
WorkflowHonest ==
  /\ TypeOK
  /\ \A r \in Runs :
       run[r].mode = "workflow" /\ run[r].status = "completed" =>
         top[r] = "finished" /\ UnresolvedCalls(r) = {}

\* Attempts are facts: no handler, however late, and no recovery turns UNKNOWN or a
\* result into something else or un-dispatches a call.
CallsAreFacts ==
  /\ \A c \in Calls :
       /\ call[c].status \in {"unknown", "finished"} => call'[c].status = call[c].status
       /\ call[c].status = "dispatched" => call'[c].status \notin {"free", "pending"}
       /\ call[c].resolved => call'[c].resolved
  /\ \A r \in Runs : top[r] \in {"unknown", "finished"} => top'[r] = top[r]
=============================================================================
