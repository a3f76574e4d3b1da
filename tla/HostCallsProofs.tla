--------------------------- MODULE HostCallsProofs --------------------------
(***************************************************************************)
(* What becomes of an extension, for any number of Runs, calls, settings,  *)
(* processes, faults and crashes: a completed workflow has explained its   *)
(* calls and an Attempt, once settled, is never rewritten (HostCalls); a   *)
(* change of its state is sent once and recorded as it happened            *)
(* (ExtensionState); one process of it lives and its hooks share one budget*)
(* (ExtensionHost); every call on the connection returns once              *)
(* (StdioClient).  The components do not share state; each has its own     *)
(* inductive invariant, told where it is defined.                          *)
(*                                                                         *)
(* The first is about calls.  Handlers outlive their invocation, but only a*)
(* live invocation dispatches: once RunWorkflow has found every call of its*)
(* Run explained, those that still have a handler can no longer become     *)
(* uncertain.                                                              *)
(***************************************************************************)
EXTENDS MCHost, FiniteSetTheorems, TLAPS

\* What an Attempt can be while its handler is there.
Shape(v) ==
  /\ v.pc = "checked" => v.status = "free"
  /\ v.pc = "pending" => v.status \in {"pending", "finished"}
  /\ v.pc = "calling" => v.status = "dispatched"
  /\ v.pc \in {"reserve", "wait"} => v.status \in {"finished", "unknown"} /\ v.number < ModelRetries
  /\ v.pc \in {"verify", "verifying"} => v.status = "unknown"
  /\ v.resolved => v.status \in {"finished", "unknown"}
Begun(r) == r \in Runs /\ run[r].status # "none"
CallsOK == \A c \in Calls : /\ Shape(call[c])
                            /\ call[c].pc # "none" \/ call[c].status # "free" => Begun(call[c].run)

\* The turn works on a Run that has not completed, and whose own Attempt is where
\* the turn has brought it.
TurnOK ==
  /\ exec.pc # "idle" => exec.run \in Runs /\ run[exec.run].status \notin {"none", "completed"}
  /\ exec.pc \in {"start", "ended", "inspect", "finish"} => run[exec.run].mode = "workflow"
  /\ exec.pc \in {"ended", "inspect", "finish"} => exec.result # "none"
  /\ exec.pc \in {"main", "answer"} => run[exec.run].mode = "chat"
  /\ exec.pc \in {"start", "main"} => top[exec.run] = "none"
  /\ exec.pc \in {"open", "invoked"} /\ run[exec.run].mode = "chat" => top[exec.run] = "none"
  /\ exec.pc = "answer" => top[exec.run] = "dispatched"
  /\ exec.pc = "finish" /\ exec.result = "completed" => UnresolvedCalls(exec.run) = {}
  /\ ~up => exec.pc = "idle" /\ \A c \in Calls : call[c].pc = "none"
  /\ \A r \in Runs : run[r].status = "none" => top[r] = "none"

Inv == CallsOK /\ TurnOK /\ WorkflowHonest

-----------------------------------------------------------------------------
(* Records *)

Statuses == {"none", "running", "stopped", "failed", "unknown", "completed", "abandoned"}
CallStatuses == {"free", "pending", "dispatched", "finished", "unknown"}
Places == {"none", "checked", "pending", "calling", "reserve", "wait", "verify", "verifying"}

\* Nothing is unmade, and no Run completes.
RunsKept ==
  /\ run' \in [Runs -> RunRecord]
  /\ \A r \in Runs : /\ run'[r].mode = run[r].mode
                     /\ run'[r].status = "none" <=> run[r].status = "none"
                     /\ run'[r].status = "completed" => run[r].status = "completed"

LEMMA StatusSet ==
  ASSUME TypeOK, NEW r \in Runs, NEW s \in Statuses, run' = SetStatus(r, s)
  PROVE  /\ run' \in [Runs -> RunRecord]
         /\ \A q \in Runs : run'[q].mode = run[q].mode
         /\ run'[r].status = s /\ \A q \in Runs : q # r => run'[q] = run[q]
<1>1. run[r] \in RunRecord
  BY DEF TypeOK
<1>2. [run[r] EXCEPT !.status = s] \in RunRecord
  BY <1>1 DEF RunRecord, Statuses
<1>3. run' = [run EXCEPT ![r] = [run[r] EXCEPT !.status = s]]
  BY DEF SetStatus
<1>4. [run[r] EXCEPT !.status = s].mode = run[r].mode /\ [run[r] EXCEPT !.status = s].status = s
  BY <1>1 DEF RunRecord
<1>5. QED
  BY <1>2, <1>3, <1>4 DEF TypeOK

LEMMA RunsKeptBy ==
  ASSUME TypeOK, NEW r \in Runs, run[r].status # "none", NEW s \in Statuses \ {"none", "completed"},
         run' = SetStatus(r, s)
  PROVE  RunsKept
BY StatusSet DEF RunsKept

Settled(v, s, p) == [v EXCEPT !.status = s, !.pc = p]
Continued(v, p) == [v EXCEPT !.pc = p]

LEMMA CallSettle ==
  ASSUME NEW v \in CallRecord, NEW s \in CallStatuses, NEW p \in Places
  PROVE  /\ Settled(v, s, p) \in CallRecord
         /\ Settled(v, s, p).status = s /\ Settled(v, s, p).pc = p /\ Settled(v, s, p).run = v.run
         /\ Settled(v, s, p).resolved = v.resolved /\ Settled(v, s, p).number = v.number
BY DEF Settled, CallRecord, CallStatuses, Places

LEMMA CallContinue ==
  ASSUME NEW v \in CallRecord, NEW p \in Places
  PROVE  /\ Continued(v, p) \in CallRecord
         /\ Continued(v, p).status = v.status /\ Continued(v, p).pc = p /\ Continued(v, p).run = v.run
         /\ Continued(v, p).resolved = v.resolved /\ Continued(v, p).number = v.number
BY DEF Continued, CallRecord, Places

Resolved(v) == [v EXCEPT !.resolved = TRUE, !.pc = "none"]
Requested(r, k) == [NoCall EXCEPT !.run = r, !.kind = k, !.pc = "checked"]
Retried(r, n) == [NoCall EXCEPT !.run = r, !.status = "dispatched", !.number = n, !.pc = "calling"]

LEMMA CallResolved ==
  ASSUME NEW v \in CallRecord
  PROVE  /\ Resolved(v) \in CallRecord /\ Resolved(v).status = v.status /\ Resolved(v).pc = "none"
         /\ Resolved(v).run = v.run /\ Resolved(v).resolved
BY DEF Resolved, CallRecord

LEMMA CallRequested ==
  ASSUME HostAssumption, NEW r \in Runs, NEW k \in {"generate", "embed", "tool"}
  PROVE  /\ Requested(r, k) \in CallRecord /\ Requested(r, k).status = "free"
         /\ Requested(r, k).pc = "checked" /\ Requested(r, k).run = r /\ Requested(r, k).resolved = FALSE
<1>1. r \in 0..MaxRuns /\ 0 \in 0..ModelRetries
  BY DEF Runs, HostAssumption
<1>2. QED
  BY <1>1 DEF Requested, NoCall, CallRecord

LEMMA CallRetried ==
  ASSUME HostAssumption, NEW r \in Runs, NEW n \in 0..ModelRetries
  PROVE  /\ Retried(r, n) \in CallRecord /\ Retried(r, n).status = "dispatched"
         /\ Retried(r, n).pc = "calling" /\ Retried(r, n).run = r /\ Retried(r, n).resolved = FALSE
<1>1. r \in 0..MaxRuns
  BY DEF Runs, HostAssumption
<1>2. QED
  BY <1>1 DEF Retried, NoCall, CallRecord

-----------------------------------------------------------------------------
(* Handlers *)

Open(v) == ~v.resolved /\ v.status \in {"dispatched", "unknown"}

\* What a step may do to an Attempt: it moves on, and only a live invocation opens one.
Moves(u, v) ==
  \/ u = v
  \/ /\ Shape(v) /\ Begun(v.run)
     /\ u.status \in {"unknown", "finished"} => v.status = u.status
     /\ u.status = "dispatched" => v.status \notin {"free", "pending"}
     /\ u.resolved => v.resolved
     /\ Open(v) => (u.run = v.run /\ Open(u)) \/ Live(v.run)

LEMMA Unresolves ==
  ASSUME NEW r
  PROVE  UnresolvedCalls(r) = {} <=> \A c \in Calls : call[c].run = r => ~Open(call[c])
BY DEF UnresolvedCalls, Open

LEMMA HandlerInv ==
  ASSUME Inv, up, call' \in [Calls -> CallRecord], \A c \in Calls : Moves(call[c], call'[c]),
         RunsKept, UNCHANGED <<top, exec, owner>>
  PROVE  Inv' /\ CallsAreFacts
<1>1. CallsAreFacts
  BY DEF Moves, CallsAreFacts
<1>2. CallsOK'
  <2>1. \A r : Begun(r) => Begun(r)'
    BY DEF Begun, RunsKept
  <2>2. QED
    BY <2>1 DEF Moves, Inv, CallsOK, Shape
<1>3. ASSUME NEW r \in Runs, UnresolvedCalls(r) = {}, ~Live(r) PROVE UnresolvedCalls(r)' = {}
  <2>1. \A c \in Calls : call[c].run = r => ~Open(call[c])
    BY <1>3, Unresolves
  <2>2. \A c \in Calls : call'[c].run = r => ~Open(call'[c])
    BY <1>3, <2>1 DEF Moves
  <2>3. QED
    BY <2>2 DEF UnresolvedCalls, Open
<1>4. TurnOK'
  <2>1. exec.pc # "idle" => exec.run \in Runs /\ run[exec.run].status \notin {"none", "completed"}
    BY DEF Inv, TurnOK
  <2>2. exec.pc = "finish" /\ exec.result = "completed" => UnresolvedCalls(exec.run)' = {}
    BY <1>3, <2>1 DEF Inv, TurnOK, Live
  <2>3. QED
    BY <2>1, <2>2 DEF Inv, TurnOK, RunsKept, owner
<1>5. TypeOK'
  BY DEF Inv, WorkflowHonest, TypeOK, RunsKept, owner
<1>6. ASSUME NEW r \in Runs, run'[r].mode = "workflow" /\ run'[r].status = "completed"
      PROVE  top[r] = "finished" /\ UnresolvedCalls(r)' = {}
  <2>1. run[r].mode = "workflow" /\ run[r].status = "completed"
    BY <1>6 DEF RunsKept
  <2>2. ~Live(r)
    BY <2>1 DEF Live, Inv, TurnOK
  <2>3. QED
    BY <1>3, <2>1, <2>2 DEF Inv, WorkflowHonest
<1>7. QED
  BY <1>1, <1>2, <1>4, <1>5, <1>6 DEF Inv, WorkflowHonest

\* A handler that settles its Attempt, or goes on.
LEMMA SettleStep ==
  ASSUME Inv, up, NEW c \in Calls, NEW s \in CallStatuses, NEW p \in Places, call' = Settle(c, s, p),
         \A v : /\ v.status = s /\ v.pc = p /\ v.run = call[c].run
                /\ v.resolved = call[c].resolved /\ v.number = call[c].number
                => Moves(call[c], v),
         RunsKept, UNCHANGED <<top, exec, owner>>
  PROVE  Inv' /\ CallsAreFacts
<1> DEFINE v == Settled(call[c], s, p)
<1>1. call' = [call EXCEPT ![c] = v]
  BY DEF Settle, Settled
<1>2. call[c] \in CallRecord
  BY DEF Inv, WorkflowHonest, TypeOK
<1>3. /\ v \in CallRecord /\ v.status = s /\ v.pc = p /\ v.run = call[c].run
      /\ v.resolved = call[c].resolved /\ v.number = call[c].number
  BY <1>2, CallSettle
<1> HIDE DEF v
<1>4. Moves(call[c], v)
  BY <1>3
<1>5. call' \in [Calls -> CallRecord] /\ call'[c] = v /\ \A e \in Calls : e # c => call'[e] = call[e]
  BY <1>1, <1>3 DEF Inv, WorkflowHonest, TypeOK
<1>6. \A e \in Calls : Moves(call[e], call'[e])
  BY <1>4, <1>5 DEF Moves
<1>7. QED
  BY <1>5, <1>6, HandlerInv

LEMMA ContinueStep ==
  ASSUME Inv, up, NEW c \in Calls, NEW p \in Places, call' = Continue(c, p),
         \A v : /\ v.status = call[c].status /\ v.pc = p /\ v.run = call[c].run
                /\ v.resolved = call[c].resolved /\ v.number = call[c].number
                => Moves(call[c], v),
         RunsKept, UNCHANGED <<top, exec, owner>>
  PROVE  Inv' /\ CallsAreFacts
<1> DEFINE v == Continued(call[c], p)
<1>1. call' = [call EXCEPT ![c] = v]
  BY DEF Continue, Continued
<1>2. call[c] \in CallRecord
  BY DEF Inv, WorkflowHonest, TypeOK
<1>3. /\ v \in CallRecord /\ v.status = call[c].status /\ v.pc = p /\ v.run = call[c].run
      /\ v.resolved = call[c].resolved /\ v.number = call[c].number
  BY <1>2, CallContinue
<1> HIDE DEF v
<1>4. Moves(call[c], v)
  BY <1>3
<1>5. call' \in [Calls -> CallRecord] /\ call'[c] = v /\ \A e \in Calls : e # c => call'[e] = call[e]
  BY <1>1, <1>3 DEF Inv, WorkflowHonest, TypeOK
<1>6. \A e \in Calls : Moves(call[e], call'[e])
  BY <1>4, <1>5 DEF Moves
<1>7. QED
  BY <1>5, <1>6, HandlerInv

LEMMA HandlerSteps ==
  ASSUME HostAssumption, Inv, NEW c \in Calls, HandlerStep(c)
  PROVE  Inv' /\ CallsAreFacts
<1> USE DEF CallStatuses, Places
<1>0. up
  BY DEF HandlerStep, StartCall, DispatchTool, RejectTool, GiveUp, Answered, Failed, Uncertain, SettlementLost,
         ReserveRetry, VerifyTool, ToolVerified, VerifyFailed, Retry, Handler
<1>1. up /\ TypeOK /\ Shape(call[c]) /\ (call[c].pc # "none" => Begun(call[c].run))
  <2>1. TypeOK
    BY DEF Inv, WorkflowHonest
  <2>2. Shape(call[c])
    BY DEF Inv, CallsOK
  <2>3. call[c].pc # "none" => Begun(call[c].run)
    BY DEF Inv, CallsOK
  <2>4. QED
    BY <1>0, <2>1, <2>2, <2>3
<1>2. run' = run => RunsKept
  BY <1>1 DEF RunsKept, TypeOK
<1>3. CASE StartCall(c)
  BY <1>1, <1>2, <1>3, SettleStep, SMTT(30) DEF StartCall, Handler, Moves, Shape, Open
<1>4. CASE DispatchTool(c)
  BY <1>1, <1>2, <1>4, SettleStep DEF DispatchTool, Handler, Moves, Shape, Open
<1>5. CASE RejectTool(c)
  BY <1>1, <1>2, <1>5, SettleStep DEF RejectTool, Handler, Moves, Shape, Open
<1>6. CASE GiveUp(c)
  BY <1>1, <1>2, <1>6, ContinueStep DEF GiveUp, Moves, Shape, Open
<1>7. CASE Answered(c)
  BY <1>1, <1>2, <1>7, SettleStep DEF Answered, Handler, Moves, Shape, Open
<1>8. CASE Failed(c)
  <2>1. RunsKept
    BY <1>1, <1>8, RunsKeptBy DEF Failed, Handler, Begun, Statuses
  <2>2. PICK p \in {"none", "reserve"} : /\ call' = Settle(c, "finished", p)
                                         /\ p = "reserve" => call[c].number < ModelRetries
    BY <1>8 DEF Failed, AfterFailure
  <2>3. QED
    BY <1>1, <1>8, <2>1, <2>2, SettleStep DEF Failed, Handler, Moves, Shape, Open
<1>9. CASE Uncertain(c)
  <2>1. RunsKept
    BY <1>1, <1>9, RunsKeptBy DEF Uncertain, Handler, Begun, Statuses
  <2>2. PICK p \in {"none", "reserve", "verify"} : /\ call' = Settle(c, "unknown", p)
                                                   /\ p = "reserve" => call[c].number < ModelRetries
    BY <1>9 DEF Uncertain, AfterFailure
  <2>3. QED
    BY <1>1, <1>9, <2>1, <2>2, SettleStep DEF Uncertain, Handler, Moves, Shape, Open
<1>10. CASE SettlementLost(c)
  BY <1>1, <1>2, <1>10, ContinueStep DEF SettlementLost, Handler, Moves, Shape, Open
<1>11. CASE ReserveRetry(c)
  <2>1. RunsKept
    BY <1>1, <1>11, RunsKeptBy DEF ReserveRetry, Handler, Begun, Statuses
  <2>2. QED
    BY <1>1, <1>11, <2>1, ContinueStep DEF ReserveRetry, Handler, Moves, Shape, Open
<1>12. CASE VerifyTool(c)
  <2>1. RunsKept
    BY <1>1, <1>2, <1>12, RunsKeptBy DEF VerifyTool, Handler, Begun, Statuses
  <2>2. QED
    BY <1>1, <1>12, <2>1, ContinueStep DEF VerifyTool, Handler, Moves, Shape, Open
<1>13. CASE ToolVerified(c)
  <2> DEFINE v == Resolved(call[c])
  <2>1. call' = [call EXCEPT ![c] = v] /\ run' = run /\ UNCHANGED <<top, exec, owner>>
    BY <1>13 DEF ToolVerified, Resolved
  <2>2. v \in CallRecord /\ v.status = call[c].status /\ v.pc = "none" /\ v.run = call[c].run /\ v.resolved
    <3>1. call[c] \in CallRecord
      BY <1>1 DEF TypeOK
    <3>2. QED
      BY <3>1, CallResolved
  <2> HIDE DEF v
  <2>3. Moves(call[c], v)
    BY <1>1, <1>13, <2>2 DEF ToolVerified, Handler, Moves, Shape, Open
  <2>4. call' \in [Calls -> CallRecord] /\ \A e \in Calls : call'[e] = IF e = c THEN v ELSE call[e]
    BY <1>1, <2>1, <2>2 DEF TypeOK
  <2>5. \A e \in Calls : Moves(call[e], call'[e])
    BY <2>3, <2>4 DEF Moves
  <2>6. QED
    BY <1>0, <1>2, <2>1, <2>4, <2>5, HandlerInv
<1>14. CASE VerifyFailed(c)
  <2>1. RunsKept
    BY <1>1, <1>2, <1>14, RunsKeptBy DEF VerifyFailed, Begun, Statuses
  <2>2. QED
    BY <1>1, <1>14, <2>1, ContinueStep DEF VerifyFailed, Moves, Shape, Open
<1>15. ASSUME NEW d \in Calls, Retry(c, d) PROVE Inv' /\ CallsAreFacts
  <2> DEFINE v == Resolved(call[c])
             w == Retried(call[c].run, call[c].number + 1)
  <2>1. call' = [call EXCEPT ![c] = v, ![d] = w] /\ run' = run /\ UNCHANGED <<top, exec, owner>>
    BY <1>15 DEF Retry, Resolved, Retried
  <2>2. /\ call[c].pc = "wait" /\ call[d] = NoCall /\ Live(call[c].run) /\ c # d
        /\ call[c] \in CallRecord /\ call[c].run \in Runs /\ Begun(call[c].run)
    BY <1>1, <1>15 DEF Retry, Handler, NoCall, Begun, TypeOK
  <2>3. call[c].number + 1 \in 0..ModelRetries
    <3>1. call[c].number \in 0..ModelRetries
      BY <2>2 DEF CallRecord
    <3>2. QED
      BY <1>1, <2>2, <3>1 DEF Shape, HostAssumption
  <2>4. v \in CallRecord /\ v.status = call[c].status /\ v.pc = "none" /\ v.run = call[c].run /\ v.resolved
    BY <2>2, CallResolved
  <2>5. /\ w \in CallRecord /\ w.status = "dispatched" /\ w.pc = "calling" /\ w.run = call[c].run
        /\ w.resolved = FALSE
    BY <2>2, <2>3, CallRetried
  <2>6. call[d].status = "free" /\ call[d].resolved = FALSE
    BY <2>2 DEF NoCall
  <2> HIDE DEF v, w
  <2>7. /\ call' \in [Calls -> CallRecord] /\ call'[c] = v /\ call'[d] = w
        /\ \A e \in Calls : e # c /\ e # d => call'[e] = call[e]
    BY <1>1, <2>1, <2>2, <2>4, <2>5 DEF TypeOK
  <2>8. Moves(call[c], v) /\ Moves(call[d], w)
    BY <1>1, <2>2, <2>4, <2>5, <2>6 DEF Moves, Shape, Open
  <2>9. \A e \in Calls : Moves(call[e], call'[e])
    BY <2>7, <2>8 DEF Moves
  <2>10. QED
    BY <1>0, <1>2, <2>1, <2>7, <2>9, HandlerInv
<1>16. QED
  BY <1>3, <1>4, <1>5, <1>6, <1>7, <1>8, <1>9, <1>10, <1>11, <1>12, <1>13, <1>14, <1>15 DEF HandlerStep

-----------------------------------------------------------------------------
(* The turn *)

Turns == {"idle", "start", "open", "invoked", "ended", "inspect", "finish", "main", "answer"}
Results == {"none", "completed", "failed", "unknown"}

Turned(p) == [exec EXCEPT !.pc = p]
Decided(p, s) == [exec EXCEPT !.pc = p, !.result = s]

LEMMA TurnRecord ==
  ASSUME exec \in ExecRecord, NEW p \in Turns, NEW s \in Results
  PROVE  /\ Turned(p) \in ExecRecord /\ Turned(p).pc = p
         /\ Turned(p).run = exec.run /\ Turned(p).result = exec.result
         /\ Decided(p, s) \in ExecRecord /\ Decided(p, s).pc = p
         /\ Decided(p, s).run = exec.run /\ Decided(p, s).result = s
BY DEF ExecRecord, Turns, Results, Turned, Decided

LEMMA IdleRecord ==
  ASSUME HostAssumption
  PROVE  Idle \in ExecRecord /\ Idle.pc = "idle"
<1>1. 0 \in 0..MaxRuns
  BY DEF HostAssumption
<1>2. QED
  BY <1>1 DEF Idle, ExecRecord

\* Where no call changes, only what the turn says of its Run is at stake.
LEMMA TurnInv ==
  ASSUME Inv, UNCHANGED <<call, owner>>, exec' \in ExecRecord, run' \in [Runs -> RunRecord],
         top' \in [Runs -> {"none", "dispatched", "finished", "unknown"}],
         \A r \in Runs : run'[r].status = "none" => run[r].status = "none",
         \A r \in Runs : top[r] \in {"unknown", "finished"} => top'[r] = top[r],
         TurnOK',
         \A r \in Runs : run'[r].mode = "workflow" /\ run'[r].status = "completed" =>
                          top'[r] = "finished" /\ UnresolvedCalls(r) = {}
  PROVE  Inv' /\ CallsAreFacts
<1>1. CallsOK'
  BY DEF Inv, CallsOK, Begun, Shape
<1>2. TypeOK'
  BY DEF Inv, WorkflowHonest, TypeOK, owner
<1>3. \A r \in Runs : UnresolvedCalls(r)' = UnresolvedCalls(r)
  BY DEF UnresolvedCalls
<1>4. CallsAreFacts
  BY DEF CallsAreFacts
<1>5. QED
  BY <1>1, <1>2, <1>3, <1>4 DEF Inv, WorkflowHonest

\* A step that moves only the turn, to another place of the same Run.
LEMMA GotoInv ==
  ASSUME Inv, UNCHANGED <<run, top, call, owner>>, exec' \in ExecRecord, TurnOK'
  PROVE  Inv' /\ CallsAreFacts
BY TurnInv DEF Inv, WorkflowHonest, TypeOK

LEMMA TurnSteps ==
  ASSUME HostAssumption, Inv, TurnStep
  PROVE  Inv' /\ CallsAreFacts
<1> USE DEF Turns, Results
<1>1. /\ TypeOK /\ exec \in ExecRecord /\ run \in [Runs -> RunRecord]
      /\ top \in [Runs -> {"none", "dispatched", "finished", "unknown"}]
  BY DEF Inv, WorkflowHonest, TypeOK
<1>2. TurnOK
  BY DEF Inv
<1>3. \A r \in Runs : run[r].mode = "workflow" /\ run[r].status = "completed" =>
                       top[r] = "finished" /\ UnresolvedCalls(r) = {}
  BY DEF Inv, WorkflowHonest
<1>4. Idle \in ExecRecord /\ Idle.pc = "idle"
  BY IdleRecord
<1>5. exec.pc # "idle" => exec.run \in Runs /\ run[exec.run].status \notin {"none", "completed"}
  BY <1>2 DEF TurnOK
<1>6. call' = call => \A r : UnresolvedCalls(r)' = UnresolvedCalls(r)
  BY DEF UnresolvedCalls
<1>7. CASE StartWorkflow
  <2>1. /\ exec.pc = "start" /\ exec.run \in Runs /\ up /\ UNCHANGED <<call, owner>>
        /\ run[exec.run].mode = "workflow" /\ top[exec.run] = "none"
    BY <1>2, <1>5, <1>7 DEF StartWorkflow, At, TurnOK
  <2>2. CASE top' = [top EXCEPT ![exec.run] = "dispatched"] /\ Goto("open") /\ run' = run
    <3>1. exec' \in ExecRecord /\ exec'.pc = "open" /\ exec'.run = exec.run
      BY <1>1, <2>2, TurnRecord DEF Goto, Turned
    <3>2. TurnOK'
      BY <1>1, <1>2, <1>5, <2>1, <2>2, <3>1 DEF TurnOK, owner
    <3>3. QED
      BY <1>1, <1>3, <1>5, <2>1, <2>2, <3>1, <3>2, TurnInv
  <2>3. CASE run' = SetStatus(exec.run, "failed") /\ exec' = Idle /\ top' = top
    <3>1. RunsKept
      BY <1>1, <1>5, <2>1, <2>3, RunsKeptBy DEF Statuses
    <3>2. TurnOK'
      BY <1>2, <1>4, <2>1, <2>3, <3>1 DEF TurnOK, RunsKept, owner
    <3>3. QED
      BY <1>1, <1>3, <1>4, <2>1, <2>3, <3>1, <3>2, TurnInv DEF RunsKept
  <2>4. QED
    BY <1>7, <2>2, <2>3 DEF StartWorkflow
<1>8. CASE OpenInvocation
  <2>1. exec.pc = "open" /\ up /\ UNCHANGED <<run, top, call, owner>>
    BY <1>8 DEF OpenInvocation, At
  <2>2. /\ exec' \in ExecRecord /\ exec'.run = exec.run
        /\ \/ exec'.pc = "invoked"
           \/ exec'.pc = "ended" /\ exec'.result # "none" /\ run[exec.run].mode = "workflow"
           \/ exec'.pc = "main" /\ run[exec.run].mode # "workflow"
    <3>1. \/ exec' = Turned("invoked")
          \/ exec' = Decided("ended", "failed") /\ run[exec.run].mode = "workflow"
          \/ exec' = Turned("main") /\ run[exec.run].mode # "workflow"
      BY <1>8 DEF OpenInvocation, Goto, Turned, Decided
    <3>2. QED
      BY <1>1, <3>1, TurnRecord
  <2>3. run[exec.run].mode \in {"workflow", "chat"}
    BY <1>1, <1>5, <2>1 DEF RunRecord
  <2>4. TurnOK'
    BY <1>2, <1>5, <2>1, <2>2, <2>3 DEF TurnOK, owner
  <2>5. QED
    BY <2>1, <2>2, <2>4, GotoInv
<1>9. CASE EndInvocation
  <2>1. exec.pc = "invoked" /\ up /\ UNCHANGED <<run, top, call, owner>>
    BY <1>9 DEF EndInvocation, At
  <2>2. /\ exec' \in ExecRecord /\ exec'.run = exec.run
        /\ \/ exec'.pc = "ended" /\ exec'.result # "none" /\ run[exec.run].mode = "workflow"
           \/ exec'.pc = "main" /\ run[exec.run].mode # "workflow"
    <3>1. \/ /\ \E t \in {"completed", "unknown", "failed"} : exec' = Decided("ended", t)
             /\ run[exec.run].mode = "workflow"
          \/ exec' = Turned("main") /\ run[exec.run].mode # "workflow"
      BY <1>9 DEF EndInvocation, Goto, Turned, Decided
    <3>2. {"completed", "unknown", "failed"} \subseteq Results \ {"none"}
      BY DEF Results
    <3>3. QED
      BY <1>1, <3>1, <3>2, TurnRecord
  <2>3. run[exec.run].mode \in {"workflow", "chat"}
    BY <1>1, <1>5, <2>1 DEF RunRecord
  <2>4. TurnOK'
    BY <1>2, <1>5, <2>1, <2>2, <2>3 DEF TurnOK, owner
  <2>5. QED
    BY <2>1, <2>2, <2>4, GotoInv
<1>10. CASE InspectRun \/ InspectCalls
  <2>1. exec.pc \in {"ended", "inspect"} /\ up /\ UNCHANGED <<run, top, call, owner>>
    BY <1>10 DEF InspectRun, InspectCalls, At
  <2>0. exec.result # "none" /\ exec.result \in Results
    BY <1>1, <1>2, <2>1 DEF TurnOK, ExecRecord
  <2>2. /\ exec' \in ExecRecord /\ exec'.run = exec.run /\ exec'.pc \in {"inspect", "finish"} /\ exec'.result # "none"
        /\ exec'.pc = "finish" /\ exec'.result = "completed" => UnresolvedCalls(exec.run) = {}
    <3>1. CASE InspectRun
      <4>1. exec' = Decided("finish", "unknown") \/ exec' = Turned("inspect")
        BY <3>1 DEF InspectRun, Turned, Decided
      <4>2. "unknown" \in Results \ {"none"}
        BY DEF Results
      <4>3. QED
        BY <1>1, <2>0, <4>1, <4>2, TurnRecord
    <3>2. CASE InspectCalls
      <4>1. \/ exec' = Decided("finish", "unknown")
            \/ exec' = Turned("finish") /\ UnresolvedCalls(exec.run) = {}
        BY <3>2 DEF InspectCalls, Goto, Turned, Decided
      <4>2. "unknown" \in Results \ {"none"} /\ "unknown" # "completed"
        BY DEF Results
      <4>3. QED
        BY <1>1, <2>0, <4>1, <4>2, TurnRecord
    <3>3. QED
      BY <1>10, <3>1, <3>2
  <2>3. TurnOK'
    BY <1>2, <1>5, <1>6, <2>1, <2>2 DEF TurnOK, owner
  <2>4. QED
    BY <2>1, <2>2, <2>3, GotoInv
<1>11. CASE FinishWorkflow
  <2> DEFINE r == exec.run
             may == IF exec.result = "unknown" THEN {"running", "stopped", "unknown"} ELSE {"running"}
             end == IF exec.result = "unknown" THEN "unknown" ELSE "finished"
  <2>1. /\ exec.pc = "finish" /\ up /\ UNCHANGED <<call, owner>> /\ exec' = Idle
        /\ r \in Runs /\ run[r].mode = "workflow" /\ run[r].status # "none"
        /\ exec.result = "completed" => UnresolvedCalls(r) = {}
    BY <1>2, <1>5, <1>11 DEF FinishWorkflow, At, TurnOK
  <2>2. CASE run' = run /\ top' = top
    <3>1. TurnOK'
      BY <1>2, <1>4, <2>1, <2>2 DEF TurnOK, owner
    <3>2. QED
      BY <1>4, <2>1, <2>2, <3>1, GotoInv
  <2>3. CASE top[r] = "dispatched" /\ top' = [top EXCEPT ![r] = end] /\ run' = SetStatus(r, exec.result)
    <3>1. /\ exec.result \in Results /\ exec.result # "none" /\ exec.result \in Statuses
          /\ end \in {"finished", "unknown"} /\ (exec.result = "completed" => end = "finished")
      BY <1>1, <1>2, <2>1 DEF ExecRecord, TurnOK, Statuses
    <3> HIDE DEF end
    <3>2. /\ run' \in [Runs -> RunRecord] /\ run'[r].status = exec.result
          /\ \A q \in Runs : run'[q].mode = run[q].mode
          /\ \A q \in Runs : q # r => run'[q] = run[q]
      BY <1>1, <2>1, <2>3, <3>1, StatusSet
    <3>3. /\ top' \in [Runs -> {"none", "dispatched", "finished", "unknown"}] /\ top'[r] = end
          /\ \A q \in Runs : q # r => top'[q] = top[q]
      BY <1>1, <2>1, <2>3, <3>1
    <3>4. TurnOK'
      BY <1>2, <1>4, <2>1, <3>1, <3>2, <3>3 DEF TurnOK, owner
    <3>5. \A q \in Runs : run'[q].mode = "workflow" /\ run'[q].status = "completed" =>
                           top'[q] = "finished" /\ UnresolvedCalls(q) = {}
      BY <1>3, <2>1, <3>1, <3>2, <3>3
    <3>6. QED
      BY <1>4, <2>1, <2>3, <3>1, <3>2, <3>3, <3>4, <3>5, TurnInv
  <2>4. QED
    BY <1>11, <2>2, <2>3 DEF FinishWorkflow
<1>12. CASE MainDispatch
  <2>1. /\ exec.pc = "main" /\ up /\ UNCHANGED <<run, call, owner>> /\ exec.run \in Runs
        /\ run[exec.run].mode = "chat" /\ top[exec.run] = "none"
    BY <1>2, <1>5, <1>12 DEF MainDispatch, At, TurnOK
  <2>2. CASE top' = [top EXCEPT ![exec.run] = "dispatched"] /\ Goto("answer")
    <3>1. exec' \in ExecRecord /\ exec'.pc = "answer" /\ exec'.run = exec.run
      BY <1>1, <2>2, TurnRecord DEF Goto, Turned
    <3>2. TurnOK'
      BY <1>1, <1>2, <1>5, <2>1, <2>2, <3>1 DEF TurnOK, owner
    <3>3. QED
      BY <1>1, <1>3, <1>5, <2>1, <2>2, <3>1, <3>2, TurnInv
  <2>3. CASE exec' = Idle /\ top' = top
    <3>1. TurnOK'
      BY <1>2, <1>4, <2>1, <2>3 DEF TurnOK, owner
    <3>2. QED
      BY <1>4, <2>1, <2>3, <3>1, GotoInv
  <2>4. QED
    BY <1>12, <2>2, <2>3 DEF MainDispatch
<1>13. CASE MainStops
  <2>1. /\ exec.pc = "main" /\ up /\ UNCHANGED <<top, call, owner>> /\ exec.run \in Runs /\ exec' = Idle
        /\ run' = SetStatus(exec.run, "stopped")
    BY <1>5, <1>13 DEF MainStops, At
  <2>2. RunsKept
    BY <1>1, <1>5, <2>1, RunsKeptBy DEF Statuses
  <2>3. TurnOK'
    BY <1>2, <1>4, <2>1, <2>2 DEF TurnOK, RunsKept, owner
  <2>4. QED
    BY <1>1, <1>3, <1>4, <2>1, <2>2, <2>3, TurnInv DEF RunsKept
<1>14. CASE MainAnswers
  <2>1. /\ exec.pc = "answer" /\ up /\ UNCHANGED <<call, owner>> /\ exec.run \in Runs /\ exec' = Idle
        /\ run[exec.run].mode = "chat" /\ top[exec.run] = "dispatched"
    BY <1>2, <1>5, <1>14 DEF MainAnswers, At, TurnOK
  <2>2. PICK t \in {"finished", "unknown"}, s \in {"completed", "failed", "unknown"} :
          top' = [top EXCEPT ![exec.run] = t] /\ run' = SetStatus(exec.run, s)
    <3>1. PICK o \in {<<"finished", "completed">>, <<"finished", "failed">>, <<"unknown", "unknown">>} :
            top' = [top EXCEPT ![exec.run] = o[1]] /\ run' = SetStatus(exec.run, o[2])
      BY <1>14 DEF MainAnswers
    <3>2. o[1] \in {"finished", "unknown"} /\ o[2] \in {"completed", "failed", "unknown"}
      OBVIOUS
    <3>3. QED
      BY <3>1, <3>2
  <2>3. /\ run' \in [Runs -> RunRecord] /\ run'[exec.run].status = s
        /\ \A q \in Runs : run'[q].mode = run[q].mode
        /\ \A q \in Runs : q # exec.run => run'[q] = run[q]
    BY <1>1, <2>1, <2>2, StatusSet DEF Statuses
  <2>4. /\ top' \in [Runs -> {"none", "dispatched", "finished", "unknown"}]
        /\ \A q \in Runs : q # exec.run => top'[q] = top[q]
    BY <1>1, <2>1, <2>2
  <2>5. TurnOK'
    BY <1>2, <1>4, <2>1, <2>2, <2>3, <2>4 DEF TurnOK, owner
  <2>6. QED
    BY <1>3, <1>4, <2>1, <2>2, <2>3, <2>4, <2>5, TurnInv
<1>15. QED
  BY <1>7, <1>8, <1>9, <1>10, <1>11, <1>12, <1>13, <1>14 DEF TurnStep

-----------------------------------------------------------------------------
(* Requests, Runs and the Owner *)

LEMMA RequestStep ==
  ASSUME HostAssumption, Inv, NEW c \in Calls, NEW kind \in {"generate", "embed", "tool"}, Request(c, kind)
  PROVE  Inv' /\ CallsAreFacts
<1> DEFINE v == Requested(exec.run, kind)
<1>1. /\ up /\ call[c] = NoCall /\ call' = [call EXCEPT ![c] = v] /\ exec.pc = "invoked"
      /\ UNCHANGED <<run, top, exec, owner>>
  BY DEF Request, At, Requested
<1>2. exec.run \in Runs /\ Begun(exec.run)
  BY <1>1 DEF Inv, TurnOK, Begun
<1>3. v \in CallRecord /\ v.status = "free" /\ v.pc = "checked" /\ v.run = exec.run /\ v.resolved = FALSE
  BY <1>2, CallRequested, ZenonT(60)
<1>4. call[c].status = "free" /\ call[c].resolved = FALSE
  BY <1>1 DEF NoCall
<1> HIDE DEF v
<1>5. Moves(call[c], v)
  BY <1>2, <1>3, <1>4 DEF Moves, Shape, Open
<1>6. call' \in [Calls -> CallRecord] /\ call'[c] = v /\ \A e \in Calls : e # c => call'[e] = call[e]
  BY <1>1, <1>3 DEF Inv, WorkflowHonest, TypeOK
<1>7. \A e \in Calls : Moves(call[e], call'[e])
  BY <1>5, <1>6 DEF Moves
<1>8. RunsKept
  BY <1>1 DEF RunsKept, Inv, WorkflowHonest, TypeOK
<1>9. QED
  BY <1>1, <1>6, <1>7, <1>8, HandlerInv

LEMMA BeginStep ==
  ASSUME HostAssumption, Inv, NEW r \in Runs, NEW mode \in {"workflow", "chat"}, Begin(r, mode)
  PROVE  Inv' /\ CallsAreFacts
<1> DEFINE v == [mode |-> mode, status |-> "running"]
           p == IF mode = "workflow" THEN "start" ELSE "open"
           x == [Idle EXCEPT !.pc = p, !.run = r]
<1>1. /\ up /\ exec.pc = "idle" /\ run[r].status = "none" /\ run' = [run EXCEPT ![r] = v] /\ exec' = x
      /\ UNCHANGED <<top, call, owner>>
  BY DEF Begin, At
<1>2. v \in RunRecord /\ v.mode = mode /\ v.status = "running"
  BY DEF RunRecord
<1>3. x \in ExecRecord /\ x.pc = p /\ x.run = r /\ p \in {"start", "open"} /\ (p = "start" => mode = "workflow")
  <2>1. r \in 0..MaxRuns
    BY DEF Runs, HostAssumption
  <2>2. p \in {"start", "open"} /\ (p = "start" => mode = "workflow")
    OBVIOUS
  <2> HIDE DEF p
  <2>3. QED
    BY <2>1, <2>2 DEF Idle, ExecRecord
<1> HIDE DEF v, x, p
<1>4. /\ run' \in [Runs -> RunRecord] /\ run'[r] = v /\ \A q \in Runs : q # r => run'[q] = run[q]
      /\ top \in [Runs -> {"none", "dispatched", "finished", "unknown"}]
  BY <1>1, <1>2 DEF Inv, WorkflowHonest, TypeOK
<1>5. TurnOK'
  BY <1>1, <1>2, <1>3, <1>4 DEF Inv, TurnOK, owner
<1>6. \A q \in Runs : run'[q].mode = "workflow" /\ run'[q].status = "completed" =>
                       top[q] = "finished" /\ UnresolvedCalls(q) = {}
  BY <1>2, <1>4 DEF Inv, WorkflowHonest
<1>7. QED
  BY <1>1, <1>2, <1>3, <1>4, <1>5, <1>6, TurnInv

LEMMA AbandonStep ==
  ASSUME Inv, NEW r \in Runs, Abandon(r)
  PROVE  Inv' /\ CallsAreFacts
<1> DEFINE withdrawn(c) == [call[c] EXCEPT !.status = "finished"]
<1>1. /\ up /\ run[r].status # "none" /\ run' = SetStatus(r, "abandoned") /\ UNCHANGED <<top, exec, owner>>
      /\ call' = [c \in Calls |-> IF call[c].run = r /\ call[c].status = "pending" THEN withdrawn(c) ELSE call[c]]
  BY DEF Abandon, At
<1>2. ASSUME NEW c \in Calls
      PROVE  /\ withdrawn(c) \in CallRecord /\ withdrawn(c).status = "finished" /\ withdrawn(c).pc = call[c].pc
             /\ withdrawn(c).run = call[c].run /\ withdrawn(c).resolved = call[c].resolved
             /\ withdrawn(c).number = call[c].number
  <2>1. call[c] \in CallRecord
    BY DEF Inv, WorkflowHonest, TypeOK
  <2>2. QED
    BY <2>1 DEF CallRecord
<1>3. TypeOK
  BY DEF Inv, WorkflowHonest
<1> HIDE DEF withdrawn
<1>4. call' \in [Calls -> CallRecord]
  BY <1>1, <1>2, <1>3 DEF TypeOK
<1>5. ASSUME NEW c \in Calls PROVE Moves(call[c], call'[c])
  <2>1. Shape(call[c]) /\ (call[c].status # "free" => Begun(call[c].run))
    BY DEF Inv, CallsOK
  <2>2. CASE call[c].run = r /\ call[c].status = "pending"
    <3>1. call'[c] = withdrawn(c)
      BY <1>1, <2>2
    <3>2. Shape(withdrawn(c)) /\ Begun(withdrawn(c).run)
      BY <1>2, <2>1, <2>2 DEF Shape
    <3>3. QED
      BY <1>2, <2>2, <3>1, <3>2 DEF Moves, Open
  <2>3. CASE ~(call[c].run = r /\ call[c].status = "pending")
    BY <1>1, <2>3 DEF Moves
  <2>4. QED
    BY <2>2, <2>3
<1>6. RunsKept
  BY <1>1, <1>3, RunsKeptBy DEF Statuses
<1>7. QED
  BY <1>1, <1>4, <1>5, <1>6, HandlerInv

\* A crash ends the turn and every handler, and changes no Attempt.
LEMMA CrashStep ==
  ASSUME HostAssumption, Inv, Crash
  PROVE  Inv' /\ CallsAreFacts
<1>1. /\ crashes < MaxCrashes /\ up' = FALSE /\ crashes' = crashes + 1 /\ exec' = Idle /\ UNCHANGED <<run, top>>
      /\ call' = [c \in Calls |-> IF call[c].status = "free" THEN NoCall ELSE Continued(call[c], "none")]
  BY DEF Crash, Continued
<1>2. NoCall \in CallRecord /\ NoCall.status = "free" /\ NoCall.pc = "none" /\ NoCall.resolved = FALSE
  <2>1. 0 \in 0..MaxRuns /\ 0 \in 0..ModelRetries
    BY DEF HostAssumption
  <2>2. QED
    BY <2>1 DEF NoCall, CallRecord
<1>3. ASSUME NEW c \in Calls
      PROVE  /\ call'[c] \in CallRecord /\ call'[c].pc = "none" /\ call'[c].status = call[c].status
             /\ call'[c].resolved = call[c].resolved
             /\ call'[c].status # "free" => call'[c].run = call[c].run
  <2>1. call[c] \in CallRecord /\ (call[c].status = "free" => ~call[c].resolved)
    BY DEF Inv, WorkflowHonest, TypeOK, CallsOK, Shape
  <2>2. CASE call[c].status = "free"
    <3>1. call[c].resolved = FALSE
      BY <2>1, <2>2 DEF CallRecord
    <3>2. QED
      BY <1>1, <1>2, <2>2, <3>1
  <2>3. CASE call[c].status # "free"
    BY <1>1, <2>1, <2>3, CallContinue DEF Places
  <2>4. QED
    BY <2>2, <2>3
<1>4. call' \in [Calls -> CallRecord]
  BY <1>1, <1>3
<1>5. Idle \in ExecRecord /\ Idle.pc = "idle"
  BY IdleRecord
<1>6. TypeOK'
  <2>1. crashes' \in 0..MaxCrashes
    BY <1>1 DEF Inv, WorkflowHonest, TypeOK, HostAssumption
  <2>2. QED
    BY <1>1, <1>4, <1>5, <2>1 DEF Inv, WorkflowHonest, TypeOK
<1>7. CallsOK'
  <2>1. ASSUME NEW c \in Calls
        PROVE  /\ Shape(call'[c])
               /\ call'[c].status # "free" => call'[c].run \in Runs /\ run'[call'[c].run].status # "none"
    BY <1>1, <1>3 DEF Inv, CallsOK, Shape, Begun
  <2>2. QED
    BY <1>3, <2>1 DEF CallsOK, Shape, Begun
<1>8. \A r \in Runs : UnresolvedCalls(r)' \subseteq UnresolvedCalls(r)
  BY <1>3 DEF UnresolvedCalls
<1>9. TurnOK'
  BY <1>1, <1>3, <1>5 DEF Inv, TurnOK
<1>10. CallsAreFacts
  BY <1>1, <1>3 DEF CallsAreFacts
<1>11. QED
  BY <1>1, <1>6, <1>7, <1>8, <1>9, <1>10 DEF Inv, WorkflowHonest

\* recover: what was dispatched is uncertain now, and so is the Run it belongs to.
LEMMA RecoverStep ==
  ASSUME Inv, Recover
  PROVE  Inv' /\ CallsAreFacts
<1> DEFINE lost(c) == [call[c] EXCEPT !.status = "unknown"]
<1>1. /\ ~up /\ up' = TRUE /\ run' = Recovered /\ UNCHANGED <<exec, crashes>>
      /\ top' = [r \in Runs |-> IF top[r] = "dispatched" THEN "unknown" ELSE top[r]]
      /\ call' = [c \in Calls |-> IF call[c].status = "dispatched" THEN lost(c) ELSE call[c]]
  BY DEF Recover
<1>2. ASSUME NEW c \in Calls
      PROVE  /\ lost(c) \in CallRecord /\ lost(c).status = "unknown" /\ lost(c).pc = call[c].pc
             /\ lost(c).run = call[c].run /\ lost(c).resolved = call[c].resolved
             /\ lost(c).number = call[c].number
  <2>1. call[c] \in CallRecord
    BY DEF Inv, WorkflowHonest, TypeOK
  <2>2. QED
    BY <2>1 DEF CallRecord
<1> HIDE DEF lost
<1>3. RunsKept /\ \A r \in Runs : run'[r].status = "completed" => ~Unresolved(r)
  <2>1. ASSUME NEW r \in Runs
        PROVE  /\ run'[r] \in RunRecord /\ run'[r].mode = run[r].mode
               /\ run'[r].status = "none" <=> run[r].status = "none"
               /\ run'[r].status = "completed" => run[r].status = "completed" /\ ~Unresolved(r)
    <3>1. /\ run[r] \in RunRecord
          /\ \/ run'[r] = [run[r] EXCEPT !.status = "unknown"] /\ run[r].status # "none"
             \/ run'[r] = [run[r] EXCEPT !.status = "stopped"] /\ run[r].status # "none"
             \/ run'[r] = run[r] /\ (run[r].status = "completed" => ~Unresolved(r))
      BY <1>1 DEF Inv, WorkflowHonest, TypeOK, Recovered
    <3>2. QED
      BY <3>1 DEF RunRecord
  <2>2. run' = [r \in Runs |-> run'[r]]
    BY <1>1 DEF Recovered
  <2>3. run' \in [Runs -> RunRecord]
    BY <2>1, <2>2
  <2>4. QED
    BY <2>1, <2>3 DEF RunsKept
<1>4. ASSUME NEW c \in Calls
      PROVE  /\ call'[c] \in CallRecord /\ call'[c].run = call[c].run /\ call'[c].pc = call[c].pc
             /\ call'[c].resolved = call[c].resolved /\ call'[c].number = call[c].number
             /\ call'[c].status = IF call[c].status = "dispatched" THEN "unknown" ELSE call[c].status
  BY <1>1, <1>2 DEF Inv, WorkflowHonest, TypeOK
<1>5. call' \in [Calls -> CallRecord]
  BY <1>1, <1>4
<1>6. TypeOK'
  BY <1>1, <1>3, <1>5 DEF Inv, WorkflowHonest, TypeOK, RunsKept
<1>7. exec.pc = "idle" /\ \A c \in Calls : call[c].pc = "none"
  BY <1>1 DEF Inv, TurnOK
<1>8. CallsOK'
  <2>1. ASSUME NEW c \in Calls
        PROVE  /\ Shape(call'[c])
               /\ call'[c].status # "free" => call'[c].run \in Runs /\ run'[call'[c].run].status # "none"
    BY <1>3, <1>4, <1>7 DEF Inv, CallsOK, Shape, Begun, RunsKept
  <2>2. QED
    BY <1>4, <1>7, <2>1 DEF CallsOK, Shape, Begun
<1>9. TurnOK'
  BY <1>1, <1>3, <1>7 DEF Inv, TurnOK, RunsKept
<1>10. CallsAreFacts
  BY <1>1, <1>4 DEF CallsAreFacts
<1>11. ASSUME NEW r \in Runs, run'[r].mode = "workflow" /\ run'[r].status = "completed"
       PROVE  top'[r] = "finished" /\ UnresolvedCalls(r)' = {}
  <2>1. run[r].mode = "workflow" /\ run[r].status = "completed"
    BY <1>3, <1>11 DEF RunsKept
  <2>2. top[r] = "finished" /\ UnresolvedCalls(r) = {}
    BY <2>1 DEF Inv, WorkflowHonest
  <2>3. \A c \in Calls : call[c].run = r => ~Open(call[c])
    BY <2>2, Unresolves
  <2>4. \A c \in Calls : call'[c].run = r => ~Open(call'[c])
    BY <1>4, <2>3 DEF Open
  <2>5. QED
    BY <1>1, <2>2, <2>4 DEF UnresolvedCalls, Open
<1>12. QED
  BY <1>6, <1>8, <1>9, <1>10, <1>11 DEF Inv, WorkflowHonest

-----------------------------------------------------------------------------
(* Theorems *)

LEMMA HostStep ==
  ASSUME HostAssumption, Inv, [Next]_vars
  PROVE  Inv' /\ CallsAreFacts
<1>1. CASE UNCHANGED vars
  BY <1>1 DEF vars, owner, Inv, CallsOK, Begun, Shape, TurnOK, WorkflowHonest, TypeOK, UnresolvedCalls, CallsAreFacts
<1>2. CASE Next
  BY <1>2, TurnSteps, HandlerSteps, RequestStep, BeginStep, AbandonStep, CrashStep, RecoverStep DEF Next
<1>3. QED
  BY <1>1, <1>2

LEMMA InvAlways == Spec => []Inv
<1>1. Init => Inv
  <2> SUFFICES ASSUME Init PROVE Inv
    OBVIOUS
  <2>1. NoCall \in CallRecord /\ NoCall.status = "free" /\ NoCall.pc = "none" /\ NoCall.resolved = FALSE
    <3>1. 0 \in 0..MaxRuns /\ 0 \in 0..ModelRetries
      BY HostAssumption
    <3>2. QED
      BY <3>1 DEF NoCall, CallRecord
  <2>2. Idle \in ExecRecord /\ Idle.pc = "idle"
    BY HostAssumption, IdleRecord
  <2>3. [mode |-> "chat", status |-> "none"] \in RunRecord
    BY DEF RunRecord
  <2>4. TypeOK
    BY <2>1, <2>2, <2>3, HostAssumption DEF Init, TypeOK
  <2>5. CallsOK
    BY <2>1 DEF Init, CallsOK, Shape
  <2>6. QED
    BY <2>2, <2>4, <2>5 DEF Init, Inv, TurnOK, WorkflowHonest
<1>2. Inv /\ [Next]_vars => Inv'
  BY HostAssumption, HostStep
<1>3. QED
  BY <1>1, <1>2, PTL DEF Spec

\* A workflow is presented as completed only when every operation it asked the Host for
\* is explained, whatever its handlers still do (RunWorkflow, finishWorkflow, recover).
THEOREM WorkflowHonestAlways == Spec => []WorkflowHonest
<1>1. Inv => WorkflowHonest
  BY DEF Inv
<1>2. QED
  BY <1>1, InvAlways, PTL

\* No step rewrites what an Attempt is known to be: handlers that outlive their
\* invocation, retries, abandonment, crashes and recover included (store.go).
THEOREM CallsAreFactsAlways == Spec => [][CallsAreFacts]_vars
<1>1. Inv /\ [Next]_vars => [CallsAreFacts]_vars
  BY HostAssumption, HostStep
<1>2. QED
  BY <1>1, InvAlways, PTL DEF Spec

-----------------------------------------------------------------------------
(* The state an extension keeps: a change is sent once and recorded as what  *)
(* became of it.                                                              *)
(*                                                                            *)
(* What makes it inductive: the intent is in the journal before state.apply   *)
(* is sent, the journal is as honest as the memory that a restart makes of    *)
(* it, and the pause that a backup holds keeps the dump current until the     *)
(* journal is copied.                                                         *)

ChangeStatuses == {"unused", "pending", "applied", "failed", "partial"}
Change == [status : ChangeStatuses, dispatched : BOOLEAN, rev : Nat]
Stages == {"idle", "first", "pause", "second", "dump", "snapshot", "check", "published"}

\* What operations, journal and the stage of a backup are.
ChangesOK ==
  /\ StateTypeOK
  /\ op \in [Ops -> Change] /\ journal \in [Ops -> Change]
  /\ backup \in [at : Stages, ledger : SUBSET Ops, journal : [Ops -> Change]]

\* The intent is on record, in memory and in the journal, before state.apply is
\* sent, and it stays there.
SentIsRecorded ==
  /\ sends \in [Ops -> {0, 1}]
  /\ \A o \in Ops : sends[o] = 1 => op[o].dispatched /\ journal[o].dispatched

\* The extension has, and will have, only what was sent to it, and nothing more of
\* what was under way when its process died.
OnlyWhatWasSent ==
  /\ \A o \in ledger \union flight : sends[o] = 1
  /\ busy # None => sends[busy] = 1
  /\ \A o \in cut : o \in Ops /\ sends[o] = 1 /\ o \notin flight

\* The journal is as honest as the memory that is made of it after a restart.
JournalHonest ==
  \A o \in Ops :
    /\ journal[o].status = "applied" => o \in ledger
    /\ journal[o].status = "failed" => o \notin flight /\ (o \in ledger => o \in cut)

\* So is the memory about a change recorded as failed.
FailedHonest ==
  \A o \in Ops : op[o].status = "failed" => o \notin flight /\ (o \in ledger => o \in cut)

\* While the pause is in force nothing is committed, so that what the journal says
\* later was in the dump.
StageHonest ==
  /\ backup.ledger \subseteq ledger
  /\ backup.at \in {"dump", "snapshot"} /\ pause => ledger = backup.ledger
  /\ backup.at \in {"snapshot", "published"} =>
       \A o \in Ops : /\ o \in backup.ledger => backup.journal[o].dispatched
                      /\ backup.journal[o].status = "applied" =>
                           o \in (IF backup.at = "published" THEN backup.ledger ELSE ledger)

StateInv ==
  /\ ChangesOK /\ SentIsRecorded /\ OnlyWhatWasSent /\ JournalHonest /\ StageHonest
  /\ AppliedIsCommitted /\ FailedHonest

Attempts == [Ops -> {"none", "pending", "unknown", "verified", "done", "refused"}]

-----------------------------------------------------------------------------
LEMMA UnusedType == Unused \in Change /\ Unused.status = "unused" /\ ~Unused.dispatched
BY DEF Unused, Change, ChangeStatuses

LEMMA NoBackupType ==
  /\ NoBackup \in [at : Stages, ledger : SUBSET Ops, journal : [Ops -> Change]]
  /\ NoBackup.at = "idle" /\ NoBackup.ledger = {}
BY UnusedType DEF NoBackup, Stages

\* One operation gets another record, in memory and perhaps in the journal.
LEMMA ChangeWritten ==
  ASSUME StateAssumption, StateInv, NEW o \in Ops, NEW r \in Change,
         op' = [op EXCEPT ![o] = r], journal' \in {journal, [journal EXCEPT ![o] = r]},
         attempt' \in Attempts, \A q \in Ops : attempt'[q] = "verified" => q \in ledger,
         op[o].dispatched => r.dispatched,
         r.status = "applied" => o \in ledger,
         r.status = "failed" => o \notin flight /\ (o \in ledger => o \in cut),
         busy' \in {busy, None}, faults' \in 0..MaxFaults,
         UNCHANGED <<extension, sends, cut, backup, restarts>>
  PROVE  StateInv'
<1>1. /\ op' \in [Ops -> Change] /\ journal' \in [Ops -> Change]
      /\ \A q \in Ops : op'[q] = IF q = o THEN r ELSE op[q]
      /\ \A q \in Ops : journal'[q] = journal[q] \/ (q = o /\ journal'[q] = r)
  <2>1. op \in [Ops -> Change] /\ journal \in [Ops -> Change]
    BY DEF StateInv, ChangesOK
  <2>2. op' \in [Ops -> Change] /\ \A q \in Ops : op'[q] = IF q = o THEN r ELSE op[q]
    BY <2>1
  <2>3. CASE journal' = journal
    BY <2>1, <2>2, <2>3
  <2>4. CASE journal' = [journal EXCEPT ![o] = r]
    BY <2>1, <2>2, <2>4
  <2>5. QED
    BY <2>3, <2>4
<1>2. UNCHANGED <<rev, ledger, pause, flight, sends, cut, backup, restarts>>
  BY DEF extension
<1>3. \A q \in Ops : op'[q].status \in ChangeStatuses /\ journal'[q].status \in ChangeStatuses
  BY <1>1 DEF Change
<1>4. StateTypeOK'
  BY <1>2, <1>3 DEF StateInv, ChangesOK, StateTypeOK, Attempts, ChangeStatuses
<1>5. ChangesOK'
  BY <1>1, <1>2, <1>4 DEF StateInv, ChangesOK
<1>6. SentIsRecorded'
  <2>1. ASSUME NEW q \in Ops, sends[q] = 1 PROVE op'[q].dispatched /\ journal'[q].dispatched
    BY <1>1, <2>1 DEF StateInv, SentIsRecorded
  <2>2. QED
    BY <1>2, <2>1 DEF StateInv, SentIsRecorded
<1>7. OnlyWhatWasSent' /\ StageHonest'
  BY <1>2 DEF StateInv, OnlyWhatWasSent, StageHonest
<1>8. JournalHonest' /\ AppliedIsCommitted' /\ FailedHonest'
  BY <1>1, <1>2 DEF StateInv, JournalHonest, AppliedIsCommitted, FailedHonest
<1>9. QED
  BY <1>5, <1>6, <1>7, <1>8 DEF StateInv

\* What the Run learns claims no more than was known.
LEMMA ToldType ==
  ASSUME StateInv, NEW o \in Ops, NEW s \in {"unknown", "refused", "done"}, Told(o, s)
  PROVE  attempt' \in Attempts /\ \A q \in Ops : attempt'[q] = "verified" => q \in ledger
<1>1. attempt \in Attempts
  BY DEF StateInv, ChangesOK, StateTypeOK, Attempts
<1>2. /\ attempt' \in Attempts
      /\ \A q \in Ops : attempt'[q] = IF q = o /\ attempt[q] = "pending" THEN s ELSE attempt[q]
  BY <1>1 DEF Told, Attempts
<1>3. QED
  BY <1>2 DEF StateInv, AppliedIsCommitted

LEMMA ReconciledType ==
  ASSUME StateInv, NEW o \in Ops, o \in ledger
  PROVE  /\ Reconciled(o) \in Attempts
         /\ \A q \in Ops : Reconciled(o)[q] = "verified" => q \in ledger
<1>1. attempt \in Attempts
  BY DEF StateInv, ChangesOK, StateTypeOK, Attempts
<1>2. /\ Reconciled(o) \in Attempts
      /\ \A q \in Ops : q # o => Reconciled(o)[q] = attempt[q]
  BY <1>1 DEF Reconciled, Attempts
<1>3. QED
  BY <1>2 DEF StateInv, AppliedIsCommitted

\* The record with another status keeps its intent.
LEMMA WithStatus ==
  ASSUME StateInv, NEW o \in Ops, NEW s \in ChangeStatuses
  PROVE  LET r == [op[o] EXCEPT !.status = s]
         IN r \in Change /\ r.status = s /\ r.dispatched = op[o].dispatched
<1>1. op[o] \in Change
  BY DEF StateInv, ChangesOK
<1>2. QED
  BY <1>1 DEF Change

LEMMA ChangeSettled ==
  ASSUME StateAssumption, StateInv, NEW o \in Ops, NEW s \in ChangeStatuses,
         NEW t \in {"unknown", "refused", "done"}, SettleChange(o, s, t),
         s = "applied" => o \in ledger,
         s = "failed" => o \notin flight /\ (o \in ledger => o \in cut),
         UNCHANGED <<extension, sends, cut, backup, restarts>>
  PROVE  StateInv'
<1> DEFINE r == [op[o] EXCEPT !.status = s]
<1>1. r \in Change /\ r.status = s /\ r.dispatched = op[o].dispatched
  BY WithStatus
<1>2. op' = [op EXCEPT ![o] = r] /\ op \in [Ops -> Change]
  BY DEF SettleChange, Record, StateInv, ChangesOK
<1> HIDE DEF r
<1>3. op'[o] = r
  BY <1>2
<1>4. journal' \in {journal, [journal EXCEPT ![o] = r]} /\ busy' = None
  BY <1>3 DEF SettleChange, Journalled
<1>5. faults' \in 0..MaxFaults
  BY DEF SettleChange, StateInv, ChangesOK, StateTypeOK, StateAssumption
<1>6. attempt' \in Attempts /\ \A q \in Ops : attempt'[q] = "verified" => q \in ledger
  BY ToldType DEF SettleChange
<1>7. QED
  BY <1>1, <1>2, <1>4, <1>5, <1>6, ChangeWritten

LEMMA StateInitInv == ASSUME StateAssumption, StateInit PROVE StateInv
<1>1. op \in [Ops -> Change] /\ journal \in [Ops -> Change]
      /\ \A o \in Ops : op[o] = Unused /\ journal[o] = Unused
  BY UnusedType DEF StateInit
<1>2. StateTypeOK
  <2>1. faults \in 0..MaxFaults /\ restarts \in 0..MaxRestarts /\ rev \in Nat
    BY DEF StateInit, StateAssumption
  <2>2. \A o \in Ops : op[o].status = "unused" /\ journal[o].status = "unused"
    BY <1>1, UnusedType
  <2>3. QED
    BY <2>1, <2>2, NoBackupType DEF StateInit, StateTypeOK
<1>3. ChangesOK
  BY <1>1, <1>2, NoBackupType DEF StateInit, ChangesOK
<1>4. QED
  BY <1>1, <1>3, UnusedType, NoBackupType DEF StateInit, StateInv, SentIsRecorded, OnlyWhatWasSent,
     JournalHonest, StageHonest, AppliedIsCommitted, FailedHonest

LEMMA StateNextInv == ASSUME StateAssumption, StateInv, [StateNext]_stateVars PROVE StateInv'
<1>1. ASSUME NEW o \in Ops, NEW proposed \in BOOLEAN, Plan(o, proposed) PROVE StateInv'
  <2> DEFINE r == [status |-> "pending", dispatched |-> FALSE, rev |-> rev]
  <2>1. r \in Change /\ r.status = "pending" /\ ~op[o].dispatched
    BY <1>1, UnusedType DEF Plan, StateInv, ChangesOK, StateTypeOK, Change, ChangeStatuses
  <2>2. op' = [op EXCEPT ![o] = r] /\ journal' = [journal EXCEPT ![o] = r]
    BY <1>1 DEF Plan, Record, Journalled
  <2> HIDE DEF r
  <2>3. /\ attempt' \in Attempts
        /\ \A q \in Ops : attempt'[q] = "verified" => q \in ledger
    BY <1>1 DEF Plan, StateInv, ChangesOK, StateTypeOK, Attempts, AppliedIsCommitted
  <2>4. busy' \in {busy, None} /\ faults' \in 0..MaxFaults
        /\ UNCHANGED <<extension, sends, cut, backup, restarts>>
    BY <1>1 DEF Plan, StateInv, ChangesOK, StateTypeOK, limits
  <2>5. QED
    BY <2>1, <2>2, <2>3, <2>4, ChangeWritten
<1>2. ASSUME NEW o \in Ops, Redecide(o) PROVE StateInv'
  <2> DEFINE r == [op[o] EXCEPT !.status = "partial"]
  <2>1. r \in Change /\ r.status = "partial" /\ r.dispatched = op[o].dispatched
    BY WithStatus DEF ChangeStatuses
  <2>2. op' = [op EXCEPT ![o] = r] /\ journal' = [journal EXCEPT ![o] = r]
    BY <1>2 DEF Redecide, Record, Journalled
  <2> HIDE DEF r
  <2>3. attempt' \in Attempts /\ \A q \in Ops : attempt'[q] = "verified" => q \in ledger
    BY <1>2, ToldType DEF Redecide
  <2>4. busy' \in {busy, None} /\ faults' \in 0..MaxFaults
        /\ UNCHANGED <<extension, sends, cut, backup, restarts>>
    BY <1>2 DEF Redecide, StateInv, ChangesOK, StateTypeOK, limits
  <2>5. QED
    BY <2>1, <2>2, <2>3, <2>4, ChangeWritten
<1>3. ASSUME NEW o \in Ops, DispatchUnlogged(o) PROVE StateInv'
  <2> DEFINE r == [op[o] EXCEPT !.status = "failed", !.dispatched = TRUE]
  <2>1. op[o] \in Change /\ op \in [Ops -> Change]
    BY DEF StateInv, ChangesOK
  <2>2. r \in Change /\ r.status = "failed" /\ r.dispatched
    BY <2>1 DEF Change, ChangeStatuses
  <2>3. op' = [op EXCEPT ![o] = r]
    BY <1>3 DEF DispatchUnlogged, Record
  <2> HIDE DEF r
  <2>4. journal' \in {journal, [journal EXCEPT ![o] = r]}
    BY <1>3, <2>1, <2>3 DEF DispatchUnlogged
  <2>5. attempt' \in Attempts /\ \A q \in Ops : attempt'[q] = "verified" => q \in ledger
    BY <1>3, ToldType DEF DispatchUnlogged
  <2>6. o \notin ledger \union flight
    BY <1>3 DEF DispatchUnlogged, StateInv, OnlyWhatWasSent, SentIsRecorded
  <2>7. busy' \in {busy, None} /\ faults' \in 0..MaxFaults
        /\ UNCHANGED <<extension, sends, cut, backup, restarts>>
    BY <1>3 DEF DispatchUnlogged, StateInv, ChangesOK, StateTypeOK, StateAssumption
  <2>8. QED
    BY <2>2, <2>3, <2>4, <2>5, <2>6, <2>7, ChangeWritten
<1>4. ASSUME NEW o \in Ops, Dispatch(o) PROVE StateInv'
  <2> DEFINE r == [op[o] EXCEPT !.dispatched = TRUE]
  <2>1. op[o] \in Change /\ op \in [Ops -> Change] /\ journal \in [Ops -> Change]
    BY DEF StateInv, ChangesOK
  <2>2. r \in Change /\ r.status = "pending" /\ r.dispatched
    BY <1>4, <2>1 DEF Dispatch, Change, ChangeStatuses
  <2>3. op' = [op EXCEPT ![o] = r] /\ journal' = [journal EXCEPT ![o] = r]
    BY <1>4 DEF Dispatch, Record, Journalled
  <2> HIDE DEF r
  <2>4. /\ op' \in [Ops -> Change] /\ journal' \in [Ops -> Change]
        /\ \A q \in Ops : /\ op'[q] = IF q = o THEN r ELSE op[q]
                          /\ journal'[q] = IF q = o THEN r ELSE journal[q]
    BY <2>1, <2>2, <2>3
  <2>5. sends[o] = 0 /\ sends' \in [Ops -> {0, 1}]
        /\ \A q \in Ops : sends'[q] = IF q = o THEN 1 ELSE sends[q]
    BY <1>4 DEF Dispatch, StateInv, SentIsRecorded
  <2>6. flight' = flight \union {o} /\ busy' = o
        /\ UNCHANGED <<rev, ledger, pause, attempt, cut, backup, faults, restarts>>
    BY <1>4 DEF Dispatch, limits
  <2>7. \A q \in Ops : op'[q].status \in ChangeStatuses /\ journal'[q].status \in ChangeStatuses
    BY <2>4 DEF Change
  <2>8. ChangesOK'
    BY <2>4, <2>6, <2>7 DEF StateInv, ChangesOK, StateTypeOK, ChangeStatuses
  <2>9. SentIsRecorded' /\ OnlyWhatWasSent'
    BY <2>2, <2>4, <2>5, <2>6 DEF StateInv, ChangesOK, StateTypeOK, SentIsRecorded, OnlyWhatWasSent
  <2>10. JournalHonest' /\ AppliedIsCommitted' /\ FailedHonest'
    BY <2>2, <2>4, <2>6 DEF StateInv, JournalHonest, AppliedIsCommitted, FailedHonest
  <2>11. StageHonest'
    BY <2>6 DEF StateInv, StageHonest
  <2>12. QED
    BY <2>8, <2>9, <2>10, <2>11 DEF StateInv
<1>5. ASSUME NEW o \in Ops, ExtCommit(o) PROVE StateInv'
  <2>1. /\ o \in flight /\ ~pause /\ flight' = flight \ {o} /\ ledger' = ledger \union {o}
        /\ rev' = rev + 1 /\ UNCHANGED <<pause, op, journal, attempt, busy, sends, cut, backup, faults, restarts>>
    BY <1>5 DEF ExtCommit, service, limits
  <2>2. ChangesOK'
    BY <2>1 DEF StateInv, ChangesOK, StateTypeOK
  <2>3. SentIsRecorded' /\ OnlyWhatWasSent'
    BY <2>1 DEF StateInv, SentIsRecorded, OnlyWhatWasSent
  <2>4. JournalHonest' /\ AppliedIsCommitted' /\ FailedHonest'
    BY <2>1 DEF StateInv, JournalHonest, AppliedIsCommitted, FailedHonest
  <2>5. StageHonest'
    BY <2>1 DEF StateInv, StageHonest
  <2>6. QED
    BY <2>2, <2>3, <2>4, <2>5 DEF StateInv
<1>6. ASSUME NEW o \in Ops, ExtRefuse(o) PROVE StateInv'
  BY <1>6 DEF ExtRefuse, service, limits, StateInv, ChangesOK, StateTypeOK, SentIsRecorded, OnlyWhatWasSent,
     JournalHonest, AppliedIsCommitted, FailedHonest, StageHonest
<1>7. ASSUME NEW o \in Ops, ApplyAnswered(o) PROVE StateInv'
  BY <1>7, ChangeSettled DEF ApplyAnswered, ChangeStatuses
<1>8. ASSUME NEW o \in Ops, Timeout(o) PROVE StateInv'
  BY <1>8, ChangeSettled DEF Timeout, ChangeStatuses
<1>9. ASSUME NEW o \in Ops, CutOff(o) PROVE StateInv'
  <2>1. o \in cut /\ o \notin flight
    BY <1>9 DEF CutOff, StateInv, OnlyWhatWasSent
  <2>2. QED
    BY <1>9, <2>1, ChangeSettled DEF CutOff, ChangeStatuses
<1>10. ASSUME NEW o \in Ops, Reconcile(o) PROVE StateInv'
  <2> DEFINE r == [op[o] EXCEPT !.status = "applied"]
  <2>1. r \in Change /\ r.status = "applied" /\ r.dispatched = op[o].dispatched
    BY WithStatus DEF ChangeStatuses
  <2>2. op' = [op EXCEPT ![o] = r] /\ journal' = [journal EXCEPT ![o] = r]
    BY <1>10 DEF Reconcile, Record, Journalled
  <2> HIDE DEF r
  <2>3. o \in ledger
    BY <1>10 DEF Reconcile, StateInv, AppliedIsCommitted
  <2>4. attempt' \in Attempts /\ \A q \in Ops : attempt'[q] = "verified" => q \in ledger
    BY <1>10, <2>3, ReconciledType DEF Reconcile
  <2>5. busy' \in {busy, None} /\ faults' \in 0..MaxFaults
        /\ UNCHANGED <<extension, sends, cut, backup, restarts>>
    BY <1>10 DEF Reconcile, StateInv, ChangesOK, StateTypeOK, limits
  <2>6. QED
    BY <2>1, <2>2, <2>3, <2>4, <2>5, ChangeWritten
<1>11. CASE ProcessExit
  <2>1. /\ flight' = {} /\ pause' = FALSE /\ cut' = (IF Free THEN cut ELSE cut \union {busy})
        /\ faults' = faults + 1 /\ faults < MaxFaults
        /\ UNCHANGED <<rev, ledger, op, journal, attempt, busy, sends, backup, restarts>>
    BY <1>11 DEF ProcessExit
  <2>2. ChangesOK'
    <3>1. faults' \in 0..MaxFaults
      BY <2>1 DEF StateInv, ChangesOK, StateTypeOK, StateAssumption
    <3>2. QED
      BY <2>1, <3>1 DEF StateInv, ChangesOK, StateTypeOK
  <2>3. OnlyWhatWasSent'
    BY <2>1 DEF StateInv, ChangesOK, StateTypeOK, OnlyWhatWasSent, Free
  <2>4. cut \subseteq cut'
    BY <2>1
  <2>5. QED
    BY <2>1, <2>2, <2>3, <2>4 DEF StateInv, SentIsRecorded, JournalHonest, AppliedIsCommitted,
                      FailedHonest, StageHonest
<1>12. CASE Restart
  <2>1. /\ op' = journal /\ busy' = None /\ flight' = {} /\ pause' = FALSE /\ cut' = cut
        /\ restarts < MaxRestarts /\ restarts' = restarts + 1
        /\ backup' = (IF backup.at = "published" THEN backup ELSE NoBackup)
        /\ UNCHANGED <<rev, ledger, journal, sends, faults>>
    BY <1>12 DEF Restart
  <2>2. attempt \in Attempts
    BY DEF StateInv, ChangesOK, StateTypeOK, Attempts
  <2>3. ASSUME NEW o \in Ops
        PROVE  /\ Reconciled(o)[o] \in {"none", "pending", "unknown", "verified", "done", "refused"}
               /\ Reconciled(o)[o] = "verified" => attempt[o] \in {"unknown", "verified"}
    BY <2>2 DEF Reconciled, Attempts
  <2>4. /\ attempt' \in Attempts
        /\ \A o \in Ops : attempt'[o] = "verified" => attempt[o] = "verified" \/ journal[o].status = "applied"
    <3>1. attempt' = [o \in Ops |-> CASE journal[o].status = "applied" -> Reconciled(o)[o]
                                      [] journal[o].status = "failed" /\ attempt[o] = "pending" -> "refused"
                                      [] OTHER -> attempt[o]]
      BY <1>12 DEF Restart
    <3>2. QED
      BY <2>2, <2>3, <3>1 DEF Attempts
  <2>5. ChangesOK'
    <3>1. \A o \in Ops : journal[o].status \in ChangeStatuses
      BY DEF StateInv, ChangesOK, Change
    <3>2. backup' \in [at : Stages, ledger : SUBSET Ops, journal : [Ops -> Change]]
      BY <2>1, NoBackupType DEF StateInv, ChangesOK
    <3>3. restarts' \in 0..MaxRestarts
      BY <2>1 DEF StateInv, ChangesOK, StateTypeOK, StateAssumption
    <3>4. backup'.at \in Stages
      BY <3>2
    <3>5. StateTypeOK'
      BY <2>1, <2>4, <3>1, <3>3, <3>4 DEF StateInv, ChangesOK, StateTypeOK, Attempts, ChangeStatuses, Stages
    <3>6. QED
      BY <2>1, <3>2, <3>5 DEF StateInv, ChangesOK
  <2>6. SentIsRecorded' /\ OnlyWhatWasSent'
    BY <2>1 DEF StateInv, SentIsRecorded, OnlyWhatWasSent
  <2>7. JournalHonest' /\ AppliedIsCommitted' /\ FailedHonest'
    BY <2>1, <2>4 DEF StateInv, JournalHonest, AppliedIsCommitted, FailedHonest
  <2>8. StageHonest'
    BY <2>1, NoBackupType DEF StateInv, StageHonest
  <2>9. QED
    BY <2>5, <2>6, <2>7, <2>8 DEF StateInv
<1>13. ASSUME NEW next \in {"first", "second"}, backup.at \in {"idle", "pause"}, ReconcileWrites(next)
       PROVE  StateInv'
  <2>1. UNCHANGED <<rev, ledger, pause, flight, busy, sends, cut, faults, restarts>>
    BY <1>13 DEF ReconcileWrites, extension, limits
  <2>2. CASE ~(UnresolvedChanges \subseteq ledger)
    <3>1. backup' = NoBackup /\ UNCHANGED <<op, journal, attempt>>
      BY <1>13, <2>2 DEF ReconcileWrites
    <3>2. QED
      BY <2>1, <3>1, NoBackupType DEF StateInv, ChangesOK, StateTypeOK, SentIsRecorded, OnlyWhatWasSent,
         JournalHonest, AppliedIsCommitted, FailedHonest, StageHonest
  <2>3. CASE UnresolvedChanges \subseteq ledger
    <3>1. /\ op' = [o \in Ops |-> IF o \in UnresolvedChanges THEN [op[o] EXCEPT !.status = "applied"] ELSE op[o]]
          /\ journal' = [o \in Ops |-> IF o \in UnresolvedChanges THEN op'[o] ELSE journal[o]]
          /\ attempt' = [o \in Ops |-> IF o \in UnresolvedChanges THEN Reconciled(o)[o] ELSE attempt[o]]
          /\ backup' = [backup EXCEPT !.at = next]
      BY <1>13, <2>3 DEF ReconcileWrites
    <3>2. ASSUME NEW o \in Ops
          PROVE  LET r == [op[o] EXCEPT !.status = "applied"]
                 IN r \in Change /\ r.status = "applied" /\ r.dispatched = op[o].dispatched
      BY WithStatus DEF ChangeStatuses
    <3>3. /\ op' \in [Ops -> Change]
          /\ \A o \in Ops : \/ o \in UnresolvedChanges /\ op'[o].status = "applied" /\ op'[o].dispatched = op[o].dispatched
                            \/ o \notin UnresolvedChanges /\ op'[o] = op[o]
      BY <3>1, <3>2 DEF StateInv, ChangesOK
    <3>4. /\ journal' \in [Ops -> Change]
          /\ \A o \in Ops : journal'[o] = IF o \in UnresolvedChanges THEN op'[o] ELSE journal[o]
      <4> DEFINE f == op'
      <4>1. f \in [Ops -> Change] /\ journal \in [Ops -> Change]
        BY <3>3 DEF StateInv, ChangesOK
      <4>2. journal' = [o \in Ops |-> IF o \in UnresolvedChanges THEN f[o] ELSE journal[o]]
        BY <3>1
      <4> HIDE DEF f
      <4>3. journal' \in [Ops -> Change] /\ \A o \in Ops : journal'[o] = IF o \in UnresolvedChanges THEN f[o] ELSE journal[o]
        BY <4>1, <4>2
      <4>4. QED
        BY <4>3 DEF f
    <3>5. attempt' \in Attempts /\ \A q \in Ops : attempt'[q] = "verified" => q \in ledger
      <4>1. attempt \in Attempts /\ \A o \in Ops : attempt[o] = "verified" => o \in ledger
        BY DEF StateInv, ChangesOK, StateTypeOK, Attempts, AppliedIsCommitted
      <4>2. ASSUME NEW o \in Ops, o \in UnresolvedChanges
            PROVE  Reconciled(o)[o] \in {"none", "pending", "unknown", "verified", "done", "refused"}
        BY <2>3, <4>2, ReconciledType DEF Attempts
      <4>3. QED
        BY <2>3, <3>1, <4>1, <4>2 DEF Attempts
    <3>6. /\ backup' \in [at : Stages, ledger : SUBSET Ops, journal : [Ops -> Change]]
          /\ backup'.at \in {"first", "second"} /\ backup'.ledger = backup.ledger
      BY <3>1 DEF StateInv, ChangesOK, Stages
    <3>7. \A o \in Ops : op'[o].status \in ChangeStatuses /\ journal'[o].status \in ChangeStatuses
      BY <3>3, <3>4 DEF Change
    <3>8. ChangesOK'
      BY <2>1, <3>3, <3>4, <3>5, <3>6, <3>7 DEF StateInv, ChangesOK, StateTypeOK, Attempts, ChangeStatuses, Stages
    <3>9. SentIsRecorded' /\ OnlyWhatWasSent'
      BY <2>1, <3>3, <3>4 DEF StateInv, SentIsRecorded, OnlyWhatWasSent
    <3>10. JournalHonest' /\ AppliedIsCommitted' /\ FailedHonest'
      BY <2>1, <2>3, <3>3, <3>4, <3>5 DEF StateInv, JournalHonest, AppliedIsCommitted, FailedHonest
    <3>11. StageHonest'
      BY <2>1, <3>6 DEF StateInv, StageHonest
    <3>12. QED
      BY <3>8, <3>9, <3>10, <3>11 DEF StateInv
  <2>4. QED
    BY <2>2, <2>3
<1>14. CASE BackupFirst \/ BackupSecond
  BY <1>13, <1>14 DEF BackupFirst, BackupSecond
<1>15. ASSUME UNCHANGED <<rev, ledger, flight, op, journal, attempt, busy, sends, cut, faults, restarts>>,
              pause' \in BOOLEAN, StageHonest',
              backup' \in [at : Stages, ledger : SUBSET Ops, journal : [Ops -> Change]]
       PROVE  StateInv'
  <2>1. backup'.at \in Stages
    BY <1>15
  <2>2. ChangesOK'
    BY <1>15, <2>1 DEF StateInv, ChangesOK, StateTypeOK, Stages
  <2>3. QED
    BY <1>15, <2>2 DEF StateInv, SentIsRecorded, OnlyWhatWasSent, JournalHonest, AppliedIsCommitted, FailedHonest
<1>16. CASE BackupPause
  <2>1. pause' = TRUE /\ backup' = [backup EXCEPT !.at = "pause"]
        /\ UNCHANGED <<rev, ledger, flight, op, journal, attempt, busy, sends, cut, faults, restarts>>
    BY <1>16 DEF BackupPause, service, limits
  <2>2. /\ backup' \in [at : Stages, ledger : SUBSET Ops, journal : [Ops -> Change]]
        /\ backup'.at = "pause" /\ backup'.ledger = backup.ledger
    BY <2>1 DEF StateInv, ChangesOK, Stages
  <2>3. StageHonest'
    BY <2>1, <2>2 DEF StateInv, StageHonest
  <2>4. QED
    BY <1>15, <2>1, <2>2, <2>3
<1>17. CASE BackupDump
  <2>1. backup' = [backup EXCEPT !.at = "dump", !.ledger = ledger]
        /\ UNCHANGED <<rev, ledger, pause, flight, op, journal, attempt, busy, sends, cut, faults, restarts>>
    BY <1>17 DEF BackupDump, extension, service, limits
  <2>2. /\ backup' \in [at : Stages, ledger : SUBSET Ops, journal : [Ops -> Change]]
        /\ backup'.at = "dump" /\ backup'.ledger = ledger
    BY <2>1 DEF StateInv, ChangesOK, StateTypeOK, Stages
  <2>3. StageHonest' /\ pause' \in BOOLEAN
    BY <2>1, <2>2 DEF StateInv, ChangesOK, StateTypeOK, StageHonest
  <2>4. QED
    BY <1>15, <2>1, <2>2, <2>3
<1>18. CASE BackupSnapshot
  <2>1. backup.at = "dump" /\ backup' = [backup EXCEPT !.at = "snapshot", !.journal = journal]
        /\ UNCHANGED <<rev, ledger, pause, flight, op, journal, attempt, busy, sends, cut, faults, restarts>>
    BY <1>18 DEF BackupSnapshot, extension, service, limits
  <2>2. /\ backup' \in [at : Stages, ledger : SUBSET Ops, journal : [Ops -> Change]]
        /\ backup'.at = "snapshot" /\ backup'.ledger = backup.ledger /\ backup'.journal = journal
    BY <2>1 DEF StateInv, ChangesOK, Stages
  <2>3. ASSUME NEW o \in Ops
        PROVE  /\ o \in backup.ledger => journal[o].dispatched
               /\ journal[o].status = "applied" => o \in ledger
    BY DEF StateInv, StageHonest, OnlyWhatWasSent, SentIsRecorded, JournalHonest
  <2>4. StageHonest' /\ pause' \in BOOLEAN
    BY <2>1, <2>2, <2>3 DEF StateInv, ChangesOK, StateTypeOK, StageHonest
  <2>5. QED
    BY <1>15, <2>1, <2>2, <2>4
<1>19. CASE BackupPublish
  <2>1. /\ backup.at = "snapshot" /\ pause' = FALSE
        /\ backup' = (IF pause THEN [backup EXCEPT !.at = "published"] ELSE NoBackup)
        /\ UNCHANGED <<rev, ledger, flight, op, journal, attempt, busy, sends, cut, faults, restarts>>
    BY <1>19 DEF BackupPublish, service, limits
  <2>2. CASE pause
    <3>1. /\ backup' \in [at : Stages, ledger : SUBSET Ops, journal : [Ops -> Change]]
          /\ backup'.at = "published" /\ backup'.ledger = backup.ledger /\ backup'.journal = backup.journal
      BY <2>1, <2>2 DEF StateInv, ChangesOK, Stages
    <3>2. ledger = backup.ledger
      BY <2>1, <2>2 DEF StateInv, StageHonest
    <3>3. StageHonest'
      BY <2>1, <3>1, <3>2 DEF StateInv, StageHonest
    <3>4. QED
      BY <1>15, <2>1, <3>1, <3>3
  <2>3. CASE ~pause
    <3>1. StageHonest'
      BY <2>1, <2>3, NoBackupType DEF StageHonest
    <3>2. QED
      BY <1>15, <2>1, <2>3, <3>1, NoBackupType
  <2>4. QED
    BY <2>2, <2>3
<1>20. CASE BackupFail
  <2>1. backup' = NoBackup /\ pause' = FALSE
        /\ UNCHANGED <<rev, ledger, flight, op, journal, attempt, busy, sends, cut, faults, restarts>>
    BY <1>20 DEF BackupFail, service, limits
  <2>2. StageHonest'
    BY <2>1, NoBackupType DEF StageHonest
  <2>3. QED
    BY <1>15, <2>1, <2>2, NoBackupType
<1>21. CASE PauseExpires
  <2>1. pause' = FALSE
        /\ UNCHANGED <<rev, ledger, flight, op, journal, attempt, busy, sends, cut, backup, faults, restarts>>
    BY <1>21 DEF PauseExpires, service, limits
  <2>2. StageHonest'
    BY <2>1 DEF StateInv, StageHonest
  <2>3. QED
    BY <1>15, <2>1, <2>2 DEF StateInv, ChangesOK
<1>22. CASE UNCHANGED stateVars
  BY <1>22 DEF stateVars, StateInv, ChangesOK, StateTypeOK, SentIsRecorded, OnlyWhatWasSent, JournalHonest,
               AppliedIsCommitted, FailedHonest, StageHonest
<1>23. QED
  BY <1>1, <1>2, <1>3, <1>4, <1>5, <1>6, <1>7, <1>8, <1>9, <1>10, <1>11, <1>12, <1>14, <1>16, <1>17,
     <1>18, <1>19, <1>20, <1>21, <1>22 DEF StateNext

\* For any number of operations, faults and restarts: a change is sent to an
\* extension at most once, recorded as applied only when it was committed and as
\* failed only when it was not made, unless the process died under the call; and a
\* published pair of backups agrees (extension_state.go applyExtensionState,
\* ReconcileExtensionChange; extension_backup.go BackupExtensionPair).
THEOREM StateHonestAlways == ASSUME StateAssumption PROVE StateSpec => []StateHonest
<1>1. StateInv => StateHonest
  <2>1. SentIsRecorded => SentOnce
    BY DEF SentIsRecorded, SentOnce
  <2>2. ChangesOK /\ StageHonest => PairConsistent
    BY DEF ChangesOK, StageHonest, PairConsistent
  <2>3. SentIsRecorded /\ OnlyWhatWasSent /\ FailedHonest => FailedIsNot
    BY DEF SentIsRecorded, OnlyWhatWasSent, FailedHonest, FailedIsNot
  <2>4. QED
    BY <2>1, <2>2, <2>3 DEF StateInv, ChangesOK, StateHonest
<1>2. QED
  BY <1>1, StateInitInv, StateNextInv, PTL DEF StateSpec

-----------------------------------------------------------------------------
(* The process all hooks share.                                               *)
(*                                                                            *)
(* What makes it inductive: startMu is held from the start of a process until *)
(* it is registered, and then no other is registered; a call that was given a *)
(* process was given one with its settings.  For the budget: everything of    *)
(* one sitting of a Run holds the same counter, which is not made anew while  *)
(* anybody holds it.                                                          *)

CallPlaces == {"idle", "configured", "starting", "client", "open", "sent", "abandon", "done"}
HookRecord ==
  [pc : CallPlaces, kind : {"hook", "tool"}, run : HookRuns \union {NoCaller},
   sig : Signatures \union {NoCaller}, proc : Procs \union {0}, counter : Counters \union {0}]
ProcessRecord ==
  [sig : Signatures \union {NoCaller}, state : {"unused", "starting", "ready", "dead"}]
Admitted(d) == handler[d].pc = "admitted"

\* What calls, processes and model requests are.
CallsTyped ==
  /\ ProcessTypeOK
  /\ hook \in [HookCalls -> HookRecord] /\ proc \in [Procs -> ProcessRecord]
  /\ dispatched \in [HookRuns -> Nat]
  /\ DOMAIN handler = Requesters
  /\ \A d \in Requesters :
       \/ handler[d].pc \in {"idle", "done"} /\ handler[d].call = NoCaller
       \/ /\ Admitted(d) /\ handler[d].call \in HookCalls
          /\ handler[d].run \in HookRuns /\ handler[d].counter \in Counters
          /\ handler[d].sitting \in 0..MaxResumes

\* startMu is held while a process starts, and by the call that starts it.
MutexHeld == \A c \in HookCalls : CallAt(c, "starting") <=> startMu = c

\* A call that was given a process has one that was started with its settings.
GivenProcess ==
  \A c \in HookCalls :
    hook[c].pc \in {"starting", "client", "open", "sent", "abandon"} =>
      /\ hook[c].proc \in Procs /\ hook[c].run \in HookRuns
      /\ proc[hook[c].proc].state # "unused" /\ proc[hook[c].proc].sig = hook[c].sig
\* And every call under way serves a Run that is not settled.
ServesLive ==
  \A c \in HookCalls :
    hook[c].pc \notin {"idle", "done"} =>
      /\ hook[c].run \in HookRuns /\ hook[c].sig \in Signatures /\ turn[hook[c].run] = "live"

\* One process; none after close.
ClosedFree == closed => startMu = NoCaller /\ client = 0 /\ \A r \in HookRuns : usage[r] = 0
RegisteredUsed == client # 0 => proc[client].state # "unused" /\ startMu = NoCaller

\* The counter of a sitting: held by the calls and the model requests of its Run, and
\* nothing dispatched that it has not booked.
CounterKept ==
  ~closed => \A c \in HookCalls : hook[c].pc \in {"open", "sent", "abandon"} =>
               hook[c].counter # 0 /\ usage[hook[c].run] = hook[c].counter
Booked ==
  \A r \in HookRuns :
    /\ usage[r] # 0 => dispatched[r] <= spent[usage[r]]
    /\ usage[r] = 0 /\ turn[r] = "live" /\ ~closed => dispatched[r] = 0
    /\ turn[r] = "settled" => usage[r] = 0
RequestsBooked ==
  \A d \in Requesters : Admitted(d) =>
    LET r == handler[d].run IN
    /\ handler[d].sitting <= resumes[r]
    /\ handler[d].sitting = resumes[r] =>
         /\ dispatched[r] <= spent[handler[d].counter]
         /\ ~closed /\ turn[r] = "live" => usage[r] = handler[d].counter
SittingShared ==
  \A d, e \in Requesters :
    Admitted(d) /\ Admitted(e) /\ handler[d].run = handler[e].run
      /\ handler[d].sitting = resumes[handler[d].run] /\ handler[e].sitting = resumes[handler[d].run]
      => handler[d].counter = handler[e].counter

BudgetInv == CounterKept /\ Booked /\ RequestsBooked /\ SittingShared /\ BudgetShared
CallsInv ==
  /\ CallsTyped /\ MutexHeld /\ GivenProcess /\ ServesLive /\ OneProcess /\ ClosedFree
  /\ RegisteredUsed
ProcessInv == CallsInv /\ BudgetInv

LEMMA CountersNat ==
  ASSUME ProcessAssumption
  PROVE /\ Counters \subseteq Nat \ {0} /\ 0 \notin Counters
        /\ Procs \subseteq Nat \ {0} /\ 0 \notin Procs
<1>1. Cardinality(HookCalls) \in Nat /\ Cardinality(Requesters) \in Nat
  BY FS_CardinalityType DEF ProcessAssumption
<1> QED BY <1>1 DEF ProcessAssumption, Counters, Procs

LEMMA IdleTypes ==
  /\ IdleCall \in HookRecord /\ [IdleCall EXCEPT !.pc = "done"] \in HookRecord
  /\ IdleCall.pc = "idle" /\ IdleCall.counter = 0 /\ IdleCall.proc = 0
  /\ [IdleCall EXCEPT !.pc = "done"].pc = "done"
  /\ UnusedProcess \in ProcessRecord
  BY DEF IdleCall, HookRecord, CallPlaces, UnusedProcess, ProcessRecord

\* What the types of calls and processes say of their fields.
LEMMA FieldTypes ==
  ASSUME NEW f \in [HookCalls -> HookRecord], NEW g \in [Procs -> ProcessRecord]
  PROVE /\ \A p \in Procs : g[p].state \in {"unused", "starting", "ready", "dead"}
        /\ \A c \in HookCalls :
             /\ f[c].pc \in {"idle", "configured", "starting", "client", "open", "sent",
                             "abandon", "done"}
             /\ f[c].proc \in Procs \union {0} /\ f[c].counter \in Counters \union {0}
<1>1. ASSUME NEW p \in Procs PROVE g[p].state \in {"unused", "starting", "ready", "dead"}
  <2>1. g[p] \in ProcessRecord
    OBVIOUS
  <2> QED BY <2>1 DEF ProcessRecord
<1>2. ASSUME NEW c \in HookCalls
      PROVE /\ f[c].pc \in CallPlaces
            /\ f[c].proc \in Procs \union {0} /\ f[c].counter \in Counters \union {0}
  <2>1. f[c] \in HookRecord
    OBVIOUS
  <2> QED BY <2>1 DEF HookRecord
<1> QED BY <1>1, <1>2 DEF CallPlaces

LEMMA ProcessInitInv ==
  ASSUME ProcessAssumption, ProcessInit
  PROVE ProcessInv
<1>1. CallsTyped
  <2>1. 0 \in 0..MaxCalls /\ 0 \in 0..MaxResumes /\ 0 \in Nat
    BY DEF ProcessAssumption
  <2>2. /\ hook \in [HookCalls -> HookRecord] /\ proc \in [Procs -> ProcessRecord]
    BY IdleTypes DEF ProcessInit
  <2>3. /\ usage \in [HookRuns -> Counters \union {0}] /\ spent \in [Counters -> 0..MaxCalls]
        /\ turn \in [HookRuns -> {"live", "settled"}] /\ resumes \in [HookRuns -> 0..MaxResumes]
        /\ dispatched \in [HookRuns -> Nat]
    BY <2>1 DEF ProcessInit
  <2>4. ProcessTypeOK
    BY <2>2, <2>3, FieldTypes DEF ProcessInit, ProcessTypeOK
  <2>5. /\ DOMAIN handler = Requesters
        /\ \A d \in Requesters : handler[d].pc = "idle" /\ handler[d].call = NoCaller
    BY DEF ProcessInit
  <2> QED BY <2>2, <2>3, <2>4, <2>5 DEF CallsTyped
<1>2. \A c \in HookCalls : hook[c].pc = "idle" /\ hook[c] = IdleCall
  BY IdleTypes DEF ProcessInit
<1>3. MutexHeld /\ GivenProcess /\ ServesLive
  BY <1>2 DEF ProcessInit, ProcessAssumption, MutexHeld, CallAt, GivenProcess, ServesLive
<1>4. OneProcess
  BY DEF ProcessInit, OneProcess, Alive, UnusedProcess
<1>5. ClosedFree /\ RegisteredUsed
  BY DEF ProcessInit, ClosedFree, RegisteredUsed
<1>6. CounterKept
  BY <1>2 DEF CounterKept
<1>7. \A d \in Requesters : handler[d].pc = "idle"
  BY DEF ProcessInit
<1>8. Booked /\ RequestsBooked /\ SittingShared
  BY <1>7 DEF ProcessInit, Booked, RequestsBooked, SittingShared, Admitted
<1>9. BudgetShared
  BY DEF ProcessInit, BudgetShared, ProcessAssumption
<1> QED BY <1>1, <1>3, <1>4, <1>5, <1>6, <1>8, <1>9 DEF ProcessInv, CallsInv, BudgetInv

\* A step that books nothing, and brings no call further than it was.
LEMMA NothingBooked ==
  ASSUME ProcessInv, UNCHANGED budget, closed' = closed \/ closed',
         \A c \in HookCalls : hook'[c].pc \in {"open", "sent", "abandon"} =>
            /\ hook[c].pc \in {"open", "sent", "abandon"}
            /\ hook'[c].run = hook[c].run /\ hook'[c].counter = hook[c].counter
  PROVE BudgetInv'
<1>1. UNCHANGED <<usage, spent, handler, turn, dispatched, resumes>>
  BY DEF budget
<1>2. CounterKept'
  BY <1>1 DEF ProcessInv, BudgetInv, CounterKept
<1>3. Booked'
  BY <1>1 DEF ProcessInv, BudgetInv, Booked
<1>4. RequestsBooked'
  BY <1>1 DEF ProcessInv, BudgetInv, RequestsBooked, Admitted
<1>5. SittingShared'
  BY <1>1 DEF ProcessInv, BudgetInv, SittingShared, Admitted
<1>6. BudgetShared'
  BY <1>1 DEF ProcessInv, BudgetInv, BudgetShared
<1> QED BY <1>2, <1>3, <1>4, <1>5, <1>6 DEF BudgetInv

\* Processes only end.
OnlyEnds ==
  /\ proc' \in [Procs -> ProcessRecord]
  /\ \A p \in Procs : /\ proc'[p].sig = proc[p].sig
                      /\ proc'[p].state = "unused" <=> proc[p].state = "unused"
                      /\ Alive(p)' => Alive(p)

LEMMA DeadEnds ==
  ASSUME ProcessAssumption, ProcessInv, NEW p \in Procs \union {0},
         p # 0 => proc[p].state # "unused",
         proc' \in {proc, IF p = 0 THEN proc ELSE Dead(proc, p)}
  PROVE /\ OnlyEnds
        /\ proc' # proc => p # 0 /\ ~Alive(p)'
<1>1. proc \in [Procs -> ProcessRecord]
  BY DEF ProcessInv, CallsInv, CallsTyped
<1>2. CASE proc' = proc
  BY <1>1, <1>2 DEF OnlyEnds, Alive
<1>3. CASE p # 0 /\ proc' = Dead(proc, p)
  <2>1. ASSUME NEW q \in Procs
        PROVE /\ proc'[q] \in ProcessRecord /\ proc'[q].sig = proc[q].sig
              /\ proc'[q].state = IF q = p THEN "dead" ELSE proc[q].state
    <3>1. proc[q] \in ProcessRecord
      BY <1>1
    <3>2. proc'[q] = IF q = p THEN [proc[q] EXCEPT !.state = "dead"] ELSE proc[q]
      BY <1>3 DEF Dead
    <3> QED BY <3>1, <3>2 DEF ProcessRecord
  <2>2. proc' \in [Procs -> ProcessRecord]
    BY <2>1, <1>3 DEF Dead
  <2> QED BY <1>3, <2>1, <2>2 DEF OnlyEnds, Alive
<1> QED BY <1>2, <1>3

\* One call moves on to n, or is over; it does not start a process.
LEMMA CallMoves ==
  ASSUME ProcessAssumption, ProcessInv, NEW c \in HookCalls, NEW n \in HookRecord,
         hook' = [hook EXCEPT ![c] = n],
         UNCHANGED <<config, closed, startMu, client, budget>>, OnlyEnds,
         hook[c].pc # "starting", n.pc # "starting",
         n.pc \in {"client", "open", "sent", "abandon"} =>
           /\ n.proc \in Procs /\ proc[n.proc].state # "unused" /\ proc[n.proc].sig = n.sig,
         n.pc \notin {"idle", "done"} =>
           n.run \in HookRuns /\ n.sig \in Signatures /\ turn[n.run] = "live",
         n.pc \in {"open", "sent", "abandon"} =>
           /\ hook[c].pc \in {"open", "sent", "abandon"}
           /\ n.run = hook[c].run /\ n.counter = hook[c].counter
  PROVE ProcessInv'
<1>1. UNCHANGED <<usage, spent, handler, turn, dispatched, resumes>>
  BY DEF budget
<1>2. hook \in [HookCalls -> HookRecord]
  BY DEF ProcessInv, CallsInv, CallsTyped
<1>3. \A d \in HookCalls : hook'[d] = IF d = c THEN n ELSE hook[d]
  BY <1>2
<1>4. CallsTyped'
  <2>1. hook' \in [HookCalls -> HookRecord] /\ proc' \in [Procs -> ProcessRecord]
    BY <1>2 DEF OnlyEnds
  <2>2. ProcessTypeOK'
    BY <2>1, <1>1, FieldTypes DEF ProcessInv, CallsInv, CallsTyped, ProcessTypeOK
  <2> QED BY <2>1, <2>2, <1>1 DEF ProcessInv, CallsInv, CallsTyped, Admitted
<1>5. MutexHeld'
  BY <1>3 DEF ProcessInv, CallsInv, MutexHeld, CallAt
<1>6. GivenProcess'
  <2> SUFFICES ASSUME NEW d \in HookCalls,
                      hook'[d].pc \in {"starting", "client", "open", "sent", "abandon"}
               PROVE /\ hook'[d].proc \in Procs /\ hook'[d].run \in HookRuns
                     /\ proc'[hook'[d].proc].state # "unused"
                     /\ proc'[hook'[d].proc].sig = hook'[d].sig
    BY DEF GivenProcess
  <2>1. CASE d = c
    BY <1>3, <2>1 DEF OnlyEnds
  <2>2. CASE d # c
    BY <1>3, <2>2 DEF OnlyEnds, ProcessInv, CallsInv, GivenProcess
  <2> QED BY <2>1, <2>2
<1>7. ServesLive'
  BY <1>1, <1>3 DEF ProcessInv, CallsInv, ServesLive
<1>8. OneProcess'
  <2>1. startMu # c
    BY DEF ProcessInv, CallsInv, MutexHeld, CallAt
  <2>2. startMu # NoCaller => hook'[startMu] = hook[startMu]
    BY <1>3, <2>1 DEF ProcessInv, CallsInv, CallsTyped, ProcessTypeOK
  <2> QED BY <2>2 DEF ProcessInv, CallsInv, OneProcess, OnlyEnds
<1>9. ClosedFree' /\ RegisteredUsed'
  BY <1>1 DEF ProcessInv, CallsInv, ClosedFree, RegisteredUsed, OnlyEnds, CallsTyped, ProcessTypeOK
<1>10. BudgetInv'
  BY <1>3, NothingBooked
<1> QED BY <1>4, <1>5, <1>6, <1>7, <1>8, <1>9, <1>10 DEF ProcessInv, CallsInv

LEMMA HookFacts ==
  ASSUME ProcessInv, NEW c \in HookCalls
  PROVE /\ hook[c] \in HookRecord /\ hook \in [HookCalls -> HookRecord]
        /\ hook[c].pc \in CallPlaces /\ hook[c].kind \in {"hook", "tool"}
        /\ hook[c].counter \in Counters \union {0} /\ hook[c].proc \in Procs \union {0}
        /\ \A p \in CallPlaces : /\ [hook[c] EXCEPT !.pc = p] \in HookRecord
                                 /\ [hook[c] EXCEPT !.pc = p].pc = p
                                 /\ [hook[c] EXCEPT !.pc = p].run = hook[c].run
                                 /\ [hook[c] EXCEPT !.pc = p].sig = hook[c].sig
                                 /\ [hook[c] EXCEPT !.pc = p].proc = hook[c].proc
                                 /\ [hook[c] EXCEPT !.pc = p].counter = hook[c].counter
                                 /\ [hook[c] EXCEPT !.pc = p].kind = hook[c].kind
<1>1. hook[c] \in HookRecord /\ hook \in [HookCalls -> HookRecord]
  BY DEF ProcessInv, CallsInv, CallsTyped
<1> QED BY <1>1 DEF HookRecord

\* A call that is over.
LEMMA CallEnds ==
  ASSUME ProcessAssumption, ProcessInv, NEW c \in HookCalls, CallOver(c), hook[c].pc # "starting",
         UNCHANGED <<config, closed, startMu, client, budget>>, OnlyEnds
  PROVE ProcessInv'
<1> DEFINE n == [IdleCall EXCEPT !.pc = "done"]
<1>1. n \in HookRecord /\ n.pc = "done"
  BY IdleTypes
<1>2. hook' = [hook EXCEPT ![c] = n]
  BY DEF CallOver
<1> HIDE DEF n
<1> QED BY <1>1, <1>2, CallMoves

LEMMA NothingEnds ==
  ASSUME ProcessInv, UNCHANGED proc
  PROVE OnlyEnds
  BY DEF OnlyEnds, ProcessInv, CallsInv, CallsTyped, Alive

LEMMA MovingSteps ==
  ASSUME ProcessAssumption, ProcessInv, NEW c \in HookCalls,
         \/ \E r \in HookRuns, k \in {"hook", "tool"} : BeginCall(c, r, k)
         \/ Reuse(c) \/ Refuse(c) \/ Send(c) \/ Answer(c) \/ Interrupted(c)
         \/ AbandonExtensionCall(c)
  PROVE ProcessInv'
<1>1. ASSUME NEW r \in HookRuns, NEW k \in {"hook", "tool"}, BeginCall(c, r, k) PROVE ProcessInv'
  <2> DEFINE n == [IdleCall EXCEPT !.pc = "configured", !.kind = k, !.run = r, !.sig = config]
  <2>1. config \in Signatures
    BY DEF ProcessInv, CallsInv, CallsTyped, ProcessTypeOK
  <2>2. n \in HookRecord /\ n.pc = "configured" /\ n.run = r /\ n.sig = config
    BY <2>1 DEF IdleCall, HookRecord, CallPlaces
  <2>3. /\ hook' = [hook EXCEPT ![c] = n] /\ hook[c].pc = "idle" /\ turn[r] = "live"
        /\ UNCHANGED <<config, closed, startMu, proc, client, budget>>
    BY <1>1 DEF BeginCall, CallAt
  <2> HIDE DEF n
  <2> QED BY <2>1, <2>2, <2>3, NothingEnds, CallMoves
<1>2. CASE Reuse(c)
  <2> DEFINE n == [hook[c] EXCEPT !.pc = "client", !.proc = client]
  <2>1. client \in Procs /\ proc[client].state = "ready" /\ proc[client].sig = hook[c].sig
    BY <1>2 DEF Reuse, ProcessInv, CallsInv, CallsTyped, ProcessTypeOK
  <2>2. hook[c] \in HookRecord
    BY HookFacts
  <2>3. /\ n \in HookRecord /\ n.pc = "client" /\ n.run = hook[c].run /\ n.sig = hook[c].sig
        /\ n.proc = client
    BY <2>1, <2>2 DEF HookRecord, CallPlaces
  <2>4. /\ hook' = [hook EXCEPT ![c] = n] /\ hook[c].pc = "configured"
        /\ UNCHANGED <<config, closed, startMu, proc, client, budget>>
    BY <1>2 DEF Reuse, CallAt
  <2>5. n.run \in HookRuns /\ n.sig \in Signatures /\ turn[n.run] = "live"
    BY <2>3, <2>4 DEF ProcessInv, CallsInv, ServesLive
  <2> HIDE DEF n
  <2> QED BY <2>1, <2>3, <2>4, <2>5, NothingEnds, CallMoves
<1>3. CASE Refuse(c)
  BY <1>3, CallEnds, NothingEnds DEF Refuse, CallAt
<1>4. CASE Send(c) \/ Interrupted(c)
  <2>1. PICK p \in {"sent", "abandon"} : hook' = [hook EXCEPT ![c] = [hook[c] EXCEPT !.pc = p]]
    <3>1. PICK p \in {"sent", "abandon"} : hook' = [hook EXCEPT ![c].pc = p]
      BY <1>4 DEF Send, Interrupted
    <3> QED BY <3>1
  <2>2. /\ hook[c].pc \in {"open", "sent"}
        /\ UNCHANGED <<config, closed, startMu, proc, client, budget>>
    BY <1>4 DEF Send, Interrupted, CallAt
  <2> DEFINE n == [hook[c] EXCEPT !.pc = p]
  <2>3. /\ n \in HookRecord /\ n.pc = p /\ n.run = hook[c].run /\ n.sig = hook[c].sig
        /\ n.proc = hook[c].proc /\ n.counter = hook[c].counter
    <3>1. p \in CallPlaces
      BY DEF CallPlaces
    <3> QED BY <3>1, HookFacts
  <2>4. /\ n.proc \in Procs /\ proc[n.proc].state # "unused" /\ proc[n.proc].sig = n.sig
    BY <2>2, <2>3 DEF ProcessInv, CallsInv, GivenProcess
  <2>5. n.run \in HookRuns /\ n.sig \in Signatures /\ turn[n.run] = "live"
    BY <2>2, <2>3 DEF ProcessInv, CallsInv, ServesLive
  <2>6. hook' = [hook EXCEPT ![c] = n]
    BY <2>1
  <2> HIDE DEF n
  <2> QED BY <2>2, <2>3, <2>4, <2>5, <2>6, NothingEnds, CallMoves
<1>5. CASE Answer(c)
  BY <1>5, CallEnds, NothingEnds DEF Answer, CallAt
<1>6. CASE AbandonExtensionCall(c)
  <2>1. hook[c].proc \in Procs /\ proc[hook[c].proc].state # "unused"
    BY <1>6 DEF AbandonExtensionCall, CallAt, ProcessInv, CallsInv, GivenProcess
  <2>2. hook[c].proc # 0
    BY <2>1, CountersNat
  <2>3. OnlyEnds
    BY <1>6, <2>1, <2>2, DeadEnds DEF AbandonExtensionCall
  <2> QED BY <1>6, <2>3, CallEnds DEF AbandonExtensionCall, CallAt
<1> QED BY <1>1, <1>2, <1>3, <1>4, <1>5, <1>6

LEMMA StartStep ==
  ASSUME ProcessAssumption, ProcessInv, NEW c \in HookCalls, Start(c)
  PROVE ProcessInv'
<1>1. PICK p \in Procs :
        /\ hook[c].pc = "configured" /\ startMu = NoCaller /\ ~closed
        /\ proc[p] = UnusedProcess /\ client' = 0
        /\ proc' = [Stopped(client) EXCEPT ![p] = [sig |-> hook[c].sig, state |-> "starting"]]
        /\ startMu' = c
        /\ hook' = [hook EXCEPT ![c] = [hook[c] EXCEPT !.pc = "starting", !.proc = p]]
        /\ UNCHANGED <<config, closed, budget>>
  BY DEF Start, CallAt
<1>2. UNCHANGED <<usage, spent, handler, turn, dispatched, resumes>>
  BY <1>1 DEF budget
<1>3. /\ client \in Procs \union {0} /\ proc \in [Procs -> ProcessRecord]
      /\ hook \in [HookCalls -> HookRecord] /\ hook[c] \in HookRecord
  BY DEF ProcessInv, CallsInv, CallsTyped, ProcessTypeOK
<1>4. hook[c].run \in HookRuns /\ hook[c].sig \in Signatures /\ turn[hook[c].run] = "live"
  BY <1>1 DEF ProcessInv, CallsInv, ServesLive
<1>5. p # client /\ p # 0 /\ proc[p].state = "unused"
  <2>1. proc[p].state = "unused"
    BY <1>1 DEF UnusedProcess
  <2> QED BY <2>1, CountersNat DEF ProcessInv, CallsInv, RegisteredUsed
<1>6. ASSUME NEW q \in Procs
      PROVE /\ q # p => proc'[q].sig = proc[q].sig
            /\ q # p => (proc'[q].state = IF q = client THEN "dead" ELSE proc[q].state)
            /\ proc'[p].sig = hook[c].sig /\ proc'[p].state = "starting"
            /\ proc'[q] \in ProcessRecord
  <2>1. proc[q] \in ProcessRecord
    BY <1>3
  <2>2. CASE client = 0
    <3>1. proc' = [proc EXCEPT ![p] = [sig |-> hook[c].sig, state |-> "starting"]]
      BY <1>1, <2>2 DEF Stopped
    <3>2. q # client
      BY <2>2, CountersNat
    <3> QED BY <3>1, <3>2, <2>1, <1>3, <1>4 DEF ProcessRecord
  <2>3. CASE client # 0
    <3> DEFINE D == Dead(proc, client)
    <3>1. /\ D[q] = IF q = client THEN [proc[q] EXCEPT !.state = "dead"] ELSE proc[q]
          /\ DOMAIN D = Procs
      BY DEF Dead
    <3>2. proc' = [D EXCEPT ![p] = [sig |-> hook[c].sig, state |-> "starting"]]
      BY <1>1, <2>3 DEF Stopped
    <3> HIDE DEF D
    <3>3. proc'[p] = [sig |-> hook[c].sig, state |-> "starting"]
      BY <3>1, <3>2
    <3>4. q # p => proc'[q] = D[q]
      BY <3>1, <3>2
    <3>5. D[q] \in ProcessRecord /\ D[q].sig = proc[q].sig
          /\ (D[q].state = IF q = client THEN "dead" ELSE proc[q].state)
      BY <3>1, <2>1 DEF ProcessRecord
    <3> QED BY <3>3, <3>4, <3>5, <1>4 DEF ProcessRecord
  <2> QED BY <2>2, <2>3
<1>7. proc' \in [Procs -> ProcessRecord]
  <2>1. DOMAIN proc' = Procs /\ proc' = [q \in Procs |-> proc'[q]]
    BY <1>1, <1>3 DEF Stopped, Dead
  <2> QED BY <1>6, <2>1
<1> DEFINE n == [hook[c] EXCEPT !.pc = "starting", !.proc = p]
<1>8. /\ n \in HookRecord /\ n.pc = "starting" /\ n.proc = p /\ n.run = hook[c].run
      /\ n.sig = hook[c].sig
  BY <1>3 DEF HookRecord, CallPlaces
<1>9. /\ hook' = [hook EXCEPT ![c] = n] /\ hook' \in [HookCalls -> HookRecord]
      /\ \A d \in HookCalls : hook'[d] = IF d = c THEN n ELSE hook[d]
  BY <1>1, <1>3, <1>8
<1> HIDE DEF n
<1>10. CallsTyped'
  <2>1. ProcessTypeOK'
    BY <1>1, <1>2, <1>7, <1>9, FieldTypes DEF ProcessInv, CallsInv, CallsTyped, ProcessTypeOK
  <2> QED BY <1>2, <1>7, <1>9, <2>1 DEF ProcessInv, CallsInv, CallsTyped, Admitted
<1>11. MutexHeld'
  BY <1>1, <1>8, <1>9 DEF ProcessInv, CallsInv, MutexHeld, CallAt, ProcessAssumption
<1>12. GivenProcess'
  <2> SUFFICES ASSUME NEW d \in HookCalls,
                      hook'[d].pc \in {"starting", "client", "open", "sent", "abandon"}
               PROVE /\ hook'[d].proc \in Procs /\ hook'[d].run \in HookRuns
                     /\ proc'[hook'[d].proc].state # "unused"
                     /\ proc'[hook'[d].proc].sig = hook'[d].sig
    BY DEF GivenProcess
  <2>1. CASE d = c
    BY <1>4, <1>6, <1>8, <1>9, <2>1
  <2>2. CASE d # c
    <3>1. /\ hook'[d] = hook[d] /\ hook[d].proc \in Procs /\ hook[d].run \in HookRuns
          /\ proc[hook[d].proc].state # "unused" /\ proc[hook[d].proc].sig = hook[d].sig
      BY <1>9, <2>2 DEF ProcessInv, CallsInv, GivenProcess
    <3> QED BY <3>1, <1>5, <1>6
  <2> QED BY <2>1, <2>2
<1>13. ServesLive'
  BY <1>2, <1>4, <1>8, <1>9 DEF ProcessInv, CallsInv, ServesLive
<1>14. OneProcess'
  <2> SUFFICES ASSUME NEW q \in Procs, Alive(q)'
               PROVE startMu' # NoCaller /\ hook'[startMu'].proc = q
    BY DEF OneProcess
  <2>1. q = p
    <3>1. Alive(q) => q = client
      BY <1>1 DEF ProcessInv, CallsInv, OneProcess
    <3> QED BY <3>1, <1>6 DEF Alive
  <2> QED BY <2>1, <1>1, <1>8, <1>9 DEF ProcessAssumption
<1>15. ClosedFree' /\ RegisteredUsed'
  BY <1>1 DEF ClosedFree, RegisteredUsed
<1>16. BudgetInv'
  BY <1>1, <1>8, <1>9, NothingBooked
<1> QED BY <1>10, <1>11, <1>12, <1>13, <1>14, <1>15, <1>16 DEF ProcessInv, CallsInv

LEMMA InitializeStep ==
  ASSUME ProcessAssumption, ProcessInv, NEW c \in HookCalls, Initialize(c)
  PROVE ProcessInv'
<1>1. /\ hook[c].pc = "starting" /\ startMu' = NoCaller /\ startMu = c
      /\ UNCHANGED <<config, closed, usage, spent, handler, turn, dispatched, resumes>>
  BY DEF Initialize, CallAt, ProcessInv, CallsInv, MutexHeld, budget
<1>2. /\ client \in Procs \union {0} /\ proc \in [Procs -> ProcessRecord]
      /\ hook \in [HookCalls -> HookRecord] /\ hook[c] \in HookRecord
  BY DEF ProcessInv, CallsInv, CallsTyped, ProcessTypeOK
<1>3. /\ hook[c].proc \in Procs /\ hook[c].run \in HookRuns
      /\ proc[hook[c].proc].state # "unused" /\ proc[hook[c].proc].sig = hook[c].sig
      /\ hook[c].sig \in Signatures /\ turn[hook[c].run] = "live" /\ hook[c].proc # 0
  BY <1>1, CountersNat DEF ProcessInv, CallsInv, GivenProcess, ServesLive
<1>4. ~closed
  BY <1>1 DEF ProcessInv, CallsInv, ClosedFree, ProcessAssumption
<1>5. \A q \in Procs : Alive(q) => q = client \/ q = hook[c].proc
  BY <1>1 DEF ProcessInv, CallsInv, OneProcess
<1>6. \A d \in HookCalls : d # c => hook[d].pc # "starting"
  BY <1>1 DEF ProcessInv, CallsInv, MutexHeld, CallAt
<1>7. PICK n \in HookRecord :
        /\ hook' = [hook EXCEPT ![c] = n]
        /\ n.pc \in {"client", "done"}
        /\ n.pc = "client" => /\ n.run = hook[c].run /\ n.sig = hook[c].sig
                              /\ n.proc = hook[c].proc /\ client' = hook[c].proc
        /\ n.pc = "done" => client' = client /\ proc'[hook[c].proc].state = "dead"
        /\ proc' \in [Procs -> ProcessRecord]
        /\ \A q \in Procs : /\ proc'[q].sig = proc[q].sig
                            /\ (proc'[q].state = "unused") <=> (proc[q].state = "unused")
                            /\ q # hook[c].proc => proc'[q].state = proc[q].state
  <2>1. CASE /\ proc' = [proc EXCEPT ![hook[c].proc].state = "ready"]
             /\ client' = hook[c].proc /\ hook' = [hook EXCEPT ![c].pc = "client"]
    <3> DEFINE n == [hook[c] EXCEPT !.pc = "client"]
    <3>1. /\ n \in HookRecord /\ n.pc = "client" /\ n.run = hook[c].run /\ n.sig = hook[c].sig
          /\ n.proc = hook[c].proc
      BY HookFacts DEF CallPlaces
    <3>2. hook' = [hook EXCEPT ![c] = n]
      BY <2>1
    <3>3. ASSUME NEW q \in Procs
          PROVE /\ proc'[q].sig = proc[q].sig /\ proc'[q] \in ProcessRecord
                /\ (proc'[q].state = "unused") <=> (proc[q].state = "unused")
                /\ q # hook[c].proc => proc'[q].state = proc[q].state
      <4>1. proc[q] \in ProcessRecord
        BY <1>2
      <4> QED BY <4>1, <2>1, <1>2, <1>3 DEF ProcessRecord
    <3>4. proc' \in [Procs -> ProcessRecord]
      BY <3>3, <2>1, <1>2
    <3> HIDE DEF n
    <3> QED BY <3>1, <3>2, <3>3, <3>4, <2>1
  <2>2. CASE proc' = Dead(proc, hook[c].proc) /\ CallOver(c) /\ UNCHANGED client
    <3> DEFINE n == [IdleCall EXCEPT !.pc = "done"]
    <3>1. n \in HookRecord /\ n.pc = "done"
      BY IdleTypes
    <3>2. hook' = [hook EXCEPT ![c] = n]
      BY <2>2 DEF CallOver
    <3>3. OnlyEnds
      BY <2>2, <1>3, DeadEnds
    <3>4. \A q \in Procs : proc'[q] = IF q = hook[c].proc THEN [proc[q] EXCEPT !.state = "dead"]
                                      ELSE proc[q]
      BY <2>2 DEF Dead
    <3>5. proc'[hook[c].proc].state = "dead"
      <4>1. proc[hook[c].proc] \in ProcessRecord
        BY <1>2, <1>3
      <4> QED BY <4>1, <3>4, <1>3 DEF ProcessRecord
    <3> HIDE DEF n
    <3> QED BY <3>1, <3>2, <3>3, <3>4, <3>5, <2>2 DEF OnlyEnds
  <2> QED BY <2>1, <2>2 DEF Initialize
<1>8. /\ hook' \in [HookCalls -> HookRecord]
      /\ \A d \in HookCalls : hook'[d] = IF d = c THEN n ELSE hook[d]
  BY <1>2, <1>7
<1>9. CallsTyped'
  <2>1. ProcessTypeOK'
    <3>1. client' \in Procs \union {0} /\ startMu' \in HookCalls \union {NoCaller}
      BY <1>1, <1>2, <1>3, <1>7
    <3> QED BY <1>1, <1>7, <1>8, <3>1, FieldTypes DEF ProcessInv, CallsInv, CallsTyped, ProcessTypeOK
  <2> QED BY <1>1, <1>7, <1>8, <2>1 DEF ProcessInv, CallsInv, CallsTyped, Admitted
<1>10. MutexHeld'
  BY <1>1, <1>6, <1>7, <1>8 DEF MutexHeld, CallAt, ProcessAssumption
<1>11. GivenProcess'
  <2> SUFFICES ASSUME NEW d \in HookCalls,
                      hook'[d].pc \in {"starting", "client", "open", "sent", "abandon"}
               PROVE /\ hook'[d].proc \in Procs /\ hook'[d].run \in HookRuns
                     /\ proc'[hook'[d].proc].state # "unused"
                     /\ proc'[hook'[d].proc].sig = hook'[d].sig
    BY DEF GivenProcess
  <2>1. CASE d = c
    BY <1>3, <1>7, <1>8, <2>1
  <2>2. CASE d # c
    <3>1. /\ hook'[d] = hook[d] /\ hook[d].proc \in Procs /\ hook[d].run \in HookRuns
          /\ proc[hook[d].proc].state # "unused" /\ proc[hook[d].proc].sig = hook[d].sig
      BY <1>8, <2>2 DEF ProcessInv, CallsInv, GivenProcess
    <3> QED BY <3>1, <1>7
  <2> QED BY <2>1, <2>2
<1>12. ServesLive'
  BY <1>1, <1>3, <1>7, <1>8 DEF ProcessInv, CallsInv, ServesLive
<1>13. client = 0
  BY <1>1 DEF ProcessInv, CallsInv, RegisteredUsed, ProcessAssumption
<1>14. OneProcess'
  <2> SUFFICES ASSUME NEW q \in Procs, Alive(q)'
               PROVE q = client'
    BY DEF OneProcess
  <2>1. q = hook[c].proc
    BY <1>5, <1>7, <1>13 DEF Alive
  <2> QED BY <2>1, <1>7 DEF Alive
<1>15. ClosedFree' /\ RegisteredUsed'
  BY <1>1, <1>3, <1>4, <1>7, <1>13 DEF ClosedFree, RegisteredUsed
<1>16. BudgetInv'
  <2>1. UNCHANGED budget
    BY <1>1 DEF budget
  <2> QED BY <1>1, <1>7, <1>8, <2>1, NothingBooked
<1> QED BY <1>9, <1>10, <1>11, <1>12, <1>14, <1>15, <1>16 DEF ProcessInv, CallsInv

\* The host is configured or closed, its process restarted or gone.
LEMMA HostSteps ==
  ASSUME ProcessAssumption, ProcessInv,
         \/ \E g \in Signatures : Configure(g)
         \/ \E p \in Procs : ProcessCrash(p)
         \/ RestartProcess \/ CloseHost
  PROVE ProcessInv'
<1>1. /\ client \in Procs \union {0} /\ proc \in [Procs -> ProcessRecord]
      /\ hook \in [HookCalls -> HookRecord]
  BY DEF ProcessInv, CallsInv, CallsTyped, ProcessTypeOK
<1>2. UNCHANGED <<hook, spent, handler, turn, dispatched, resumes>> /\ UNCHANGED startMu
  BY DEF Configure, ProcessCrash, RestartProcess, CloseHost, budget
<1>3. OnlyEnds
  <2>1. CASE \E g \in Signatures : Configure(g)
    BY <2>1, NothingEnds DEF Configure
  <2>2. ASSUME NEW p \in Procs, ProcessCrash(p) PROVE OnlyEnds
    <3>1. p # 0 /\ proc[p].state # "unused"
      BY <2>2 DEF ProcessCrash, Alive
    <3> QED BY <2>2, <3>1, DeadEnds DEF ProcessCrash
  <2>3. CASE RestartProcess \/ CloseHost
    <3>1. client # 0 => proc[client].state # "unused"
      BY DEF ProcessInv, CallsInv, RegisteredUsed
    <3>2. proc' = IF client = 0 THEN proc ELSE Dead(proc, client)
      BY <2>3 DEF RestartProcess, CloseHost, Stopped
    <3> QED BY <1>1, <3>1, <3>2, DeadEnds
  <2> QED BY <2>1, <2>2, <2>3
<1>4. client' # client =>
        /\ client' = 0 /\ startMu = NoCaller
        /\ client # 0 => proc'[client].state = "dead"
  <2>1. CASE UNCHANGED client
    BY <2>1
  <2>2. CASE RestartProcess \/ CloseHost
    <3>1. proc' = IF client = 0 THEN proc ELSE Dead(proc, client)
      BY <2>2 DEF RestartProcess, CloseHost, Stopped
    <3>2. client # 0 => proc'[client].state = "dead"
      <4> SUFFICES ASSUME client # 0 PROVE proc'[client].state = "dead"
        OBVIOUS
      <4>1. proc[client] \in ProcessRecord /\ client \in Procs
        BY <1>1
      <4>2. proc'[client] = [proc[client] EXCEPT !.state = "dead"]
        BY <3>1, <4>1 DEF Dead
      <4> QED BY <4>1, <4>2 DEF ProcessRecord
    <3> QED BY <2>2, <3>2 DEF RestartProcess, CloseHost
  <2> QED BY <2>1, <2>2 DEF Configure, ProcessCrash
<1>5. /\ config' \in Signatures /\ closed' \in BOOLEAN
      /\ usage' \in [HookRuns -> Counters \union {0}]
      /\ closed => closed'
      /\ \/ usage' = usage /\ closed' = closed
         \/ closed' /\ (\A r \in HookRuns : usage'[r] = 0) /\ startMu = NoCaller /\ client' = 0
  BY DEF Configure, ProcessCrash, RestartProcess, CloseHost, budget, ProcessInv, CallsInv,
         CallsTyped, ProcessTypeOK
<1>6. CallsTyped'
  <2>1. ProcessTypeOK'
    <3>1. client' \in Procs \union {0} /\ startMu' \in HookCalls \union {NoCaller}
      BY <1>1, <1>2, <1>4 DEF ProcessInv, CallsInv, CallsTyped, ProcessTypeOK
    <3> QED BY <1>1, <1>2, <1>3, <1>5, <3>1, FieldTypes
            DEF ProcessInv, CallsInv, CallsTyped, ProcessTypeOK, OnlyEnds
  <2> QED BY <1>2, <1>3, <2>1 DEF ProcessInv, CallsInv, CallsTyped, Admitted, OnlyEnds
<1>7. MutexHeld' /\ ServesLive'
  BY <1>2 DEF ProcessInv, CallsInv, MutexHeld, CallAt, ServesLive
<1>8. GivenProcess'
  BY <1>2, <1>3 DEF ProcessInv, CallsInv, GivenProcess, OnlyEnds
<1>9. OneProcess'
  <2> SUFFICES ASSUME NEW p \in Procs, Alive(p)'
               PROVE p = client' \/ (startMu' # NoCaller /\ hook'[startMu'].proc = p)
    BY DEF OneProcess
  <2>1. p = client \/ (startMu # NoCaller /\ hook[startMu].proc = p)
    BY <1>3 DEF OnlyEnds, ProcessInv, CallsInv, OneProcess
  <2>2. CASE client' = client
    BY <2>1, <2>2, <1>2
  <2>3. CASE client' # client
    <3>1. p # 0
      BY CountersNat
    <3> QED BY <3>1, <2>1, <2>3, <1>4 DEF Alive
  <2> QED BY <2>2, <2>3
<1>10. ClosedFree' /\ RegisteredUsed'
  <2>1. closed => client' = 0
    BY <1>4 DEF ProcessInv, CallsInv, ClosedFree
  <2>2. ClosedFree'
    BY <1>2, <1>5, <2>1 DEF ProcessInv, CallsInv, ClosedFree
  <2>3. RegisteredUsed'
    BY <1>1, <1>2, <1>3, <1>4 DEF ProcessInv, CallsInv, RegisteredUsed, OnlyEnds
  <2> QED BY <2>2, <2>3
<1>11. CounterKept'
  BY <1>2, <1>5 DEF ProcessInv, BudgetInv, CounterKept
<1>12. Booked'
  BY <1>2, <1>5 DEF ProcessInv, BudgetInv, Booked
<1>13. RequestsBooked'
  BY <1>2, <1>5 DEF ProcessInv, BudgetInv, RequestsBooked, Admitted
<1>14. SittingShared' /\ BudgetShared'
  BY <1>2 DEF ProcessInv, BudgetInv, SittingShared, BudgetShared, Admitted
<1> QED BY <1>6, <1>7, <1>8, <1>9, <1>10, <1>11, <1>12, <1>13, <1>14
        DEF ProcessInv, CallsInv, BudgetInv

\* beginInvocation.
LEMMA OpenStep ==
  ASSUME ProcessAssumption, ProcessInv, NEW c \in HookCalls, OpenCall(c)
  PROVE ProcessInv'
<1> DEFINE r == hook[c].run
<1>1. PICK k \in UsageOf(c) :
        /\ hook[c].pc = "client" /\ ~closed
        /\ hook' = [hook EXCEPT ![c] = [hook[c] EXCEPT !.pc = "open", !.counter = k]]
        /\ spent' = IF usage[r] = k THEN spent ELSE [spent EXCEPT ![k] = 0]
        /\ usage' = [usage EXCEPT ![r] = k]
        /\ UNCHANGED <<config, closed, startMu, proc, client, handler, turn, dispatched, resumes>>
  BY DEF OpenCall, CallAt
<1>2. /\ hook \in [HookCalls -> HookRecord] /\ hook[c] \in HookRecord
      /\ usage \in [HookRuns -> Counters \union {0}] /\ spent \in [Counters -> 0..MaxCalls]
      /\ dispatched \in [HookRuns -> Nat]
  BY DEF ProcessInv, CallsInv, CallsTyped, ProcessTypeOK
<1>3. /\ r \in HookRuns /\ hook[c].sig \in Signatures /\ turn[r] = "live"
      /\ hook[c].proc \in Procs
      /\ proc[hook[c].proc].state # "unused" /\ proc[hook[c].proc].sig = hook[c].sig
  BY <1>1 DEF ProcessInv, CallsInv, ServesLive, GivenProcess
<1>4. /\ k \in Counters /\ k # 0
      /\ usage[r] # 0 => k = usage[r] /\ spent' = spent
      /\ usage[r] = 0 => k \in Unheld /\ spent' = [spent EXCEPT ![k] = 0]
  <2>1. CASE usage[r] # 0
    BY <2>1, <1>1, <1>2, <1>3 DEF UsageOf
  <2>2. CASE usage[r] = 0
    <3>1. k \in Unheld
      BY <2>2, <1>1 DEF UsageOf
    <3>2. k \in Counters /\ k # 0
      BY <3>1, CountersNat DEF Unheld
    <3> QED BY <2>2, <3>1, <3>2, <1>1
  <2> QED BY <2>1, <2>2, CountersNat
<1>5. 0 \in 0..MaxCalls
  BY DEF ProcessAssumption
<1>6. /\ spent' \in [Counters -> 0..MaxCalls] /\ usage' \in [HookRuns -> Counters \union {0}]
      /\ \A q \in HookRuns : usage'[q] = IF q = r THEN k ELSE usage[q]
      /\ \A j \in Counters : j # k \/ usage[r] # 0 => spent'[j] = spent[j]
  BY <1>1, <1>2, <1>3, <1>4, <1>5
<1> DEFINE n == [hook[c] EXCEPT !.pc = "open", !.counter = k]
<1>7. /\ n \in HookRecord /\ n.pc = "open" /\ n.counter = k /\ n.run = r /\ n.sig = hook[c].sig
      /\ n.proc = hook[c].proc
  BY <1>2, <1>4 DEF HookRecord, CallPlaces
<1>8. /\ hook' \in [HookCalls -> HookRecord]
      /\ \A d \in HookCalls : hook'[d] = IF d = c THEN n ELSE hook[d]
  BY <1>1, <1>2, <1>7
<1> HIDE DEF n
<1>9. CallsTyped'
  <2>1. ProcessTypeOK'
    BY <1>1, <1>6, <1>8, FieldTypes DEF ProcessInv, CallsInv, CallsTyped, ProcessTypeOK
  <2> QED BY <1>1, <1>8, <2>1 DEF ProcessInv, CallsInv, CallsTyped, Admitted
<1>10. MutexHeld'
  BY <1>1, <1>7, <1>8 DEF ProcessInv, CallsInv, MutexHeld, CallAt
<1>11. GivenProcess' /\ ServesLive'
  BY <1>1, <1>3, <1>7, <1>8 DEF ProcessInv, CallsInv, GivenProcess, ServesLive
<1>12. OneProcess'
  <2>1. startMu # c
    BY <1>1 DEF ProcessInv, CallsInv, MutexHeld, CallAt
  <2>2. startMu # NoCaller => hook'[startMu] = hook[startMu]
    BY <1>8, <2>1 DEF ProcessInv, CallsInv, CallsTyped, ProcessTypeOK
  <2> QED BY <1>1, <2>2 DEF ProcessInv, CallsInv, OneProcess, Alive
<1>13. ClosedFree' /\ RegisteredUsed'
  BY <1>1 DEF ProcessInv, CallsInv, ClosedFree, RegisteredUsed
<1>14. CounterKept'
  <2> SUFFICES ASSUME NEW d \in HookCalls, hook'[d].pc \in {"open", "sent", "abandon"}
               PROVE hook'[d].counter # 0 /\ usage'[hook'[d].run] = hook'[d].counter
    BY DEF CounterKept
  <2>1. CASE d = c
    BY <2>1, <1>3, <1>4, <1>6, <1>7, <1>8
  <2>2. CASE d # c
    <3>1. /\ hook'[d] = hook[d] /\ hook[d].counter # 0 /\ usage[hook[d].run] = hook[d].counter
          /\ hook[d].run \in HookRuns
      BY <2>2, <1>1, <1>8 DEF ProcessInv, CallsInv, BudgetInv, CounterKept, ServesLive
    <3> QED BY <3>1, <1>4, <1>6
  <2> QED BY <2>1, <2>2
<1>15. Booked'
  <2> SUFFICES ASSUME NEW q \in HookRuns
               PROVE /\ usage'[q] # 0 => dispatched[q] <= spent'[usage'[q]]
                     /\ usage'[q] = 0 /\ turn[q] = "live" => dispatched[q] = 0
                     /\ turn[q] = "settled" => usage'[q] = 0
    BY <1>1 DEF Booked
  <2>1. /\ usage[q] # 0 => dispatched[q] <= spent[usage[q]]
        /\ usage[q] = 0 /\ turn[q] = "live" => dispatched[q] = 0
        /\ turn[q] = "settled" => usage[q] = 0
    BY <1>1 DEF ProcessInv, BudgetInv, Booked
  <2>2. CASE q # r
    <3>1. usage[r] = 0 => usage[q] # k
      BY <1>4 DEF Unheld
    <3>2. usage'[q] = usage[q] /\ (usage[q] # 0 => usage[q] \in Counters)
      BY <1>2, <1>6, <2>2
    <3> QED BY <3>1, <3>2, <2>1, <1>6
  <2>3. CASE q = r /\ usage[r] # 0
    BY <2>1, <2>3, <1>3, <1>4, <1>6
  <2>4. CASE q = r /\ usage[r] = 0
    <3>1. dispatched[q] = 0 /\ usage'[q] = k /\ spent'[k] = 0
      BY <2>1, <2>4, <1>2, <1>3, <1>4, <1>6
    <3> QED BY <3>1, <2>4, <1>3, <1>4
  <2> QED BY <2>2, <2>3, <2>4
<1>16. RequestsBooked'
  <2> SUFFICES ASSUME NEW d \in Requesters, Admitted(d), handler[d].sitting = resumes[handler[d].run]
               PROVE /\ dispatched[handler[d].run] <= spent'[handler[d].counter]
                     /\ turn[handler[d].run] = "live" => usage'[handler[d].run] = handler[d].counter
    BY <1>1 DEF RequestsBooked, Admitted, ProcessInv, BudgetInv
  <2>1. /\ dispatched[handler[d].run] <= spent[handler[d].counter]
        /\ turn[handler[d].run] = "live" => usage[handler[d].run] = handler[d].counter
    BY <1>1 DEF ProcessInv, BudgetInv, RequestsBooked
  <2>2. handler[d].counter \in Counters /\ handler[d].run \in HookRuns /\ handler[d].call # NoCaller
    BY DEF ProcessInv, CallsInv, CallsTyped, ProcessAssumption, Admitted
  <2>3. usage[r] = 0 => handler[d].counter # k
    BY <1>4, <2>2 DEF Unheld
  <2>4. dispatched[handler[d].run] <= spent'[handler[d].counter]
    BY <2>1, <2>2, <2>3, <1>6
  <2>5. turn[handler[d].run] = "live" => usage'[handler[d].run] = handler[d].counter
    <3>1. handler[d].counter # 0
      BY <2>2, CountersNat
    <3> QED BY <2>1, <2>2, <3>1, <1>4, <1>6
  <2> QED BY <2>4, <2>5
<1>17. SittingShared' /\ BudgetShared'
  BY <1>1 DEF ProcessInv, BudgetInv, SittingShared, BudgetShared, Admitted
<1> QED BY <1>9, <1>10, <1>11, <1>12, <1>13, <1>14, <1>15, <1>16, <1>17
        DEF ProcessInv, CallsInv, BudgetInv

\* A step of the budget leaves calls and processes alone.
LEMMA CallsStay ==
  ASSUME ProcessAssumption, ProcessInv,
         UNCHANGED <<config, closed, startMu, proc, client, hook>>,
         DOMAIN handler' = Requesters,
         \A d \in Requesters :
           \/ handler'[d].pc \in {"idle", "done"} /\ handler'[d].call = NoCaller
           \/ /\ handler'[d].pc = "admitted" /\ handler'[d].call \in HookCalls
              /\ handler'[d].run \in HookRuns /\ handler'[d].counter \in Counters
              /\ handler'[d].sitting \in 0..MaxResumes,
         usage' \in [HookRuns -> Counters \union {0}], spent' \in [Counters -> 0..MaxCalls],
         turn' \in [HookRuns -> {"live", "settled"}], resumes' \in [HookRuns -> 0..MaxResumes],
         dispatched' \in [HookRuns -> Nat],
         \A c \in HookCalls : hook[c].pc \notin {"idle", "done"} => turn'[hook[c].run] = "live",
         \A r \in HookRuns : closed => usage'[r] = 0
  PROVE CallsInv'
<1>1. CallsTyped'
  <2>1. ProcessTypeOK'
    BY DEF ProcessInv, CallsInv, CallsTyped, ProcessTypeOK
  <2> QED BY <2>1 DEF ProcessInv, CallsInv, CallsTyped, Admitted
<1>2. MutexHeld' /\ GivenProcess' /\ OneProcess' /\ RegisteredUsed'
  BY DEF ProcessInv, CallsInv, MutexHeld, CallAt, GivenProcess, OneProcess, Alive, RegisteredUsed
<1>3. ServesLive' /\ ClosedFree'
  BY DEF ProcessInv, CallsInv, ServesLive, ClosedFree
<1> QED BY <1>1, <1>2, <1>3 DEF CallsInv

LEMMA RequestStepKept ==
  ASSUME ProcessAssumption, ProcessInv, NEW h \in Requesters, NEW c \in HookCalls, ModelRequest(h, c)
  PROVE ProcessInv'
<1> DEFINE n == [pc |-> "admitted", call |-> c, run |-> hook[c].run,
                 counter |-> hook[c].counter, sitting |-> resumes[hook[c].run]]
<1>1. /\ handler[h].pc = "idle" /\ hook[c].pc \in {"open", "sent", "abandon"} /\ ~closed
      /\ handler' = [handler EXCEPT ![h] = n]
      /\ UNCHANGED <<config, closed, startMu, proc, client, hook, usage, spent, turn, dispatched,
                     resumes>>
  BY DEF ModelRequest
<1>2. /\ hook[c].run \in HookRuns /\ turn[hook[c].run] = "live"
      /\ hook[c].counter # 0 /\ usage[hook[c].run] = hook[c].counter
  BY <1>1 DEF ProcessInv, CallsInv, BudgetInv, ServesLive, CounterKept
<1>3. /\ usage \in [HookRuns -> Counters \union {0}] /\ resumes \in [HookRuns -> 0..MaxResumes]
      /\ DOMAIN handler = Requesters
  BY DEF ProcessInv, CallsInv, CallsTyped, ProcessTypeOK
<1>4. hook[c].counter \in Counters /\ resumes[hook[c].run] \in 0..MaxResumes
  BY <1>2, <1>3
<1>5. /\ n.pc = "admitted" /\ n.call = c /\ n.run = hook[c].run /\ n.counter = hook[c].counter
      /\ n.sitting = resumes[hook[c].run]
  OBVIOUS
<1>6. DOMAIN handler' = Requesters /\ \A d \in Requesters : handler'[d] = IF d = h THEN n ELSE handler[d]
  BY <1>1, <1>3
<1> HIDE DEF n
<1>7. \A d \in Requesters :
           \/ handler'[d].pc \in {"idle", "done"} /\ handler'[d].call = NoCaller
           \/ /\ handler'[d].pc = "admitted" /\ handler'[d].call \in HookCalls
              /\ handler'[d].run \in HookRuns /\ handler'[d].counter \in Counters
              /\ handler'[d].sitting \in 0..MaxResumes
  BY <1>2, <1>4, <1>5, <1>6 DEF ProcessInv, CallsInv, CallsTyped, Admitted
<1>8. CallsInv'
  <2>1. /\ usage' \in [HookRuns -> Counters \union {0}] /\ spent' \in [Counters -> 0..MaxCalls]
        /\ turn' \in [HookRuns -> {"live", "settled"}] /\ resumes' \in [HookRuns -> 0..MaxResumes]
        /\ dispatched' \in [HookRuns -> Nat]
        /\ \A d \in HookCalls : hook[d].pc \notin {"idle", "done"} => turn'[hook[d].run] = "live"
        /\ \A r \in HookRuns : closed => usage'[r] = 0
    BY <1>1 DEF ProcessInv, CallsInv, CallsTyped, ProcessTypeOK, ServesLive, ClosedFree
  <2> QED BY <2>1, <1>1, <1>6, <1>7, CallsStay
<1>9. CounterKept' /\ Booked' /\ BudgetShared'
  BY <1>1 DEF ProcessInv, BudgetInv, CounterKept, Booked, BudgetShared
<1>10. dispatched[hook[c].run] <= spent[hook[c].counter]
  BY <1>2 DEF ProcessInv, BudgetInv, Booked
<1>11. RequestsBooked'
  <2> SUFFICES ASSUME NEW d \in Requesters, handler'[d].pc = "admitted"
               PROVE /\ handler'[d].sitting <= resumes[handler'[d].run]
                     /\ handler'[d].sitting = resumes[handler'[d].run] =>
                          /\ dispatched[handler'[d].run] <= spent[handler'[d].counter]
                          /\ ~closed /\ turn[handler'[d].run] = "live" =>
                               usage[handler'[d].run] = handler'[d].counter
    BY <1>1 DEF RequestsBooked, Admitted
  <2>1. CASE d = h
    <3>1. resumes[hook[c].run] <= resumes[hook[c].run]
      BY <1>4
    <3> QED BY <2>1, <3>1, <1>2, <1>5, <1>6, <1>10
  <2>2. CASE d # h
    BY <2>2, <1>6 DEF ProcessInv, BudgetInv, RequestsBooked, Admitted
  <2> QED BY <2>1, <2>2
<1>12. SittingShared'
  <2>1. ASSUME NEW d \in Requesters, d # h, Admitted(d), handler[d].run = hook[c].run,
               handler[d].sitting = resumes[hook[c].run]
        PROVE handler[d].counter = hook[c].counter
    BY <2>1, <1>1, <1>2 DEF ProcessInv, BudgetInv, RequestsBooked
  <2> QED BY <2>1, <1>1, <1>5, <1>6 DEF ProcessInv, BudgetInv, SittingShared, Admitted
<1> QED BY <1>8, <1>9, <1>11, <1>12 DEF ProcessInv, BudgetInv

LEMMA ReserveStep ==
  ASSUME ProcessAssumption, ProcessInv, NEW h \in Requesters, Reserve(h)
  PROVE ProcessInv'
<1> DEFINE k == handler[h].counter
           r == handler[h].run
           n == [pc |-> "done", call |-> NoCaller]
<1>1. /\ Admitted(h) /\ handler' = [handler EXCEPT ![h] = n]
      /\ UNCHANGED <<config, closed, startMu, proc, client, hook, usage, turn, resumes>>
  BY DEF Reserve, Admitted
<1>2. /\ k \in Counters /\ r \in HookRuns /\ handler[h].sitting \in 0..MaxResumes
      /\ DOMAIN handler = Requesters /\ dispatched \in [HookRuns -> Nat]
      /\ spent \in [Counters -> 0..MaxCalls]
  BY <1>1 DEF ProcessInv, CallsInv, CallsTyped, ProcessTypeOK, Admitted
<1>3. /\ DOMAIN handler' = Requesters
      /\ \A d \in Requesters : d # h => handler'[d] = handler[d]
      /\ handler'[h].pc = "done" /\ handler'[h].call = NoCaller
  BY <1>1, <1>2
<1>4. \/ UNCHANGED <<spent, dispatched>>
      \/ /\ spent[k] + 1 <= MaxCalls /\ spent' = [spent EXCEPT ![k] = @ + 1]
         /\ handler[h].sitting # resumes[r] => dispatched' = [dispatched EXCEPT ![r] = @ + 0]
         /\ handler[h].sitting = resumes[r] => dispatched' = [dispatched EXCEPT ![r] = @ + 1]
  BY <1>2 DEF Reserve, ProcessAssumption
<1>5. /\ spent' \in [Counters -> 0..MaxCalls] /\ dispatched' \in [HookRuns -> Nat]
  BY <1>2, <1>4 DEF ProcessAssumption
<1>6. \A j \in Counters : spent[j] <= spent'[j] /\ spent'[j] \in Nat /\ spent[j] \in Nat
  BY <1>2, <1>4, <1>5 DEF ProcessAssumption
<1>7. \A q \in HookRuns :
        \/ dispatched'[q] = dispatched[q]
        \/ /\ q = r /\ handler[h].sitting = resumes[r]
           /\ dispatched'[q] = dispatched[q] + 1 /\ spent'[k] = spent[k] + 1
  BY <1>2, <1>4
<1>8. \A d \in Requesters :
           \/ handler'[d].pc \in {"idle", "done"} /\ handler'[d].call = NoCaller
           \/ /\ handler'[d].pc = "admitted" /\ handler'[d].call \in HookCalls
              /\ handler'[d].run \in HookRuns /\ handler'[d].counter \in Counters
              /\ handler'[d].sitting \in 0..MaxResumes
  BY <1>3 DEF ProcessInv, CallsInv, CallsTyped, Admitted
<1>9. CallsInv'
  <2>1. /\ usage' \in [HookRuns -> Counters \union {0}]
        /\ turn' \in [HookRuns -> {"live", "settled"}] /\ resumes' \in [HookRuns -> 0..MaxResumes]
        /\ \A d \in HookCalls : hook[d].pc \notin {"idle", "done"} => turn'[hook[d].run] = "live"
        /\ \A q \in HookRuns : closed => usage'[q] = 0
    BY <1>1 DEF ProcessInv, CallsInv, CallsTyped, ProcessTypeOK, ServesLive, ClosedFree
  <2> QED BY <2>1, <1>1, <1>3, <1>5, <1>8, CallsStay
<1>10. handler[h].sitting = resumes[r] =>
         /\ dispatched[r] <= spent[k]
         /\ ~closed /\ turn[r] = "live" => usage[r] = k
  BY <1>1 DEF ProcessInv, BudgetInv, RequestsBooked
<1>11. usage \in [HookRuns -> Counters \union {0}] /\ turn \in [HookRuns -> {"live", "settled"}]
  BY DEF ProcessInv, CallsInv, CallsTyped, ProcessTypeOK
<1>12. CounterKept'
  BY <1>1 DEF ProcessInv, BudgetInv, CounterKept
<1>13. Booked'
  <2> SUFFICES ASSUME NEW q \in HookRuns
               PROVE /\ usage[q] # 0 => dispatched'[q] <= spent'[usage[q]]
                     /\ usage[q] = 0 /\ turn[q] = "live" /\ ~closed => dispatched'[q] = 0
                     /\ turn[q] = "settled" => usage[q] = 0
    BY <1>1 DEF Booked
  <2>1. /\ usage[q] # 0 => dispatched[q] <= spent[usage[q]]
        /\ usage[q] = 0 /\ turn[q] = "live" /\ ~closed => dispatched[q] = 0
        /\ turn[q] = "settled" => usage[q] = 0
    BY DEF ProcessInv, BudgetInv, Booked
  <2>2. dispatched[q] \in Nat /\ dispatched'[q] \in Nat
    BY <1>2, <1>5
  <2>3. usage[q] # 0 => usage[q] \in Counters
    BY <1>11
  <2>4. CASE dispatched'[q] = dispatched[q]
    <3>1. usage[q] # 0 => spent[usage[q]] <= spent'[usage[q]] /\ spent[usage[q]] \in Nat
                          /\ spent'[usage[q]] \in Nat
      BY <2>3, <1>6
    <3> QED BY <2>1, <2>2, <2>4, <3>1
  <2>5. CASE /\ q = r /\ handler[h].sitting = resumes[r]
             /\ dispatched'[q] = dispatched[q] + 1 /\ spent'[k] = spent[k] + 1
    <3>1. k # 0
      BY <1>2, CountersNat
    <3>2. closed => usage[q] = 0
      BY DEF ProcessInv, CallsInv, ClosedFree
    <3>3. ~closed /\ turn[q] = "live" => usage[q] = k
      BY <2>5, <1>10
    <3>4. usage[q] # 0 => usage[q] = k
      BY <3>2, <3>3, <2>1, <1>11
    <3>5. dispatched'[q] <= spent'[k]
      BY <2>5, <1>10, <1>2, <1>6, <2>2
    <3> QED BY <3>1, <3>3, <3>4, <3>5, <2>1
  <2> QED BY <2>4, <2>5, <1>7
<1>14. RequestsBooked'
  <2> SUFFICES ASSUME NEW d \in Requesters, handler'[d].pc = "admitted"
               PROVE /\ handler'[d].sitting <= resumes[handler'[d].run]
                     /\ handler'[d].sitting = resumes[handler'[d].run] =>
                          /\ dispatched'[handler'[d].run] <= spent'[handler'[d].counter]
                          /\ ~closed /\ turn[handler'[d].run] = "live" =>
                               usage[handler'[d].run] = handler'[d].counter
    BY <1>1 DEF RequestsBooked, Admitted
  <2>1. d # h /\ handler'[d] = handler[d] /\ Admitted(d)
    BY <1>3 DEF Admitted
  <2>2. /\ handler[d].run \in HookRuns /\ handler[d].counter \in Counters
    BY <2>1 DEF ProcessInv, CallsInv, CallsTyped, Admitted
  <2>3. /\ handler[d].sitting <= resumes[handler[d].run]
        /\ handler[d].sitting = resumes[handler[d].run] =>
             /\ dispatched[handler[d].run] <= spent[handler[d].counter]
             /\ ~closed /\ turn[handler[d].run] = "live" => usage[handler[d].run] = handler[d].counter
    BY <2>1 DEF ProcessInv, BudgetInv, RequestsBooked
  <2>4. handler[d].run = r /\ handler[d].sitting = resumes[r] /\ handler[h].sitting = resumes[r]
          => handler[d].counter = k
    BY <2>1, <1>1 DEF ProcessInv, BudgetInv, SittingShared
  <2>5. ASSUME handler[d].sitting = resumes[handler[d].run]
        PROVE dispatched'[handler[d].run] <= spent'[handler[d].counter]
    <3>1. /\ dispatched[handler[d].run] \in Nat /\ spent[handler[d].counter] \in Nat
          /\ spent'[handler[d].counter] \in Nat /\ spent[handler[d].counter] <= spent'[handler[d].counter]
      BY <2>2, <1>2, <1>6
    <3>2. CASE dispatched'[handler[d].run] = dispatched[handler[d].run]
      BY <3>1, <3>2, <2>3, <2>5
    <3>3. CASE /\ handler[d].run = r /\ handler[h].sitting = resumes[r]
               /\ dispatched'[handler[d].run] = dispatched[handler[d].run] + 1
               /\ spent'[k] = spent[k] + 1
      <4>1. handler[d].counter = k
        BY <3>3, <2>4, <2>5
      <4>2. dispatched[handler[d].run] <= spent[handler[d].counter]
        BY <2>3, <2>5
      <4> QED BY <4>1, <4>2, <3>1, <3>3
    <3> QED BY <3>2, <3>3, <2>2, <1>7
  <2> QED BY <2>1, <2>3, <2>5
<1>15. SittingShared'
  BY <1>1, <1>3 DEF ProcessInv, BudgetInv, SittingShared, Admitted
<1>16. BudgetShared'
  <2> SUFFICES ASSUME NEW q \in HookRuns PROVE dispatched'[q] <= MaxCalls
    BY DEF BudgetShared
  <2>1. dispatched[q] <= MaxCalls
    BY DEF ProcessInv, BudgetInv, BudgetShared
  <2>2. CASE dispatched'[q] = dispatched[q]
    BY <2>1, <2>2
  <2>3. CASE /\ q = r /\ handler[h].sitting = resumes[r]
             /\ dispatched'[q] = dispatched[q] + 1 /\ spent'[k] = spent[k] + 1
    <3>1. dispatched[q] <= spent[k] /\ spent'[k] \in 0..MaxCalls /\ dispatched[q] \in Nat
      BY <2>3, <1>2, <1>5, <1>10
    <3>2. spent[k] \in Nat
      BY <1>2, <1>6
    <3> QED BY <2>3, <3>1, <3>2 DEF ProcessAssumption
  <2> QED BY <2>2, <2>3, <1>7
<1> QED BY <1>9, <1>12, <1>13, <1>14, <1>15, <1>16 DEF ProcessInv, BudgetInv

\* A Run is settled, or goes on with a sitting of its own.
LEMMA SittingStep ==
  ASSUME ProcessAssumption, ProcessInv, NEW r \in HookRuns, ReleaseRun(r) \/ Resume(r)
  PROVE ProcessInv'
<1>1. /\ UNCHANGED <<config, closed, startMu, proc, client, hook, spent, handler>>
  BY DEF ReleaseRun, Resume
<1>2. /\ usage \in [HookRuns -> Counters \union {0}] /\ spent \in [Counters -> 0..MaxCalls]
      /\ turn \in [HookRuns -> {"live", "settled"}] /\ resumes \in [HookRuns -> 0..MaxResumes]
      /\ dispatched \in [HookRuns -> Nat] /\ DOMAIN handler = Requesters
  BY DEF ProcessInv, CallsInv, CallsTyped, ProcessTypeOK
<1>3. \A d \in Requesters :
           \/ handler'[d].pc \in {"idle", "done"} /\ handler'[d].call = NoCaller
           \/ /\ handler'[d].pc = "admitted" /\ handler'[d].call \in HookCalls
              /\ handler'[d].run \in HookRuns /\ handler'[d].counter \in Counters
              /\ handler'[d].sitting \in 0..MaxResumes
  BY <1>1 DEF ProcessInv, CallsInv, CallsTyped, Admitted
<1>4. \A d \in Requesters : Admitted(d) =>
        /\ handler[d].run \in HookRuns /\ handler[d].counter \in Counters
        /\ handler[d].sitting \in 0..MaxResumes
  BY DEF ProcessInv, CallsInv, CallsTyped, Admitted
<1>5. CASE ReleaseRun(r)
  <2>1. /\ \A c \in HookCalls : hook[c].run = r => hook[c].pc \in {"idle", "done"}
        /\ turn' = [turn EXCEPT ![r] = "settled"] /\ usage' = [usage EXCEPT ![r] = 0]
        /\ UNCHANGED <<dispatched, resumes>>
    BY <1>5 DEF ReleaseRun
  <2>2. /\ turn' \in [HookRuns -> {"live", "settled"}] /\ usage' \in [HookRuns -> Counters \union {0}]
        /\ \A q \in HookRuns : /\ q # r => turn'[q] = turn[q] /\ usage'[q] = usage[q]
                               /\ q = r => turn'[q] = "settled" /\ usage'[q] = 0
    BY <2>1, <1>2
  <2>3. CallsInv'
    <3>1. \A c \in HookCalls : hook[c].pc \notin {"idle", "done"} => turn'[hook[c].run] = "live"
      BY <2>1, <2>2 DEF ProcessInv, CallsInv, ServesLive
    <3>2. \A q \in HookRuns : closed => usage'[q] = 0
      BY <2>2 DEF ProcessInv, CallsInv, ClosedFree
    <3> QED BY <3>1, <3>2, <2>1, <2>2, <1>1, <1>2, <1>3, CallsStay
  <2>4. CounterKept'
    BY <2>1, <2>2, <1>1 DEF ProcessInv, CallsInv, BudgetInv, CounterKept, ServesLive
  <2>5. Booked'
    BY <2>1, <2>2, <1>1 DEF ProcessInv, BudgetInv, Booked
  <2>6. RequestsBooked'
    BY <2>1, <2>2, <1>1, <1>4 DEF ProcessInv, BudgetInv, RequestsBooked, Admitted
  <2>7. SittingShared' /\ BudgetShared'
    BY <2>1, <1>1 DEF ProcessInv, BudgetInv, SittingShared, BudgetShared, Admitted
  <2> QED BY <2>3, <2>4, <2>5, <2>6, <2>7 DEF ProcessInv, BudgetInv
<1>6. CASE Resume(r)
  <2>1. /\ turn[r] = "settled" /\ resumes[r] < MaxResumes
        /\ turn' = [turn EXCEPT ![r] = "live"] /\ resumes' = [resumes EXCEPT ![r] = @ + 1]
        /\ dispatched' = [dispatched EXCEPT ![r] = 0] /\ UNCHANGED usage
    BY <1>6 DEF Resume
  <2>2. /\ turn' \in [HookRuns -> {"live", "settled"}] /\ resumes' \in [HookRuns -> 0..MaxResumes]
        /\ dispatched' \in [HookRuns -> Nat]
    BY <2>1, <1>2 DEF ProcessAssumption
  <2>3. \A q \in HookRuns :
          /\ q # r => turn'[q] = turn[q] /\ resumes'[q] = resumes[q] /\ dispatched'[q] = dispatched[q]
          /\ q = r => turn'[q] = "live" /\ resumes'[q] = resumes[q] + 1 /\ dispatched'[q] = 0
    BY <2>1, <1>2
  <2>4. usage[r] = 0
    BY <2>1 DEF ProcessInv, BudgetInv, Booked
  <2>5. CallsInv'
    <3>1. \A c \in HookCalls : hook[c].pc \notin {"idle", "done"} => turn'[hook[c].run] = "live"
      BY <2>3 DEF ProcessInv, CallsInv, ServesLive
    <3>2. \A q \in HookRuns : closed => usage'[q] = 0
      BY <2>1 DEF ProcessInv, CallsInv, ClosedFree
    <3> QED BY <3>1, <3>2, <2>1, <2>2, <1>1, <1>2, <1>3, CallsStay
  <2>6. CounterKept'
    BY <2>1, <1>1 DEF ProcessInv, BudgetInv, CounterKept
  <2>7. Booked'
    BY <2>1, <2>3, <2>4, <1>1 DEF ProcessInv, BudgetInv, Booked
  <2>8. \A d \in Requesters : Admitted(d) /\ handler[d].sitting = resumes'[handler[d].run] =>
          handler[d].run # r /\ handler[d].sitting = resumes[handler[d].run]
    <3> SUFFICES ASSUME NEW d \in Requesters, Admitted(d),
                        handler[d].sitting = resumes'[handler[d].run]
                 PROVE handler[d].run # r /\ handler[d].sitting = resumes[handler[d].run]
      OBVIOUS
    <3>1. handler[d].sitting <= resumes[handler[d].run]
      BY DEF ProcessInv, BudgetInv, RequestsBooked
    <3>2. resumes[r] \in 0..MaxResumes /\ handler[d].run \in HookRuns
      BY <1>2, <1>4
    <3> QED BY <3>1, <3>2, <2>3 DEF ProcessAssumption
  <2>9. RequestsBooked'
    <3> SUFFICES ASSUME NEW d \in Requesters, Admitted(d)
                 PROVE /\ handler[d].sitting <= resumes'[handler[d].run]
                       /\ handler[d].sitting = resumes'[handler[d].run] =>
                            /\ dispatched'[handler[d].run] <= spent[handler[d].counter]
                            /\ ~closed /\ turn'[handler[d].run] = "live" =>
                                 usage[handler[d].run] = handler[d].counter
      BY <1>1, <2>1 DEF RequestsBooked, Admitted
    <3>1. handler[d].sitting <= resumes[handler[d].run]
      BY DEF ProcessInv, BudgetInv, RequestsBooked
    <3>2. /\ resumes[handler[d].run] \in 0..MaxResumes /\ handler[d].run \in HookRuns
          /\ handler[d].sitting \in 0..MaxResumes
      BY <1>2, <1>4
    <3>3. handler[d].sitting <= resumes'[handler[d].run]
      BY <3>1, <3>2, <2>3 DEF ProcessAssumption
    <3>4. ASSUME handler[d].sitting = resumes'[handler[d].run]
          PROVE /\ dispatched'[handler[d].run] <= spent[handler[d].counter]
                /\ ~closed /\ turn'[handler[d].run] = "live" =>
                     usage[handler[d].run] = handler[d].counter
      BY <3>2, <3>4, <2>3, <2>8 DEF ProcessInv, BudgetInv, RequestsBooked
    <3> QED BY <3>3, <3>4
  <2>10. SittingShared'
    BY <2>8, <1>1 DEF ProcessInv, BudgetInv, SittingShared, Admitted
  <2>11. BudgetShared'
    BY <2>3 DEF ProcessInv, BudgetInv, BudgetShared, ProcessAssumption
  <2> QED BY <2>5, <2>6, <2>7, <2>9, <2>10, <2>11 DEF ProcessInv, BudgetInv
<1> QED BY <1>5, <1>6

LEMMA ProcessNextInv ==
  ASSUME ProcessAssumption, ProcessInv, [ProcessNext]_processVars
  PROVE ProcessInv'
<1>1. CASE UNCHANGED processVars
  <2>1. UNCHANGED <<config, closed, startMu, proc, client, hook, usage, spent, handler, turn,
                    dispatched, resumes>>
    BY <1>1 DEF processVars
  <2>2. CallsInv'
    BY <2>1 DEF ProcessInv, CallsInv, CallsTyped, ProcessTypeOK, Admitted, MutexHeld, CallAt,
                GivenProcess, ServesLive, OneProcess, Alive, ClosedFree, RegisteredUsed
  <2>3. UNCHANGED budget
    BY <2>1 DEF budget
  <2>4. BudgetInv'
    BY <2>1, <2>3, NothingBooked
  <2> QED BY <2>2, <2>4 DEF ProcessInv
<1>2. CASE ProcessNext
  <2>1. CASE \E c \in HookCalls :
               \/ \E r \in HookRuns, k \in {"hook", "tool"} : BeginCall(c, r, k)
               \/ Serve(c) \/ \E h \in Requesters : ModelRequest(h, c)
    BY <2>1, MovingSteps, StartStep, InitializeStep, OpenStep, RequestStepKept DEF Serve
  <2>2. CASE \E h \in Requesters : Reserve(h)
    BY <2>2, ReserveStep
  <2>3. CASE \E r \in HookRuns : ReleaseRun(r) \/ Resume(r)
    BY <2>3, SittingStep
  <2>4. CASE (\E g \in Signatures : Configure(g)) \/ (\E p \in Procs : ProcessCrash(p))
             \/ RestartProcess \/ CloseHost
    BY <2>4, HostSteps
  <2> QED BY <1>2, <2>1, <2>2, <2>3, <2>4 DEF ProcessNext
<1> QED BY <1>1, <1>2

\* For any calls, Runs, settings, processes started, model requests and resumed Runs: one
\* process of an extension lives, the registered one or the one being started, none after
\* close, each call goes to a process with the settings it was prepared with, and the
\* hooks of a sitting of a Run share one budget of model calls, although a late request
\* may hold the counter of an earlier sitting (extensions.go clientFor, restart, close,
\* beginInvocation, reserve, releaseRun).
THEOREM ProcessOwnedAlways == ASSUME ProcessAssumption PROVE ProcessSpec => []ProcessOwned
<1>1. ProcessInit => ProcessInv
  BY ProcessInitInv
<1>2. ProcessInv /\ [ProcessNext]_processVars => ProcessInv'
  BY ProcessNextInv
<1>3. ProcessInv => ProcessOwned
  <2> SUFFICES ASSUME ProcessInv PROVE ProcessOwned
    OBVIOUS
  <2>1. ProcessTypeOK /\ OneProcess /\ BudgetShared
    BY DEF ProcessInv, CallsInv, CallsTyped, BudgetInv
  <2>2. ClosedMeansStopped
    BY CountersNat DEF ProcessInv, CallsInv, OneProcess, ClosedFree, ClosedMeansStopped
  <2>3. OwnSettings
    BY DEF ProcessInv, CallsInv, GivenProcess, OwnSettings, CallAt
  <2> QED BY <2>1, <2>2, <2>3 DEF ProcessOwned
<1> QED BY <1>1, <1>2, <1>3, PTL DEF ProcessSpec

-----------------------------------------------------------------------------
(* The connection to the process.                                             *)
(*                                                                            *)
(* What makes it inductive: a call is pending before it has a result and not  *)
(* after, and a client that fails is done before it drains what is pending.   *)

Stations == {"idle", "handling", "lock", "writing", "closing", "waiting", "returned"}

\* What the peer sends names the call or the handler it is for; the handler of a request
\* has not begun.
MessageOK ==
  /\ incoming.kind = "reply" => incoming.of \in Callers
  /\ incoming.kind = "request" => incoming.of \in Handlers /\ pc[incoming.of] = "idle"

\* A call is registered before it has a result, and once; it gets one result.
Registered ==
  \A c \in Callers : /\ pc[c] = "idle" => c \notin pending /\ box[c] = 0
                     /\ c \in pending => box[c] = 0
                     /\ pc[c] = "returned" => c \notin pending
                     /\ box[c] \in 0..1

\* Nobody registers with a client that has begun to fail.
Drained ==
  /\ failing # "no" => done
  /\ failing \in {"close", "closed"} => pending = {}

PipeInv == PipeTypeOK /\ MessageOK /\ Registered /\ Drained /\ ClosedMeansGone

LEMMA WriterKinds ==
  ASSUME PipeAssumption, NEW w \in Writers
  PROVE /\ Reject \in Writers /\ Reject \notin Callers
        /\ \A ok \in BOOLEAN : After(w, ok) \in Stations \ {"idle"} \/ w = Reject
        /\ \A ok \in BOOLEAN : After(w, ok) \in Stations
        /\ \A ok \in BOOLEAN : w \in Callers => (After(w, ok) = IF ok THEN "waiting" ELSE "returned")
  BY DEF PipeAssumption, Writers, After, Stations

LEMMA PipeInitInv ==
  ASSUME PipeAssumption, PipeInit
  PROVE PipeInv
<1>1. PipeTypeOK
  <2>1. 0 \in 0..2 /\ 0 \in 0..MaxReplies
    BY DEF PipeAssumption
  <2>2. /\ box \in [Callers -> 0..2] /\ replies \in [Callers -> 0..MaxReplies]
        /\ pc \in [Writers -> Stations]
    BY <2>1 DEF PipeInit, Stations
  <2>3. incoming.kind = "empty"
    BY DEF PipeInit, Empty
  <2> QED BY <2>2, <2>3 DEF PipeInit, PipeTypeOK, Stations
<1>2. MessageOK /\ Registered /\ Drained /\ ClosedMeansGone
  BY DEF PipeInit, MessageOK, Registered, Drained, ClosedMeansGone, Empty
<1> QED BY <1>1, <1>2 DEF PipeInv

LEMMA MessageKept ==
  ASSUME PipeInv, UNCHANGED incoming, \A h \in Handlers : pc[h] = "idle" => pc'[h] = "idle"
  PROVE MessageOK'
  BY DEF PipeInv, MessageOK

\* The end of a Write, whichever way.
LEMMA EndedStep ==
  ASSUME PipeAssumption, PipeInv, NEW w \in Writers, NEW ok \in BOOLEAN, Ended(w, ok),
         pc[w] \notin {"idle", "returned"},
         over' \in {over, over \ {Reject}}, writer' \in {writer, NoWriter},
         sent' \in {sent, IF w \in Callers THEN sent \union {w} ELSE sent},
         UNCHANGED <<box, incoming, replies, done, failing, shut, peer, tree>>
  PROVE PipeInv'
<1>1. /\ pc \in [Writers -> Stations] /\ pending \subseteq Callers
      /\ pc' = [pc EXCEPT ![w] = After(w, ok)] /\ pending' = Removed(w, ok)
  BY DEF PipeInv, PipeTypeOK, Ended, GoesTo, Stations
<1>2. /\ After(w, ok) \in Stations
      /\ w \in Callers => (After(w, ok) = IF ok THEN "waiting" ELSE "returned")
  BY WriterKinds
<1>3. pc' \in [Writers -> Stations] /\ pending' \subseteq pending
  BY <1>1, <1>2 DEF Removed
<1>4. PipeTypeOK'
  <2>1. loop' \in {"select", "ending", "over"}
    BY DEF Ended, ReadAgain, PipeInv, PipeTypeOK
  <2> QED BY <1>3, <2>1 DEF PipeInv, PipeTypeOK, Stations
<1>5. ASSUME NEW c \in Callers
      PROVE /\ pc'[c] = "idle" => pc[c] = "idle"
            /\ pc'[c] = "returned" => pc[c] = "returned" \/ c \notin pending'
  <2>1. c \in Writers
    BY DEF Writers
  <2>2. CASE c # w
    BY <2>1, <2>2, <1>1
  <2>3. CASE c = w
    BY <2>1, <2>3, <1>1, <1>2 DEF Removed
  <2> QED BY <2>2, <2>3
<1>6. Registered'
  BY <1>3, <1>5 DEF PipeInv, Registered
<1>7. MessageOK' /\ Drained' /\ ClosedMeansGone'
  <2>1. \A h \in Handlers : pc[h] = "idle" => pc'[h] = "idle"
    BY <1>1 DEF Writers
  <2> QED BY <1>3, <2>1, MessageKept DEF PipeInv, Drained, ClosedMeansGone
<1> QED BY <1>4, <1>6, <1>7 DEF PipeInv

LEMMA WriteSteps ==
  ASSUME PipeAssumption, PipeInv, NEW w \in Writers,
         Lock(w) \/ Written(w) \/ WriteCancelled(w) \/ WriteEnded(w)
  PROVE PipeInv'
<1>1. CASE Lock(w) /\ shut # "open"
  BY <1>1, EndedStep DEF Lock
<1>2. CASE Lock(w) /\ shut = "open"
  <2>1. /\ pc' = [pc EXCEPT ![w] = "writing"] /\ writer' = w
        /\ UNCHANGED <<pending, over, box, sent, incoming, loop, replies, done, failing, shut, peer, tree>>
        /\ pc \in [Writers -> Stations]
    BY <1>2 DEF Lock, GoesTo, PipeInv, PipeTypeOK, Stations
  <2>2. PipeTypeOK'
    BY <2>1 DEF PipeInv, PipeTypeOK, Stations
  <2>3. Registered'
    BY <2>1 DEF PipeInv, Registered, Writers
  <2>4. MessageOK' /\ Drained' /\ ClosedMeansGone'
    <3>1. \A h \in Handlers : pc[h] = "idle" => pc'[h] = "idle"
      BY <1>2, <2>1 DEF Writers, Lock
    <3> QED BY <2>1, <3>1, MessageKept DEF PipeInv, Drained, ClosedMeansGone
  <2> QED BY <2>2, <2>3, <2>4 DEF PipeInv
<1>3. CASE Written(w)
  <2>1. (peer = "reads") \in BOOLEAN
    OBVIOUS
  <2> QED BY <1>3, <2>1, EndedStep DEF Written
<1>4. CASE WriteCancelled(w)
  <2>1. /\ pc' = [pc EXCEPT ![w] = "closing"] /\ shut' = "grace"
        /\ UNCHANGED <<over, pending, box, writer, sent, incoming, loop, replies, done, failing, peer, tree>>
        /\ pc \in [Writers -> Stations]
    BY <1>4 DEF WriteCancelled, GoesTo, PipeInv, PipeTypeOK, Stations
  <2>2. PipeTypeOK'
    BY <2>1 DEF PipeInv, PipeTypeOK, Stations
  <2>3. Registered'
    BY <2>1 DEF PipeInv, Registered, Writers
  <2>4. MessageOK' /\ Drained' /\ ClosedMeansGone'
    <3>1. \A h \in Handlers : pc[h] = "idle" => pc'[h] = "idle"
      BY <1>4, <2>1 DEF Writers, WriteCancelled
    <3> QED BY <2>1, <3>1, MessageKept DEF PipeInv, Drained, ClosedMeansGone
  <2> QED BY <2>2, <2>3, <2>4 DEF PipeInv
<1>5. CASE WriteEnded(w)
  BY <1>5, EndedStep DEF WriteEnded
<1> QED BY <1>1, <1>2, <1>3, <1>4, <1>5

\* Registering, waiting for the result, and the deadline.
LEMMA CallerSteps ==
  ASSUME PipeAssumption, PipeInv,
         \/ \E c \in Callers : Call(c) \/ Receive(c)
         \/ \E w \in Writers : Deadline(w)
  PROVE PipeInv'
<1> Callers \subseteq Writers
  BY DEF Writers
<1> pc \in [Writers -> Stations] /\ pending \subseteq Callers
  BY DEF PipeInv, PipeTypeOK, Stations
<1>1. ASSUME NEW c \in Callers, Call(c) PROVE PipeInv'
  <2>1. /\ pc' \in [Writers -> Stations] /\ pending' \subseteq Callers
        /\ UNCHANGED <<over, box, writer, sent, incoming, loop, replies, done, failing, shut, peer, tree>>
    BY <1>1 DEF Call, GoesTo, Stations
  <2>2. PipeTypeOK'
    BY <2>1 DEF PipeInv, PipeTypeOK, Stations
  <2>3. CASE done
    <3>1. pc' = [pc EXCEPT ![c] = "returned"] /\ pending' = pending /\ pc[c] = "idle"
      BY <1>1, <2>3 DEF Call, GoesTo
    <3>2. Registered'
      BY <3>1, <2>1 DEF PipeInv, Registered
    <3>3. MessageOK' /\ Drained' /\ ClosedMeansGone'
      <4>1. \A h \in Handlers : pc[h] = "idle" => pc'[h] = "idle"
        BY <3>1 DEF Writers, PipeAssumption
      <4> QED BY <3>1, <2>1, <4>1, MessageKept DEF PipeInv, Drained, ClosedMeansGone
    <3> QED BY <3>2, <3>3, <2>2 DEF PipeInv
  <2>4. CASE ~done
    <3>1. pc' = [pc EXCEPT ![c] = "lock"] /\ pending' = pending \union {c} /\ pc[c] = "idle"
      BY <1>1, <2>4 DEF Call, GoesTo
    <3>2. Registered'
      BY <3>1, <2>1 DEF PipeInv, Registered
    <3>3. MessageOK' /\ Drained' /\ ClosedMeansGone'
      <4>1. \A h \in Handlers : pc[h] = "idle" => pc'[h] = "idle"
        BY <3>1 DEF Writers, PipeAssumption
      <4> QED BY <3>1, <2>1, <2>4, <4>1, MessageKept DEF PipeInv, Drained, ClosedMeansGone
    <3> QED BY <3>2, <3>3, <2>2 DEF PipeInv
  <2> QED BY <2>3, <2>4
<1>2. ASSUME NEW c \in Callers, Receive(c) PROVE PipeInv'
  <2>1. /\ pc' = [pc EXCEPT ![c] = "returned"] /\ pending' = pending \ {c}
        /\ UNCHANGED <<over, box, writer, sent, incoming, loop, replies, done, failing, shut, peer, tree>>
    BY <1>2 DEF Receive, GoesTo
  <2>2. PipeTypeOK'
    BY <2>1 DEF PipeInv, PipeTypeOK, Stations
  <2>3. Registered'
    BY <2>1 DEF PipeInv, Registered
  <2>4. MessageOK' /\ Drained' /\ ClosedMeansGone'
    <3>1. \A h \in Handlers : pc[h] = "idle" => pc'[h] = "idle"
      BY <1>2, <2>1 DEF Writers, Receive
    <3> QED BY <2>1, <3>1, MessageKept DEF PipeInv, Drained, ClosedMeansGone
  <2> QED BY <2>2, <2>3, <2>4 DEF PipeInv
<1>3. ASSUME NEW w \in Writers, Deadline(w) PROVE PipeInv'
  BY <1>3 DEF Deadline, PipeInv, PipeTypeOK, Registered, MessageOK, Drained, ClosedMeansGone
<1> QED BY <1>1, <1>2, <1>3

LEMMA ReadingSteps ==
  ASSUME PipeAssumption, PipeInv, Reading \/ CloseClient \/ \E h \in Handlers : Handled(h)
  PROVE PipeInv'
<1> Callers \subseteq Writers /\ Handlers \subseteq Writers /\ Reject \in Writers
    /\ Reject \notin Callers /\ Callers \intersect Handlers = {}
  BY DEF Writers, PipeAssumption
<1> pc \in [Writers -> Stations] /\ pending \subseteq Callers
  BY DEF PipeInv, PipeTypeOK, Stations
<1>1. CASE ReadReply
  <2>0. loop' \in {"select", "ending", "over"}
    BY <1>1 DEF ReadReply, ReadAgain
  <2>1. /\ incoming.of \in Callers /\ incoming' = Empty /\ pending' = pending \ {incoming.of}
        /\ box' = [box EXCEPT ![incoming.of] = @ + (IF incoming.of \in pending THEN 1 ELSE 0)]
        /\ UNCHANGED <<pc, over, writer, sent, replies, done, failing, shut, peer, tree>>
    BY <1>1 DEF ReadReply, PipeInv, MessageOK
  <2>2. box \in [Callers -> 0..2] /\ \A c \in Callers : box[c] \in 0..1
    BY DEF PipeInv, PipeTypeOK, Registered
  <2>3. ASSUME NEW c \in Callers
        PROVE /\ box'[c] = IF c = incoming.of /\ c \in pending THEN 1 ELSE box[c]
    <3>1. c \in pending => box[c] = 0
      BY DEF PipeInv, Registered
    <3> QED BY <2>1, <2>2, <3>1
  <2>4. box' \in [Callers -> 0..2]
    BY <2>1, <2>2, <2>3
  <2>5. PipeTypeOK'
    BY <2>0, <2>1, <2>4 DEF PipeInv, PipeTypeOK, Empty
  <2>6. Registered'
    BY <2>1, <2>2, <2>3 DEF PipeInv, Registered
  <2>7. MessageOK' /\ Drained' /\ ClosedMeansGone'
    BY <2>1 DEF PipeInv, MessageOK, Drained, ClosedMeansGone, Empty
  <2> QED BY <2>5, <2>6, <2>7 DEF PipeInv
<1>2. CASE ReadRequest
  <2>0. loop' \in {"select", "ending", "over"}
    BY <1>2 DEF ReadRequest, ReadAgain
  <2>1. /\ incoming.of \in Handlers /\ incoming' = Empty
        /\ UNCHANGED <<over, pending, box, writer, sent, replies, done, failing, shut, peer, tree>>
        /\ pc' \in [Writers -> Stations] /\ \A c \in Callers : pc'[c] = pc[c]
    <3>1. incoming.of \in Handlers
      BY <1>2 DEF ReadRequest, PipeInv, MessageOK
    <3>2. CASE pc' = [pc EXCEPT ![incoming.of] = "handling"]
      BY <3>1, <3>2, <1>2 DEF ReadRequest, Stations
    <3>3. CASE \E p \in {"idle", "lock"} :
                 pc' = [pc EXCEPT ![incoming.of] = "returned", ![Reject] = p]
      BY <3>1, <3>3, <1>2 DEF ReadRequest, Stations
    <3> QED BY <3>2, <3>3, <1>2 DEF ReadRequest, GoesTo
  <2>2. PipeTypeOK'
    BY <2>0, <2>1 DEF PipeInv, PipeTypeOK, Empty, Stations
  <2>3. Registered'
    BY <2>1 DEF PipeInv, Registered
  <2>4. MessageOK' /\ Drained' /\ ClosedMeansGone'
    BY <2>1 DEF PipeInv, MessageOK, Drained, ClosedMeansGone, Empty
  <2> QED BY <2>2, <2>3, <2>4 DEF PipeInv
<1>3. CASE ReadError \/ CloseClient
  <2>1. /\ \/ failing = "no" /\ failing' = "drain" /\ done' = TRUE
           \/ UNCHANGED <<failing, done>>
        /\ loop' \in {loop, "over"}
        /\ UNCHANGED <<pc, over, pending, box, writer, sent, incoming, replies, shut, peer, tree>>
    BY <1>3 DEF ReadError, CloseClient, Fail
  <2>0. /\ loop' \in {"select", "ending", "over"} /\ done' \in BOOLEAN
        /\ failing' \in {"no", "drain", "close", "closed"}
    BY <2>1 DEF PipeInv, PipeTypeOK
  <2>2. PipeTypeOK'
    BY <2>0, <2>1 DEF PipeInv, PipeTypeOK
  <2>3. Registered' /\ MessageOK' /\ Drained' /\ ClosedMeansGone'
    BY <2>1 DEF PipeInv, Registered, MessageOK, Drained, ClosedMeansGone
  <2> QED BY <2>2, <2>3 DEF PipeInv
<1>4. ASSUME NEW h \in Handlers, Handled(h) PROVE PipeInv'
  <2>1. /\ pc' \in [Writers -> Stations] /\ \A c \in Callers : pc'[c] = pc[c]
        /\ UNCHANGED <<over, pending, box, writer, sent, incoming, loop, replies, done, failing, shut,
                       peer, tree>>
    BY <1>4 DEF Handled, GoesTo, Stations
  <2>2. PipeTypeOK'
    BY <2>1 DEF PipeInv, PipeTypeOK, Stations
  <2>3. Registered'
    BY <2>1 DEF PipeInv, Registered
  <2>4. MessageOK' /\ Drained' /\ ClosedMeansGone'
    <3>1. \A g \in Handlers : pc[g] = "idle" => pc'[g] = "idle"
      BY <1>4, <2>1 DEF Writers, Handled, GoesTo
    <3> QED BY <2>1, <3>1, MessageKept DEF PipeInv, Drained, ClosedMeansGone
  <2> QED BY <2>2, <2>3, <2>4 DEF PipeInv
<1> QED BY <1>1, <1>2, <1>3, <1>4 DEF Reading

LEMMA ClosingSteps ==
  ASSUME PipeAssumption, PipeInv, Closing
  PROVE PipeInv'
<1>1. CASE FailDrain
  <2>1. /\ failing = "drain" /\ failing' = "close" /\ pending' = {}
        /\ box' = [c \in Callers |-> box[c] + (IF c \in pending THEN 1 ELSE 0)]
        /\ UNCHANGED <<pc, over, writer, sent, incoming, loop, replies, done, shut, peer, tree>>
    BY <1>1 DEF FailDrain
  <2>2. ASSUME NEW c \in Callers
        PROVE box'[c] \in 0..1 /\ (c \notin pending => box'[c] = box[c])
    BY <2>1 DEF PipeInv, Registered
  <2>3. box' \in [Callers -> 0..2]
    BY <2>1, <2>2
  <2>4. PipeTypeOK'
    BY <2>1, <2>3 DEF PipeInv, PipeTypeOK
  <2>5. Registered'
    BY <2>1, <2>2 DEF PipeInv, Registered
  <2>6. MessageOK' /\ Drained' /\ ClosedMeansGone'
    BY <2>1 DEF PipeInv, MessageOK, Drained, ClosedMeansGone
  <2> QED BY <2>4, <2>5, <2>6 DEF PipeInv
<1>2. CASE CloseExited \/ CloseTimer \/ CloseKill
  <2>1. UNCHANGED <<pc, over, pending, box, writer, sent, incoming, loop, replies, done, failing>>
    BY <1>2 DEF CloseExited, CloseTimer, CloseKill
  <2>2. /\ shut' \in {"terminate", "kill", "closed", "failed"}
        /\ peer' \in {peer, "gone"} /\ tree' \in {tree, FALSE}
    BY <1>2 DEF CloseExited, CloseTimer, CloseKill
  <2>6. /\ peer' \in {"reads", "stalled", "gone"} /\ tree' \in BOOLEAN
        /\ shut' \in {"open", "grace", "terminate", "kill", "closed", "failed"}
    BY <2>2 DEF PipeInv, PipeTypeOK
  <2>3. PipeTypeOK'
    BY <2>1, <2>6 DEF PipeInv, PipeTypeOK
  <2>4. Registered' /\ MessageOK' /\ Drained'
    BY <2>1 DEF PipeInv, Registered, MessageOK, Drained
  <2>5. ClosedMeansGone'
    BY <1>2 DEF CloseExited, CloseTimer, CloseKill, ClosedMeansGone
  <2> QED BY <2>3, <2>4, <2>5 DEF PipeInv
<1>3. CASE FailClose
  BY <1>3 DEF FailClose, PipeInv, PipeTypeOK, Registered, MessageOK, Drained, ClosedMeansGone
<1> QED BY <1>1, <1>2, <1>3 DEF Closing

LEMMA PeerSteps ==
  ASSUME PipeAssumption, PipeInv,
         \/ \E c \in Callers : PeerReply(c)
         \/ \E h \in Handlers : PeerRequest(h)
         \/ EndOfFile \/ PeerGarbage \/ PeerStalls \/ PeerExits
  PROVE PipeInv'
<1>1. ASSUME NEW c \in Callers, PeerReply(c) PROVE PipeInv'
  <2>1. replies' \in [Callers -> 0..MaxReplies]
    BY <1>1 DEF PeerReply, PipeInv, PipeTypeOK, PipeAssumption
  <2> QED BY <1>1, <2>1 DEF PeerReply, PipeInv, PipeTypeOK, Registered, MessageOK, Drained,
                            ClosedMeansGone
<1>2. ASSUME NEW h \in Handlers, PeerRequest(h) PROVE PipeInv'
  BY <1>2 DEF PeerRequest, PipeInv, PipeTypeOK, Registered, MessageOK, Drained, ClosedMeansGone
<1>3. CASE EndOfFile \/ PeerGarbage
  BY <1>3 DEF EndOfFile, PeerGarbage, PipeInv, PipeTypeOK, Registered, MessageOK, Drained,
              ClosedMeansGone
<1>4. CASE PeerStalls \/ PeerExits
  BY <1>4 DEF PeerStalls, PeerExits, PipeInv, PipeTypeOK, Registered, MessageOK, Drained,
              ClosedMeansGone
<1> QED BY <1>1, <1>2, <1>3, <1>4

LEMMA PipeNextInv ==
  ASSUME PipeAssumption, PipeInv, [PipeNext]_pipeVars
  PROVE PipeInv'
<1>1. CASE UNCHANGED pipeVars
  BY <1>1 DEF pipeVars, PipeInv, PipeTypeOK, Registered, MessageOK, Drained, ClosedMeansGone
<1>2. CASE PipeNext
  BY <1>2, WriteSteps, CallerSteps, ReadingSteps, ClosingSteps, PeerSteps DEF PipeNext, Step
<1> QED BY <1>1, <1>2

\* A frame is written whole or the connection is closed.
FrameWhole ==
  \A w \in Writers :
    pc[w] = "writing" /\ pc'[w] \notin {"writing", "waiting"} /\ peer = "stalled" => shut' # "open"

LEMMA FramesAreWhole ==
  ASSUME PipeAssumption, PipeInv, [PipeNext]_pipeVars
  PROVE FrameWhole
<1> SUFFICES ASSUME NEW w \in Writers, pc[w] = "writing", peer = "stalled",
                    pc'[w] \notin {"writing", "waiting"}
             PROVE shut' # "open"
  BY DEF FrameWhole
<1> Callers \subseteq Writers /\ Handlers \subseteq Writers /\ Reject \in Writers
  BY DEF Writers
<1> pc \in [Writers -> Stations]
  BY DEF PipeInv, PipeTypeOK, Stations
<1>1. CASE pc' = pc
  BY <1>1
<1>2. CASE \E c \in Callers : Call(c) \/ Receive(c)
  BY <1>2 DEF Call, Receive, GoesTo
<1>3. ASSUME NEW v \in Writers, Lock(v) \/ Written(v) \/ WriteCancelled(v) \/ WriteEnded(v)
      PROVE shut' # "open"
  <2>1. CASE Lock(v)
    BY <2>1 DEF Lock, GoesTo, Ended
  <2>2. CASE Written(v)
    BY <2>2 DEF Written
  <2>3. CASE WriteCancelled(v)
    BY <2>3 DEF WriteCancelled
  <2>4. CASE WriteEnded(v)
    <3>1. v # w => pc'[w] = pc[w]
      BY <2>4 DEF WriteEnded, Ended, GoesTo
    <3>2. v = w
      BY <3>1
    <3> QED BY <2>4, <3>2 DEF WriteEnded, PipeInv, PipeTypeOK
  <2> QED BY <1>3, <2>1, <2>2, <2>3, <2>4
<1>4. CASE \E h \in Handlers : Handled(h)
  BY <1>4 DEF Handled, GoesTo
<1>5. CASE ReadRequest
  <2>1. pc[incoming.of] = "idle" /\ pc[Reject] = "idle"
    BY <1>5 DEF ReadRequest, PipeInv, MessageOK
  <2>2. incoming.of \in Writers
    BY <1>5 DEF ReadRequest, PipeInv, MessageOK
  <2> QED BY <1>5, <2>1, <2>2 DEF ReadRequest, GoesTo
<1>6. CASE UNCHANGED pipeVars
  BY <1>6, <1>1 DEF pipeVars
<1>7. CASE ReadReply \/ ReadError \/ CloseClient \/ Closing
  BY <1>7, <1>1 DEF ReadReply, ReadError, CloseClient, Closing, CloseExited, CloseTimer, CloseKill,
                    FailDrain, FailClose
<1>8. CASE \/ \E c \in Callers : PeerReply(c)
           \/ \E h \in Handlers : PeerRequest(h)
           \/ \E v \in Writers : Deadline(v)
           \/ EndOfFile \/ PeerGarbage \/ PeerStalls \/ PeerExits
  BY <1>8, <1>1 DEF PeerReply, PeerRequest, Deadline, EndOfFile, PeerGarbage, PeerStalls, PeerExits
<1> QED BY <1>2, <1>3, <1>4, <1>5, <1>6, <1>7, <1>8 DEF PipeNext, Step, Reading

\* For any callers, requests of the peer, slots and answers: one result for each call and
\* none pending after it returned, no call registers with a client that has failed, and
\* when Close returns nothing of the process tree is left, whatever the peer answers
\* twice, late or not at all (rpc.go Call, readLoop, fail; transport.go Write, Close).
THEOREM CallsSettledAlways == ASSUME PipeAssumption PROVE PipeSpec => []CallsSettled
<1>1. PipeInit => PipeInv
  BY PipeInitInv
<1>2. PipeInv /\ [PipeNext]_pipeVars => PipeInv'
  BY PipeNextInv
<1>3. PipeInv => CallsSettled
  BY DEF PipeInv, CallsSettled, OneResult, NoneForgotten, Registered, Drained
<1> QED BY <1>1, <1>2, <1>3, PTL DEF PipeSpec

-----------------------------------------------------------------------------
(* The components side by side: nothing of one rewrites what is a fact in     *)
(* another.                                                                   *)

LEMMA SideBySide == [MCNext]_all => [Next]_vars /\ [PipeNext]_pipeVars
<1> SUFFICES ASSUME [MCNext]_all PROVE [Next]_vars /\ [PipeNext]_pipeVars
  OBVIOUS
<1>1. CASE UNCHANGED all
  BY <1>1 DEF all, calls, pipe, vars, pipeVars
<1>2. CASE MCNext
  BY <1>2 DEF MCNext, calls, pipe, vars, pipeVars
<1> QED BY <1>1, <1>2

\* For any Runs, calls, crashes, callers and answers of the peer: no late handler rewrites
\* what happened to a host call (store.go), and a connection on which a frame was written
\* in part is closed, so that the next frame is not read as its end
\* (mcpstdio/transport.go Write).
THEOREM HostFactsAlways == MCSpec => HostFacts
<1>1. MCInit => Init /\ PipeInv
  <2>1. PipeInit => PipeInv
    BY Instances, PipeInitInv
  <2> QED BY <2>1 DEF MCInit
<1>2. PipeInv /\ [PipeNext]_pipeVars => PipeInv'
  BY Instances, PipeNextInv
<1>3. MCSpec => Spec /\ []PipeInv
  BY <1>1, <1>2, SideBySide, PTL DEF MCSpec, Spec
<1>4. Inv /\ PipeInv /\ [MCNext]_all =>
        [/\ CallsAreFacts
         /\ \A w \in Writers :
              pc[w] = "writing" /\ pc'[w] \notin {"writing", "waiting"} /\ peer = "stalled"
                => shut' # "open"]_all
  <2> SUFFICES ASSUME Inv, PipeInv, [MCNext]_all PROVE CallsAreFacts /\ FrameWhole
    BY DEF FrameWhole
  <2>1. [Next]_vars /\ [PipeNext]_pipeVars
    BY SideBySide
  <2>2. FrameWhole
    BY <2>1, Instances, FramesAreWhole
  <2>3. CallsAreFacts
    BY <2>1, HostAssumption, HostStep DEF vars, CallsAreFacts
  <2> QED BY <2>2, <2>3
<1> QED BY <1>3, <1>4, InvAlways, PTL DEF MCSpec, HostFacts

=============================================================================
