------------------------- MODULE RunLifecycleProofs -------------------------
(***************************************************************************)
(* The Runs of a conversation, for any number of Runs, Attempts, retries,  *)
(* inputs and crashes: no outcome is rewritten and, where settlements are  *)
(* not lost, nothing is dispatched past an unresolved call, one Run at a   *)
(* time is active and no ended Run comes back.                             *)
(*                                                                         *)
(* The argument is a table: what the status of the executed Run, its       *)
(* unresolved calls and its pending calls can be at each place of the      *)
(* executor.  It holds up a stronger form of the index one_active_run, in  *)
(* which a Run with an unresolved call has a claim to the conversation     *)
(* too: that is what keeps recover from making a second Run active.        *)
(***************************************************************************)
EXTENDS RunLifecycle, FiniteSetTheorems, TLAPS

-----------------------------------------------------------------------------
(* The inductive invariant *)

\* The rows: Attempts are numbered without gaps and belong to a Run that exists, only
\* settled calls are resolved, only a limited Run has a reason, and every steering
\* input is one that was accepted.
RowOK(a) ==
  IF att[a].status = "free" THEN att[a] = NoAttempt
  ELSE /\ att[a].run \in Runs /\ run[att[a].run].status # "none"
       /\ att[a].root \in Attempts /\ att[att[a].root].status # "free"
       /\ att[a].resolved # "no" => att[a].status \in {"finished", "unknown"}
Books ==
  /\ Used = 1..(Fresh - 1)
  /\ \A a \in Attempts : RowOK(a)
  /\ \A r \in Runs : run[r].reason # "" => run[r].status = "limited"
  /\ \A r \in Runs : steer[r] + (IF incoming = 0 THEN 0 ELSE 1) <= inputs

\* The Attempts the executor e has in hand.
Verifying == {"vreserve", "vquery", "vresolve", "vfail"}
Mine(e, a) == a \in Attempts /\ att[a].run = e.run /\ att[a].status # "free"
Hands(e) ==
  /\ \A a \in e.todo : Mine(e, a)
  /\ e.pc \in {"tool", "toolcall", "modelcall"} => Mine(e, e.at)
  /\ e.pc \in {"toolcall", "modelcall"} => att[e.at].status = "dispatched"
  /\ e.prev # 0 => /\ e.pc \in {"reserve", "wait", "dispatch"} /\ Mine(e, e.prev)
                   /\ att[e.prev].status \in {"finished", "unknown"}
                   /\ att[e.prev].resolved = "no" /\ att[e.prev].number < ModelRetries
                   /\ e.prev # e.orig
  /\ e.pc \in {"reserve", "wait"} => e.prev # 0
  /\ e.orig # 0 => /\ e.pc \in Verifying \cup {"tool", "toolcall", "dispatch", "modelcall",
                                               "reserve", "wait"}
                   /\ Mine(e, e.orig)
                   /\ att[e.orig].status = "unknown" /\ att[e.orig].resolved = "no"
  /\ e.pc \in Verifying => e.orig # 0
  /\ e.pc \in {"tool", "toolcall"} /\ e.orig # 0 => e.left > 0 /\ att[e.at].purpose = "verify"
ExecOK ==
  /\ exec.pc = "idle" => exec = Idle
  /\ exec.pc # "idle" => up /\ exec.run \in Runs /\ run[exec.run].status # "none"
  /\ Hands(exec)

Base == TypeOK /\ Books /\ ExecOK

\* The table: status s, unresolved calls u and pending calls p of the executed Run.
Table(e, s, u, p) ==
  /\ e.pc = "loop" => s = "running" \/ (s = "unknown" /\ u # {})
  /\ e.pc \in {"next", "tool"} /\ e.orig = 0 =>
       (s = "running" /\ u = {}) \/ (s = "unknown" /\ u # {})
  /\ e.pc \in {"toolcall", "modelcall", "dispatch", "wait", "vquery", "vresolve", "command"} =>
       s = "running"
  /\ e.pc = "tool" /\ e.orig # 0 => s = "running" /\ u \subseteq {e.orig}
  /\ e.pc = "vreserve" => s \in {"running", "unknown"}
  /\ e.pc = "reserve" => s \in {"failed", "unknown"}
  /\ e.pc = "vfail" => s \in {"running", "failed", "unknown"}
  /\ e.pc = "settle" => s = "limited"
  /\ e.pc = "return" => /\ \/ s \in {"running", "unknown", "waiting_confirmation"}
                           \/ s \in {"completed", "failed"} /\ u = {} /\ p = {}
                        /\ s = "running" => e.err # "ok"
  /\ e.pc \in {"toolcall", "modelcall"} => u \subseteq {e.at, e.orig}
  /\ e.pc \in {"dispatch", "reserve", "wait"} => u \subseteq {e.prev, e.orig}
  /\ e.pc \in {"vreserve", "vquery", "vresolve"} => u \subseteq {e.orig}
  /\ e.pc = "command" => u = {} /\ p = {}
  /\ e.pc \in {"dispatch", "modelcall", "reserve", "wait"} /\ e.orig = 0 => p = {}
Local ==
  exec.pc # "idle" =>
    /\ Table(exec, run[exec.run].status, UnresolvedOf(exec.run), Pending(exec.run))
    /\ exec.pc = "settle" => run[exec.run].reason # "settled"
    /\ exec.pc = "reserve" /\ run[exec.run].status = "failed" => att[exec.prev].status = "finished"

\* A Run with an unresolved call will be made active by recover.
Claims(r) == Active(r) \/ (UnresolvedOf(r) # {} /\ run[r].status # "abandoned")
Over(r) == run[r].status \in {"completed", "failed"} \/ run[r].reason = "settled"
Global ==
  /\ \A q, r \in Runs : Claims(q) /\ Claims(r) => q = r
  /\ exec.pc # "idle" => \A q \in Runs : Claims(q) => q = exec.run
  /\ UnresolvedBlocks
  /\ \A r \in Runs : run[r].status = "completed" \/ run[r].reason = "settled" => UnresolvedOf(r) = {}
  /\ \A r \in Runs : Over(r) =>
       Pending(r) = {} \/ (UnresolvedOf(r) # {} /\ (exec.run = r \/ ~up))
  /\ MaxSteps = 0 => RunningIsExecuted

IInv == Base /\ Local /\ Global

-----------------------------------------------------------------------------
(* The executor's record *)

Places == {"idle", "loop", "next", "tool", "toolcall", "dispatch", "modelcall", "reserve", "wait",
           "vreserve", "vquery", "vresolve", "vfail", "return", "settle", "command"}
Errors == {"ok", "stop", "limit", "context", "unknown", "input"}

ExecIs(p, a, t, v, o, l, e) ==
  /\ exec' \in ExecRecord
  /\ exec'.pc = p /\ exec'.run = exec.run /\ exec'.at = a /\ exec'.todo = t /\ exec'.prev = v
  /\ exec'.orig = o /\ exec'.left = l /\ exec'.err = e

LEMMA ExecFields ==
  ASSUME TypeOK
  PROVE  /\ exec.pc \in Places /\ exec.run \in 0..MaxRuns /\ exec.at \in 0..MaxAttempts
         /\ exec.todo \in SUBSET Attempts /\ exec.prev \in 0..MaxAttempts
         /\ exec.orig \in 0..MaxAttempts /\ exec.left \in 0..MaxCalls /\ exec.err \in Errors
         /\ exec.cancelled \in BOOLEAN
BY DEF TypeOK, ExecRecord, Places, Errors

LEMMA ExecGoto ==
  ASSUME TypeOK, NEW p \in Places, Goto(p)
  PROVE  ExecIs(p, exec.at, exec.todo, exec.prev, exec.orig, exec.left, exec.err)
BY DEF TypeOK, ExecRecord, Places, Goto, ExecIs

LEMMA ExecFails ==
  ASSUME TypeOK, LifecycleAssumption, NEW e \in Errors, Fails(e)
  PROVE  ExecIs(IF exec.orig # 0 THEN "vfail" ELSE "return", exec.at, exec.todo, 0, exec.orig,
                exec.left, e)
<1>1. 0 \in 0..MaxAttempts
  BY DEF LifecycleAssumption
<1>2. QED
  BY <1>1 DEF TypeOK, ExecRecord, Errors, Fails, ExecIs

LEMMA ExecListed ==
  ASSUME TypeOK, NEW t \in SUBSET Attempts, Listed(t)
  PROVE  ExecIs(IF t # {} THEN "next" ELSE IF run[exec.run].command THEN "command" ELSE "dispatch",
                exec.at, t, exec.prev, exec.orig, exec.left, exec.err)
BY DEF TypeOK, ExecRecord, Listed, ExecIs

LEMMA ExecStarts ==
  ASSUME TypeOK, LifecycleAssumption, NEW r \in Runs, Starts(r)
  PROVE  /\ exec' \in ExecRecord /\ exec'.pc = "loop" /\ exec'.run = r /\ exec'.todo = {}
         /\ exec'.prev = 0 /\ exec'.orig = 0 /\ exec'.at = 0
<1>1. 0 \in 0..MaxAttempts /\ 0 \in 0..MaxCalls /\ r \in 0..MaxRuns /\ {} \in SUBSET Attempts
  BY DEF LifecycleAssumption, Runs
<1>2. QED
  BY <1>1 DEF ExecRecord, Starts, Idle

LEMMA IdleRecord ==
  ASSUME LifecycleAssumption
  PROVE  /\ Idle \in ExecRecord /\ Idle.pc = "idle" /\ Idle.run = 0 /\ Idle.todo = {}
         /\ Idle.prev = 0 /\ Idle.orig = 0
<1>1. 0 \in 0..MaxAttempts /\ 0 \in 0..MaxCalls /\ 0 \in 0..MaxRuns /\ {} \in SUBSET Attempts
  BY DEF LifecycleAssumption
<1>2. QED
  BY <1>1 DEF ExecRecord, Idle

LEMMA ExecToolDone ==
  ASSUME TypeOK, LifecycleAssumption, ToolDone, exec.orig # 0 => exec.left > 0
  PROVE  IF exec.orig # 0
         THEN ExecIs("vquery", exec.at, exec.todo, exec.prev, exec.orig, exec.left - 1, exec.err)
         ELSE ExecIs("next", exec.at, exec.todo, exec.prev, exec.orig, exec.left, exec.err)
<1>1. CASE exec.orig # 0
  <2>1. exec.left - 1 \in 0..MaxCalls
    BY <1>1 DEF TypeOK, ExecRecord, LifecycleAssumption
  <2>2. QED
    BY <1>1, <2>1 DEF TypeOK, ExecRecord, ToolDone, ExecIs
<1>2. CASE exec.orig = 0
  BY <1>2 DEF TypeOK, ExecRecord, ToolDone, ExecIs
<1>3. QED
  BY <1>1, <1>2

-----------------------------------------------------------------------------
(* The rows of Runs *)

Reasons == {"", "limit", "context", "settled"}

\* Of a step that writes the row of Run r.
RunIs(r, s, why) ==
  /\ run' \in [Runs -> RunRecord] /\ \A q \in Runs : q # r => run'[q] = run[q]
  /\ run'[r].status = s /\ run'[r].reason = why /\ run'[r].command = run[r].command

LEMMA RunNow ==
  ASSUME TypeOK, NEW r \in Runs, NEW s \in Statuses, NEW why \in Reasons, run' = Now(r, s, why)
  PROVE  RunIs(r, s, why)
<1>1. run[r] \in RunRecord
  BY DEF TypeOK
<1>2. /\ [run[r] EXCEPT !.status = s, !.reason = why] \in RunRecord
      /\ [run[r] EXCEPT !.status = s, !.reason = why].status = s
      /\ [run[r] EXCEPT !.status = s, !.reason = why].reason = why
      /\ [run[r] EXCEPT !.status = s, !.reason = why].command = run[r].command
  BY <1>1 DEF RunRecord, Reasons
<1>3. QED
  BY <1>2 DEF TypeOK, Now, RunIs

LEMMA RunSetStatus ==
  ASSUME TypeOK, NEW r \in Runs, NEW s \in Statuses, run' = SetStatus(r, s)
  PROVE  RunIs(r, s, "")
BY RunNow DEF SetStatus, Reasons

LEMMA RunStepped ==
  ASSUME TypeOK, LifecycleAssumption, NEW r \in Runs, MayStep(r), run' = Stepped(r)
  PROVE  RunIs(r, run[r].status, run[r].reason)
<1> DEFINE n == IF MaxSteps = 0 THEN 0 ELSE run[r].steps + 1
<1>1. run[r] \in RunRecord
  BY DEF TypeOK
<1>2. n \in 0..MaxSteps
  <2>1. run[r].steps \in 0..MaxSteps
    BY <1>1 DEF RunRecord
  <2>2. QED
    BY <2>1 DEF MayStep, LifecycleAssumption
<1>3. run' = [run EXCEPT ![r] = [run[r] EXCEPT !.steps = n]]
  BY DEF Stepped
<1> HIDE DEF n
<1>4. /\ [run[r] EXCEPT !.steps = n] \in RunRecord
      /\ [run[r] EXCEPT !.steps = n].status = run[r].status
      /\ [run[r] EXCEPT !.steps = n].reason = run[r].reason
      /\ [run[r] EXCEPT !.steps = n].command = run[r].command
  BY <1>1, <1>2 DEF RunRecord
<1>5. QED
  BY <1>3, <1>4 DEF TypeOK, RunIs

Born(c, p) == [NoRun EXCEPT !.status = "running", !.command = c, !.parent = p]

LEMMA BornRecord ==
  ASSUME LifecycleAssumption, NEW c \in BOOLEAN, NEW p \in 0..MaxRuns
  PROVE  Born(c, p) \in RunRecord /\ Born(c, p).status = "running" /\ Born(c, p).reason = ""
<1>1. 0 \in 0..MaxSteps /\ 0 \in 0..MaxRuns
  BY DEF LifecycleAssumption
<1>2. QED
  BY <1>1 DEF Born, NoRun, RunRecord, Statuses

-----------------------------------------------------------------------------
(* The rows of Attempts *)

CallStatuses == {"free", "pending", "dispatched", "finished", "unknown"}

\* A row v that was u: the same call, and its outcome is a fact.
Follows(u, v) ==
  /\ u.status = "free" => v = u
  /\ u.status # "free" => v.status # "free"
  /\ v.run = u.run /\ v.root = u.root /\ v.purpose = u.purpose
  /\ u.status = "unknown" => v.status = "unknown"
  /\ u.status = "finished" => v.status = "finished"
  /\ u.status = "dispatched" => v.status \notin {"free", "pending"}
  /\ u.resolved # "no" => v.resolved = u.resolved
  /\ v.resolved = u.resolved \/ v.status \in {"finished", "unknown"}
Settles == att' \in [Attempts -> AttemptRecord] /\ \A a \in Attempts : Follows(att[a], att'[a])

LEMMA CallSet ==
  ASSUME TypeOK, NEW a \in Attempts, NEW s \in CallStatuses, att' = [att EXCEPT ![a].status = s]
  PROVE  /\ att' \in [Attempts -> AttemptRecord] /\ \A b \in Attempts : b # a => att'[b] = att[b]
         /\ att'[a].status = s /\ att'[a].run = att[a].run /\ att'[a].root = att[a].root
         /\ att'[a].purpose = att[a].purpose /\ att'[a].resolved = att[a].resolved
         /\ att'[a].number = att[a].number
<1>1. att[a] \in AttemptRecord
  BY DEF TypeOK
<1> DEFINE v == [att[a] EXCEPT !.status = s]
<1>2. /\ v \in AttemptRecord /\ v.status = s /\ v.run = att[a].run /\ v.root = att[a].root
      /\ v.purpose = att[a].purpose /\ v.resolved = att[a].resolved /\ v.number = att[a].number
  BY <1>1 DEF AttemptRecord, CallStatuses
<1>3. att' = [att EXCEPT ![a] = v]
  OBVIOUS
<1> HIDE DEF v
<1>4. QED
  BY <1>2, <1>3 DEF TypeOK

\* What one row tells of the unresolved and of the pending calls of a Run.
LEMMA OneCall ==
  ASSUME NEW a \in Attempts, \A b \in Attempts : b # a => att'[b] = att[b], NEW r,
         att'[a].run = att[a].run
  PROVE  /\ att[a].run # r => UnresolvedOf(r)' = UnresolvedOf(r) /\ Pending(r)' = Pending(r)
         /\ att[a].run = r => /\ UnresolvedOf(r)' = IF Unresolved(a)' THEN UnresolvedOf(r) \cup {a}
                                                   ELSE UnresolvedOf(r) \ {a}
                              /\ Pending(r)' = IF att'[a].status = "pending" THEN Pending(r) \cup {a}
                                              ELSE Pending(r) \ {a}
BY DEF UnresolvedOf, Unresolved, Pending, Of

LEMMA SettlesFresh ==
  ASSUME TypeOK, Settles
  PROVE  Used' = Used /\ Fresh' = Fresh
<1>1. Used' = Used
  BY DEF Used, Settles, Follows
<1>2. QED
  BY <1>1 DEF Fresh

LEMMA FreshRow ==
  ASSUME TypeOK, Books, LifecycleAssumption
  PROVE  /\ Fresh \in Nat \ {0} /\ Fresh <= MaxAttempts + 1
         /\ \A a \in Attempts : a < Fresh <=> att[a].status # "free"
<1>1. IsFiniteSet(Attempts)
  BY FS_Interval DEF Attempts, LifecycleAssumption
<1>2. IsFiniteSet(Used) /\ Cardinality(Used) \in Nat
  BY <1>1, FS_Subset, FS_CardinalityType DEF Used
<1>3. Fresh \in Nat \ {0}
  BY <1>2 DEF Fresh
<1>4. \A a \in Attempts : a \in Used <=> a < Fresh
  <2>1. Used = 1..(Fresh - 1)
    BY DEF Books
  <2>2. QED
    BY <1>3, <2>1 DEF Attempts, LifecycleAssumption
<1>5. Fresh <= MaxAttempts + 1
  <2>1. Used = 1..(Fresh - 1) /\ Used \in SUBSET (1..MaxAttempts)
    BY DEF Books, Used, Attempts
  <2>2. Fresh > 1 => Fresh - 1 \in Used
    BY <1>3, <2>1
  <2>3. QED
    BY <1>3, <2>1, <2>2 DEF LifecycleAssumption
<1>6. QED
  BY <1>3, <1>4, <1>5 DEF Used

\* k rows are inserted after the last one.
LEMMA FreshMoves ==
  ASSUME TypeOK, Books, LifecycleAssumption, NEW k \in Nat, Fresh + k <= MaxAttempts + 1,
         NEW x, x = Fresh,
         \A a \in Attempts : att'[a].status # "free" <=> att[a].status # "free" \/ a \in x..(x + k - 1)
  PROVE  Used' = 1..(Fresh' - 1) /\ Fresh' = Fresh + k
<1>1. Fresh \in Nat \ {0} /\ \A a \in Attempts : a < Fresh <=> att[a].status # "free"
  BY FreshRow
<1>2. \A a \in Attempts : att'[a].status # "free" <=> a < x + k
  BY <1>1 DEF Attempts, LifecycleAssumption
<1>3. Used' = 1..(x + k - 1)
  BY <1>1, <1>2 DEF Used, Attempts, LifecycleAssumption
<1>4. Cardinality(Used') = x + k - 1
  <2>1. x + k - 1 \in Nat /\ 1 \in Int /\ x + k - 1 \in Int
    BY <1>1
  <2>2. Cardinality(1..(x + k - 1)) = IF 1 > x + k - 1 THEN 0 ELSE (x + k - 1) - 1 + 1
    BY <2>1, FS_Interval
  <2>3. QED
    BY <1>1, <1>3, <2>1, <2>2
<1>5. QED
  BY <1>1, <1>3, <1>4 DEF Fresh

-----------------------------------------------------------------------------
(* Steps of the executor, for every constant *)

RunsKept ==
  /\ run' \in [Runs -> RunRecord]
  /\ \A q \in Runs : /\ run[q].status # "none" => run'[q].status # "none"
                     /\ run'[q].reason # "" => run'[q].status = "limited"

LEMMA RunsKeptBy ==
  ASSUME Base, NEW r \in Runs, NEW s, NEW why, RunIs(r, s, why), s # "none",
         why # "" => s = "limited"
  PROVE  RunsKept
BY DEF Base, Books, RunIs, RunsKept

LEMMA RunsSame ==
  ASSUME Base, run' = run
  PROVE  RunsKept
BY DEF Base, TypeOK, Books, RunsKept

LEMMA BooksStep ==
  ASSUME Base, Settles, RunsKept,
         \A r \in Runs : steer'[r] + (IF incoming' = 0 THEN 0 ELSE 1) <= inputs'
  PROVE  Books' /\ FactsKept
<1>1. Used' = 1..(Fresh' - 1)
  BY SettlesFresh DEF Base, Books
<1>2. ASSUME NEW a \in Attempts PROVE RowOK(a)'
  <2>1. RowOK(a) /\ Follows(att[a], att'[a])
    BY <1>2 DEF Base, Books, Settles
  <2>2. CASE att[a].status = "free"
    BY <2>1, <2>2 DEF RowOK, Follows
  <2>3. CASE att[a].status # "free"
    <3>1. Follows(att[att[a].root], att'[att[a].root])
      BY <2>1, <2>3 DEF RowOK, Settles
    <3>2. QED
      BY <2>1, <2>3, <3>1 DEF RowOK, Follows, RunsKept
  <2>4. QED
    BY <2>2, <2>3
<1>3. FactsKept
  BY DEF Settles, Follows, FactsKept
<1>4. QED
  BY <1>1, <1>2, <1>3 DEF Books, RunsKept

LEMMA SteerKept ==
  ASSUME Base, LifecycleAssumption, steer' = steer
  PROVE  steer' \in [Runs -> 0..MaxInputs] /\ \A r \in Runs : steer'[r] <= steer[r]
BY DEF Base, TypeOK, LifecycleAssumption

\* The executor goes on, and k Attempts are inserted from x on.
Grown(x, k) ==
  /\ att' \in [Attempts -> AttemptRecord]
  /\ \A a \in Attempts :
       IF a \in x..(x + k - 1)
       THEN /\ att'[a].status # "free" /\ att'[a].run \in Runs /\ run'[att'[a].run].status # "none"
            /\ att'[a].root \in Attempts /\ att'[att'[a].root].status # "free"
            /\ att'[a].resolved = "no"
       ELSE Follows(att[a], att'[a])

LEMMA GrownBooks ==
  ASSUME Base, LifecycleAssumption, NEW k \in Nat, Fresh + k <= MaxAttempts + 1, NEW x, x = Fresh,
         Grown(x, k), RunsKept,
         \A r \in Runs : steer'[r] + (IF incoming' = 0 THEN 0 ELSE 1) <= inputs'
  PROVE  Books' /\ FactsKept
<1>1. Fresh \in Nat \ {0} /\ \A a \in Attempts : a < Fresh <=> att[a].status # "free"
  BY FreshRow DEF Base
<1>2. \A a \in Attempts : a \in x..(x + k - 1) => att[a] = NoAttempt
  <2>1. ASSUME NEW a \in Attempts, a \in x..(x + k - 1) PROVE att[a].status = "free"
    <3>1. a \in Nat /\ ~(a < Fresh)
      BY <1>1, <2>1 DEF Attempts, LifecycleAssumption
    <3>2. QED
      BY <1>1, <3>1
  <2>2. QED
    BY <2>1 DEF Base, Books, RowOK
<1>3. \A a \in Attempts :
        att'[a].status # "free" <=> att[a].status # "free" \/ a \in x..(x + k - 1)
  BY <1>2 DEF Grown, Follows
<1>4. Used' = 1..(Fresh' - 1)
  BY <1>3, FreshMoves DEF Base
<1>5. ASSUME NEW a \in Attempts PROVE RowOK(a)'
  <2>1. CASE a \in x..(x + k - 1)
    BY <2>1 DEF RowOK, Grown
  <2>2. CASE a \notin x..(x + k - 1) /\ att[a].status = "free"
    BY <2>2 DEF RowOK, Grown, Follows, Base, Books
  <2>3. CASE a \notin x..(x + k - 1) /\ att[a].status # "free"
    <3>1. /\ att'[a].run = att[a].run /\ att'[a].root = att[a].root /\ att'[a].status # "free"
          /\ att[a].run \in Runs /\ run[att[a].run].status # "none"
          /\ att[a].root \in Attempts /\ att[att[a].root].status # "free"
      BY <2>3 DEF RowOK, Grown, Follows, Base, Books
    <3>2. /\ att'[att[a].root].status # "free"
          /\ att'[a].resolved # "no" => att'[a].status \in {"finished", "unknown"}
      BY <1>3, <2>3, <3>1 DEF RowOK, Grown, Follows, Base, Books
    <3>3. QED
      BY <3>1, <3>2 DEF RowOK, RunsKept
  <2>4. QED
    BY <2>1, <2>2, <2>3
<1>6. FactsKept
  BY <1>2 DEF Grown, Follows, FactsKept, NoAttempt
<1>7. QED
  BY <1>4, <1>5, <1>6 DEF Books, RunsKept

LEMMA SteerBound ==
  ASSUME Base, LifecycleAssumption, UNCHANGED outside, steer' \in [Runs -> 0..MaxInputs],
         \A r \in Runs : steer'[r] <= steer[r]
  PROVE  \A r \in Runs : steer'[r] + (IF incoming' = 0 THEN 0 ELSE 1) <= inputs'
<1>1. ASSUME NEW r \in Runs PROVE steer'[r] \in Nat /\ steer[r] \in Nat /\ inputs \in Nat
  BY <1>1 DEF Base, TypeOK, LifecycleAssumption
<1>2. ASSUME NEW r \in Runs PROVE steer[r] + (IF incoming = 0 THEN 0 ELSE 1) <= inputs
  BY <1>2 DEF Base, Books
<1>3. QED
  BY <1>1, <1>2 DEF outside

LEMMA InsideBase ==
  ASSUME Base, exec.pc # "idle", exec' \in ExecRecord, exec'.pc # "idle", exec'.run = exec.run,
         Settles, RunsKept, Hands(exec)', UNCHANGED outside,
         steer' \in [Runs -> 0..MaxInputs], \A r \in Runs : steer'[r] <= steer[r],
         LifecycleAssumption
  PROVE  Base' /\ FactsKept
<1>1. Books' /\ FactsKept
  BY SteerBound, BooksStep
<1>2. TypeOK'
  BY DEF Base, TypeOK, Settles, RunsKept, outside
<1>3. ExecOK'
  BY DEF Base, ExecOK, RunsKept, outside
<1>4. QED
  BY <1>1, <1>2, <1>3 DEF Base

LEMMA InsideGrows ==
  ASSUME Base, LifecycleAssumption, exec.pc # "idle", exec' \in ExecRecord, exec'.pc # "idle",
         exec'.run = exec.run, NEW k \in Nat, Fresh + k <= MaxAttempts + 1, NEW x, x = Fresh,
         Grown(x, k), RunsKept, Hands(exec)', UNCHANGED <<steer, outside>>
  PROVE  Base' /\ FactsKept
<1>1. steer' \in [Runs -> 0..MaxInputs] /\ \A r \in Runs : steer'[r] <= steer[r]
  BY SteerKept
<1>2. Books' /\ FactsKept
  BY <1>1, SteerBound, GrownBooks
<1>3. TypeOK'
  BY <1>1 DEF Base, TypeOK, Grown, RunsKept, outside
<1>4. ExecOK'
  BY DEF Base, ExecOK, RunsKept, outside
<1>5. QED
  BY <1>2, <1>3, <1>4 DEF Base

\* Nothing but the executor moves.
Still == UNCHANGED <<run, att, steer, outside>>

LEMMA StillRows ==
  ASSUME Base, UNCHANGED <<run, att>>
  PROVE  Settles /\ RunsKept
BY DEF Base, TypeOK, Books, Settles, Follows, RunsKept

LEMMA StillBase ==
  ASSUME Base, LifecycleAssumption, exec.pc # "idle", exec' \in ExecRecord, exec'.pc # "idle",
         exec'.run = exec.run, Still, Hands(exec)'
  PROVE  Base' /\ FactsKept
<1>1. Settles /\ RunsKept
  BY StillRows DEF Still
<1>2. steer' \in [Runs -> 0..MaxInputs] /\ \A r \in Runs : steer'[r] <= steer[r]
  BY SteerKept DEF Still
<1>3. QED
  BY <1>1, <1>2, InsideBase DEF Still

LEMMA FailsBase ==
  ASSUME Base, LifecycleAssumption, exec.pc # "idle", NEW e \in Errors, Fails(e), Still
  PROVE  Base' /\ FactsKept
<1>1. ExecIs(IF exec.orig # 0 THEN "vfail" ELSE "return", exec.at, exec.todo, 0, exec.orig,
             exec.left, e)
  BY ExecFails DEF Base
<1>2. Hands(exec)'
  BY <1>1 DEF Base, ExecOK, Hands, Mine, ExecIs, Verifying, Still
<1>3. QED
  BY <1>1, <1>2, StillBase DEF ExecIs

LEMMA LoopListsBase ==
  ASSUME Base, LifecycleAssumption, LoopLists
  PROVE  Base' /\ FactsKept
<1> DEFINE t == Pending(exec.run)
<1>1. t \in SUBSET Attempts /\ \A a \in t : Mine(exec, a)
  BY DEF Pending, Of, Mine
<1>2. exec.pc = "loop" /\ Listed(t) /\ Still
  BY DEF LoopLists, Running, Still
<1> HIDE DEF t
<1>3. ExecIs(IF t # {} THEN "next" ELSE IF run[exec.run].command THEN "command" ELSE "dispatch",
             exec.at, t, exec.prev, exec.orig, exec.left, exec.err)
  BY <1>1, <1>2, ExecListed DEF Base
<1>4. Hands(exec)'
  BY <1>1, <1>2, <1>3 DEF Base, ExecOK, Hands, Mine, ExecIs, Verifying, Still
<1>5. QED
  BY <1>2, <1>3, <1>4, StillBase DEF ExecIs

LEMMA NextCallBase ==
  ASSUME Base, LifecycleAssumption, NextCall
  PROVE  Base' /\ FactsKept
<1>1. exec.pc = "next" /\ Still
  BY DEF NextCall, Running, Still
<1>2. CASE Goto("loop")
  <2>1. ExecIs("loop", exec.at, exec.todo, exec.prev, exec.orig, exec.left, exec.err)
    BY <1>2, ExecGoto DEF Base, Places
  <2>2. Hands(exec)'
    BY <1>1, <2>1 DEF Base, ExecOK, Hands, Mine, ExecIs, Verifying, Still
  <2>3. QED
    BY <1>1, <2>1, <2>2, StillBase DEF ExecIs
<1>3. ASSUME NEW a \in exec.todo,
             exec' = [exec EXCEPT !.pc = "tool", !.at = a, !.todo = exec.todo \ {a}]
      PROVE  Base' /\ FactsKept
  <2>1. ExecIs("tool", a, exec.todo \ {a}, exec.prev, exec.orig, exec.left, exec.err)
    <3>1. a \in 0..MaxAttempts /\ exec.todo \ {a} \in SUBSET Attempts
      BY <1>3, ExecFields DEF Base, Attempts, LifecycleAssumption
    <3>2. QED
      BY <1>3, <3>1 DEF Base, TypeOK, ExecRecord, ExecIs
  <2>2. Hands(exec)'
    BY <1>1, <2>1 DEF Base, ExecOK, Hands, Mine, ExecIs, Verifying, Still
  <2>3. QED
    BY <1>1, <2>1, <2>2, StillBase DEF ExecIs
<1>4. QED
  BY <1>2, <1>3 DEF NextCall

\* A step to place p that changes no row, within the steps of a call.
LEMMA GotoBase ==
  ASSUME Base, LifecycleAssumption, exec.pc # "idle", NEW p \in Places \ {"idle"}, Goto(p), Still,
         Hands(exec)'
  PROVE  Base' /\ FactsKept
<1>1. ExecIs(p, exec.at, exec.todo, exec.prev, exec.orig, exec.left, exec.err)
  BY ExecGoto DEF Base
<1>2. QED
  BY <1>1, StillBase DEF ExecIs

\* A row of the executor's Run is written: status s, for reason why.
LEMMA RunBase ==
  ASSUME Base, LifecycleAssumption, exec.pc # "idle", exec' \in ExecRecord, exec'.pc # "idle",
         exec'.run = exec.run, NEW r, r = exec.run, NEW s, NEW why, RunIs(r, s, why), s # "none",
         why # "" => s = "limited", Hands(exec)', UNCHANGED <<att, steer, outside>>
  PROVE  Base' /\ FactsKept
<1>1. r \in Runs
  BY DEF Base, ExecOK
<1>2. RunsKept
  BY <1>1, RunsKeptBy
<1>3. Settles
  BY DEF Base, TypeOK, Settles, Follows
<1>4. steer' \in [Runs -> 0..MaxInputs] /\ \A q \in Runs : steer'[q] <= steer[q]
  BY SteerKept
<1>5. QED
  BY <1>2, <1>3, <1>4, InsideBase

-----------------------------------------------------------------------------
(* New rows *)

ToolRow(r, a) == [NoAttempt EXCEPT !.run = r, !.kind = "tool", !.status = "pending", !.root = a]
QueryRow(r, a) ==
  [NoAttempt EXCEPT !.run = r, !.kind = "tool", !.status = "pending", !.purpose = "verify", !.root = a]
ModelRow(r, p, o, n) ==
  [NoAttempt EXCEPT !.run = r, !.purpose = p, !.status = "dispatched", !.root = o, !.number = n]

LEMMA NewRows ==
  ASSUME LifecycleAssumption, NEW r \in Runs, NEW a \in Attempts, NEW p \in {"chat", "verify"},
         NEW n \in 0..ModelRetries
  PROVE  /\ ToolRow(r, a) \in AttemptRecord /\ QueryRow(r, a) \in AttemptRecord
         /\ ModelRow(r, p, a, n) \in AttemptRecord
         /\ ToolRow(r, a).status = "pending" /\ QueryRow(r, a).status = "pending"
         /\ ModelRow(r, p, a, n).status = "dispatched"
         /\ ToolRow(r, a).run = r /\ QueryRow(r, a).run = r /\ ModelRow(r, p, a, n).run = r
         /\ ToolRow(r, a).root = a /\ QueryRow(r, a).root = a /\ ModelRow(r, p, a, n).root = a
         /\ QueryRow(r, a).purpose = "verify" /\ ModelRow(r, p, a, n).purpose = p
         /\ ToolRow(r, a).resolved = "no" /\ QueryRow(r, a).resolved = "no"
         /\ ModelRow(r, p, a, n).resolved = "no"
<1>1. r \in 0..MaxRuns /\ a \in 0..MaxAttempts /\ 0 \in 0..ModelRetries /\ 0 \in 0..MaxRounds
  BY DEF Runs, Attempts, LifecycleAssumption
<1>2. ToolRow(r, a) \in AttemptRecord /\ ToolRow(r, a).status = "pending" /\ ToolRow(r, a).run = r
      /\ ToolRow(r, a).root = a /\ ToolRow(r, a).resolved = "no"
  BY <1>1 DEF ToolRow, NoAttempt, AttemptRecord
<1>3. QueryRow(r, a) \in AttemptRecord /\ QueryRow(r, a).status = "pending" /\ QueryRow(r, a).run = r
      /\ QueryRow(r, a).root = a /\ QueryRow(r, a).resolved = "no" /\ QueryRow(r, a).purpose = "verify"
  BY <1>1 DEF QueryRow, NoAttempt, AttemptRecord
<1>4. /\ ModelRow(r, p, a, n) \in AttemptRecord /\ ModelRow(r, p, a, n).status = "dispatched"
      /\ ModelRow(r, p, a, n).run = r /\ ModelRow(r, p, a, n).root = a
      /\ ModelRow(r, p, a, n).resolved = "no" /\ ModelRow(r, p, a, n).purpose = p
  BY <1>1 DEF ModelRow, NoAttempt, AttemptRecord
<1>5. QED
  BY <1>2, <1>3, <1>4

\* The tool calls of a response.
LEMMA ToolCalls ==
  ASSUME TypeOK, LifecycleAssumption, NEW r \in Runs, NEW x, NEW k
  PROVE  /\ ToolCallsOf(r, x, k) \in [Attempts -> AttemptRecord]
         /\ \A a \in Attempts : ToolCallsOf(r, x, k)[a] = IF a \in x..(x + k - 1) THEN ToolRow(r, a) ELSE att[a]
<1>1. \A a \in Attempts : ToolRow(r, a) \in AttemptRecord /\ att[a] \in AttemptRecord
  BY NewRows DEF TypeOK, LifecycleAssumption
<1>2. \A a \in Attempts : ToolCallsOf(r, x, k)[a] = IF a \in x..(x + k - 1) THEN ToolRow(r, a) ELSE att[a]
  BY DEF ToolCallsOf, ToolRow
<1>3. ToolCallsOf(r, x, k) \in [Attempts -> AttemptRecord]
  BY <1>1 DEF ToolCallsOf, ToolRow
<1>4. QED
  BY <1>2, <1>3

-----------------------------------------------------------------------------
(* The actions of the executor *)

USE DEF Running

LEMMA CancelBase ==
  ASSUME Base, LifecycleAssumption, Cancel
  PROVE  Base' /\ FactsKept
<1>1. ExecIs(exec.pc, exec.at, exec.todo, exec.prev, exec.orig, exec.left, exec.err)
  BY DEF Base, TypeOK, ExecRecord, Cancel, ExecIs
<1>2. Still /\ exec.pc # "idle"
  BY DEF Cancel, Still
<1>3. Hands(exec)'
  BY <1>1, <1>2 DEF Base, ExecOK, Hands, Mine, ExecIs, Still
<1>4. QED
  BY <1>1, <1>2, <1>3, StillBase DEF ExecIs

LEMMA FinishCommandBase ==
  ASSUME Base, LifecycleAssumption, FinishCommand
  PROVE  Base' /\ FactsKept
<1>1. exec.pc = "command" /\ UNCHANGED <<att, steer, outside>>
  BY DEF FinishCommand
<1>2. CASE (Fails("stop") \/ Fails("unknown")) /\ UNCHANGED run
  BY <1>1, <1>2, FailsBase DEF Still, Errors
<1>3. ASSUME NEW s \in {"completed", "failed"}, run' = SetStatus(exec.run, s), Goto("return")
      PROVE  Base' /\ FactsKept
  <2>0. PICK r \in Runs : r = exec.run
    BY <1>1 DEF Base, ExecOK
  <2>1. RunIs(r, s, "")
    BY <1>3, <2>0, RunSetStatus DEF Base, Statuses
  <2>2. ExecIs("return", exec.at, exec.todo, exec.prev, exec.orig, exec.left, exec.err)
    BY <1>3, ExecGoto DEF Base, Places
  <2>3. Hands(exec)'
    BY <1>1, <2>2 DEF Base, ExecOK, Hands, Mine, ExecIs, Verifying
  <2>4. QED
    BY <1>1, <1>3, <2>0, <2>1, <2>2, <2>3, RunBase DEF ExecIs
<1>4. QED
  BY <1>2, <1>3 DEF FinishCommand

\* The Attempt in hand is settled: every row follows what it was.
LEMMA SetSettles ==
  ASSUME Base, NEW a \in Attempts, NEW s \in CallStatuses \ {"free"},
         att' = [att EXCEPT ![a].status = s],
         att[a].status = "pending" \/ (att[a].status = "dispatched" /\ s # "pending")
  PROVE  Settles
<1>1. /\ att' \in [Attempts -> AttemptRecord] /\ \A b \in Attempts : b # a => att'[b] = att[b]
      /\ att'[a].status = s /\ att'[a].run = att[a].run /\ att'[a].root = att[a].root
      /\ att'[a].purpose = att[a].purpose /\ att'[a].resolved = att[a].resolved
      /\ att'[a].number = att[a].number
  BY CallSet DEF Base
<1>2. QED
  BY <1>1 DEF Settles, Follows, CallStatuses

LEMMA ToolAnsweredBase ==
  ASSUME Base, LifecycleAssumption, exec.pc \in {"tool", "toolcall"},
         att[exec.at].status \in {"pending", "dispatched"},
         att' = [att EXCEPT ![exec.at].status = "finished"], ToolDone, UNCHANGED <<run, steer, outside>>
  PROVE  Base' /\ FactsKept
<1>0. PICK a \in Attempts : a = exec.at
  BY DEF Base, ExecOK, Hands, Mine
<1>1. Settles
  BY <1>0, SetSettles DEF CallStatuses
<1>2. IF exec.orig # 0
      THEN ExecIs("vquery", exec.at, exec.todo, exec.prev, exec.orig, exec.left - 1, exec.err)
      ELSE ExecIs("next", exec.at, exec.todo, exec.prev, exec.orig, exec.left, exec.err)
  BY ExecToolDone DEF Base, ExecOK, Hands
<1>3. \A b \in Attempts : b # a => att'[b] = att[b]
  BY <1>0, CallSet DEF Base, CallStatuses
<1>4. exec.prev = 0 /\ exec.orig # a
  <2>1. a # 0
    BY DEF Attempts, LifecycleAssumption
  <2>2. QED
    BY <1>0, <2>1 DEF Base, ExecOK, Hands
<1>5. Hands(exec)'
  <2>1. \A b \in Attempts : Mine(exec, b) => Mine(exec, b)'
    BY <1>1, <1>2 DEF Settles, Follows, Mine, ExecIs
  <2>2. exec'.todo = exec.todo /\ exec'.prev = 0 /\ exec'.orig = exec.orig
    BY <1>2, <1>4 DEF ExecIs
  <2>3. \A b \in exec.todo : Mine(exec, b)'
    BY <2>1 DEF Base, ExecOK, Hands, Mine
  <2>4. exec.orig # 0 => /\ Mine(exec, exec.orig) /\ exec.orig \in Attempts /\ exec'.pc = "vquery"
                         /\ att'[exec.orig] = att[exec.orig] /\ att[exec.orig].status = "unknown"
                         /\ att[exec.orig].resolved = "no"
    BY <1>2, <1>3, <1>4 DEF Base, ExecOK, Hands, Mine, ExecIs
  <2>5. exec.orig = 0 => exec'.pc = "next"
    BY <1>2 DEF ExecIs
  <2>6. exec.orig # 0 => Mine(exec, exec.orig)'
    BY <1>2, <2>2, <2>4 DEF Mine, ExecIs
  <2>7. QED
    BY <2>2, <2>3, <2>4, <2>5, <2>6 DEF Hands, Verifying
<1>6. RunsKept /\ steer' \in [Runs -> 0..MaxInputs] /\ \A r \in Runs : steer'[r] <= steer[r]
  BY SteerKept DEF Base, TypeOK, Books, RunsKept
<1>7. QED
  BY <1>1, <1>2, <1>5, <1>6, InsideBase DEF ExecIs

\* Where the rows in hand stay, the executor's next place decides what it must have.
RowsStay ==
  \A b \in Attempts : att[b].status # "free" => att'[b].run = att[b].run /\ att'[b].status # "free"
OrigKept == exec.orig # 0 => att'[exec.orig].status = "unknown" /\ att'[exec.orig].resolved = "no"

LEMMA HandsOut ==
  ASSUME Base, RowsStay, exec'.run = exec.run, exec'.todo \subseteq exec.todo, exec'.prev = 0,
         exec'.orig = 0, exec'.pc \in {"loop", "next", "dispatch", "return", "settle", "command"}
  PROVE  Hands(exec)'
<1>1. \A b \in exec.todo : Mine(exec, b)'
  BY DEF Base, ExecOK, Hands, Mine, RowsStay
<1>2. QED
  BY <1>1 DEF Hands, Verifying

LEMMA HandsVerify ==
  ASSUME Base, RowsStay, exec'.run = exec.run, exec'.todo \subseteq exec.todo, exec'.prev = 0,
         exec'.orig = exec.orig, exec.orig # 0, OrigKept, exec'.pc \in Verifying \cup {"dispatch"}
  PROVE  Hands(exec)'
<1>1. \A b \in exec.todo : Mine(exec, b)'
  BY DEF Base, ExecOK, Hands, Mine, RowsStay
<1>2. Mine(exec, exec.orig)'
  BY DEF Base, ExecOK, Hands, Mine, RowsStay
<1>3. QED
  BY <1>1, <1>2 DEF Hands, Verifying, OrigKept

LEMMA HandsCall ==
  ASSUME Base, RowsStay, exec'.run = exec.run, exec'.todo \subseteq exec.todo, exec'.prev = 0,
         exec'.orig = exec.orig, OrigKept, exec'.pc \in {"toolcall", "modelcall"},
         exec'.at \in Attempts, att'[exec'.at].run = exec.run, att'[exec'.at].status = "dispatched",
         exec'.pc = "toolcall" /\ exec.orig # 0 =>
           exec'.left > 0 /\ att'[exec'.at].purpose = "verify"
  PROVE  Hands(exec)'
<1>1. \A b \in exec.todo : Mine(exec, b)'
  BY DEF Base, ExecOK, Hands, Mine, RowsStay
<1>2. exec.orig # 0 => Mine(exec, exec.orig)'
  BY DEF Base, ExecOK, Hands, Mine, RowsStay
<1>3. QED
  BY <1>1, <1>2 DEF Hands, Verifying, OrigKept, Mine

LEMMA SettlesStay ==
  ASSUME Settles
  PROVE  RowsStay
BY DEF Settles, Follows, RowsStay

LEMMA ToolAwaitsBase ==
  ASSUME Base, LifecycleAssumption, ToolAwaits
  PROVE  Base' /\ FactsKept
<1>0. PICK r \in Runs : r = exec.run
  BY DEF Base, ExecOK, ToolAwaits
<1>1. exec.pc = "tool" /\ exec.orig = 0 /\ UNCHANGED <<att, steer, outside>>
  BY DEF ToolAwaits
<1>2. RunIs(r, "waiting_confirmation", "")
  BY <1>0, RunSetStatus DEF Base, Statuses, ToolAwaits
<1>3. ExecIs("return", exec.at, exec.todo, exec.prev, exec.orig, exec.left, exec.err)
  BY ExecGoto DEF Base, Places, ToolAwaits
<1>4. exec.prev = 0
  BY <1>1 DEF Base, ExecOK, Hands
<1>5. Hands(exec)'
  BY <1>1, <1>3, <1>4, HandsOut DEF ExecIs, RowsStay
<1>6. QED
  BY <1>0, <1>1, <1>2, <1>3, <1>5, RunBase DEF ExecIs

LEMMA SettleProposalRows ==
  ASSUME Base, NEW r \in Runs, NEW a \in Attempts, NEW applied \in BOOLEAN,
         SettleProposal(r, a, applied), run[r].status # "none"
  PROVE  Settles /\ RunsKept
<1>1. att[a].status = "pending" /\ att' = [att EXCEPT ![a].status = "finished"]
  BY DEF SettleProposal, Pending
<1>2. Settles
  BY <1>1, SetSettles DEF CallStatuses
<1>3. CASE run' = run
  BY <1>2, <1>3, RunsSame
<1>4. ASSUME NEW s \in {"completed", "running"}, run' = SetStatus(r, s) PROVE RunsKept
  <2>1. RunIs(r, s, "")
    BY <1>4, RunSetStatus DEF Base, Statuses
  <2>2. QED
    BY <2>1, RunsKeptBy
<1>5. QED
  BY <1>2, <1>3, <1>4 DEF SettleProposal

LEMMA ToolDecidesBase ==
  ASSUME Base, LifecycleAssumption, NEW applied \in BOOLEAN, ToolDecides(applied)
  PROVE  Base' /\ FactsKept
<1>0. PICK r \in Runs, a \in Attempts : r = exec.run /\ a = exec.at /\ run[r].status # "none"
  BY DEF Base, ExecOK, Hands, Mine, ToolDecides
<1>1. exec.pc = "tool" /\ exec.orig = 0 /\ UNCHANGED <<steer, outside>>
  BY DEF ToolDecides
<1>2. Settles /\ RunsKept
  BY <1>0, SettleProposalRows DEF ToolDecides
<1>3. ExecIs(IF applied THEN "return" ELSE "next", exec.at, exec.todo, exec.prev, exec.orig,
             exec.left, exec.err)
  BY ExecGoto DEF Base, Places, ToolDecides
<1>4. exec.prev = 0
  BY <1>1 DEF Base, ExecOK, Hands
<1>5. Hands(exec)'
  BY <1>1, <1>2, <1>3, <1>4, SettlesStay, HandsOut DEF ExecIs
<1>6. steer' \in [Runs -> 0..MaxInputs] /\ \A q \in Runs : steer'[q] <= steer[q]
  BY <1>1, SteerKept
<1>7. QED
  BY <1>1, <1>2, <1>3, <1>5, <1>6, InsideBase DEF ExecIs

LEMMA ToolDispatchBase ==
  ASSUME Base, LifecycleAssumption, ToolDispatch
  PROVE  Base' /\ FactsKept
<1>0. PICK r \in Runs, a \in Attempts : r = exec.run /\ a = exec.at /\ run[r].status # "none"
  BY DEF Base, ExecOK, Hands, Mine, ToolDispatch
<1>1. exec.pc = "tool" /\ UNCHANGED <<steer, outside>> /\ exec.prev = 0
  BY DEF Base, ExecOK, Hands, ToolDispatch
<1>2. CASE SteeredAway /\ UNCHANGED <<run, att>>
  <2>1. CASE Fails("input")
    BY <1>1, <1>2, <2>1, FailsBase DEF Still, Errors
  <2>2. CASE exec.orig = 0 /\ Goto("next")
    <3>1. ExecIs("next", exec.at, exec.todo, exec.prev, exec.orig, exec.left, exec.err)
      BY <2>2, ExecGoto DEF Base, Places
    <3>2. Hands(exec)'
      BY <1>1, <1>2, <2>2, <3>1, HandsOut DEF ExecIs, RowsStay
    <3>3. QED
      BY <1>1, <1>2, <2>2, <3>2, GotoBase DEF Still, Places
  <2>3. QED
    BY <1>2, <2>1, <2>2 DEF SteeredAway
<1>3. CASE Fails(StepError) /\ UNCHANGED <<run, att>>
  BY <1>1, <1>3, FailsBase DEF Still, Errors, StepError
<1>4. CASE /\ MayStep(exec.run) /\ att[exec.at].status = "pending"
           /\ att' = [att EXCEPT ![exec.at].status = "dispatched"]
           /\ run' = Stepped(exec.run) /\ Goto("toolcall")
  <2>1. RunIs(r, run[r].status, run[r].reason)
    BY <1>0, <1>4, RunStepped DEF Base
  <2>2. RunsKept
    <3>1. run[r].reason # "" => run[r].status = "limited"
      BY DEF Base, Books
    <3>2. QED
      BY <1>0, <2>1, <3>1, RunsKeptBy
  <2>3. Settles
    BY <1>0, <1>4, SetSettles DEF CallStatuses
  <2>4. ExecIs("toolcall", exec.at, exec.todo, exec.prev, exec.orig, exec.left, exec.err)
    BY <1>4, ExecGoto DEF Base, Places
  <2>5. /\ att'[a].status = "dispatched" /\ att'[a].run = r /\ att'[a].purpose = att[a].purpose
        /\ \A b \in Attempts : b # a => att'[b] = att[b]
    <3>1. TypeOK /\ "dispatched" \in CallStatuses /\ att[a].run = r
      BY <1>0, <1>1 DEF Base, CallStatuses, ExecOK, Hands, Mine
    <3>2. att' = [att EXCEPT ![a].status = "dispatched"]
      BY <1>0, <1>4
    <3>3. QED
      BY <3>1, <3>2, CallSet
  <2>6. OrigKept
    BY <1>0, <1>4, <2>5 DEF Base, ExecOK, Hands, Mine, OrigKept
  <2>7. exec.orig # 0 => exec.left > 0 /\ att[a].purpose = "verify"
    BY <1>0, <1>1 DEF Base, ExecOK, Hands
  <2>8. Hands(exec)'
    BY <1>0, <1>1, <2>3, <2>4, <2>5, <2>6, <2>7, SettlesStay, HandsCall DEF ExecIs
  <2>9. QED
    BY <1>1, <2>2, <2>3, <2>4, <2>8, SteerKept, InsideBase DEF ExecIs
<1>5. QED
  BY <1>2, <1>3, <1>4 DEF ToolDispatch

\* markUnknown: the row of the Attempt and of its Run.
LEMMA MarkUnknownRows ==
  ASSUME Base, LifecycleAssumption, NEW a \in Attempts, att[a].status = "dispatched", MarkUnknown(a)
  PROVE  /\ Settles /\ RunsKept /\ RunIs(att[a].run, "unknown", "")
         /\ att'[a].status = "unknown" /\ att'[a].resolved = "no" /\ att'[a].run = att[a].run
         /\ att'[a].number = att[a].number /\ \A b \in Attempts : b # a => att'[b] = att[b]
<1>1. att[a].run \in Runs /\ att[a].resolved = "no"
  <2>1. RowOK(a)
    BY DEF Base, Books
  <2>2. QED
    BY <2>1, SMT DEF RowOK
<1>2. Settles
  BY SetSettles DEF MarkUnknown, CallStatuses
<1>3. /\ att'[a].status = "unknown" /\ att'[a].resolved = "no" /\ att'[a].run = att[a].run
      /\ att'[a].number = att[a].number /\ \A b \in Attempts : b # a => att'[b] = att[b]
  BY <1>1, CallSet DEF Base, MarkUnknown, CallStatuses
<1>4. RunIs(att[a].run, "unknown", "")
  <2>1. PICK r \in Runs : r = att[a].run
    BY <1>1
  <2>2. QED
    BY <2>1, RunSetStatus DEF Base, MarkUnknown, Statuses
<1>5. RunsKept
  <2>1. PICK r \in Runs : r = att[a].run
    BY <1>1
  <2>2. QED
    BY <1>4, <2>1, RunsKeptBy
<1>6. QED
  BY <1>2, <1>3, <1>4, <1>5

LEMMA ToolUncertainBase ==
  ASSUME Base, LifecycleAssumption, ToolUncertain
  PROVE  Base' /\ FactsKept
<1>0. PICK a \in Attempts : a = exec.at
  BY DEF Base, ExecOK, Hands, Mine, ToolUncertain
<1>1. /\ exec.pc = "toolcall" /\ UNCHANGED <<steer, outside>> /\ exec.prev = 0
      /\ att[a].status = "dispatched" /\ MarkUnknown(a)
  BY <1>0 DEF Base, ExecOK, Hands, ToolUncertain
<1>2. /\ Settles /\ RunsKept
      /\ att'[a].status = "unknown" /\ att'[a].resolved = "no" /\ att'[a].run = att[a].run
      /\ \A b \in Attempts : b # a => att'[b] = att[b]
  BY <1>1, MarkUnknownRows
<1>3. exec'.run = exec.run /\ exec'.pc # "idle" /\ exec' \in ExecRecord /\ Hands(exec)'
  <2>1. CASE exec.orig = 0 /\ exec' = [exec EXCEPT !.pc = "vreserve", !.orig = exec.at]
    <3>1. ExecIs("vreserve", exec.at, exec.todo, exec.prev, exec.at, exec.left, exec.err)
      BY <2>1 DEF Base, TypeOK, ExecRecord, ExecIs
    <3>2. \A b \in exec.todo : Mine(exec, b)'
      BY <1>2, <3>1, SettlesStay DEF Base, ExecOK, Hands, Mine, RowsStay, ExecIs
    <3>3. Mine(exec, a)' /\ a # 0
      BY <1>0, <1>1, <1>2, <3>1 DEF Base, ExecOK, Hands, Mine, ExecIs, Attempts, LifecycleAssumption
    <3>4. Hands(exec)'
      BY <1>0, <1>1, <1>2, <3>1, <3>2, <3>3 DEF Hands, ExecIs, Verifying
    <3>5. QED
      BY <3>1, <3>4 DEF ExecIs
  <2>2. CASE Fails("unknown")
    <3>1. ExecIs(IF exec.orig # 0 THEN "vfail" ELSE "return", exec.at, exec.todo, 0, exec.orig,
                 exec.left, "unknown")
      BY <2>2, ExecFails DEF Base, Errors
    <3>2. OrigKept
      BY <1>0, <1>1, <1>2 DEF Base, ExecOK, Hands, Mine, OrigKept
    <3>3. Hands(exec)'
      BY <1>2, <3>1, <3>2, SettlesStay, HandsOut, HandsVerify DEF ExecIs, Verifying
    <3>4. QED
      BY <3>1, <3>3 DEF ExecIs
  <2>3. QED
    BY <2>1, <2>2 DEF ToolUncertain
<1>4. QED
  BY <1>1, <1>2, <1>3, SteerKept, InsideBase

LEMMA DispatchBase ==
  ASSUME Base, LifecycleAssumption, Dispatch
  PROVE  Base' /\ FactsKept
<1>0. PICK r \in Runs : r = exec.run /\ run[r].status # "none"
  BY DEF Base, ExecOK, Dispatch
<1>1. exec.pc = "dispatch" /\ UNCHANGED <<steer, outside>>
  BY DEF Dispatch
<1>2. CASE /\ Purpose = "chat" /\ exec' = [exec EXCEPT !.pc = "loop", !.prev = 0]
           /\ UNCHANGED <<run, att>>
  <2>1. ExecIs("loop", exec.at, exec.todo, 0, exec.orig, exec.left, exec.err)
    <3>1. 0 \in 0..MaxAttempts
      BY DEF LifecycleAssumption
    <3>2. QED
      BY <1>2, <3>1 DEF Base, TypeOK, ExecRecord, ExecIs
  <2>2. Hands(exec)'
    BY <1>2, <2>1, HandsOut DEF ExecIs, RowsStay, Purpose
  <2>3. QED
    BY <1>1, <1>2, <2>1, <2>2, StillBase DEF ExecIs, Still
<1>3. CASE Fails(StepError) /\ UNCHANGED <<run, att>>
  BY <1>1, <1>3, FailsBase DEF Still, Errors, StepError
<1>4. CASE /\ ~(Purpose = "chat" /\ steer[exec.run] > 0)
           /\ MayStep(exec.run) /\ Fresh \in Attempts
  <2>a. PICK x \in Attempts, p \in {exec.prev}, u \in {Purpose} : x = Fresh /\ p = exec.prev /\ u = Purpose
    BY <1>4
  <2>b. PICK o, n : /\ o = (IF p = 0 THEN x ELSE att[p].root)
                    /\ n = (IF p = 0 THEN 0 ELSE att[p].number + 1)
    OBVIOUS
  <2>c. /\ att' = [b \in Attempts |->
                     IF b = x THEN ModelRow(r, u, o, n)
                     ELSE IF b = p THEN [att[b] EXCEPT !.resolved = "replaced"]
                     ELSE att[b]]
        /\ exec' = [exec EXCEPT !.pc = "modelcall", !.at = x, !.prev = 0]
        /\ run' = Stepped(exec.run)
    BY <1>0, <1>4, <2>a, <2>b DEF Dispatch, ModelRow
  <2>1. RunIs(r, run[r].status, run[r].reason)
    BY <1>0, <1>4, <2>a, <2>b, <2>c, RunStepped DEF Base
  <2>2. RunsKept
    <3>1. run[r].reason # "" => run[r].status = "limited"
      BY DEF Base, Books
    <3>2. QED
      BY <1>0, <2>1, <3>1, RunsKeptBy
  <2>3. /\ Fresh \in Nat \ {0} /\ \A a \in Attempts : a < Fresh <=> att[a].status # "free"
    BY FreshRow DEF Base
  <2>4. att[x].status = "free" /\ x \in Nat \ {0}
    BY <1>4, <2>a, <2>b, <2>c, <2>3
  <2>5. p # 0 => /\ p \in Attempts /\ p # x /\ att[p].status \in {"finished", "unknown"}
                 /\ att[p].resolved = "no" /\ att[p].number < ModelRetries /\ p # exec.orig
                 /\ att[p].root \in Attempts /\ att[att[p].root].status # "free"
    <3>1. p # 0 => /\ p \in Attempts /\ att[p].status \in {"finished", "unknown"}
                   /\ att[p].resolved = "no" /\ att[p].number < ModelRetries /\ p # exec.orig
      BY <1>4, <2>a, <2>b, <2>c DEF Base, ExecOK, Hands, Mine
    <3>2. p # 0 => RowOK(p)
      BY <3>1 DEF Base, Books
    <3>3. QED
      BY <2>4, <3>1, <3>2 DEF RowOK
  <2>6. o \in Attempts /\ n \in 0..ModelRetries /\ u \in {"chat", "verify"}
    <3>1. p # 0 => att[p].number \in 0..ModelRetries
      BY <2>5 DEF Base, TypeOK, AttemptRecord
    <3>2. QED
      BY <1>4, <2>a, <2>b, <2>c, <2>5, <3>1 DEF Purpose, LifecycleAssumption
  <2>7. /\ ModelRow(r, u, o, n) \in AttemptRecord /\ ModelRow(r, u, o, n).status = "dispatched"
        /\ ModelRow(r, u, o, n).run = r /\ ModelRow(r, u, o, n).root = o
        /\ ModelRow(r, u, o, n).resolved = "no"
    BY <2>6, NewRows
  <2>8. \A b \in Attempts : /\ [att[b] EXCEPT !.resolved = "replaced"] \in AttemptRecord
                            /\ att[b].resolved = "no" /\ att[b].status \in {"finished", "unknown"}
                                 => Follows(att[b], [att[b] EXCEPT !.resolved = "replaced"])
    <3>1. \A b \in Attempts : att[b] \in AttemptRecord
      BY DEF Base, TypeOK
    <3>2. QED
      BY <3>1 DEF AttemptRecord, Follows
  <2>9. att' \in [Attempts -> AttemptRecord]
    BY <1>4, <2>a, <2>b, <2>c, <2>7, <2>8 DEF Base, TypeOK
  <2>10. /\ att'[x] = ModelRow(r, u, o, n)
         /\ \A b \in Attempts : b # x => Follows(att[b], att'[b])
         /\ \A b \in Attempts : b # x /\ b # p => att'[b] = att[b]
    <3>1. \A b \in Attempts : Follows(att[b], att[b])
      BY DEF Follows
    <3>2. \A b \in Attempts : b # x => att'[b] = IF b = p THEN [att[b] EXCEPT !.resolved = "replaced"]
                                             ELSE att[b]
      BY <2>c
    <3>3. p \in Attempts => p # 0
      BY DEF Attempts, LifecycleAssumption
    <3>4. \A b \in Attempts : b = p => Follows(att[b], [att[b] EXCEPT !.resolved = "replaced"])
      BY <2>5, <2>8, <3>3
    <3>5. QED
      BY <2>c, <3>1, <3>2, <3>4
  <2>11. Grown(x, 1)
    <3>1. \A a \in Attempts : a \in x..(x + 1 - 1) <=> a = x
      BY <2>4 DEF Attempts, LifecycleAssumption
    <3>2. att'[o].status # "free"
      <4>1. CASE o = x
        BY <2>7, <2>10, <4>1
      <4>2. CASE o # x
        <5>1. o \in Attempts /\ att[o].status # "free"
          BY <2>b, <2>5, <4>2
        <5>2. Follows(att[o], att'[o])
          BY <2>10, <4>2, <5>1
        <5>3. QED
          BY <5>1, <5>2 DEF Follows
      <4>3. QED
        BY <4>1, <4>2
    <3>3. run'[r].status # "none"
      BY <1>0, <2>2 DEF RunsKept
    <3>4. QED
      BY <2>6, <2>7, <2>9, <2>10, <3>1, <3>2, <3>3 DEF Grown
  <2>12. ExecIs("modelcall", x, exec.todo, 0, exec.orig, exec.left, exec.err)
    <3>1. 0 \in 0..MaxAttempts /\ x \in 0..MaxAttempts
      BY DEF LifecycleAssumption, Attempts
    <3>2. QED
      BY <1>4, <2>a, <2>b, <2>c, <3>1 DEF Base, TypeOK, ExecRecord, ExecIs
  <2>13. RowsStay
    BY <2>4, <2>10 DEF RowsStay, Follows
  <2>14. OrigKept
    BY <1>4, <2>a, <2>b, <2>c, <2>4, <2>5, <2>10 DEF Base, ExecOK, Hands, Mine, OrigKept
  <2>15. Hands(exec)'
    BY <1>0, <2>7, <2>10, <2>12, <2>13, <2>14, HandsCall DEF ExecIs
  <2>16. 1 \in Nat /\ Fresh + 1 <= MaxAttempts + 1
    BY <1>4, <2>a, <2>b, <2>c DEF Attempts, LifecycleAssumption
  <2>17. QED
    BY <1>1, <1>4, <2>a, <2>b, <2>c, <2>2, <2>11, <2>12, <2>15, <2>16, InsideGrows DEF ExecIs
<1>5. QED
  BY <1>2, <1>3, <1>4 DEF Dispatch

\* saveGuardedModel: a answers, and j calls of Run r are inserted from x on.
AnswerRows(r, a, x, j) ==
  /\ att' \in [Attempts -> AttemptRecord]
  /\ att'[a].status = "finished" /\ att'[a].run = r
  /\ \A b \in Attempts : b \in x..(x + j - 1) => att'[b] = ToolRow(r, b)
  /\ \A b \in Attempts : b \notin x..(x + j - 1) /\ b # a => att'[b] = att[b]
  /\ \A b \in Attempts : b \notin x..(x + j - 1) => Follows(att[b], att'[b])
  /\ a \notin x..(x + j - 1) /\ x = Fresh /\ j \in Nat /\ x + j <= MaxAttempts + 1

LEMMA ModelAnswersRows ==
  ASSUME Base, LifecycleAssumption, NEW k \in 0..MaxCalls, ModelAnswers(k),
         NEW r \in Runs, r = exec.run, NEW a \in Attempts, a = exec.at, NEW x, x = Fresh,
         NEW j, j = (IF Purpose = "chat" THEN k ELSE 0)
  PROVE  AnswerRows(r, a, x, j)
<1>1. /\ Fresh \in Nat \ {0} /\ Fresh <= MaxAttempts + 1
      /\ \A b \in Attempts : b < Fresh <=> att[b].status # "free"
  BY FreshRow DEF Base
<1>2. exec.pc = "modelcall" /\ att[a].run = r /\ att[a].status = "dispatched"
  BY DEF ModelAnswers, Base, ExecOK, Hands, Mine
<1>3. a \in Nat /\ a < x
  BY <1>1, <1>2 DEF Attempts, LifecycleAssumption
<1>4. j \in Nat /\ x + j <= MaxAttempts + 1 /\ a \notin x..(x + j - 1)
  BY <1>1, <1>3 DEF ModelAnswers, LifecycleAssumption
<1> DEFINE saved == IF Purpose = "chat" THEN ToolCallsOf(r, x, k) ELSE att
<1>5. saved \in [Attempts -> AttemptRecord] /\ att' = [saved EXCEPT ![a].status = "finished"]
  BY ToolCalls DEF ModelAnswers, Base, TypeOK
<1>6. \A b \in Attempts : saved[b] = IF b \in x..(x + j - 1) THEN ToolRow(r, b) ELSE att[b]
  <2>1. CASE Purpose = "chat"
    BY <2>1, ToolCalls DEF Base
  <2>2. CASE Purpose # "chat"
    BY <1>1, <2>2 DEF Attempts, LifecycleAssumption
  <2>3. QED
    BY <2>1, <2>2
<1> HIDE DEF saved
<1> DEFINE v == [saved[a] EXCEPT !.status = "finished"]
<1>7. saved[a] = att[a] /\ att[a] \in AttemptRecord
  BY <1>4, <1>6 DEF Base, TypeOK
<1>8. /\ v \in AttemptRecord /\ v.status = "finished" /\ v.run = att[a].run
      /\ Follows(att[a], v)
  BY <1>2, <1>7 DEF AttemptRecord, Follows
<1>9. att' = [saved EXCEPT ![a] = v]
  BY <1>5
<1> HIDE DEF v
<1>10. att' \in [Attempts -> AttemptRecord] /\ att'[a] = v /\ \A b \in Attempts : b # a => att'[b] = saved[b]
  BY <1>5, <1>8, <1>9
<1>11. \A b \in Attempts : Follows(att[b], att[b])
  BY DEF Follows
<1>12. QED
  BY <1>2, <1>4, <1>6, <1>8, <1>10, <1>11 DEF AnswerRows

LEMMA AnswerGrows ==
  ASSUME Base, LifecycleAssumption, NEW r \in Runs, NEW a \in Attempts, NEW x, NEW j,
         AnswerRows(r, a, x, j), RunsKept, run[r].status # "none"
  PROVE  Grown(x, j) /\ RowsStay
<1>1. \A b \in Attempts : /\ ToolRow(r, b).status = "pending" /\ ToolRow(r, b).run = r
                          /\ ToolRow(r, b).root = b /\ ToolRow(r, b).resolved = "no"
  BY NewRows DEF LifecycleAssumption
<1>2. run'[r].status # "none"
  BY DEF RunsKept
<1>3. Grown(x, j)
  BY <1>1, <1>2 DEF Grown, AnswerRows
<1>4. RowsStay
  <2>1. \A b \in Attempts : att[b].status # "free" => b \notin x..(x + j - 1)
    <3>1. /\ Fresh \in Nat \ {0} /\ \A b \in Attempts : b < Fresh <=> att[b].status # "free"
      BY FreshRow DEF Base
    <3>2. QED
      BY <3>1 DEF AnswerRows, Attempts, LifecycleAssumption
  <2>2. QED
    BY <2>1 DEF AnswerRows, Follows, RowsStay
<1>5. QED
  BY <1>3, <1>4

LEMMA ModelAnswersBase ==
  ASSUME Base, LifecycleAssumption, NEW k \in 0..MaxCalls, ModelAnswers(k)
  PROVE  Base' /\ FactsKept
<1>0. PICK r \in Runs, a \in Attempts, x \in {Fresh}, j \in {0, k} :
        /\ r = exec.run /\ a = exec.at /\ x = Fresh /\ j = (IF Purpose = "chat" THEN k ELSE 0)
        /\ run[r].status # "none" /\ att[a].status = "dispatched"
  BY DEF Base, ExecOK, Hands, Mine, ModelAnswers
<1>1. exec.pc = "modelcall" /\ UNCHANGED <<steer, outside>> /\ exec.prev = 0
  BY DEF ModelAnswers, Base, ExecOK, Hands
<1>2. AnswerRows(r, a, x, j)
  BY <1>0, ModelAnswersRows
<1>3. RunsKept
  <2>1. CASE run' = run
    BY <2>1, RunsSame
  <2>2. CASE run' = SetStatus(exec.run, "completed")
    <3>1. RunIs(r, "completed", "")
      BY <1>0, <2>2, RunSetStatus DEF Base, Statuses
    <3>2. QED
      BY <3>1, RunsKeptBy
  <2>3. QED
    BY <2>1, <2>2 DEF ModelAnswers
<1>4. Grown(x, j) /\ RowsStay
  BY <1>0, <1>2, <1>3, AnswerGrows
<1>5. exec'.run = exec.run /\ exec'.pc # "idle" /\ exec' \in ExecRecord /\ Hands(exec)'
  <2>1. CASE Purpose = "chat"
    <3>1. PICK p \in {"return", "loop"} : Goto(p)
      BY <2>1 DEF ModelAnswers
    <3>2. ExecIs(p, exec.at, exec.todo, exec.prev, exec.orig, exec.left, exec.err)
      BY <3>1, ExecGoto DEF Base, Places
    <3>3. QED
      BY <1>1, <1>4, <2>1, <3>2, HandsOut DEF ExecIs, Purpose
  <2>2. CASE Purpose # "chat"
    <3>1. PICK p \in {"vresolve", "vquery"} : exec' = [exec EXCEPT !.pc = p, !.left = k]
      BY <2>2 DEF ModelAnswers
    <3>2. ExecIs(p, exec.at, exec.todo, exec.prev, exec.orig, k, exec.err)
      BY <3>1 DEF Base, TypeOK, ExecRecord, ExecIs
    <3>3. OrigKept
      <4>1. exec.orig # 0 => /\ exec.orig \in Attempts /\ exec.orig # a
                             /\ att[exec.orig].status = "unknown" /\ att[exec.orig].resolved = "no"
        BY <1>0 DEF Base, ExecOK, Hands, Mine
      <4>2. j = 0
        BY <1>0, <2>2
      <4>3. \A b \in Attempts : b \notin x..(x + j - 1)
        <5>1. x \in Nat /\ \A b \in Attempts : b \in Nat
          BY <1>0, FreshRow DEF Base, Attempts, LifecycleAssumption
        <5>2. QED
          BY <4>2, <5>1
      <4>4. QED
        BY <1>2, <4>1, <4>3 DEF AnswerRows, OrigKept
    <3>4. QED
      BY <1>1, <1>4, <2>2, <3>2, <3>3, HandsVerify DEF ExecIs, Purpose, Verifying
  <2>3. QED
    BY <2>1, <2>2
<1>6. j \in Nat /\ Fresh + j <= MaxAttempts + 1
  BY <1>0, <1>2 DEF AnswerRows
<1>7. QED
  BY <1>0, <1>1, <1>3, <1>4, <1>5, <1>6, InsideGrows

\* A model call ends without an answer that can be used: it is retried, or e is returned.
LEMMA ModelEndsBase ==
  ASSUME Base, LifecycleAssumption, exec.pc = "modelcall", NEW a \in Attempts, a = exec.at,
         NEW s \in {"finished", "unknown"}, att' = [att EXCEPT ![a].status = s], RunsKept,
         NEW e \in Errors, RetryOr(e), UNCHANGED <<steer, outside>>
  PROVE  Base' /\ FactsKept
<1>1. att[a].status = "dispatched" /\ att[a].run = exec.run /\ exec.prev = 0 /\ a # exec.orig /\ a # 0
  <2>1. a # 0
    BY DEF Attempts, LifecycleAssumption
  <2>2. QED
    BY <2>1 DEF Base, ExecOK, Hands, Mine
<1>2. Settles
  BY <1>1, SetSettles DEF CallStatuses
<1>3. /\ \A b \in Attempts : b # a => att'[b] = att[b]
      /\ att'[a].status = s /\ att'[a].run = att[a].run /\ att'[a].resolved = att[a].resolved
      /\ att'[a].number = att[a].number
  BY CallSet DEF Base, CallStatuses
<1>4. att[a].resolved = "no"
  <2>1. RowOK(a)
    BY DEF Base, Books
  <2>2. QED
    BY <1>1, <2>1 DEF RowOK
<1>5. OrigKept
  BY <1>1, <1>3 DEF Base, ExecOK, Hands, Mine, OrigKept
<1>6. exec'.run = exec.run /\ exec'.pc # "idle" /\ exec' \in ExecRecord /\ Hands(exec)'
  <2>1. CASE Fails(e)
    <3>1. ExecIs(IF exec.orig # 0 THEN "vfail" ELSE "return", exec.at, exec.todo, 0, exec.orig,
                 exec.left, e)
      BY <2>1, ExecFails DEF Base
    <3>2. Hands(exec)'
      BY <1>2, <1>5, <3>1, SettlesStay, HandsOut, HandsVerify DEF ExecIs, Verifying
    <3>3. QED
      BY <3>1, <3>2 DEF ExecIs
  <2>2. CASE MayRetry /\ exec' = [exec EXCEPT !.pc = "reserve", !.prev = exec.at]
    <3>1. ExecIs("reserve", exec.at, exec.todo, a, exec.orig, exec.left, exec.err)
      BY <2>2 DEF Base, TypeOK, ExecRecord, ExecIs
    <3>2. \A b \in exec.todo : Mine(exec, b)'
      BY <1>2, <3>1, SettlesStay DEF Base, ExecOK, Hands, Mine, RowsStay, ExecIs
    <3>3. exec.orig # 0 => Mine(exec, exec.orig)'
      BY <1>2, <3>1, SettlesStay DEF Base, ExecOK, Hands, Mine, RowsStay, ExecIs
    <3>4. Mine(exec, a)'
      BY <1>1, <1>3, <3>1 DEF Mine, ExecIs
    <3>5. att'[a].number < ModelRetries
      BY <1>3, <2>2 DEF MayRetry
    <3>6. Hands(exec)'
      BY <1>1, <1>3, <1>4, <1>5, <3>1, <3>2, <3>3, <3>4, <3>5 DEF Hands, ExecIs, Verifying, OrigKept
    <3>7. QED
      BY <3>1, <3>6 DEF ExecIs
  <2>3. QED
    BY <2>1, <2>2 DEF RetryOr
<1>7. QED
  BY <1>2, <1>6, SteerKept, InsideBase

LEMMA ModelFailsBase ==
  ASSUME Base, LifecycleAssumption, ModelFails
  PROVE  Base' /\ FactsKept
<1>0. PICK r \in Runs, a \in Attempts : r = exec.run /\ a = exec.at
  BY DEF Base, ExecOK, Hands, Mine, ModelFails
<1>1. RunIs(r, "failed", "")
  BY <1>0, RunSetStatus DEF Base, Statuses, ModelFails
<1>2. RunsKept
  BY <1>1, RunsKeptBy
<1>3. QED
  BY <1>0, <1>2, ModelEndsBase DEF ModelFails, Errors

LEMMA ModelUncertainBase ==
  ASSUME Base, LifecycleAssumption, ModelUncertain
  PROVE  Base' /\ FactsKept
<1>0. PICK a \in Attempts : a = exec.at /\ att[a].status = "dispatched"
  BY DEF Base, ExecOK, Hands, Mine, ModelUncertain
<1>1. RunsKept
  BY <1>0, MarkUnknownRows DEF ModelUncertain
<1>2. QED
  BY <1>0, <1>1, ModelEndsBase DEF ModelUncertain, MarkUnknown, Errors

LEMMA ReservedRow ==
  ASSUME TypeOK, NEW o \in Attempts, NEW n \in 0..ModelRetries, att' = [att EXCEPT ![o].reserved = n],
         \A a \in Attempts : att[a].status = "free" => a # o
  PROVE  /\ Settles
         /\ \A a \in Attempts : /\ att'[a].status = att[a].status /\ att'[a].resolved = att[a].resolved
                                /\ att'[a].run = att[a].run /\ att'[a].number = att[a].number
<1>1. att[o] \in AttemptRecord
  BY DEF TypeOK
<1> DEFINE v == [att[o] EXCEPT !.reserved = n]
<1>2. /\ v \in AttemptRecord /\ v.status = att[o].status /\ v.run = att[o].run /\ v.root = att[o].root
      /\ v.purpose = att[o].purpose /\ v.resolved = att[o].resolved /\ v.number = att[o].number
  BY <1>1 DEF AttemptRecord
<1>3. att' = [att EXCEPT ![o] = v]
  OBVIOUS
<1> HIDE DEF v
<1>4. att' \in [Attempts -> AttemptRecord] /\ att'[o] = v /\ \A b \in Attempts : b # o => att'[b] = att[b]
  BY <1>2, <1>3 DEF TypeOK
<1>5. QED
  BY <1>2, <1>4 DEF Settles, Follows

\* What the calls of a Run look like, seen from the table, does not change.
SameCalls == \A a \in Attempts : /\ att'[a].status = att[a].status /\ att'[a].run = att[a].run
                                 /\ att'[a].resolved = att[a].resolved

LEMMA HandsSame ==
  ASSUME Base, exec'.run = exec.run, exec'.todo = exec.todo, exec'.prev = exec.prev,
         exec'.orig = exec.orig, SameCalls, \A a \in Attempts : att'[a].number = att[a].number,
         exec'.pc \in {"reserve", "wait", "dispatch"}, exec'.pc # "dispatch" => exec.prev # 0,
         exec.pc \notin {"tool", "toolcall", "modelcall"}
  PROVE  Hands(exec)'
<1>1. \A b \in exec.todo : Mine(exec, b)'
  BY DEF Base, ExecOK, Hands, Mine, SameCalls
<1>2. /\ exec.orig # 0 => Mine(exec, exec.orig)' /\ exec.orig \in Attempts
      /\ exec.prev # 0 => Mine(exec, exec.prev)' /\ exec.prev \in Attempts
  BY DEF Base, ExecOK, Hands, Mine, SameCalls
<1>3. QED
  BY <1>1, <1>2 DEF Base, ExecOK, Hands, Verifying, SameCalls

LEMMA ReserveBase ==
  ASSUME Base, LifecycleAssumption, Reserve
  PROVE  Base' /\ FactsKept
<1>0. PICK r \in Runs, p \in Attempts : r = exec.run /\ p = exec.prev /\ p # 0 /\ att[p].status # "free"
  BY DEF Base, ExecOK, Hands, Mine, Reserve
<1>1. exec.pc = "reserve" /\ UNCHANGED <<steer, outside>>
  BY DEF Reserve
<1>2. CASE Fails("stop") /\ UNCHANGED <<run, att>>
  BY <1>1, <1>2, FailsBase DEF Still, Errors
<1>3. CASE /\ att[p].number + 1 <= ModelRetries
           /\ att' = [att EXCEPT ![att[p].root].reserved = att[p].number + 1]
           /\ run' = SetStatus(exec.run, "running") /\ Goto("wait")
  <2>1. PICK o \in Attempts, n \in {att[p].number + 1} :
          /\ o = att[p].root /\ n = att[p].number + 1 /\ att[o].status # "free"
    <3>1. RowOK(p)
      BY DEF Base, Books
    <3>2. QED
      BY <1>0, <3>1 DEF RowOK
  <2>2. n \in 0..ModelRetries
    <3>1. att[p].number \in 0..ModelRetries
      BY DEF Base, TypeOK, AttemptRecord
    <3>2. QED
      BY <1>3, <2>1, <3>1 DEF LifecycleAssumption
  <2>3. /\ Settles /\ SameCalls
        /\ \A a \in Attempts : att'[a].number = att[a].number
    BY <1>3, <2>1, <2>2, ReservedRow DEF Base, SameCalls
  <2>4. RunIs(r, "running", "")
    BY <1>0, <1>3, RunSetStatus DEF Base, Statuses
  <2>5. RunsKept
    BY <2>4, RunsKeptBy
  <2>6. ExecIs("wait", exec.at, exec.todo, exec.prev, exec.orig, exec.left, exec.err)
    BY <1>3, ExecGoto DEF Base, Places
  <2>7. Hands(exec)'
    BY <1>0, <1>1, <2>3, <2>6, HandsSame DEF ExecIs
  <2>8. QED
    BY <1>1, <2>3, <2>5, <2>6, <2>7, SteerKept, InsideBase DEF ExecIs
<1>4. QED
  BY <1>0, <1>2, <1>3 DEF Reserve

LEMMA WaitUncompactedBase ==
  ASSUME Base, LifecycleAssumption, WaitUncompacted
  PROVE  Base' /\ FactsKept
<1>0. PICK r \in Runs : r = exec.run
  BY DEF Base, ExecOK, WaitUncompacted
<1>1. exec.pc = "wait" /\ UNCHANGED <<att, steer, outside>> /\ Fails("stop") /\ exec.orig = 0
  BY DEF WaitUncompacted, Purpose
<1>2. CASE run' = run
  BY <1>1, <1>2, FailsBase DEF Still, Errors
<1>3. CASE run' = SetStatus(exec.run, "failed")
  <2>1. RunIs(r, "failed", "")
    BY <1>0, <1>3, RunSetStatus DEF Base, Statuses
  <2>2. ExecIs("return", exec.at, exec.todo, 0, exec.orig, exec.left, "stop")
    BY <1>1, ExecFails DEF Base, Errors
  <2>3. Hands(exec)'
    BY <1>1, <2>2, HandsOut DEF ExecIs, RowsStay
  <2>4. QED
    BY <1>0, <1>1, <2>1, <2>2, <2>3, RunBase DEF ExecIs
<1>4. QED
  BY <1>2, <1>3 DEF WaitUncompacted

\* Undispatched calls of Run r are answered as not run.
ClosedBy(r) ==
  att' = [a \in Attempts |-> IF a \in Pending(r) THEN [att[a] EXCEPT !.status = "finished"] ELSE att[a]]

LEMMA CloseRows ==
  ASSUME Base, NEW r, ClosedBy(r)
  PROVE  /\ Settles
         /\ \A a \in Attempts : /\ att[a].status # "pending" => att'[a] = att[a]
                                /\ att'[a].run = att[a].run /\ att'[a].resolved = att[a].resolved
         /\ Pending(r)' = {} /\ \A q : q # r => Pending(q)' = Pending(q)
         /\ \A q : UnresolvedOf(q)' = UnresolvedOf(q)
<1>1. \A a \in Attempts : att[a] \in AttemptRecord
  BY DEF Base, TypeOK
<1>2. \A a \in Attempts :
        /\ [att[a] EXCEPT !.status = "finished"] \in AttemptRecord
        /\ [att[a] EXCEPT !.status = "finished"].status = "finished"
        /\ [att[a] EXCEPT !.status = "finished"].run = att[a].run
        /\ [att[a] EXCEPT !.status = "finished"].resolved = att[a].resolved
        /\ att[a].status = "pending" => Follows(att[a], [att[a] EXCEPT !.status = "finished"])
  BY <1>1 DEF AttemptRecord, Follows
<1>3. \A a \in Attempts : att'[a] = IF a \in Pending(r) THEN [att[a] EXCEPT !.status = "finished"]
                                    ELSE att[a]
  BY DEF ClosedBy
<1>4. \A a \in Attempts : a \in Pending(r) <=> att[a].run = r /\ att[a].status = "pending"
  BY DEF Pending, Of
<1>5. att' \in [Attempts -> AttemptRecord]
  BY <1>1, <1>2 DEF ClosedBy
<1>6. \A a \in Attempts : /\ Follows(att[a], att'[a])
                          /\ att[a].status # "pending" => att'[a] = att[a]
                          /\ att'[a].run = att[a].run /\ att'[a].resolved = att[a].resolved
                          /\ att'[a].status = IF att[a].run = r /\ att[a].status = "pending"
                                              THEN "finished" ELSE att[a].status
  <2>1. \A a \in Attempts : Follows(att[a], att[a])
    BY DEF Follows
  <2>2. ASSUME NEW a \in Attempts, a \in Pending(r)
        PROVE  /\ Follows(att[a], att'[a]) /\ att[a].status = "pending" /\ att[a].run = r
               /\ att'[a].run = att[a].run /\ att'[a].resolved = att[a].resolved
               /\ att'[a].status = "finished"
    <3>1. att'[a] = [att[a] EXCEPT !.status = "finished"]
      BY <1>3, <2>2
    <3>2. QED
      BY <1>2, <1>4, <2>2, <3>1
  <2>3. ASSUME NEW a \in Attempts, a \notin Pending(r)
        PROVE  att'[a] = att[a] /\ ~(att[a].run = r /\ att[a].status = "pending")
    BY <1>3, <1>4, <2>3
  <2>4. QED
    BY <2>1, <2>2, <2>3
<1>7. Pending(r)' = {} /\ \A q : q # r => Pending(q)' = Pending(q)
  BY <1>6 DEF Pending, Of
<1>8. \A q : UnresolvedOf(q)' = UnresolvedOf(q)
  BY <1>6 DEF UnresolvedOf, Unresolved, Of
<1>9. QED
  BY <1>5, <1>6, <1>7, <1>8 DEF Settles

LEMMA AdoptRows ==
  ASSUME Base, LifecycleAssumption, NEW r \in Runs, Adopt(r)
  PROVE  /\ ClosedBy(r) /\ Settles /\ RunsKept /\ RunIs(r, "running", "")
         /\ steer' \in [Runs -> 0..MaxInputs] /\ \A q \in Runs : steer'[q] <= steer[q]
<1>1. ClosedBy(r)
  BY DEF Adopt, ClosedBy
<1>2. Settles
  BY <1>1, CloseRows
<1>3. RunIs(r, "running", "")
  BY RunSetStatus DEF Base, Adopt, Statuses
<1>4. RunsKept
  BY <1>3, RunsKeptBy
<1>5. steer' \in [Runs -> 0..MaxInputs] /\ \A q \in Runs : steer'[q] <= steer[q]
  BY DEF Base, TypeOK, Adopt, LifecycleAssumption
<1>6. QED
  BY <1>1, <1>2, <1>3, <1>4, <1>5

LEMMA LoopAdoptsBase ==
  ASSUME Base, LifecycleAssumption, LoopAdopts
  PROVE  Base' /\ FactsKept
<1>0. PICK r \in Runs : r = exec.run
  BY DEF Base, ExecOK, LoopAdopts
<1>1. exec.pc = "loop" /\ Adopt(r) /\ Listed({}) /\ UNCHANGED outside
  BY <1>0 DEF LoopAdopts
<1>2. /\ Settles /\ RunsKept
      /\ steer' \in [Runs -> 0..MaxInputs] /\ \A q \in Runs : steer'[q] <= steer[q]
  BY <1>1, AdoptRows
<1>3. ExecIs(IF run[exec.run].command THEN "command" ELSE "dispatch", exec.at, {}, exec.prev,
             exec.orig, exec.left, exec.err)
  BY <1>1, ExecListed DEF Base
<1>4. exec.prev = 0 /\ exec.orig = 0
  BY <1>1 DEF Base, ExecOK, Hands, Verifying
<1>5. Hands(exec)'
  BY <1>2, <1>3, <1>4, SettlesStay, HandsOut DEF ExecIs
<1>6. QED
  BY <1>1, <1>2, <1>3, <1>5, InsideBase DEF ExecIs

LEMMA WaitOverBase ==
  ASSUME Base, LifecycleAssumption, WaitOver
  PROVE  Base' /\ FactsKept
<1>0. PICK r \in Runs : r = exec.run
  BY DEF Base, ExecOK, WaitOver
<1>1. exec.pc = "wait" /\ UNCHANGED outside /\ exec.prev # 0
  BY DEF WaitOver, Base, ExecOK, Hands
<1>2. CASE Fails("unknown") /\ UNCHANGED <<run, att, steer>>
  BY <1>1, <1>2, FailsBase DEF Still, Errors
<1>3. CASE Goto("dispatch") /\ UNCHANGED <<run, att, steer>>
  <2>1. ExecIs("dispatch", exec.at, exec.todo, exec.prev, exec.orig, exec.left, exec.err)
    BY <1>3, ExecGoto DEF Base, Places
  <2>2. Hands(exec)'
    BY <1>1, <1>3, <2>1, HandsSame DEF ExecIs, SameCalls
  <2>3. QED
    BY <1>1, <1>3, <2>1, <2>2, StillBase DEF ExecIs, Still
<1>4. CASE Goto("dispatch") /\ Adopt(exec.run) /\ Purpose = "chat"
  <2>1. ExecIs("dispatch", exec.at, exec.todo, exec.prev, exec.orig, exec.left, exec.err)
    BY <1>4, ExecGoto DEF Base, Places
  <2>2. /\ ClosedBy(r) /\ Settles /\ RunsKept
        /\ steer' \in [Runs -> 0..MaxInputs] /\ \A q \in Runs : steer'[q] <= steer[q]
    BY <1>0, <1>4, AdoptRows
  <2>3. \A a \in Attempts : att[a].status # "pending" => att'[a] = att[a]
    BY <2>2, CloseRows
  <2>4. \A b \in exec.todo : Mine(exec, b)'
    BY <2>1, <2>2, SettlesStay DEF Base, ExecOK, Hands, Mine, RowsStay, ExecIs
  <2>5. /\ exec.prev \in Attempts /\ att'[exec.prev] = att[exec.prev] /\ exec.orig = 0
        /\ Mine(exec, exec.prev)'
    BY <1>1, <1>4, <2>1, <2>3 DEF Base, ExecOK, Hands, Mine, Purpose, ExecIs
  <2>6. Hands(exec)'
    BY <1>1, <2>1, <2>4, <2>5 DEF Base, ExecOK, Hands, ExecIs, Verifying
  <2>7. QED
    BY <1>1, <2>1, <2>2, <2>6, InsideBase DEF ExecIs
<1>5. QED
  BY <1>2, <1>3, <1>4 DEF WaitOver

LEMMA RoundRow ==
  ASSUME TypeOK, LifecycleAssumption, NEW o \in Attempts, att[o].rounds < MaxRounds,
         att[o].status # "free", att' = [att EXCEPT ![o].rounds = @ + 1]
  PROVE  Settles /\ SameCalls
<1>1. att[o] \in AttemptRecord
  BY DEF TypeOK
<1> DEFINE v == [att[o] EXCEPT !.rounds = att[o].rounds + 1]
<1>2. att[o].rounds + 1 \in 0..MaxRounds
  BY <1>1 DEF AttemptRecord, LifecycleAssumption
<1>3. /\ v \in AttemptRecord /\ v.status = att[o].status /\ v.run = att[o].run /\ v.root = att[o].root
      /\ v.purpose = att[o].purpose /\ v.resolved = att[o].resolved
  BY <1>1, <1>2 DEF AttemptRecord
<1>4. att' = [att EXCEPT ![o] = v]
  OBVIOUS
<1> HIDE DEF v
<1>5. att' \in [Attempts -> AttemptRecord] /\ att'[o] = v /\ \A b \in Attempts : b # o => att'[b] = att[b]
  BY <1>3, <1>4 DEF TypeOK
<1>6. QED
  BY <1>3, <1>5 DEF Settles, Follows, SameCalls

LEMMA VerifyRoundBase ==
  ASSUME Base, LifecycleAssumption, VerifyRound
  PROVE  Base' /\ FactsKept
<1>0. PICK r \in Runs, o \in Attempts : /\ r = exec.run /\ o = exec.orig /\ att[o].status # "free"
                                        /\ run[r].status # "none" /\ o # 0
  BY DEF Base, ExecOK, Hands, Mine, VerifyRound, Verifying
<1>1. exec.pc = "vreserve" /\ UNCHANGED <<steer, outside>> /\ Goto("dispatch") /\ exec.prev = 0
  BY DEF VerifyRound, Base, ExecOK, Hands
<1>2. Settles /\ SameCalls
  BY <1>0, RoundRow DEF VerifyRound, Base
<1>3. RunsKept
  <2>1. CASE run' = run
    BY <2>1, RunsSame
  <2>2. CASE run' = SetStatus(exec.run, "running")
    <3>1. RunIs(r, "running", "")
      BY <1>0, <2>2, RunSetStatus DEF Base, Statuses
    <3>2. QED
      BY <3>1, RunsKeptBy
  <2>3. QED
    BY <2>1, <2>2 DEF VerifyRound
<1>4. ExecIs("dispatch", exec.at, exec.todo, exec.prev, exec.orig, exec.left, exec.err)
  BY <1>1, ExecGoto DEF Base, Places
<1>5. Hands(exec)'
  BY <1>0, <1>1, <1>2, <1>4, SettlesStay, HandsVerify DEF ExecIs, OrigKept, SameCalls, Base, ExecOK, Hands
<1>6. QED
  BY <1>1, <1>2, <1>3, <1>4, <1>5, SteerKept, InsideBase DEF ExecIs

LEMMA VerifyQueryBase ==
  ASSUME Base, LifecycleAssumption, VerifyQuery
  PROVE  Base' /\ FactsKept
<1>0. PICK r \in Runs : r = exec.run /\ run[r].status # "none"
  BY DEF Base, ExecOK, VerifyQuery
<1>1. /\ exec.pc = "vquery" /\ UNCHANGED <<run, steer, outside>> /\ exec.prev = 0 /\ exec.orig # 0
      /\ exec.orig \in Attempts
  BY DEF VerifyQuery, Base, ExecOK, Hands, Verifying, Mine
<1>2. CASE Goto("vreserve") /\ UNCHANGED att
  <2>1. ExecIs("vreserve", exec.at, exec.todo, exec.prev, exec.orig, exec.left, exec.err)
    BY <1>2, ExecGoto DEF Base, Places
  <2>2. Hands(exec)'
    BY <1>1, <1>2, <2>1, HandsVerify DEF ExecIs, RowsStay, OrigKept, Verifying, Base, ExecOK, Hands
  <2>3. QED
    BY <1>1, <1>2, <2>1, <2>2, StillBase DEF ExecIs, Still
<1>3. CASE Fails("unknown") /\ UNCHANGED att
  BY <1>1, <1>3, FailsBase DEF Still, Errors
<1>4. CASE /\ exec.left # 0 /\ Fresh \in Attempts
           /\ att' = [att EXCEPT ![Fresh] = QueryRow(exec.run, Fresh)]
           /\ exec' = [exec EXCEPT !.pc = "tool", !.at = Fresh]
  <2>0. PICK x \in Attempts : x = Fresh
    BY <1>4
  <2>1. /\ Fresh \in Nat \ {0} /\ \A a \in Attempts : a < Fresh <=> att[a].status # "free"
    BY FreshRow DEF Base
  <2>2. att[x].status = "free" /\ x \in Nat \ {0}
    BY <2>0, <2>1
  <2>3. /\ QueryRow(r, x) \in AttemptRecord /\ QueryRow(r, x).status = "pending"
        /\ QueryRow(r, x).run = r /\ QueryRow(r, x).root = x /\ QueryRow(r, x).resolved = "no"
        /\ QueryRow(r, x).purpose = "verify"
    BY NewRows DEF LifecycleAssumption
  <2>4. /\ att' \in [Attempts -> AttemptRecord] /\ att'[x] = QueryRow(r, x)
        /\ \A b \in Attempts : b # x => att'[b] = att[b]
    BY <1>0, <1>4, <2>0, <2>3 DEF Base, TypeOK
  <2>5. Grown(x, 1)
    <3>1. \A a \in Attempts : a \in x..(x + 1 - 1) <=> a = x
      BY <2>2 DEF Attempts, LifecycleAssumption
    <3>2. run'[r].status # "none"
      BY <1>0, <1>1
    <3>3. QED
      BY <2>3, <2>4, <3>1, <3>2 DEF Grown, Follows
  <2>6. ExecIs("tool", x, exec.todo, exec.prev, exec.orig, exec.left, exec.err)
    <3>1. x \in 0..MaxAttempts
      BY DEF LifecycleAssumption, Attempts
    <3>2. QED
      BY <1>4, <2>0, <3>1 DEF Base, TypeOK, ExecRecord, ExecIs
  <2>7. \A b \in Attempts : Mine(exec, b) => Mine(exec, b)' /\ att'[b] = att[b]
    BY <2>2, <2>4, <2>6 DEF Mine, ExecIs
  <2>8. \A b \in exec.todo : Mine(exec, b)'
    BY <2>7 DEF Base, ExecOK, Hands, Mine
  <2>9. Mine(exec, x)'
    BY <1>0, <2>3, <2>4, <2>6 DEF Mine, ExecIs
  <2>10. Mine(exec, exec.orig)' /\ att'[exec.orig] = att[exec.orig]
    <3>1. PICK o \in Attempts : o = exec.orig
      BY <1>1
    <3>2. Mine(exec, o)
      BY <1>1, <3>1 DEF Base, ExecOK, Hands
    <3>3. exec'.orig = o
      BY <2>6, <3>1 DEF ExecIs
    <3>4. QED
      BY <2>7, <3>1, <3>2, <3>3
  <2>11. exec.left > 0
    BY <1>4, ExecFields DEF Base, LifecycleAssumption
  <2>12. Hands(exec)'
    BY <1>1, <2>3, <2>4, <2>6, <2>8, <2>9, <2>10, <2>11
    DEF Base, ExecOK, Hands, ExecIs, Verifying
  <2>13. RunsKept
    BY <1>1, RunsSame
  <2>14. 1 \in Nat /\ Fresh + 1 <= MaxAttempts + 1
    BY <1>4 DEF Attempts, LifecycleAssumption
  <2>15. QED
    BY <1>1, <2>0, <2>5, <2>6, <2>12, <2>13, <2>14, InsideGrows DEF ExecIs
<1>5. QED
  BY <1>2, <1>3, <1>4 DEF VerifyQuery, QueryRow

LEMMA VerifiedRow ==
  ASSUME TypeOK, NEW o \in Attempts, att[o].status = "unknown", att[o].resolved = "no",
         att' = [att EXCEPT ![o].resolved = "verified"]
  PROVE  /\ Settles /\ \A b \in Attempts : b # o => att'[b] = att[b]
         /\ att'[o].status = "unknown" /\ att'[o].resolved = "verified" /\ att'[o].run = att[o].run
<1>1. att[o] \in AttemptRecord
  BY DEF TypeOK
<1> DEFINE v == [att[o] EXCEPT !.resolved = "verified"]
<1>2. v \in AttemptRecord /\ Follows(att[o], v) /\ v.status = "unknown" /\ v.resolved = "verified"
      /\ v.run = att[o].run
  BY <1>1 DEF AttemptRecord, Follows
<1>3. att' = [att EXCEPT ![o] = v]
  OBVIOUS
<1> HIDE DEF v
<1>4. att' \in [Attempts -> AttemptRecord] /\ att'[o] = v /\ \A b \in Attempts : b # o => att'[b] = att[b]
  BY <1>2, <1>3 DEF TypeOK
<1>5. QED
  BY <1>2, <1>4 DEF Settles, Follows

LEMMA VerifyResolvesBase ==
  ASSUME Base, LifecycleAssumption, VerifyResolves
  PROVE  Base' /\ FactsKept
<1>0. PICK o \in Attempts : o = exec.orig /\ att[o].status = "unknown" /\ att[o].resolved = "no"
  BY DEF Base, ExecOK, Hands, Mine, VerifyResolves, Verifying
<1>1. exec.pc = "vresolve" /\ UNCHANGED <<run, steer, outside>> /\ exec.prev = 0
  BY DEF VerifyResolves, Base, ExecOK, Hands
<1>2. CASE Fails("input") /\ UNCHANGED att
  BY <1>1, <1>2, FailsBase DEF Still, Errors
<1>3. CASE /\ att' = [att EXCEPT ![exec.orig].resolved = "verified"]
           /\ exec' = [exec EXCEPT !.pc = "next", !.orig = 0]
  <2>1. Settles
    BY <1>0, <1>3, VerifiedRow DEF Base
  <2>2. ExecIs("next", exec.at, exec.todo, exec.prev, 0, exec.left, exec.err)
    <3>1. 0 \in 0..MaxAttempts
      BY DEF LifecycleAssumption
    <3>2. QED
      BY <1>3, <3>1 DEF Base, TypeOK, ExecRecord, ExecIs
  <2>3. Hands(exec)'
    BY <1>1, <2>1, <2>2, SettlesStay, HandsOut DEF ExecIs
  <2>4. QED
    BY <1>1, <2>1, <2>2, <2>3, RunsSame, SteerKept, InsideBase DEF ExecIs
<1>4. QED
  BY <1>2, <1>3 DEF VerifyResolves

LEMMA ExecVerifyReturns ==
  ASSUME TypeOK, LifecycleAssumption, VerifyReturns
  PROVE  IF exec.err = "input" THEN ExecIs("next", exec.at, exec.todo, exec.prev, 0, 0, "ok")
         ELSE ExecIs("return", exec.at, exec.todo, exec.prev, 0, 0, "unknown")
<1>1. 0 \in 0..MaxAttempts /\ 0 \in 0..MaxCalls
  BY DEF LifecycleAssumption
<1>2. QED
  BY <1>1 DEF TypeOK, ExecRecord, VerifyReturns, ExecIs

LEMMA VerifyFailsBase ==
  ASSUME Base, LifecycleAssumption, VerifyFails \/ VerifyFinishLost
  PROVE  Base' /\ FactsKept
<1>0. PICK r \in Runs : r = exec.run
  BY DEF Base, ExecOK, VerifyFails, VerifyFinishLost
<1>1. exec.pc = "vfail" /\ UNCHANGED <<att, steer, outside>> /\ exec.prev = 0 /\ VerifyReturns
  BY DEF VerifyFails, VerifyFinishLost, Base, ExecOK, Hands
<1>2. IF exec.err = "input" THEN ExecIs("next", exec.at, exec.todo, exec.prev, 0, 0, "ok")
      ELSE ExecIs("return", exec.at, exec.todo, exec.prev, 0, 0, "unknown")
  BY <1>1, ExecVerifyReturns DEF Base
<1>3. Hands(exec)'
  BY <1>1, <1>2, HandsOut DEF ExecIs, RowsStay
<1>4. RunsKept
  <2>1. CASE run' = run
    BY <2>1, RunsSame
  <2>2. CASE run' = SetStatus(exec.run, "unknown")
    <3>1. RunIs(r, "unknown", "")
      BY <1>0, <2>2, RunSetStatus DEF Base, Statuses
    <3>2. QED
      BY <3>1, RunsKeptBy
  <2>3. QED
    BY <2>1, <2>2 DEF VerifyFails, VerifyFinishLost
<1>5. Settles
  BY <1>1 DEF Base, TypeOK, Settles, Follows
<1>6. QED
  BY <1>1, <1>2, <1>3, <1>4, <1>5, SteerKept, InsideBase DEF ExecIs

-----------------------------------------------------------------------------
(* Where an execution ends or begins *)

LEMMA IdleBase ==
  ASSUME Base, LifecycleAssumption, exec' = Idle, Settles, RunsKept, UNCHANGED <<steer, outside>>
  PROVE  Base' /\ FactsKept
<1>1. steer' \in [Runs -> 0..MaxInputs] /\ \A r \in Runs : steer'[r] <= steer[r]
  BY SteerKept
<1>2. Books' /\ FactsKept
  BY <1>1, SteerBound, BooksStep
<1>3. TypeOK'
  BY <1>1, IdleRecord DEF Base, TypeOK, Settles, RunsKept, outside
<1>4. ExecOK'
  BY IdleRecord DEF ExecOK, Hands, Verifying
<1>5. QED
  BY <1>2, <1>3, <1>4 DEF Base

LEMMA ReturnBase ==
  ASSUME Base, LifecycleAssumption, Return \/ ReturnLost
  PROVE  Base' /\ FactsKept
<1>0. PICK r \in Runs : r = exec.run
  BY DEF Base, ExecOK, Return, ReturnLost
<1>1. exec.pc = "return" /\ UNCHANGED <<att, steer, outside>> /\ exec.prev = 0 /\ exec.orig = 0
  BY DEF Return, ReturnLost, Base, ExecOK, Hands, Verifying
<1>2. Settles
  BY <1>1 DEF Base, TypeOK, Settles, Follows
<1>3. CASE run' = run /\ exec' = Idle
  BY <1>1, <1>2, <1>3, RunsSame, IdleBase
<1>4. ASSUME NEW to \in {"unknown", "limited", "stopped"},
             NEW why, why = (IF to = "limited" THEN exec.err ELSE ""),
             to = "limited" => exec.err \in {"limit", "context"}, run' = Now(r, to, why),
             exec' = IF to = "limited" THEN [exec EXCEPT !.pc = "settle"] ELSE Idle
      PROVE  Base' /\ FactsKept
  <2>1. RunIs(r, to, why)
    BY <1>4, RunNow DEF Base, Statuses, Reasons
  <2>2. RunsKept
    BY <1>4, <2>1, RunsKeptBy
  <2>3. CASE exec' = Idle
    BY <1>1, <1>2, <2>2, <2>3, IdleBase
  <2>4. CASE exec' = [exec EXCEPT !.pc = "settle"]
    <3>1. ExecIs("settle", exec.at, exec.todo, exec.prev, exec.orig, exec.left, exec.err)
      BY <2>4, ExecGoto DEF Base, Places, Goto
    <3>2. Hands(exec)'
      BY <1>1, <1>2, <3>1, SettlesStay, HandsOut DEF ExecIs
    <3>3. QED
      BY <1>1, <1>2, <2>2, <3>1, <3>2, SteerKept, InsideBase DEF ExecIs
  <2>5. QED
    BY <1>4, <2>3, <2>4
<1>5. CASE Return /\ run[exec.run].status = "running" /\ exec.err # "ok"
  <2>1. PICK to \in {"unknown", "limited", "stopped"} :
          to = CASE exec.err = "unknown" -> "unknown"
                 [] exec.err \in {"limit", "context"} -> "limited"
                 [] OTHER -> "stopped"
    OBVIOUS
  <2>2. PICK why : why = (IF to = "limited" THEN exec.err ELSE "")
    OBVIOUS
  <2>3. run' = Now(r, to, why) /\ exec' = IF to = "limited" THEN [exec EXCEPT !.pc = "settle"] ELSE Idle
    BY <1>0, <1>5, <2>1, <2>2 DEF Return
  <2>4. to = "limited" => exec.err \in {"limit", "context"}
    BY <2>1
  <2>5. QED
    BY <1>4, <2>2, <2>3, <2>4
<1>6. QED
  BY <1>3, <1>5 DEF Return, ReturnLost

LEMMA SettledRow ==
  ASSUME TypeOK, NEW r \in Runs, run' = [run EXCEPT ![r].reason = "settled"]
  PROVE  RunIs(r, run[r].status, "settled")
<1>1. run[r] \in RunRecord
  BY DEF TypeOK
<1> DEFINE v == [run[r] EXCEPT !.reason = "settled"]
<1>2. v \in RunRecord /\ v.status = run[r].status /\ v.reason = "settled" /\ v.command = run[r].command
  BY <1>1 DEF RunRecord
<1>3. run' = [run EXCEPT ![r] = v]
  OBVIOUS
<1> HIDE DEF v
<1>4. QED
  BY <1>2, <1>3 DEF TypeOK, RunIs

LEMMA SettleBase ==
  ASSUME Base, LifecycleAssumption, Settle
  PROVE  Base' /\ FactsKept
<1>0. PICK r \in Runs : r = exec.run /\ run[r].status # "none"
  BY DEF Base, ExecOK, Settle
<1>1. exec' = Idle /\ UNCHANGED <<att, steer, outside>>
  BY DEF Settle
<1>2. Settles
  BY <1>1 DEF Base, TypeOK, Settles, Follows
<1>3. RunsKept
  <2>1. CASE run' = run
    BY <2>1, RunsSame
  <2>2. CASE run[exec.run].reason = "limit" /\ Settled
    <3>1. RunIs(r, run[r].status, "settled")
      BY <1>0, <2>2, SettledRow DEF Base, Settled
    <3>2. run[r].status = "limited"
      BY <1>0, <2>2 DEF Base, Books
    <3>3. QED
      BY <1>0, <3>1, <3>2, RunsKeptBy
  <2>3. QED
    BY <2>1, <2>2 DEF Settle
<1>4. QED
  BY <1>1, <1>2, <1>3, IdleBase

LEMMA StartBase ==
  ASSUME Base, LifecycleAssumption, up, NEW r \in Runs, Starts(r), Books', FactsKept,
         att' \in [Attempts -> AttemptRecord], run' \in [Runs -> RunRecord], run'[r].status # "none",
         UNCHANGED <<steer, outside>>
  PROVE  Base' /\ FactsKept
<1>1. /\ exec' \in ExecRecord /\ exec'.pc = "loop" /\ exec'.run = r /\ exec'.todo = {}
      /\ exec'.prev = 0 /\ exec'.orig = 0
  BY ExecStarts DEF Base
<1>2. TypeOK'
  BY <1>1 DEF Base, TypeOK, outside
<1>3. ExecOK'
  BY <1>1 DEF ExecOK, Hands, Verifying, outside
<1>4. QED
  BY <1>2, <1>3 DEF Base

-----------------------------------------------------------------------------
(* Requests, the user, crashes and recovery *)

LEMMA CreateRow ==
  ASSUME Base, LifecycleAssumption, NEW r \in Runs, NEW c \in BOOLEAN, NEW p \in 0..MaxRuns,
         Create(r, c, p)
  PROVE  /\ RunsKept /\ run'[r] = Born(c, p) /\ run'[r].status = "running" /\ run'[r].reason = ""
         /\ \A q \in Runs : q # r => run'[q] = run[q]
<1>1. Born(c, p) \in RunRecord /\ Born(c, p).status = "running" /\ Born(c, p).reason = ""
  BY BornRecord
<1>2. run' = [run EXCEPT ![r] = Born(c, p)]
  BY DEF Create, Born
<1>3. /\ run' \in [Runs -> RunRecord] /\ run'[r] = Born(c, p)
      /\ \A q \in Runs : q # r => run'[q] = run[q]
  BY <1>1, <1>2 DEF Base, TypeOK
<1>4. QED
  BY <1>1, <1>3 DEF Base, Books, RunsKept

\* What becomes of the rows of Attempts: a command is born with its call.
LEMMA CreateCalls ==
  ASSUME Base, LifecycleAssumption, NEW r \in Runs, NEW c \in BOOLEAN, NEW p \in 0..MaxRuns,
         Create(r, c, p)
  PROVE  \/ ~c /\ att' = att
         \/ \E x \in Attempts : /\ c /\ x = Fresh /\ att[x].status = "free" /\ Grown(x, 1)
                                /\ att'[x] = ToolRow(r, x) /\ \A b \in Attempts : b # x => att'[b] = att[b]
<1>1. CASE ~c
  BY <1>1 DEF Create
<1>2. CASE c
  <2>0. PICK x \in Attempts : x = Fresh
    BY <1>2 DEF Create
  <2>1. /\ Fresh \in Nat \ {0} /\ \A a \in Attempts : a < Fresh <=> att[a].status # "free"
    BY FreshRow DEF Base
  <2>2. att[x].status = "free" /\ x \in Nat
    BY <2>0, <2>1
  <2>3. \A a \in Attempts : a \in x..(x + 1 - 1) <=> a = x
    BY <2>2 DEF Attempts, LifecycleAssumption
  <2>4. att' = ToolCallsOf(r, x, 1)
    BY <1>2, <2>0 DEF Create
  <2>5. /\ att' \in [Attempts -> AttemptRecord]
        /\ \A a \in Attempts : att'[a] = IF a \in x..(x + 1 - 1) THEN ToolRow(r, a) ELSE att[a]
    BY <2>4, ToolCalls DEF Base
  <2>6. /\ ToolRow(r, x).status = "pending" /\ ToolRow(r, x).run = r
        /\ ToolRow(r, x).root = x /\ ToolRow(r, x).resolved = "no"
    BY NewRows DEF LifecycleAssumption
  <2>7. att'[x] = ToolRow(r, x) /\ \A b \in Attempts : b # x => att'[b] = att[b]
    BY <2>3, <2>5
  <2>8. run'[r].status # "none"
    BY CreateRow
  <2>9. Grown(x, 1)
    <3>1. \A b \in Attempts : Follows(att[b], att[b])
      BY DEF Follows
    <3>2. QED
      BY <2>3, <2>5, <2>6, <2>7, <2>8, <3>1 DEF Grown
  <2>10. QED
    BY <1>2, <2>0, <2>2, <2>7, <2>9
<1>3. QED
  BY <1>1, <1>2

LEMMA CreateBase ==
  ASSUME Base, LifecycleAssumption, up, NEW r \in Runs, NEW c \in BOOLEAN, NEW p \in 0..MaxRuns,
         Create(r, c, p)
  PROVE  Base' /\ FactsKept
<1>1. UNCHANGED <<steer, outside>> /\ Starts(r)
  BY DEF Create
<1>2. RunsKept /\ run'[r].status = "running"
  BY CreateRow
<1>3. \A q \in Runs : steer'[q] + (IF incoming' = 0 THEN 0 ELSE 1) <= inputs'
  BY <1>1, SteerKept, SteerBound
<1>4. CASE att' = att
  <2>1. Settles
    BY <1>4 DEF Base, TypeOK, Settles, Follows
  <2>2. Books' /\ FactsKept
    BY <1>2, <1>3, <2>1, BooksStep
  <2>3. QED
    BY <1>1, <1>2, <2>1, <2>2, StartBase DEF Settles, RunsKept
<1>5. ASSUME NEW x \in Attempts, x = Fresh, Grown(x, 1)
      PROVE  Base' /\ FactsKept
  <2>1. 1 \in Nat /\ Fresh + 1 <= MaxAttempts + 1
    BY <1>5 DEF Attempts, LifecycleAssumption
  <2>2. Books' /\ FactsKept
    BY <1>2, <1>3, <1>5, <2>1, GrownBooks
  <2>3. QED
    BY <1>1, <1>2, <1>5, <2>2, StartBase DEF Grown, RunsKept
<1>6. QED
  BY <1>4, <1>5, CreateCalls

LEMMA ContinueBase ==
  ASSUME Base, LifecycleAssumption, NEW r \in Runs, Continue(r)
  PROVE  Base' /\ FactsKept
<1>1. up /\ UNCHANGED <<att, steer, outside>> /\ Starts(r)
  BY DEF Continue
<1>2. RunIs(r, "running", "")
  BY RunSetStatus DEF Base, Statuses, Continue
<1>3. RunsKept
  BY <1>2, RunsKeptBy
<1>4. Settles
  BY <1>1 DEF Base, TypeOK, Settles, Follows
<1>5. Books' /\ FactsKept
  BY <1>1, <1>3, <1>4, SteerKept, SteerBound, BooksStep
<1>6. run'[r].status # "none" /\ run' \in [Runs -> RunRecord]
  BY <1>2 DEF RunIs
<1>7. QED
  BY <1>1, <1>4, <1>5, <1>6, StartBase DEF Settles

LEMMA ConfirmControlBase ==
  ASSUME Base, LifecycleAssumption, NEW r \in Runs, NEW applied \in BOOLEAN, ConfirmControl(r, applied)
  PROVE  Base' /\ FactsKept
<1>0. PICK a \in Attempts : SettleProposal(r, a, applied) /\ run[r].status # "none"
  BY DEF ConfirmControl, Pending, Of
<1>1. up /\ UNCHANGED <<steer, outside>> /\ (exec' = Idle \/ Starts(r))
  BY DEF ConfirmControl
<1>2. Settles /\ RunsKept
  BY <1>0, SettleProposalRows
<1>3. CASE exec' = Idle
  BY <1>1, <1>2, <1>3, IdleBase
<1>4. CASE Starts(r)
  <2>1. Books' /\ FactsKept
    BY <1>1, <1>2, SteerKept, SteerBound, BooksStep
  <2>2. run'[r].status # "none"
    BY <1>0, <1>2 DEF RunsKept
  <2>3. QED
    BY <1>1, <1>2, <1>4, <2>1, <2>2, StartBase DEF Settles, RunsKept
<1>5. QED
  BY <1>1, <1>3, <1>4

LEMMA AbandonBase ==
  ASSUME Base, LifecycleAssumption, NEW r \in Runs, Abandon(r)
  PROVE  Base' /\ FactsKept
<1>1. exec.pc = "idle" /\ exec' = exec /\ UNCHANGED <<steer, outside>> /\ ClosedBy(r)
  BY DEF Abandon, ClosedBy
<1>2. RunIs(r, "abandoned", "")
  BY RunSetStatus DEF Base, Statuses, Abandon
<1>3. RunsKept
  BY <1>2, RunsKeptBy
<1>4. Settles
  BY <1>1, CloseRows
<1>5. exec' = Idle
  BY <1>1 DEF Base, ExecOK
<1>6. QED
  BY <1>1, <1>3, <1>4, <1>5, IdleBase

\* The user's inputs touch no row.
LEMMA AsideBase ==
  ASSUME Base, LifecycleAssumption, UNCHANGED <<run, att, exec, up, crashes>>,
         steer' \in [Runs -> 0..MaxInputs], incoming' \in 0..MaxRuns, inputs' \in 0..MaxInputs,
         \A r \in Runs : steer'[r] + (IF incoming' = 0 THEN 0 ELSE 1) <= inputs'
  PROVE  Base' /\ FactsKept
<1>1. Settles /\ RunsKept
  BY StillRows
<1>2. Books' /\ FactsKept
  BY <1>1, BooksStep
<1>3. TypeOK'
  BY DEF Base, TypeOK
<1>4. ExecOK'
  BY DEF Base, ExecOK, Hands, Mine
<1>5. QED
  BY <1>2, <1>3, <1>4 DEF Base

LEMMA AcceptReadsBase ==
  ASSUME Base, LifecycleAssumption, NEW r \in Runs, AcceptReads(r)
  PROVE  Base' /\ FactsKept
<1>1. /\ UNCHANGED <<run, att, steer, exec, up, crashes>> /\ incoming = 0 /\ incoming' = r
      /\ inputs' = inputs + 1 /\ inputs < MaxInputs
  BY DEF AcceptReads
<1>2. inputs' \in 0..MaxInputs /\ incoming' \in 0..MaxRuns /\ inputs \in Nat
  BY <1>1 DEF Base, TypeOK, Runs, LifecycleAssumption
<1>3. ASSUME NEW q \in Runs PROVE steer'[q] + (IF incoming' = 0 THEN 0 ELSE 1) <= inputs'
  <2>1. steer[q] <= inputs /\ steer[q] \in Nat
    <3>1. steer[q] \in Nat
      BY DEF Base, TypeOK, LifecycleAssumption
    <3>2. steer[q] + 0 <= inputs
      BY <1>1 DEF Base, Books
    <3>3. QED
      BY <3>1, <3>2
  <2>2. QED
    BY <1>1, <1>2, <2>1
<1>4. QED
  BY <1>1, <1>2, <1>3, AsideBase DEF Base, TypeOK

LEMMA AcceptCommitsBase ==
  ASSUME Base, LifecycleAssumption, AcceptCommits
  PROVE  Base' /\ FactsKept
<1>1. /\ UNCHANGED <<run, att, exec, inputs, up, crashes>> /\ incoming # 0 /\ incoming' = 0
      /\ steer' = [steer EXCEPT ![incoming] = steer[incoming] + 1]
  BY DEF AcceptCommits
<1>2. inputs \in Nat /\ inputs <= MaxInputs /\ incoming \in Runs
  BY <1>1 DEF Base, TypeOK, Runs, LifecycleAssumption
<1>3. ASSUME NEW q \in Runs PROVE steer[q] \in Nat /\ steer[q] + 1 <= inputs
  <2>1. steer[q] \in 0..MaxInputs
    BY DEF Base, TypeOK
  <2>2. steer[q] + (IF incoming = 0 THEN 0 ELSE 1) <= inputs
    BY DEF Base, Books
  <2>3. QED
    BY <1>1, <2>1, <2>2 DEF LifecycleAssumption
<1>4. \A q \in Runs : steer'[q] \in Nat /\ steer'[q] <= inputs
  BY <1>1, <1>2, <1>3 DEF Base, TypeOK
<1>5. steer' \in [Runs -> 0..MaxInputs]
  <2>1. steer[incoming] + 1 \in 0..MaxInputs
    BY <1>2, <1>3 DEF LifecycleAssumption
  <2>2. QED
    BY <1>1, <1>2, <2>1 DEF Base, TypeOK
<1>6. \A q \in Runs : steer'[q] + (IF incoming' = 0 THEN 0 ELSE 1) <= inputs'
  BY <1>1, <1>4
<1>7. 0 \in 0..MaxRuns
  BY DEF LifecycleAssumption
<1>8. QED
  BY <1>1, <1>5, <1>6, <1>7, AsideBase DEF Base, TypeOK

LEMMA CancelSteerBase ==
  ASSUME Base, LifecycleAssumption, NEW r \in Runs, CancelSteer(r)
  PROVE  Base' /\ FactsKept
<1>1. /\ UNCHANGED <<run, att, exec>> /\ UNCHANGED outside
      /\ steer[r] > 0 /\ steer' = [steer EXCEPT ![r] = steer[r] - 1]
  BY DEF CancelSteer
<1>2. \A q \in Runs : steer[q] \in 0..MaxInputs
  BY DEF Base, TypeOK
<1>3. steer[r] - 1 \in 0..MaxInputs /\ steer[r] - 1 <= steer[r]
  BY <1>1, <1>2 DEF LifecycleAssumption
<1>4. steer' \in [Runs -> 0..MaxInputs] /\ \A q \in Runs : steer'[q] <= steer[q]
  BY <1>1, <1>2, <1>3 DEF Base, TypeOK, LifecycleAssumption
<1>5. \A q \in Runs : steer'[q] + (IF incoming' = 0 THEN 0 ELSE 1) <= inputs'
  BY <1>1, <1>4, SteerBound
<1>6. QED
  BY <1>1, <1>4, <1>5, AsideBase DEF Base, TypeOK, outside

LEMMA CrashBase ==
  ASSUME Base, LifecycleAssumption, Crash
  PROVE  Base' /\ FactsKept
<1>1. /\ UNCHANGED <<run, att, steer, inputs>> /\ exec' = Idle /\ incoming' = 0 /\ up' = FALSE
      /\ crashes' = crashes + 1 /\ crashes < MaxCrashes /\ up
  BY DEF Crash
<1>2. crashes' \in 0..MaxCrashes /\ 0 \in 0..MaxRuns /\ inputs \in Nat
  BY <1>1 DEF Base, TypeOK, LifecycleAssumption
<1>3. ASSUME NEW q \in Runs PROVE steer'[q] + (IF incoming' = 0 THEN 0 ELSE 1) <= inputs'
  <2>1. steer[q] \in Nat
    BY DEF Base, TypeOK, LifecycleAssumption
  <2>2. steer[q] + (IF incoming = 0 THEN 0 ELSE 1) <= inputs
    BY DEF Base, Books
  <2>3. QED
    BY <1>1, <1>2, <2>1, <2>2
<1>5. Settles /\ RunsKept
  BY <1>1, StillRows
<1>6. Books' /\ FactsKept
  BY <1>3, <1>5, BooksStep
<1>7. TypeOK'
  BY <1>1, <1>2, IdleRecord DEF Base, TypeOK
<1>8. ExecOK'
  BY <1>1, IdleRecord DEF ExecOK, Hands, Verifying
<1>9. QED
  BY <1>6, <1>7, <1>8 DEF Base

\* recover: dispatched calls become unknown and every Run says so.
LEMMA RecoverRows ==
  ASSUME Base, LifecycleAssumption, Recover
  PROVE  /\ Settles /\ RunsKept
         /\ \A q : UnresolvedOf(q)' = UnresolvedOf(q) /\ Pending(q)' = Pending(q)
         /\ \A a \in Attempts : att'[a].status # "dispatched"
<1>1. \A a \in Attempts : att[a] \in AttemptRecord
  BY DEF Base, TypeOK
<1>2. \A a \in Attempts :
        /\ [att[a] EXCEPT !.status = "unknown"] \in AttemptRecord
        /\ [att[a] EXCEPT !.status = "unknown"].status = "unknown"
        /\ [att[a] EXCEPT !.status = "unknown"].run = att[a].run
        /\ [att[a] EXCEPT !.status = "unknown"].resolved = att[a].resolved
        /\ att[a].status = "dispatched" => Follows(att[a], [att[a] EXCEPT !.status = "unknown"])
  BY <1>1 DEF AttemptRecord, Follows
<1>3. \A a \in Attempts : att'[a] = IF att[a].status = "dispatched"
                                    THEN [att[a] EXCEPT !.status = "unknown"] ELSE att[a]
  BY DEF Recover
<1>4. att' \in [Attempts -> AttemptRecord]
  BY <1>1, <1>2 DEF Recover
<1>5. \A a \in Attempts :
        /\ Follows(att[a], att'[a]) /\ att'[a].run = att[a].run /\ att'[a].resolved = att[a].resolved
        /\ att'[a].status = IF att[a].status = "dispatched" THEN "unknown" ELSE att[a].status
  <2>1. \A a \in Attempts : Follows(att[a], att[a])
    BY DEF Follows
  <2>2. QED
    BY <1>2, <1>3, <2>1
<1>6. \A q : UnresolvedOf(q)' = UnresolvedOf(q) /\ Pending(q)' = Pending(q)
  BY <1>5 DEF UnresolvedOf, Unresolved, Pending, Of
<1>7. RunsKept
  <2>1. \A q \in Runs : run[q] \in RunRecord
    BY DEF Base, TypeOK
  <2>2. \A q \in Runs :
          /\ [run[q] EXCEPT !.status = "unknown", !.reason = ""] \in RunRecord
          /\ [run[q] EXCEPT !.status = "unknown", !.reason = ""].status = "unknown"
          /\ [run[q] EXCEPT !.status = "unknown", !.reason = ""].reason = ""
          /\ [run[q] EXCEPT !.status = "stopped"] \in RunRecord
          /\ [run[q] EXCEPT !.status = "stopped"].status = "stopped"
          /\ [run[q] EXCEPT !.status = "stopped"].reason = run[q].reason
    BY <2>1 DEF RunRecord, Statuses
  <2>3. run' \in [Runs -> RunRecord]
    BY <2>1, <2>2 DEF Recover
  <2>4. \A q \in Runs :
          run'[q] = IF run[q].status \notin {"none", "abandoned", "unknown"} /\ UnresolvedOf(q) # {}
                    THEN [run[q] EXCEPT !.status = "unknown", !.reason = ""]
                    ELSE IF run[q].status = "running" THEN [run[q] EXCEPT !.status = "stopped"]
                    ELSE run[q]
    BY DEF Recover
  <2>5. \A q \in Runs : run[q].reason # "" => run[q].status = "limited"
    BY DEF Base, Books
  <2>6. QED
    BY <2>2, <2>3, <2>4, <2>5 DEF RunsKept
<1>8. QED
  BY <1>4, <1>5, <1>6, <1>7 DEF Settles

LEMMA RecoverBase ==
  ASSUME Base, LifecycleAssumption, Recover
  PROVE  Base' /\ FactsKept
<1>1. UNCHANGED <<steer, incoming, inputs, exec, crashes>> /\ ~up /\ up' = TRUE
  BY DEF Recover
<1>2. Settles /\ RunsKept
  BY RecoverRows
<1>3. exec = Idle
  BY <1>1 DEF Base, ExecOK
<1>4. \A q \in Runs : steer'[q] + (IF incoming' = 0 THEN 0 ELSE 1) <= inputs'
  BY <1>1 DEF Base, Books
<1>5. Books' /\ FactsKept
  BY <1>2, <1>4, BooksStep
<1>6. TypeOK'
  BY <1>1, <1>2 DEF Base, TypeOK, Settles, RunsKept
<1>7. ExecOK'
  BY <1>1, <1>3, IdleRecord DEF ExecOK, Hands, Verifying
<1>8. QED
  BY <1>5, <1>6, <1>7 DEF Base

LEMMA InitBase ==
  ASSUME LifecycleAssumption, Init
  PROVE  Base
<1>1. NoRun \in RunRecord /\ NoRun.reason = ""
  <2>1. 0 \in 0..MaxSteps /\ 0 \in 0..MaxRuns
    BY DEF LifecycleAssumption
  <2>2. QED
    BY <2>1 DEF NoRun, RunRecord, Statuses
<1>2. NoAttempt \in AttemptRecord /\ NoAttempt.status = "free"
  <2>1. 0 \in 0..MaxAttempts /\ 0 \in 0..MaxRuns /\ 0 \in 0..ModelRetries /\ 0 \in 0..MaxRounds
    BY DEF LifecycleAssumption
  <2>2. QED
    BY <2>1 DEF NoAttempt, AttemptRecord
<1>3. TypeOK
  <2>1. 0 \in 0..MaxInputs /\ 0 \in 0..MaxRuns /\ 0 \in 0..MaxCrashes
    BY DEF LifecycleAssumption
  <2>2. QED
    BY <1>1, <1>2, <2>1, IdleRecord DEF Init, TypeOK
<1>4. Books
  <2>1. Used = {}
    BY <1>2 DEF Init, Used
  <2>2. Fresh = 1
    BY <2>1, FS_EmptySet DEF Fresh
  <2>3. Used = 1..(Fresh - 1)
    BY <2>1, <2>2
  <2>4. \A a \in Attempts : RowOK(a)
    BY <1>2 DEF Init, RowOK
  <2>5. \A r \in Runs : run[r].reason # "" => run[r].status = "limited"
    BY <1>1 DEF Init
  <2>6. \A r \in Runs : steer[r] + (IF incoming = 0 THEN 0 ELSE 1) <= inputs
    BY DEF Init
  <2>7. QED
    BY <2>3, <2>4, <2>5, <2>6 DEF Books
<1>5. ExecOK
  BY IdleRecord DEF Init, ExecOK, Hands, Verifying
<1>6. QED
  BY <1>3, <1>4, <1>5 DEF Base

-----------------------------------------------------------------------------
(* Facts are kept, whatever fails *)

LEMMA QuietBase ==
  ASSUME Base, LifecycleAssumption,
         \/ LoopStops \/ LoopUnknown \/ ToolStops \/ SettlementLost \/ DispatchRefused \/ WaitCancelled
         \/ WaitFails \/ VerifyEnds \/ VerifyQueryRefused \/ VerifyInconclusive
  PROVE  Base' /\ FactsKept
<1>1. Still /\ exec.pc # "idle"
  BY DEF Still, LoopStops, LoopUnknown, ToolStops, SettlementLost, DispatchRefused, WaitCancelled,
         WaitFails, VerifyEnds, VerifyQueryRefused, VerifyInconclusive
<1>2. \E e \in Errors : Fails(e)
  BY DEF Errors, LoopStops, LoopUnknown, ToolStops, SettlementLost, DispatchRefused, WaitCancelled,
         WaitFails, VerifyEnds, VerifyQueryRefused, VerifyInconclusive
<1>3. QED
  BY <1>1, <1>2, FailsBase

LEMMA ToolEndsBase ==
  ASSUME Base, LifecycleAssumption, ToolNotRun \/ ToolAnswers
  PROVE  Base' /\ FactsKept
<1>1. exec.pc \in {"tool", "toolcall"} /\ att[exec.at].status \in {"pending", "dispatched"}
  BY DEF ToolNotRun, ToolAnswers, Base, ExecOK, Hands
<1>2. QED
  BY <1>1, ToolAnsweredBase DEF ToolNotRun, ToolAnswers

LEMMA ExecBase ==
  ASSUME Base, LifecycleAssumption, ExecStep
  PROVE  Base' /\ FactsKept
<1>1. CASE \/ LoopStops \/ LoopUnknown \/ ToolStops \/ SettlementLost \/ DispatchRefused
           \/ WaitCancelled \/ WaitFails \/ VerifyEnds \/ VerifyQueryRefused \/ VerifyInconclusive
  BY <1>1, QuietBase
<1>2. CASE LoopAdopts \/ LoopLists \/ NextCall \/ FinishCommand
  BY <1>2, LoopAdoptsBase, LoopListsBase, NextCallBase, FinishCommandBase
<1>3. CASE ToolNotRun \/ ToolAnswers \/ ToolAwaits \/ ToolDispatch \/ ToolUncertain
  BY <1>3, ToolEndsBase, ToolAwaitsBase, ToolDispatchBase, ToolUncertainBase
<1>4. CASE \E applied \in BOOLEAN : ToolDecides(applied)
  BY <1>4, ToolDecidesBase
<1>5. CASE Dispatch \/ ModelFails \/ ModelUncertain \/ Reserve \/ WaitUncompacted \/ WaitOver
  BY <1>5, DispatchBase, ModelFailsBase, ModelUncertainBase, ReserveBase, WaitUncompactedBase,
     WaitOverBase
<1>6. CASE \E k \in 0..MaxCalls : ModelAnswers(k)
  BY <1>6, ModelAnswersBase
<1>7. CASE VerifyRound \/ VerifyQuery \/ VerifyResolves \/ VerifyFails \/ VerifyFinishLost
  BY <1>7, VerifyRoundBase, VerifyQueryBase, VerifyResolvesBase, VerifyFailsBase
<1>8. CASE Return \/ ReturnLost \/ Settle
  BY <1>8, ReturnBase, SettleBase
<1>9. QED
  BY <1>1, <1>2, <1>3, <1>4, <1>5, <1>6, <1>7, <1>8 DEF ExecStep

LEMMA UserBase ==
  ASSUME Base, LifecycleAssumption, UserStep
  PROVE  Base' /\ FactsKept
<1>1. ASSUME NEW r \in Runs, NEW c \in BOOLEAN, Submit(r, c) PROVE Base' /\ FactsKept
  <2>1. 0 \in 0..MaxRuns
    BY DEF LifecycleAssumption
  <2>2. QED
    BY <1>1, <2>1, CreateBase DEF Submit
<1>2. ASSUME NEW r \in Runs, NEW p \in Runs, Successor(r, p) PROVE Base' /\ FactsKept
  <2>1. p \in 0..MaxRuns /\ FALSE \in BOOLEAN
    BY DEF Runs, LifecycleAssumption
  <2>2. QED
    BY <1>2, <2>1, CreateBase DEF Successor
<1>3. ASSUME NEW r \in Runs, Continue(r) \/ Abandon(r) \/ AcceptReads(r) \/ CancelSteer(r)
      PROVE  Base' /\ FactsKept
  BY <1>3, ContinueBase, AbandonBase, AcceptReadsBase, CancelSteerBase
<1>4. ASSUME NEW r \in Runs, NEW applied \in BOOLEAN, ConfirmControl(r, applied)
      PROVE  Base' /\ FactsKept
  BY <1>4, ConfirmControlBase
<1>5. CASE AcceptCommits \/ Cancel
  BY <1>5, AcceptCommitsBase, CancelBase
<1>6. QED
  BY <1>1, <1>2, <1>3, <1>4, <1>5 DEF UserStep

LEMMA NextBase ==
  ASSUME Base, LifecycleAssumption, [Next]_vars
  PROVE  Base' /\ FactsKept
<1>1. CASE Next
  BY <1>1, ExecBase, UserBase, CrashBase, RecoverBase DEF Next
<1>2. CASE UNCHANGED vars
  <2>1. TypeOK'
    BY <1>2 DEF vars, Base, TypeOK
  <2>2. Books'
    BY <1>2 DEF vars, Base, Books, RowOK, Used, Fresh
  <2>3. ExecOK'
    BY <1>2 DEF vars, Base, ExecOK, Hands, Mine
  <2>4. FactsKept
    BY <1>2 DEF vars, FactsKept
  <2>5. QED
    BY <2>1, <2>2, <2>3, <2>4 DEF Base
<1>3. QED
  BY <1>1, <1>2

-----------------------------------------------------------------------------
(* Steps of the executor where settlements are not lost *)

\* The other Runs of the conversation are not touched.
Elsewhere(r) ==
  \A q \in Runs : q # r => /\ run'[q] = run[q]
                           /\ UnresolvedOf(q)' = UnresolvedOf(q) /\ Pending(q)' = Pending(q)

LEMMA ElsewhereBy ==
  ASSUME NEW r, LifecycleAssumption, \A q \in Runs : q # r => run'[q] = run[q],
         \A b \in Attempts : att'[b] = att[b] \/ (att'[b].run = r /\ att[b].run \in {0, r})
  PROVE  Elsewhere(r)
<1>1. ASSUME NEW q \in Runs, q # r
      PROVE  UnresolvedOf(q)' = UnresolvedOf(q) /\ Pending(q)' = Pending(q)
  <2>1. q # 0
    BY DEF Runs, LifecycleAssumption
  <2>2. \A b \in Attempts : /\ att'[b].run = q <=> att[b].run = q
                            /\ att'[b].run = q => att'[b] = att[b]
    BY <1>1, <2>1
  <2>3. QED
    BY <2>2 DEF UnresolvedOf, Unresolved, Pending, Of
<1>2. QED
  BY <1>1 DEF Elsewhere

LEMMA NewPlace ==
  ASSUME NEW r, exec'.run = r, Table(exec', run'[r].status, UnresolvedOf(r)', Pending(r)'),
         exec'.pc = "settle" => run'[r].reason # "settled",
         exec'.pc = "reserve" /\ run'[r].status = "failed" => att'[exec'.prev].status = "finished"
  PROVE  Local'
<1>1. /\ run'[exec'.run] = run'[r]
      /\ UnresolvedOf(r)' = UnresolvedOf(exec.run)' /\ Pending(r)' = Pending(exec.run)'
  BY DEF UnresolvedOf, Unresolved, Pending, Of
<1>2. QED
  BY <1>1 DEF Local

\* What the verified operation is among the calls of its Run.
LEMMA OrigUnresolved ==
  ASSUME Base, exec.orig # 0
  PROVE  exec.orig \in UnresolvedOf(exec.run)
BY DEF Base, ExecOK, Hands, Mine, UnresolvedOf, Unresolved, Of

\* What the table says of a Run that is over while it is executed.
LEMMA OverTable ==
  ASSUME NEW e, NEW s, NEW u, NEW p, Table(e, s, u, p), e.pc \in Places \ {"idle"},
         e.orig # 0 => u # {} /\ e.pc \notin {"loop", "next", "return", "settle", "command"},
         e.pc \in Verifying => e.orig # 0
  PROVE  /\ s # "abandoned"
         /\ s = "limited" => e.pc = "settle"
         /\ s = "completed" => e.pc = "return" /\ u = {} /\ p = {}
         /\ s = "failed" => p = {} \/ u # {}
BY DEF Table, Places, Verifying

\* The Run in execution, in the terms of the table.
RunOver(e, s, why, u, p) ==
  /\ s # "abandoned" /\ why # "settled"
  /\ s = "completed" => e.pc = "return" /\ u = {} /\ p = {}
  /\ s = "failed" => p = {} \/ u # {}

LEMMA OverNow ==
  ASSUME Base, Local, exec.pc # "idle", NEW r \in Runs, r = exec.run
  PROVE  RunOver(exec, run[r].status, run[r].reason, UnresolvedOf(r), Pending(r))
<1>1. Table(exec, run[r].status, UnresolvedOf(r), Pending(r))
  BY DEF Local
<1>2. exec.pc \in Places
  BY ExecFields DEF Base
<1>3. exec.orig # 0 => /\ UnresolvedOf(r) # {}
                       /\ exec.pc \notin {"loop", "next", "return", "settle", "command"}
  BY OrigUnresolved DEF Base, ExecOK, Hands, Verifying
<1>4. exec.pc \in Verifying => exec.orig # 0
  BY DEF Base, ExecOK, Hands
<1>5. /\ run[r].status # "abandoned"
      /\ run[r].status = "limited" => exec.pc = "settle"
      /\ run[r].status = "completed" => exec.pc = "return" /\ UnresolvedOf(r) = {} /\ Pending(r) = {}
      /\ run[r].status = "failed" => Pending(r) = {} \/ UnresolvedOf(r) # {}
  BY <1>1, <1>2, <1>3, <1>4, OverTable
<1>6. run[r].reason = "settled" => run[r].status = "limited"
  BY DEF Base, Books
<1>7. exec.pc = "settle" => run[r].reason # "settled"
  BY DEF Local
<1>8. QED
  BY <1>5, <1>6, <1>7 DEF RunOver

LEMMA OverNext ==
  ASSUME Base', Local', exec'.pc # "idle", NEW r \in Runs, r = exec'.run
  PROVE  RunOver(exec', run'[r].status, run'[r].reason, UnresolvedOf(r)', Pending(r)')
<1>1. Table(exec', run'[r].status, UnresolvedOf(r)', Pending(r)')
  <2>1. UnresolvedOf(r)' = UnresolvedOf(exec.run)' /\ Pending(r)' = Pending(exec.run)'
    BY DEF UnresolvedOf, Unresolved, Pending, Of
  <2>2. QED
    BY <2>1 DEF Local
<1>2. exec'.pc \in Places
  BY DEF Base, TypeOK, ExecRecord, Places
<1>3. exec'.orig # 0 => /\ UnresolvedOf(r)' # {}
                        /\ exec'.pc \notin {"loop", "next", "return", "settle", "command"}
  <2>1. exec'.orig # 0 =>
          /\ exec'.orig \in Attempts /\ att'[exec'.orig].run = r /\ att'[exec'.orig].status = "unknown"
          /\ att'[exec'.orig].resolved = "no"
          /\ exec'.pc \notin {"loop", "next", "return", "settle", "command"}
    BY DEF Base, ExecOK, Hands, Mine, Verifying
  <2>2. QED
    BY <2>1 DEF UnresolvedOf, Unresolved, Of
<1>4. exec'.pc \in Verifying => exec'.orig # 0
  BY DEF Base, ExecOK, Hands
<1>5. /\ run'[r].status # "abandoned"
      /\ run'[r].status = "limited" => exec'.pc = "settle"
      /\ run'[r].status = "completed" =>
           exec'.pc = "return" /\ UnresolvedOf(r)' = {} /\ Pending(r)' = {}
      /\ run'[r].status = "failed" => Pending(r)' = {} \/ UnresolvedOf(r)' # {}
  BY <1>1, <1>2, <1>3, <1>4, OverTable
<1>6. run'[r].reason = "settled" => run'[r].status = "limited"
  BY DEF Base, Books
<1>7. exec'.pc = "settle" => run'[r].reason # "settled"
  BY DEF Local
<1>8. QED
  BY <1>5, <1>6, <1>7 DEF RunOver

LEMMA InsideStep ==
  ASSUME IInv, Base', NEW r \in Runs, r = exec.run, exec.pc # "idle",
         exec.pc = "return" => run[r].status = "running", exec'.pc # "idle", exec'.run = r,
         up' = up, Elsewhere(r), Local'
  PROVE  Global' /\ EndedKept
<1>1. \A q \in Runs : q # r => (Claims(q)' <=> Claims(q))
  BY DEF Elsewhere, Claims, Active
<1>2. \A q \in Runs : Claims(q)' => q = r
  BY <1>1 DEF IInv, Global
<1>3. RunOver(exec, run[r].status, run[r].reason, UnresolvedOf(r), Pending(r))
  BY OverNow DEF IInv
<1>4. RunOver(exec', run'[r].status, run'[r].reason, UnresolvedOf(r)', Pending(r)')
  BY OverNext
<1>5. UnresolvedBlocks'
  BY DEF UnresolvedBlocks, IInv, Global, Elsewhere, Active
<1>6. \A q \in Runs : (run[q].status = "completed" \/ run[q].reason = "settled")' => UnresolvedOf(q)' = {}
  BY <1>4 DEF IInv, Global, Elsewhere, RunOver
<1>7. \A q \in Runs : Over(q)' =>
        Pending(q)' = {} \/ (UnresolvedOf(q)' # {} /\ (exec.run = q \/ ~up)')
  BY <1>4 DEF IInv, Global, Elsewhere, RunOver, Over
<1>8. (MaxSteps = 0 => RunningIsExecuted)'
  BY DEF IInv, Global, Elsewhere, RunningIsExecuted
<1>9. EndedKept
  BY <1>3 DEF EndedKept, Elsewhere, RunOver
<1>10. QED
  BY <1>2, <1>5, <1>6, <1>7, <1>8, <1>9 DEF Global

Held == Local' /\ Global' /\ EndedKept /\ DispatchAllowed

NoneDispatched == \A a \in Attempts : att'[a].status = "dispatched" => att[a].status = "dispatched"

LEMMA InsideHeld ==
  ASSUME IInv, Base', NEW r \in Runs, r = exec.run, exec.pc # "idle",
         exec.pc = "return" => run[r].status = "running", exec'.pc # "idle", exec'.run = r,
         UNCHANGED outside, Elsewhere(r), NoneDispatched,
         Table(exec', run'[r].status, UnresolvedOf(r)', Pending(r)'),
         exec'.pc = "settle" => run'[r].reason # "settled",
         exec'.pc = "reserve" /\ run'[r].status = "failed" => att'[exec'.prev].status = "finished"
  PROVE  Held
<1>1. Local'
  BY NewPlace
<1>2. Global' /\ EndedKept
  BY <1>1, InsideStep DEF outside
<1>3. DispatchAllowed
  BY DEF NoneDispatched, DispatchAllowed
<1>4. QED
  BY <1>1, <1>2, <1>3 DEF Held

LEMMA StillHeld ==
  ASSUME IInv, Base', LifecycleAssumption, NEW r \in Runs, r = exec.run,
         exec.pc \notin {"idle", "return"}, exec'.pc \notin {"idle", "settle", "reserve"},
         exec'.run = r, Still, Table(exec', run[r].status, UnresolvedOf(r), Pending(r))
  PROVE  Held
<1>1. UnresolvedOf(r)' = UnresolvedOf(r) /\ Pending(r)' = Pending(r)
  BY DEF Still, UnresolvedOf, Unresolved, Pending, Of
<1>2. Elsewhere(r)
  BY ElsewhereBy DEF Still
<1>3. NoneDispatched
  BY DEF Still, NoneDispatched
<1>4. Table(exec', run'[r].status, UnresolvedOf(r)', Pending(r)')
  BY <1>1 DEF Still
<1>5. QED
  BY <1>2, <1>3, <1>4, InsideHeld DEF Still

LEMMA TableNow ==
  ASSUME Local, exec.pc # "idle", NEW r, r = exec.run
  PROVE  Table(exec, run[r].status, UnresolvedOf(r), Pending(r))
BY DEF Local

LEMMA NoZero ==
  ASSUME LifecycleAssumption
  PROVE  0 \notin Attempts /\ \A r : UnresolvedOf(r) \subseteq Attempts /\ UnresolvedOf(r)' \subseteq Attempts
BY DEF LifecycleAssumption, Attempts, UnresolvedOf, Of

\* Where the executor looks at what it may do next, an error leaves the rows as they are.
LEMMA FailsHeld ==
  ASSUME IInv, Base', LifecycleAssumption, NEW e \in Errors \ {"ok"}, Fails(e), Still,
         exec.pc \in {"loop", "tool", "dispatch", "reserve", "wait", "vreserve", "vquery", "vresolve",
                      "command"}
  PROVE  Held
<1>0. PICK r \in Runs : r = exec.run
  BY DEF IInv, Base, ExecOK
<1>1. ExecIs(IF exec.orig # 0 THEN "vfail" ELSE "return", exec.at, exec.todo, 0, exec.orig,
             exec.left, e)
  BY ExecFails DEF IInv, Base
<1>2. Table(exec, run[r].status, UnresolvedOf(r), Pending(r))
  BY <1>0, TableNow DEF IInv
<1>3. run[r].status \in {"running", "unknown", "failed"}
  BY <1>2 DEF Table
<1>4. run[r].status = "failed" /\ exec.orig = 0 => UnresolvedOf(r) = {} /\ Pending(r) = {}
  <2>1. SUFFICES ASSUME run[r].status = "failed", exec.orig = 0
                 PROVE  UnresolvedOf(r) = {} /\ Pending(r) = {}
    OBVIOUS
  <2>2. exec.pc = "reserve"
    BY <1>2, <2>1 DEF Table
  <2>3. UnresolvedOf(r) \subseteq {exec.prev, 0} /\ Pending(r) = {}
    BY <1>2, <2>1, <2>2 DEF Table
  <2>4. att[exec.prev].status = "finished"
    BY <1>0, <2>1, <2>2 DEF IInv, Local
  <2>5. exec.prev \notin UnresolvedOf(r)
    BY <2>4 DEF UnresolvedOf, Unresolved
  <2>6. QED
    BY <2>3, <2>5, NoZero
<1>5. Table(exec', run[r].status, UnresolvedOf(r), Pending(r))
  <2>1. CASE exec.orig # 0
    BY <1>1, <1>3, <2>1 DEF Table, ExecIs
  <2>2. CASE exec.orig = 0
    BY <1>1, <1>3, <1>4, <2>2 DEF Table, ExecIs
  <2>3. QED
    BY <2>1, <2>2
<1>6. QED
  BY <1>0, <1>1, <1>5, StillHeld DEF ExecIs

LEMMA QuietHeld ==
  ASSUME IInv, Base', LifecycleAssumption, ~WritesMayFail,
         \/ LoopStops \/ LoopUnknown \/ ToolStops \/ SettlementLost \/ DispatchRefused \/ WaitCancelled
         \/ WaitFails \/ VerifyEnds \/ VerifyQueryRefused \/ VerifyInconclusive
  PROVE  Held
<1>1. /\ Still
      /\ exec.pc \in {"loop", "tool", "dispatch", "wait", "vreserve", "vquery", "vresolve"}
  BY DEF Still, LoopStops, LoopUnknown, ToolStops, SettlementLost, DispatchRefused, WaitCancelled,
         WaitFails, VerifyEnds, VerifyQueryRefused, VerifyInconclusive
<1>2. \E e \in Errors \ {"ok"} : Fails(e)
  BY DEF Errors, LoopStops, LoopUnknown, ToolStops, SettlementLost, DispatchRefused, WaitCancelled,
         WaitFails, VerifyEnds, VerifyQueryRefused, VerifyInconclusive
<1>3. QED
  BY <1>1, <1>2, FailsHeld

LEMMA CancelHeld ==
  ASSUME IInv, Base', LifecycleAssumption, Cancel
  PROVE  Held
<1>0. PICK r \in Runs : r = exec.run
  BY DEF Cancel, IInv, Base, ExecOK
<1>1. ExecIs(exec.pc, exec.at, exec.todo, exec.prev, exec.orig, exec.left, exec.err)
  BY DEF IInv, Base, TypeOK, ExecRecord, Cancel, ExecIs
<1>2. Still /\ exec.pc \notin {"idle", "return", "settle"}
  BY DEF Cancel, Still
<1>3. Table(exec, run[r].status, UnresolvedOf(r), Pending(r))
  BY <1>0, <1>2, TableNow DEF IInv
<1>4. Table(exec', run'[r].status, UnresolvedOf(r)', Pending(r)')
  <2>1. UnresolvedOf(r)' = UnresolvedOf(r) /\ Pending(r)' = Pending(r) /\ run'[r] = run[r]
    BY <1>2 DEF Still, UnresolvedOf, Unresolved, Pending, Of
  <2>2. QED
    BY <1>1, <1>3, <2>1 DEF Table, ExecIs
<1>5. Elsewhere(r) /\ NoneDispatched
  BY <1>2, ElsewhereBy DEF Still, NoneDispatched
<1>6. exec'.pc = "reserve" /\ run'[r].status = "failed" => att'[exec'.prev].status = "finished"
  BY <1>0, <1>1, <1>2 DEF IInv, Local, ExecIs, Still
<1>7. QED
  BY <1>0, <1>1, <1>2, <1>4, <1>5, <1>6, InsideHeld DEF ExecIs, Still

LEMMA LoopListsHeld ==
  ASSUME IInv, Base', LifecycleAssumption, LoopLists
  PROVE  Held
<1>0. PICK r \in Runs : r = exec.run
  BY DEF LoopLists, IInv, Base, ExecOK
<1> DEFINE t == Pending(r)
<1>1. t \in SUBSET Attempts /\ exec.pc = "loop" /\ Listed(t) /\ Still /\ UnresolvedOf(r) = {}
  BY <1>0 DEF LoopLists, Still, Pending, Of
<1>2. ExecIs(IF t # {} THEN "next" ELSE IF run[exec.run].command THEN "command" ELSE "dispatch",
             exec.at, t, exec.prev, exec.orig, exec.left, exec.err)
  BY <1>1, ExecListed DEF IInv, Base
<1>3. exec.orig = 0
  BY <1>1 DEF IInv, Base, ExecOK, Hands, Verifying
<1>4. run[r].status = "running"
  BY <1>0, <1>1, TableNow DEF IInv, Table
<1>5. Table(exec', run[r].status, UnresolvedOf(r), Pending(r))
  BY <1>1, <1>2, <1>3, <1>4 DEF Table, ExecIs
<1>6. QED
  BY <1>0, <1>1, <1>2, <1>5, StillHeld DEF ExecIs

LEMMA NextCallHeld ==
  ASSUME IInv, Base', LifecycleAssumption, NextCall
  PROVE  Held
<1>0. PICK r \in Runs : r = exec.run
  BY DEF NextCall, IInv, Base, ExecOK
<1>1. exec.pc = "next" /\ Still /\ exec.orig = 0
  BY DEF NextCall, Still, IInv, Base, ExecOK, Hands, Verifying
<1>2. Table(exec, run[r].status, UnresolvedOf(r), Pending(r))
  BY <1>0, <1>1, TableNow DEF IInv
<1>3. exec'.run = exec.run /\ exec'.orig = 0 /\ exec'.pc \in {"loop", "tool"}
  <2>1. exec \in ExecRecord
    BY DEF IInv, Base, TypeOK
  <2>2. CASE exec' = [exec EXCEPT !.pc = "loop"]
    BY <1>1, <2>1, <2>2 DEF ExecRecord
  <2>3. ASSUME NEW a \in exec.todo, exec' = [exec EXCEPT !.pc = "tool", !.at = a, !.todo = exec.todo \ {a}]
        PROVE  exec'.run = exec.run /\ exec'.orig = 0 /\ exec'.pc \in {"loop", "tool"}
    BY <1>1, <2>1, <2>3 DEF ExecRecord
  <2>4. QED
    BY <2>2, <2>3 DEF NextCall, Goto
<1>4. Table(exec', run[r].status, UnresolvedOf(r), Pending(r))
  BY <1>1, <1>2, <1>3 DEF Table
<1>5. QED
  BY <1>0, <1>1, <1>3, <1>4, StillHeld

\* The Run's row is written, no Attempt is.
LEMMA RunHeld ==
  ASSUME IInv, Base', LifecycleAssumption, NEW r \in Runs, r = exec.run,
         exec.pc \notin {"idle", "return"}, exec'.pc \notin {"idle", "settle", "reserve"},
         exec'.run = r, NEW s, NEW why, RunIs(r, s, why), UNCHANGED <<att, outside>>,
         Table(exec', s, UnresolvedOf(r), Pending(r))
  PROVE  Held
<1>1. UnresolvedOf(r)' = UnresolvedOf(r) /\ Pending(r)' = Pending(r)
  BY DEF UnresolvedOf, Unresolved, Pending, Of
<1>2. Elsewhere(r)
  BY ElsewhereBy DEF RunIs
<1>3. NoneDispatched
  BY DEF NoneDispatched
<1>4. Table(exec', run'[r].status, UnresolvedOf(r)', Pending(r)')
  BY <1>1 DEF RunIs
<1>5. QED
  BY <1>2, <1>3, <1>4, InsideHeld

LEMMA FinishCommandHeld ==
  ASSUME IInv, Base', LifecycleAssumption, FinishCommand
  PROVE  Held
<1>0. PICK r \in Runs : r = exec.run
  BY DEF FinishCommand, IInv, Base, ExecOK
<1>1. exec.pc = "command" /\ UNCHANGED <<att, steer, outside>>
  BY DEF FinishCommand
<1>2. CASE (Fails("stop") \/ Fails("unknown")) /\ UNCHANGED run
  BY <1>1, <1>2, FailsHeld DEF Still, Errors
<1>3. ASSUME NEW s \in {"completed", "failed"}, run' = SetStatus(exec.run, s), Goto("return")
      PROVE  Held
  <2>1. RunIs(r, s, "")
    BY <1>0, <1>3, RunSetStatus DEF IInv, Base, Statuses
  <2>2. ExecIs("return", exec.at, exec.todo, exec.prev, exec.orig, exec.left, exec.err)
    BY <1>3, ExecGoto DEF IInv, Base, Places
  <2>3. UnresolvedOf(r) = {} /\ Pending(r) = {}
    BY <1>0, <1>1, TableNow DEF IInv, Table
  <2>4. Table(exec', s, UnresolvedOf(r), Pending(r))
    BY <1>3, <2>2, <2>3 DEF Table, ExecIs
  <2>5. QED
    BY <1>0, <1>1, <2>1, <2>2, <2>4, RunHeld DEF ExecIs
<1>4. QED
  BY <1>2, <1>3 DEF FinishCommand

\* Adoption closes the Run's pending calls.
LEMMA ClosedElsewhere ==
  ASSUME Base, LifecycleAssumption, NEW r \in Runs, ClosedBy(r), \A q \in Runs : q # r => run'[q] = run[q]
  PROVE  Elsewhere(r) /\ NoneDispatched /\ Pending(r)' = {} /\ UnresolvedOf(r)' = UnresolvedOf(r)
<1>1. /\ Pending(r)' = {} /\ \A q : q # r => Pending(q)' = Pending(q)
  BY CloseRows
<1>2. \A q : UnresolvedOf(q)' = UnresolvedOf(q)
  BY CloseRows
<1>3. Settles /\ \A a \in Attempts : att[a].status # "pending" => att'[a] = att[a]
  BY CloseRows
<1>4. NoneDispatched
  <2>1. ASSUME NEW a \in Attempts, att[a].status = "pending" PROVE att'[a].status # "dispatched"
    <3>1. att'[a] = IF a \in Pending(r) THEN [att[a] EXCEPT !.status = "finished"] ELSE att[a]
      BY <2>1 DEF ClosedBy
    <3>2. att[a] \in AttemptRecord
      BY DEF Base, TypeOK
    <3>3. [att[a] EXCEPT !.status = "finished"].status = "finished"
      BY <3>2 DEF AttemptRecord
    <3>4. QED
      BY <2>1, <3>1, <3>3
  <2>2. QED
    BY <1>3, <2>1 DEF NoneDispatched
<1>5. QED
  BY <1>1, <1>2, <1>4 DEF Elsewhere

LEMMA LoopAdoptsHeld ==
  ASSUME IInv, Base', LifecycleAssumption, LoopAdopts
  PROVE  Held
<1>0. PICK r \in Runs : r = exec.run
  BY DEF LoopAdopts, IInv, Base, ExecOK
<1>1. exec.pc = "loop" /\ Adopt(r) /\ Listed({}) /\ UNCHANGED outside /\ UnresolvedOf(r) = {}
  BY <1>0 DEF LoopAdopts
<1>2. ClosedBy(r) /\ RunIs(r, "running", "")
  BY <1>1, AdoptRows DEF IInv
<1>3. Elsewhere(r) /\ NoneDispatched /\ Pending(r)' = {} /\ UnresolvedOf(r)' = UnresolvedOf(r)
  BY <1>2, ClosedElsewhere DEF RunIs, IInv
<1>4. ExecIs(IF run[exec.run].command THEN "command" ELSE "dispatch", exec.at, {}, exec.prev,
             exec.orig, exec.left, exec.err)
  BY <1>1, ExecListed DEF IInv, Base
<1>5. Table(exec', "running", {}, {})
  BY <1>4 DEF Table, ExecIs
<1>6. QED
  BY <1>0, <1>1, <1>2, <1>3, <1>4, <1>5, InsideHeld DEF ExecIs, RunIs

\* One row of the Run is written.
LEMMA OneRow ==
  ASSUME LifecycleAssumption, NEW r \in Runs, NEW a \in Attempts, att[a].run = r, att'[a].run = r,
         \A b \in Attempts : b # a => att'[b] = att[b], \A q \in Runs : q # r => run'[q] = run[q]
  PROVE  /\ Elsewhere(r)
         /\ UnresolvedOf(r)' = IF att'[a].status \in {"dispatched", "unknown"} /\ att'[a].resolved = "no"
                               THEN UnresolvedOf(r) \cup {a} ELSE UnresolvedOf(r) \ {a}
         /\ Pending(r)' = IF att'[a].status = "pending" THEN Pending(r) \cup {a} ELSE Pending(r) \ {a}
<1>1. Elsewhere(r)
  BY ElsewhereBy
<1>2. /\ UnresolvedOf(r)' = IF Unresolved(a)' THEN UnresolvedOf(r) \cup {a} ELSE UnresolvedOf(r) \ {a}
      /\ Pending(r)' = IF att'[a].status = "pending" THEN Pending(r) \cup {a} ELSE Pending(r) \ {a}
  BY OneCall
<1>3. QED
  BY <1>1, <1>2 DEF Unresolved

\* The call in hand, and what an answer to it leaves.
LEMMA InHand ==
  ASSUME Base, exec.pc \in {"tool", "toolcall", "modelcall"}
  PROVE  /\ exec.at \in Attempts /\ att[exec.at].run = exec.run /\ exec.run \in Runs /\ exec.prev = 0
         /\ exec.pc \in {"toolcall", "modelcall"} => att[exec.at].status = "dispatched"
BY DEF Base, ExecOK, Hands, Mine

CallIs(a, s) == att' = [att EXCEPT ![a].status = s]

LEMMA CallAnswered ==
  ASSUME Base, LifecycleAssumption, NEW a \in Attempts, NEW r \in Runs, att[a].run = r,
         att[a].status \in {"pending", "dispatched"},
         NEW s \in CallStatuses, CallIs(a, s), \A q \in Runs : q # r => run'[q] = run[q]
  PROVE  /\ Elsewhere(r)
         /\ UnresolvedOf(r)' = IF s \in {"dispatched", "unknown"} THEN UnresolvedOf(r) \cup {a}
                               ELSE UnresolvedOf(r) \ {a}
         /\ s # "pending" => Pending(r)' = Pending(r) \ {a}
         /\ s # "dispatched" => NoneDispatched
         /\ att'[a].status = s /\ att'[a].purpose = att[a].purpose
         /\ \A b \in Attempts : b # a => att'[b] = att[b]
<1>1. /\ att' \in [Attempts -> AttemptRecord] /\ \A b \in Attempts : b # a => att'[b] = att[b]
      /\ att'[a].status = s /\ att'[a].run = att[a].run /\ att'[a].purpose = att[a].purpose
      /\ att'[a].resolved = att[a].resolved
  BY CallSet DEF Base, CallIs
<1>2. att[a].resolved = "no"
  <2>1. RowOK(a)
    BY DEF Base, Books
  <2>2. QED
    BY <2>1 DEF RowOK
<1>3. /\ Elsewhere(r)
      /\ UnresolvedOf(r)' = IF att'[a].status \in {"dispatched", "unknown"} /\ att'[a].resolved = "no"
                            THEN UnresolvedOf(r) \cup {a} ELSE UnresolvedOf(r) \ {a}
      /\ Pending(r)' = IF att'[a].status = "pending" THEN Pending(r) \cup {a} ELSE Pending(r) \ {a}
  BY <1>1, OneRow
<1>4. s # "dispatched" => NoneDispatched
  BY <1>1 DEF NoneDispatched
<1>5. QED
  BY <1>1, <1>2, <1>3, <1>4

LEMMA CallFinished ==
  ASSUME Base, LifecycleAssumption, NEW a \in Attempts, NEW r \in Runs, att[a].run = r,
         att[a].status \in {"pending", "dispatched"}, CallIs(a, "finished"),
         \A q \in Runs : q # r => run'[q] = run[q]
  PROVE  /\ Elsewhere(r) /\ NoneDispatched /\ UnresolvedOf(r)' = UnresolvedOf(r) \ {a}
         /\ Pending(r)' = Pending(r) \ {a} /\ att'[a].status = "finished"
BY CallAnswered DEF CallStatuses

LEMMA CallDispatched ==
  ASSUME Base, LifecycleAssumption, NEW a \in Attempts, NEW r \in Runs, att[a].run = r,
         att[a].status = "pending", CallIs(a, "dispatched"), \A q \in Runs : q # r => run'[q] = run[q]
  PROVE  /\ Elsewhere(r) /\ UnresolvedOf(r)' = UnresolvedOf(r) \cup {a}
         /\ att'[a].purpose = att[a].purpose /\ \A b \in Attempts : b # a => att'[b] = att[b]
BY CallAnswered DEF CallStatuses

LEMMA ToolEndsHeld ==
  ASSUME IInv, Base', LifecycleAssumption, ToolNotRun \/ ToolAnswers
  PROVE  Held
<1>0. PICK r \in Runs, a \in Attempts : r = exec.run /\ a = exec.at /\ att[a].run = r
  BY InHand DEF ToolNotRun, ToolAnswers, IInv
<1>1. /\ exec.pc \in {"tool", "toolcall"} /\ UNCHANGED <<run, outside>> /\ ToolDone
      /\ CallIs(a, "finished")
  BY <1>0 DEF ToolNotRun, ToolAnswers, CallIs
<1>2. att[a].status \in {"pending", "dispatched"} /\ (exec.pc = "tool" => att[a].status = "pending")
  BY <1>0, InHand DEF ToolNotRun, ToolAnswers, IInv
<1>3. Elsewhere(r) /\ UnresolvedOf(r)' = UnresolvedOf(r) \ {a} /\ NoneDispatched
  BY <1>0, <1>1, <1>2, CallFinished DEF IInv
<1>4. IF exec.orig # 0
      THEN ExecIs("vquery", exec.at, exec.todo, exec.prev, exec.orig, exec.left - 1, exec.err)
      ELSE ExecIs("next", exec.at, exec.todo, exec.prev, exec.orig, exec.left, exec.err)
  BY <1>1, ExecToolDone DEF IInv, Base, ExecOK, Hands
<1>5. Table(exec, run[r].status, UnresolvedOf(r), Pending(r))
  BY <1>0, <1>1, TableNow DEF IInv
<1>6. exec.pc = "tool" => UnresolvedOf(r)' = UnresolvedOf(r)
  <2>1. exec.pc = "tool" => a \notin UnresolvedOf(r)
    BY <1>2 DEF UnresolvedOf, Unresolved
  <2>2. QED
    BY <1>3, <2>1
<1>7. exec.pc = "toolcall" => UnresolvedOf(r)' \subseteq {exec.orig}
  BY <1>0, <1>3, <1>5 DEF Table
<1>8. Table(exec', run[r].status, UnresolvedOf(r)', Pending(r)')
  <2>1. CASE exec.pc = "tool"
    BY <1>4, <1>5, <1>6, <2>1 DEF Table, ExecIs
  <2>2. CASE exec.pc = "toolcall" /\ exec.orig # 0
    BY <1>4, <1>5, <1>7, <2>2 DEF Table, ExecIs
  <2>3. CASE exec.pc = "toolcall" /\ exec.orig = 0
    <3>1. UnresolvedOf(r)' = {}
      BY <1>7, <2>3, NoZero
    <3>2. QED
      BY <1>4, <1>5, <2>3, <3>1 DEF Table, ExecIs
  <2>4. QED
    BY <1>1, <2>1, <2>2, <2>3
<1>9. QED
  BY <1>0, <1>1, <1>3, <1>4, <1>8, InsideHeld DEF ExecIs

LEMMA ToolAwaitsHeld ==
  ASSUME IInv, Base', LifecycleAssumption, ToolAwaits
  PROVE  Held
<1>0. PICK r \in Runs : r = exec.run
  BY DEF ToolAwaits, IInv, Base, ExecOK
<1>1. exec.pc = "tool" /\ exec.orig = 0 /\ UNCHANGED <<att, outside>>
  BY DEF ToolAwaits
<1>2. RunIs(r, "waiting_confirmation", "")
  BY <1>0, RunSetStatus DEF IInv, Base, Statuses, ToolAwaits
<1>3. ExecIs("return", exec.at, exec.todo, exec.prev, exec.orig, exec.left, exec.err)
  BY ExecGoto DEF IInv, Base, Places, ToolAwaits
<1>4. Table(exec', "waiting_confirmation", UnresolvedOf(r), Pending(r))
  BY <1>3 DEF Table, ExecIs
<1>5. QED
  BY <1>0, <1>1, <1>2, <1>3, <1>4, RunHeld DEF ExecIs

\* The rows a decided proposal leaves.
LEMMA ProposalSets ==
  ASSUME Base, LifecycleAssumption, NEW r \in Runs, NEW a \in Attempts, NEW applied \in BOOLEAN,
         SettleProposal(r, a, applied)
  PROVE  /\ Elsewhere(r) /\ NoneDispatched /\ UnresolvedOf(r)' = UnresolvedOf(r) /\ Pending(r)' = {}
         /\ \/ /\ run[r].status \in {"waiting_confirmation", "stopped", "running"}
               /\ run'[r].status = (IF applied THEN "completed" ELSE "running") /\ run'[r].reason = ""
            \/ /\ run[r].status \notin {"waiting_confirmation", "stopped", "running"} /\ run' = run
<1>1. /\ Pending(r) = {a} /\ att[a].status = "pending" /\ att[a].run = r
      /\ CallIs(a, "finished")
  BY DEF SettleProposal, Pending, Of, CallIs
<1>2. /\ \A q \in Runs : q # r => run'[q] = run[q]
      /\ \/ /\ run[r].status \in {"waiting_confirmation", "stopped", "running"}
            /\ run'[r].status = (IF applied THEN "completed" ELSE "running") /\ run'[r].reason = ""
         \/ /\ run[r].status \notin {"waiting_confirmation", "stopped", "running"} /\ run' = run
  <2>1. CASE run[r].status \in {"waiting_confirmation", "stopped", "running"}
    <3>1. PICK s \in Statuses : s = (IF applied THEN "completed" ELSE "running")
      BY DEF Statuses
    <3>2. run' = SetStatus(r, s)
      BY <2>1, <3>1 DEF SettleProposal
    <3>3. RunIs(r, s, "")
      BY <3>2, RunSetStatus DEF Base
    <3>4. QED
      BY <2>1, <3>1, <3>3 DEF RunIs
  <2>2. CASE run[r].status \notin {"waiting_confirmation", "stopped", "running"}
    BY <2>2 DEF SettleProposal
  <2>3. QED
    BY <2>1, <2>2
<1>3. /\ Elsewhere(r) /\ NoneDispatched /\ UnresolvedOf(r)' = UnresolvedOf(r) \ {a}
      /\ Pending(r)' = Pending(r) \ {a}
  BY <1>1, <1>2, CallFinished
<1>4. UnresolvedOf(r) \ {a} = UnresolvedOf(r) /\ Pending(r) \ {a} = {}
  BY <1>1 DEF UnresolvedOf, Unresolved
<1>5. /\ Elsewhere(r) /\ NoneDispatched /\ UnresolvedOf(r)' = UnresolvedOf(r)
      /\ Pending(r)' = {}
  BY <1>3, <1>4
<1>6. QED
  BY <1>2, <1>5

LEMMA ToolDecidesHeld ==
  ASSUME IInv, Base', LifecycleAssumption, NEW applied \in BOOLEAN, ToolDecides(applied)
  PROVE  Held
<1>0. PICK r \in Runs, a \in Attempts : r = exec.run /\ a = exec.at
  BY InHand DEF ToolDecides, IInv
<1>1. exec.pc = "tool" /\ exec.orig = 0 /\ UNCHANGED outside /\ SettleProposal(r, a, applied)
  BY <1>0 DEF ToolDecides
<1>2. /\ Elsewhere(r) /\ NoneDispatched /\ UnresolvedOf(r)' = UnresolvedOf(r) /\ Pending(r)' = {}
      /\ \/ /\ run[r].status \in {"waiting_confirmation", "stopped", "running"}
            /\ run'[r].status = (IF applied THEN "completed" ELSE "running") /\ run'[r].reason = ""
         \/ /\ run[r].status \notin {"waiting_confirmation", "stopped", "running"} /\ run' = run
  BY <1>1, ProposalSets DEF IInv
<1>3. ExecIs(IF applied THEN "return" ELSE "next", exec.at, exec.todo, exec.prev, exec.orig,
             exec.left, exec.err)
  BY ExecGoto DEF IInv, Base, Places, ToolDecides
<1>4. Table(exec, run[r].status, UnresolvedOf(r), Pending(r))
  BY <1>0, <1>1, TableNow DEF IInv
<1>5. \/ run[r].status = "running" /\ UnresolvedOf(r) = {}
      \/ run[r].status = "unknown" /\ UnresolvedOf(r) # {}
  BY <1>1, <1>4 DEF Table
<1>6. Table(exec', run'[r].status, UnresolvedOf(r)', Pending(r)')
  BY <1>1, <1>2, <1>3, <1>5 DEF Table, ExecIs
<1>7. QED
  BY <1>0, <1>1, <1>2, <1>3, <1>6, InsideHeld DEF ExecIs

LEMMA ToolDispatchHeld ==
  ASSUME IInv, Base', LifecycleAssumption, ToolDispatch
  PROVE  Held
<1>0. PICK r \in Runs, a \in Attempts : r = exec.run /\ a = exec.at /\ att[a].run = r
  BY InHand DEF ToolDispatch, IInv
<1>1. exec.pc = "tool" /\ UNCHANGED <<steer, outside>> /\ exec.prev = 0
  BY InHand DEF ToolDispatch, IInv
<1>2. Table(exec, run[r].status, UnresolvedOf(r), Pending(r))
  BY <1>0, <1>1, TableNow DEF IInv
<1>3. CASE Fails("input") /\ UNCHANGED <<run, att>>
  BY <1>1, <1>3, FailsHeld DEF Still, Errors
<1>4. CASE exec.orig = 0 /\ Goto("next") /\ UNCHANGED <<run, att>>
  <2>1. ExecIs("next", exec.at, exec.todo, exec.prev, exec.orig, exec.left, exec.err)
    BY <1>4, ExecGoto DEF IInv, Base, Places
  <2>2. Table(exec', run[r].status, UnresolvedOf(r), Pending(r))
    BY <1>1, <1>2, <1>4, <2>1 DEF Table, ExecIs
  <2>3. QED
    BY <1>0, <1>1, <1>4, <2>1, <2>2, StillHeld DEF ExecIs, Still
<1>5. CASE Fails(StepError) /\ UNCHANGED <<run, att>>
  BY <1>1, <1>5, FailsHeld DEF Still, Errors, StepError
<1>6. CASE /\ MayStep(exec.run) /\ att[exec.at].status = "pending"
           /\ att' = [att EXCEPT ![exec.at].status = "dispatched"]
           /\ run' = Stepped(exec.run) /\ Goto("toolcall")
  <2>1. RunIs(r, run[r].status, run[r].reason) /\ run[r].status = "running"
    BY <1>0, <1>6, RunStepped DEF IInv, Base, MayStep
  <2>2. /\ Elsewhere(r) /\ UnresolvedOf(r)' = UnresolvedOf(r) \cup {a}
        /\ att'[a].purpose = att[a].purpose /\ \A b \in Attempts : b # a => att'[b] = att[b]
    <3>1. CallIs(a, "dispatched") /\ att[a].status = "pending"
      BY <1>0, <1>6 DEF CallIs
    <3>2. QED
      BY <1>0, <2>1, <3>1, CallDispatched DEF IInv, RunIs
  <2>3. ExecIs("toolcall", exec.at, exec.todo, exec.prev, exec.orig, exec.left, exec.err)
    BY <1>6, ExecGoto DEF IInv, Base, Places
  <2>4. UnresolvedOf(r) \subseteq {exec.orig}
    BY <1>1, <1>2, <2>1 DEF Table
  <2>5. Table(exec', run'[r].status, UnresolvedOf(r)', Pending(r)')
    BY <1>0, <2>1, <2>2, <2>3, <2>4 DEF Table, ExecIs, RunIs
  <2>6. Local'
    BY <1>0, <2>3, <2>5, NewPlace DEF ExecIs
  <2>7. Global' /\ EndedKept
    BY <1>0, <1>1, <2>2, <2>3, <2>6, InsideStep DEF ExecIs, outside
  <2>8. DispatchAllowed
    <3>1. ASSUME NEW b \in Attempts, b # a, att[b].run = r, Unresolved(b)
          PROVE  b = exec.orig /\ att'[a].purpose = "verify"
      <4>1. b \in UnresolvedOf(r)
        BY <3>1 DEF UnresolvedOf, Of
      <4>2. b = exec.orig /\ b # 0
        BY <2>4, <4>1, NoZero
      <4>3. att[a].purpose = "verify"
        BY <1>0, <1>1, <4>2 DEF IInv, Base, ExecOK, Hands
      <4>4. QED
        BY <2>2, <4>2, <4>3
    <3>2. att'[a].run = r
      BY <1>0, <1>6, CallSet DEF IInv, Base, CallStatuses
    <3>3. \A c \in Attempts : att[c].status # "dispatched" /\ att'[c].status = "dispatched" => c = a
      BY <2>2
    <3>4. QED
      BY <3>1, <3>2, <3>3 DEF DispatchAllowed
  <2>9. QED
    BY <2>6, <2>7, <2>8 DEF Held
<1>7. QED
  BY <1>3, <1>4, <1>5, <1>6 DEF ToolDispatch, SteeredAway

LEMMA MarkUnknownSets ==
  ASSUME Base, LifecycleAssumption, NEW r \in Runs, NEW a \in Attempts, att[a].run = r,
         att[a].status = "dispatched", MarkUnknown(a)
  PROVE  /\ Elsewhere(r) /\ NoneDispatched /\ UnresolvedOf(r)' = UnresolvedOf(r) \cup {a}
         /\ Pending(r)' = Pending(r) \ {a} /\ run'[r].status = "unknown" /\ run'[r].reason = ""
<1>1. RunIs(r, "unknown", "")
  BY MarkUnknownRows
<1>2. /\ Elsewhere(r) /\ NoneDispatched /\ UnresolvedOf(r)' = UnresolvedOf(r) \cup {a}
      /\ Pending(r)' = Pending(r) \ {a}
  <2>1. PICK s \in CallStatuses : s = "unknown"
    BY DEF CallStatuses
  <2>2. \A q \in Runs : q # r => run'[q] = run[q]
    BY <1>1 DEF RunIs
  <2>3. CallIs(a, s)
    BY <2>1 DEF MarkUnknown, CallIs
  <2>4. s \in {"dispatched", "unknown"} /\ s # "pending" /\ s # "dispatched"
    BY <2>1
  <2>5. QED
    BY <2>2, <2>3, <2>4, CallAnswered
<1>3. QED
  BY <1>1, <1>2 DEF RunIs

LEMMA ToolUncertainHeld ==
  ASSUME IInv, Base', LifecycleAssumption, ToolUncertain
  PROVE  Held
<1>0. PICK r \in Runs, a \in Attempts :
        r = exec.run /\ a = exec.at /\ att[a].run = r /\ att[a].status = "dispatched"
  BY InHand DEF ToolUncertain, IInv
<1>1. exec.pc = "toolcall" /\ UNCHANGED outside /\ MarkUnknown(a)
  BY <1>0 DEF ToolUncertain
<1>2. /\ Elsewhere(r) /\ NoneDispatched /\ UnresolvedOf(r)' = UnresolvedOf(r) \cup {a}
      /\ run'[r].status = "unknown" /\ run'[r].reason = ""
  BY <1>0, <1>1, MarkUnknownSets DEF IInv
<1>3. UnresolvedOf(r)' \subseteq {a, exec.orig}
  BY <1>0, <1>1, <1>2, TableNow DEF IInv, Table
<1>4. CASE exec.orig = 0 /\ exec' = [exec EXCEPT !.pc = "vreserve", !.orig = exec.at]
  <2>1. ExecIs("vreserve", exec.at, exec.todo, exec.prev, exec.at, exec.left, exec.err)
    BY <1>4 DEF IInv, Base, TypeOK, ExecRecord, ExecIs
  <2>2. UnresolvedOf(r)' \subseteq {a}
    BY <1>3, <1>4, NoZero
  <2>3. Table(exec', run'[r].status, UnresolvedOf(r)', Pending(r)')
    BY <1>0, <1>2, <2>1, <2>2 DEF Table, ExecIs
  <2>4. QED
    BY <1>0, <1>1, <1>2, <2>1, <2>3, InsideHeld DEF ExecIs
<1>5. CASE Fails("unknown")
  <2>1. ExecIs(IF exec.orig # 0 THEN "vfail" ELSE "return", exec.at, exec.todo, 0, exec.orig,
               exec.left, "unknown")
    BY <1>5, ExecFails DEF IInv, Base, Errors
  <2>2. Table(exec', run'[r].status, UnresolvedOf(r)', Pending(r)')
    BY <1>2, <2>1 DEF Table, ExecIs
  <2>3. QED
    BY <1>0, <1>1, <1>2, <2>1, <2>2, InsideHeld DEF ExecIs
<1>6. QED
  BY <1>4, <1>5 DEF ToolUncertain

LEMMA ModelFailsHeld ==
  ASSUME IInv, Base', LifecycleAssumption, ModelFails
  PROVE  Held
<1>0. PICK r \in Runs, a \in Attempts :
        r = exec.run /\ a = exec.at /\ att[a].run = r /\ att[a].status = "dispatched"
  BY InHand DEF ModelFails, IInv
<1>1. /\ exec.pc = "modelcall" /\ UNCHANGED outside /\ CallIs(a, "finished")
      /\ run' = SetStatus(r, "failed") /\ RetryOr("stop")
  BY <1>0 DEF ModelFails, CallIs
<1>2. RunIs(r, "failed", "")
  BY <1>1, RunSetStatus DEF IInv, Base, Statuses
<1>3. /\ Elsewhere(r) /\ NoneDispatched /\ UnresolvedOf(r)' = UnresolvedOf(r) \ {a}
      /\ Pending(r)' = Pending(r) \ {a} /\ att'[a].status = "finished"
  BY <1>0, <1>1, <1>2, CallFinished DEF IInv, RunIs
<1>4. UnresolvedOf(r)' \subseteq {exec.orig} /\ (exec.orig = 0 => Pending(r)' = {})
  BY <1>0, <1>1, <1>3, TableNow DEF IInv, Table
<1>5. run'[r].status = "failed" /\ run'[r].reason = ""
  BY <1>2 DEF RunIs
<1>6. exec.orig = 0 => UnresolvedOf(r)' = {}
  BY <1>4, NoZero
<1>7. CASE exec' = [exec EXCEPT !.pc = "reserve", !.prev = exec.at]
  <2>1. ExecIs("reserve", exec.at, exec.todo, exec.at, exec.orig, exec.left, exec.err)
    BY <1>7 DEF IInv, Base, TypeOK, ExecRecord, ExecIs
  <2>2. Table(exec', run'[r].status, UnresolvedOf(r)', Pending(r)')
    BY <1>4, <1>5, <2>1 DEF Table, ExecIs
  <2>3. QED
    BY <1>0, <1>1, <1>3, <2>1, <2>2, InsideHeld DEF ExecIs
<1>8. CASE Fails("stop")
  <2>1. ExecIs(IF exec.orig # 0 THEN "vfail" ELSE "return", exec.at, exec.todo, 0, exec.orig,
               exec.left, "stop")
    BY <1>8, ExecFails DEF IInv, Base, Errors
  <2>2. Table(exec', run'[r].status, UnresolvedOf(r)', Pending(r)')
    BY <1>4, <1>5, <1>6, <2>1 DEF Table, ExecIs
  <2>3. QED
    BY <1>0, <1>1, <1>3, <2>1, <2>2, InsideHeld DEF ExecIs
<1>9. QED
  BY <1>1, <1>7, <1>8 DEF RetryOr

LEMMA ModelUncertainHeld ==
  ASSUME IInv, Base', LifecycleAssumption, ModelUncertain
  PROVE  Held
<1>0. PICK r \in Runs, a \in Attempts :
        r = exec.run /\ a = exec.at /\ att[a].run = r /\ att[a].status = "dispatched"
  BY InHand DEF ModelUncertain, IInv
<1>1. exec.pc = "modelcall" /\ UNCHANGED outside /\ MarkUnknown(a) /\ RetryOr("unknown")
  BY <1>0 DEF ModelUncertain
<1>2. /\ Elsewhere(r) /\ NoneDispatched /\ UnresolvedOf(r)' = UnresolvedOf(r) \cup {a}
      /\ Pending(r)' = Pending(r) \ {a} /\ run'[r].status = "unknown" /\ run'[r].reason = ""
  BY <1>0, <1>1, MarkUnknownSets DEF IInv
<1>3. UnresolvedOf(r)' \subseteq {a, exec.orig} /\ (exec.orig = 0 => Pending(r)' = {})
  BY <1>0, <1>1, <1>2, TableNow DEF IInv, Table
<1>4. CASE exec' = [exec EXCEPT !.pc = "reserve", !.prev = exec.at]
  <2>1. ExecIs("reserve", exec.at, exec.todo, exec.at, exec.orig, exec.left, exec.err)
    BY <1>4 DEF IInv, Base, TypeOK, ExecRecord, ExecIs
  <2>2. Table(exec', run'[r].status, UnresolvedOf(r)', Pending(r)')
    BY <1>0, <1>2, <1>3, <2>1 DEF Table, ExecIs
  <2>3. QED
    BY <1>0, <1>1, <1>2, <2>1, <2>2, InsideHeld DEF ExecIs
<1>5. CASE Fails("unknown")
  <2>1. ExecIs(IF exec.orig # 0 THEN "vfail" ELSE "return", exec.at, exec.todo, 0, exec.orig,
               exec.left, "unknown")
    BY <1>5, ExecFails DEF IInv, Base, Errors
  <2>2. Table(exec', run'[r].status, UnresolvedOf(r)', Pending(r)')
    BY <1>2, <2>1 DEF Table, ExecIs
  <2>3. QED
    BY <1>0, <1>1, <1>2, <2>1, <2>2, InsideHeld DEF ExecIs
<1>6. QED
  BY <1>1, <1>4, <1>5 DEF RetryOr

\* A marker beside the calls is written, and no call changes.
LEMMA SameSets ==
  ASSUME SameCalls, LifecycleAssumption, NEW r \in Runs, \A q \in Runs : q # r => run'[q] = run[q]
  PROVE  /\ Elsewhere(r) /\ NoneDispatched
         /\ UnresolvedOf(r)' = UnresolvedOf(r) /\ Pending(r)' = Pending(r)
<1>1. \A q : UnresolvedOf(q)' = UnresolvedOf(q) /\ Pending(q)' = Pending(q)
  BY DEF SameCalls, UnresolvedOf, Unresolved, Pending, Of
<1>2. QED
  BY <1>1 DEF SameCalls, Elsewhere, NoneDispatched

\* startGuardedModel: x is inserted, and what it replaces is marked.
DispatchedAt(r, x) ==
  /\ att[x] = NoAttempt
  /\ att'[x].status = "dispatched" /\ att'[x].run = r /\ att'[x].resolved = "no"
  /\ att'[x].purpose = Purpose
  /\ \A b \in Attempts : b # x /\ b # exec.prev => att'[b] = att[b]
  /\ \A b \in Attempts : b # x /\ b = exec.prev =>
       /\ att[b].status \in {"finished", "unknown"} /\ att'[b].status = att[b].status
       /\ att'[b].run = r /\ att[b].run = r /\ att'[b].resolved = "replaced"

LEMMA DispatchRows ==
  ASSUME Base, LifecycleAssumption, Dispatch, NEW r \in Runs, r = exec.run,
         ~(Purpose = "chat" /\ steer[exec.run] > 0), MayStep(exec.run)
  PROVE  \E x \in Attempts : /\ DispatchedAt(r, x)
                             /\ exec' = [exec EXCEPT !.pc = "modelcall", !.at = x, !.prev = 0]
                             /\ run' = Stepped(r)
<1>a. PICK x \in Attempts, p \in {exec.prev}, u \in {Purpose} : x = Fresh /\ p = exec.prev /\ u = Purpose
  BY DEF Dispatch
<1>b. PICK o, n : /\ o = (IF p = 0 THEN x ELSE att[p].root)
                  /\ n = (IF p = 0 THEN 0 ELSE att[p].number + 1)
  OBVIOUS
<1>c. /\ att' = [b \in Attempts |->
                   IF b = x THEN ModelRow(r, u, o, n)
                   ELSE IF b = p THEN [att[b] EXCEPT !.resolved = "replaced"]
                   ELSE att[b]]
      /\ exec' = [exec EXCEPT !.pc = "modelcall", !.at = x, !.prev = 0]
      /\ run' = Stepped(r)
  BY <1>a, <1>b DEF Dispatch, ModelRow
<1>1. att[x] = NoAttempt
  <2>1. Fresh \in Nat \ {0} /\ \A a \in Attempts : a < Fresh <=> att[a].status # "free"
    BY FreshRow DEF Base
  <2>2. att[x].status = "free"
    BY <1>a, <2>1
  <2>3. RowOK(x)
    BY DEF Base, Books
  <2>4. QED
    BY <2>2, <2>3 DEF RowOK
<1>2. /\ ModelRow(r, u, o, n).status = "dispatched" /\ ModelRow(r, u, o, n).run = r
      /\ ModelRow(r, u, o, n).resolved = "no" /\ ModelRow(r, u, o, n).purpose = u
  BY DEF ModelRow, NoAttempt
<1>3. att'[x] = ModelRow(r, u, o, n)
  BY <1>c
<1>4. \A b \in Attempts : b # x /\ b # p => att'[b] = att[b]
  BY <1>c
<1>5. \A b \in Attempts : b # x /\ b = p =>
        /\ att[b].status \in {"finished", "unknown"} /\ att'[b].status = att[b].status
        /\ att'[b].run = r /\ att[b].run = r /\ att'[b].resolved = "replaced"
  <2>1. SUFFICES ASSUME NEW b \in Attempts, b # x, b = p
                 PROVE  /\ att[b].status \in {"finished", "unknown"} /\ att'[b].status = att[b].status
                        /\ att'[b].run = r /\ att[b].run = r /\ att'[b].resolved = "replaced"
    OBVIOUS
  <2>2. att'[b] = [att[b] EXCEPT !.resolved = "replaced"] /\ att[b] \in AttemptRecord
    BY <1>c, <2>1 DEF Base, TypeOK
  <2>3. b # 0
    BY <2>1 DEF Attempts, LifecycleAssumption
  <2>4. att[b].status \in {"finished", "unknown"} /\ att[b].run = r
    BY <1>a, <2>1, <2>3 DEF Base, ExecOK, Hands, Mine
  <2>5. /\ [att[b] EXCEPT !.resolved = "replaced"].status = att[b].status
        /\ [att[b] EXCEPT !.resolved = "replaced"].run = att[b].run
        /\ [att[b] EXCEPT !.resolved = "replaced"].resolved = "replaced"
    BY <2>2 DEF AttemptRecord
  <2>6. QED
    BY <2>2, <2>4, <2>5
<1>6. DispatchedAt(r, x)
  BY <1>a, <1>1, <1>2, <1>3, <1>4, <1>5 DEF DispatchedAt
<1>7. QED
  BY <1>c, <1>6

LEMMA DispatchHeld ==
  ASSUME IInv, Base', LifecycleAssumption, Dispatch
  PROVE  Held
<1>0. PICK r \in Runs : r = exec.run
  BY DEF Dispatch, IInv, Base, ExecOK
<1>1. exec.pc = "dispatch" /\ UNCHANGED <<steer, outside>>
  BY DEF Dispatch
<1>2. Table(exec, run[r].status, UnresolvedOf(r), Pending(r))
  BY <1>0, <1>1, TableNow DEF IInv
<1>3. CASE /\ Purpose = "chat" /\ exec' = [exec EXCEPT !.pc = "loop", !.prev = 0]
           /\ UNCHANGED <<run, att>>
  <2>1. exec'.pc = "loop" /\ exec'.run = exec.run /\ exec'.orig = exec.orig
    BY <1>3 DEF IInv, Base, TypeOK, ExecRecord
  <2>2. Table(exec', run[r].status, UnresolvedOf(r), Pending(r))
    BY <1>1, <1>2, <2>1 DEF Table
  <2>3. QED
    BY <1>0, <1>1, <1>3, <2>1, <2>2, StillHeld DEF Still
<1>4. CASE Fails(StepError) /\ UNCHANGED <<run, att>>
  BY <1>1, <1>4, FailsHeld DEF Still, Errors, StepError
<1>5. CASE ~(Purpose = "chat" /\ steer[exec.run] > 0) /\ MayStep(exec.run)
  <2>0. PICK x \in Attempts : /\ DispatchedAt(r, x)
                              /\ exec' = [exec EXCEPT !.pc = "modelcall", !.at = x, !.prev = 0]
                              /\ run' = Stepped(r)
    BY <1>0, <1>5, DispatchRows DEF IInv
  <2>1. RunIs(r, run[r].status, run[r].reason) /\ run[r].status = "running"
    BY <1>0, <1>5, <2>0, RunStepped DEF IInv, Base, MayStep
  <2>2. exec'.pc = "modelcall" /\ exec'.run = r /\ exec'.orig = exec.orig /\ exec'.at = x
    BY <1>0, <2>0 DEF IInv, Base, TypeOK, ExecRecord
  <2>3. Elsewhere(r)
    <3>1. \A b \in Attempts : att'[b] = att[b] \/ (att'[b].run = r /\ att[b].run \in {0, r})
      BY <2>0 DEF DispatchedAt, NoAttempt
    <3>2. QED
      BY <2>1, <3>1, ElsewhereBy DEF RunIs
  <2>4. UnresolvedOf(r)' \subseteq {x, exec.orig}
    <3>1. ASSUME NEW b \in UnresolvedOf(r)', b # x PROVE b \in UnresolvedOf(r) /\ b # exec.prev
      BY <2>0, <3>1 DEF DispatchedAt, UnresolvedOf, Unresolved, Of
    <3>2. UnresolvedOf(r) \subseteq {exec.prev, exec.orig}
      BY <1>1, <1>2 DEF Table
    <3>3. QED
      BY <3>1, <3>2
  <2>5. Pending(r)' \subseteq Pending(r)
    BY <2>0 DEF DispatchedAt, Pending, Of
  <2>6. Table(exec', run'[r].status, UnresolvedOf(r)', Pending(r)')
    <3>1. exec.orig = 0 => Pending(r)' = {}
      BY <1>1, <1>2, <2>5 DEF Table
    <3>2. QED
      BY <2>1, <2>2, <2>4, <3>1 DEF Table, RunIs
  <2>7. Local'
    BY <2>2, <2>6, NewPlace
  <2>8. Global' /\ EndedKept
    BY <1>0, <1>1, <2>2, <2>3, <2>7, InsideStep DEF outside
  <2>9. DispatchAllowed
    <3>1. ASSUME NEW b \in Attempts, b # x, att[b].run = r, Unresolved(b)
          PROVE  att'[b].resolved = "replaced" \/ (att'[x].purpose = "verify" /\ b = exec.orig)
      <4>1. b \in UnresolvedOf(r)
        BY <3>1 DEF UnresolvedOf, Of
      <4>2. b = exec.prev \/ b = exec.orig
        BY <1>1, <1>2, <4>1 DEF Table
      <4>3. b # 0
        BY <3>1 DEF Attempts, LifecycleAssumption
      <4>4. QED
        BY <2>0, <3>1, <4>2, <4>3 DEF DispatchedAt, Purpose
    <3>2. att'[x].run = r
      BY <2>0 DEF DispatchedAt
    <3>3. \A c \in Attempts : att[c].status # "dispatched" /\ att'[c].status = "dispatched" => c = x
      BY <2>0 DEF DispatchedAt
    <3>4. QED
      BY <3>1, <3>2, <3>3 DEF DispatchAllowed
  <2>10. QED
    BY <2>7, <2>8, <2>9 DEF Held
<1>6. QED
  BY <1>3, <1>4, <1>5 DEF Dispatch

LEMMA ModelAnswersHeld ==
  ASSUME IInv, Base', LifecycleAssumption, NEW k \in 0..MaxCalls, ModelAnswers(k)
  PROVE  Held
<1>0. PICK r \in Runs, a \in Attempts, x \in {Fresh}, j \in {0, k} :
        /\ r = exec.run /\ a = exec.at /\ x = Fresh /\ j = (IF Purpose = "chat" THEN k ELSE 0)
        /\ att[a].run = r /\ att[a].status = "dispatched"
  BY InHand DEF IInv, ModelAnswers
<1>1. exec.pc = "modelcall" /\ UNCHANGED <<steer, outside>>
  BY DEF ModelAnswers
<1>2. AnswerRows(r, a, x, j)
  BY <1>0, ModelAnswersRows DEF IInv
<1>3. \A b \in Attempts : b \in x..(x + j - 1) => att[b] = NoAttempt
  <2>1. Fresh \in Nat \ {0} /\ \A b \in Attempts : b < Fresh <=> att[b].status # "free"
    BY FreshRow DEF IInv, Base
  <2>2. ASSUME NEW b \in Attempts, b \in x..(x + j - 1) PROVE att[b].status = "free"
    BY <1>0, <1>2, <2>1, <2>2 DEF AnswerRows, Attempts, LifecycleAssumption
  <2>3. QED
    BY <2>2 DEF IInv, Base, Books, RowOK
<1>4. \A b \in Attempts : /\ ToolRow(r, b).status = "pending" /\ ToolRow(r, b).run = r
  BY NewRows DEF LifecycleAssumption
<1>5. \A b \in Attempts : att'[b] = att[b] \/ (att'[b].run = r /\ att[b].run \in {0, r})
  BY <1>0, <1>2, <1>3, <1>4 DEF AnswerRows, NoAttempt
<1>6. NoneDispatched
  BY <1>0, <1>2, <1>4 DEF AnswerRows, NoneDispatched
<1>7. UnresolvedOf(r)' \subseteq UnresolvedOf(r) \ {a}
  BY <1>2, <1>4 DEF AnswerRows, UnresolvedOf, Unresolved, Of
<1>8. j = 0 => Pending(r)' \subseteq Pending(r)
  <2>1. j = 0 => \A b \in Attempts : b \notin x..(x + j - 1)
    <3>1. x \in Nat /\ \A b \in Attempts : b \in Nat
      BY <1>0, FreshRow DEF IInv, Base, Attempts, LifecycleAssumption
    <3>2. QED
      BY <3>1
  <2>2. QED
    BY <1>2, <2>1 DEF AnswerRows, Pending, Of
<1>9. Table(exec, run[r].status, UnresolvedOf(r), Pending(r))
  BY <1>0, <1>1, TableNow DEF IInv
<1>10. /\ run[r].status = "running" /\ UnresolvedOf(r)' \subseteq {exec.orig}
       /\ exec.orig = 0 => Pending(r) = {}
  BY <1>0, <1>1, <1>7, <1>9 DEF Table
<1>11. exec.orig = 0 => UnresolvedOf(r)' = {}
  BY <1>10, NoZero
<1>12. CASE Purpose = "chat" /\ k = 0 /\ run' = SetStatus(exec.run, "completed") /\ Goto("return")
  <2>1. RunIs(r, "completed", "")
    BY <1>0, <1>12, RunSetStatus DEF IInv, Base, Statuses
  <2>2. ExecIs("return", exec.at, exec.todo, exec.prev, exec.orig, exec.left, exec.err)
    BY <1>12, ExecGoto DEF IInv, Base, Places
  <2>3. UnresolvedOf(r)' = {} /\ Pending(r)' = {}
    BY <1>0, <1>8, <1>10, <1>11, <1>12 DEF Purpose
  <2>4. Table(exec', run'[r].status, UnresolvedOf(r)', Pending(r)')
    BY <2>1, <2>2, <2>3 DEF Table, ExecIs, RunIs
  <2>5. Elsewhere(r)
    BY <1>5, <2>1, ElsewhereBy DEF RunIs
  <2>6. QED
    BY <1>0, <1>1, <1>6, <2>2, <2>4, <2>5, InsideHeld DEF ExecIs
<1>13. CASE Purpose = "chat" /\ UNCHANGED run /\ Goto("loop")
  <2>1. ExecIs("loop", exec.at, exec.todo, exec.prev, exec.orig, exec.left, exec.err)
    BY <1>13, ExecGoto DEF IInv, Base, Places
  <2>2. Table(exec', run'[r].status, UnresolvedOf(r)', Pending(r)')
    BY <1>10, <1>13, <2>1 DEF Table, ExecIs
  <2>3. Elsewhere(r)
    BY <1>5, <1>13, ElsewhereBy
  <2>4. QED
    BY <1>0, <1>1, <1>6, <2>1, <2>2, <2>3, InsideHeld DEF ExecIs
<1>14. CASE Purpose # "chat"
  <2>1. PICK p \in {"vresolve", "vquery"} : exec' = [exec EXCEPT !.pc = p, !.left = k] /\ run' = run
    BY <1>14 DEF ModelAnswers
  <2>2. ExecIs(p, exec.at, exec.todo, exec.prev, exec.orig, k, exec.err)
    BY <2>1 DEF IInv, Base, TypeOK, ExecRecord, ExecIs
  <2>3. Table(exec', run'[r].status, UnresolvedOf(r)', Pending(r)')
    BY <1>10, <2>1, <2>2 DEF Table, ExecIs
  <2>4. Elsewhere(r)
    BY <1>5, <2>1, ElsewhereBy
  <2>5. QED
    BY <1>0, <1>1, <1>6, <2>2, <2>3, <2>4, InsideHeld DEF ExecIs
<1>15. QED
  BY <1>12, <1>13, <1>14 DEF ModelAnswers

LEMMA ReserveHeld ==
  ASSUME IInv, Base', LifecycleAssumption, Reserve
  PROVE  Held
<1>0. PICK r \in Runs, p \in Attempts : r = exec.run /\ p = exec.prev /\ att[p].status # "free"
  BY DEF Reserve, IInv, Base, ExecOK, Hands, Mine
<1>1. exec.pc = "reserve" /\ UNCHANGED <<steer, outside>>
  BY DEF Reserve
<1>2. CASE Fails("stop") /\ UNCHANGED <<run, att>>
  BY <1>1, <1>2, FailsHeld DEF Still, Errors
<1>3. CASE /\ att[p].number + 1 <= ModelRetries
           /\ att' = [att EXCEPT ![att[p].root].reserved = att[p].number + 1]
           /\ run' = SetStatus(exec.run, "running") /\ Goto("wait")
  <2>1. PICK o \in Attempts : o = att[p].root /\ att[o].status # "free"
    <3>1. RowOK(p)
      BY DEF IInv, Base, Books
    <3>2. QED
      BY <1>0, <3>1 DEF RowOK
  <2>2. PICK n \in 0..ModelRetries : n = att[p].number + 1
    BY <1>3 DEF IInv, Base, TypeOK, AttemptRecord, LifecycleAssumption
  <2>3. SameCalls
    BY <1>3, <2>1, <2>2, ReservedRow DEF IInv, Base, SameCalls
  <2>4. RunIs(r, "running", "")
    BY <1>0, <1>3, RunSetStatus DEF IInv, Base, Statuses
  <2>5. /\ Elsewhere(r) /\ NoneDispatched
        /\ UnresolvedOf(r)' = UnresolvedOf(r) /\ Pending(r)' = Pending(r)
    BY <2>3, <2>4, SameSets DEF RunIs
  <2>6. ExecIs("wait", exec.at, exec.todo, exec.prev, exec.orig, exec.left, exec.err)
    BY <1>3, ExecGoto DEF IInv, Base, Places
  <2>7. Table(exec, run[r].status, UnresolvedOf(r), Pending(r))
    BY <1>0, <1>1, TableNow DEF IInv
  <2>8. Table(exec', run'[r].status, UnresolvedOf(r)', Pending(r)')
    BY <1>1, <2>4, <2>5, <2>6, <2>7 DEF Table, ExecIs, RunIs
  <2>9. QED
    BY <1>0, <1>1, <2>5, <2>6, <2>8, InsideHeld DEF ExecIs
<1>4. QED
  BY <1>0, <1>2, <1>3 DEF Reserve

LEMMA WaitUncompactedHeld ==
  ASSUME IInv, Base', LifecycleAssumption, WaitUncompacted
  PROVE  Held
<1>0. PICK r \in Runs : r = exec.run
  BY DEF WaitUncompacted, IInv, Base, ExecOK
<1>1. /\ exec.pc = "wait" /\ UNCHANGED <<att, steer, outside>> /\ Fails("stop") /\ exec.orig = 0
      /\ att[exec.prev].status = "finished"
  BY DEF WaitUncompacted, Purpose
<1>2. CASE run' = run
  BY <1>1, <1>2, FailsHeld DEF Still, Errors
<1>3. CASE run' = SetStatus(exec.run, "failed")
  <2>1. RunIs(r, "failed", "")
    BY <1>0, <1>3, RunSetStatus DEF IInv, Base, Statuses
  <2>2. ExecIs("return", exec.at, exec.todo, 0, exec.orig, exec.left, "stop")
    BY <1>1, ExecFails DEF IInv, Base, Errors
  <2>3. UnresolvedOf(r) \subseteq {exec.prev, 0} /\ Pending(r) = {}
    BY <1>0, <1>1, TableNow DEF IInv, Table
  <2>4. UnresolvedOf(r) = {}
    <3>1. exec.prev \notin UnresolvedOf(r)
      BY <1>1 DEF UnresolvedOf, Unresolved
    <3>2. QED
      BY <2>3, <3>1, NoZero
  <2>5. Table(exec', "failed", UnresolvedOf(r), Pending(r))
    BY <2>2, <2>3, <2>4 DEF Table, ExecIs
  <2>6. QED
    BY <1>0, <1>1, <2>1, <2>2, <2>5, RunHeld DEF ExecIs
<1>4. QED
  BY <1>2, <1>3 DEF WaitUncompacted

LEMMA WaitOverHeld ==
  ASSUME IInv, Base', LifecycleAssumption, WaitOver
  PROVE  Held
<1>0. PICK r \in Runs : r = exec.run
  BY DEF WaitOver, IInv, Base, ExecOK
<1>1. exec.pc = "wait" /\ UNCHANGED outside
  BY DEF WaitOver
<1>2. Table(exec, run[r].status, UnresolvedOf(r), Pending(r))
  BY <1>0, <1>1, TableNow DEF IInv
<1>3. CASE Fails("unknown") /\ UNCHANGED <<run, att, steer>>
  BY <1>1, <1>3, FailsHeld DEF Still, Errors
<1>4. CASE Goto("dispatch") /\ UNCHANGED <<run, att, steer>>
  <2>1. ExecIs("dispatch", exec.at, exec.todo, exec.prev, exec.orig, exec.left, exec.err)
    BY <1>4, ExecGoto DEF IInv, Base, Places
  <2>2. Table(exec', run[r].status, UnresolvedOf(r), Pending(r))
    BY <1>1, <1>2, <2>1 DEF Table, ExecIs
  <2>3. QED
    BY <1>0, <1>1, <1>4, <2>1, <2>2, StillHeld DEF ExecIs, Still
<1>5. CASE Goto("dispatch") /\ Adopt(exec.run)
  <2>1. ExecIs("dispatch", exec.at, exec.todo, exec.prev, exec.orig, exec.left, exec.err)
    BY <1>5, ExecGoto DEF IInv, Base, Places
  <2>2. ClosedBy(r) /\ RunIs(r, "running", "")
    BY <1>0, <1>5, AdoptRows DEF IInv
  <2>3. Elsewhere(r) /\ NoneDispatched /\ Pending(r)' = {} /\ UnresolvedOf(r)' = UnresolvedOf(r)
    BY <2>2, ClosedElsewhere DEF RunIs, IInv
  <2>4. Table(exec', run'[r].status, UnresolvedOf(r)', Pending(r)')
    BY <1>1, <1>2, <2>1, <2>2, <2>3 DEF Table, ExecIs, RunIs
  <2>5. QED
    BY <1>0, <1>1, <2>1, <2>3, <2>4, InsideHeld DEF ExecIs
<1>6. QED
  BY <1>3, <1>4, <1>5 DEF WaitOver

LEMMA VerifyRoundHeld ==
  ASSUME IInv, Base', LifecycleAssumption, VerifyRound
  PROVE  Held
<1>0. PICK r \in Runs, o \in Attempts :
        r = exec.run /\ o = exec.orig /\ att[o].status # "free" /\ exec.orig # 0
  BY DEF VerifyRound, IInv, Base, ExecOK, Hands, Mine, Verifying
<1>1. exec.pc = "vreserve" /\ UNCHANGED <<steer, outside>> /\ Goto("dispatch")
  BY DEF VerifyRound
<1>2. SameCalls
  BY <1>0, RoundRow DEF VerifyRound, IInv, Base
<1>3. Table(exec, run[r].status, UnresolvedOf(r), Pending(r))
  BY <1>0, <1>1, TableNow DEF IInv
<1>4. RunIs(r, "running", "")
  <2>1. run' = SetStatus(r, "running")
    BY <1>0, <1>1, <1>3 DEF Table, VerifyRound
  <2>2. QED
    BY <2>1, RunSetStatus DEF IInv, Base, Statuses
<1>5. /\ Elsewhere(r) /\ NoneDispatched
      /\ UnresolvedOf(r)' = UnresolvedOf(r) /\ Pending(r)' = Pending(r)
  BY <1>2, <1>4, SameSets DEF RunIs
<1>6. ExecIs("dispatch", exec.at, exec.todo, exec.prev, exec.orig, exec.left, exec.err)
  BY <1>1, ExecGoto DEF IInv, Base, Places
<1>7. Table(exec', run'[r].status, UnresolvedOf(r)', Pending(r)')
  BY <1>0, <1>1, <1>3, <1>4, <1>5, <1>6 DEF Table, ExecIs, RunIs
<1>8. QED
  BY <1>0, <1>1, <1>5, <1>6, <1>7, InsideHeld DEF ExecIs

LEMMA VerifyQueryHeld ==
  ASSUME IInv, Base', LifecycleAssumption, VerifyQuery
  PROVE  Held
<1>0. PICK r \in Runs : r = exec.run
  BY DEF VerifyQuery, IInv, Base, ExecOK
<1>1. exec.pc = "vquery" /\ UNCHANGED <<run, steer, outside>> /\ exec.orig # 0
  BY DEF VerifyQuery, IInv, Base, ExecOK, Hands, Verifying
<1>2. Table(exec, run[r].status, UnresolvedOf(r), Pending(r))
  BY <1>0, <1>1, TableNow DEF IInv
<1>3. CASE Goto("vreserve") /\ UNCHANGED att
  <2>1. ExecIs("vreserve", exec.at, exec.todo, exec.prev, exec.orig, exec.left, exec.err)
    BY <1>3, ExecGoto DEF IInv, Base, Places
  <2>2. Table(exec', run[r].status, UnresolvedOf(r), Pending(r))
    BY <1>1, <1>2, <2>1 DEF Table, ExecIs
  <2>3. QED
    BY <1>0, <1>1, <1>3, <2>1, <2>2, StillHeld DEF ExecIs, Still
<1>4. CASE Fails("unknown") /\ UNCHANGED att
  BY <1>1, <1>4, FailsHeld DEF Still, Errors
<1>5. CASE /\ Fresh \in Attempts
           /\ att' = [att EXCEPT ![Fresh] = QueryRow(exec.run, Fresh)]
           /\ exec' = [exec EXCEPT !.pc = "tool", !.at = Fresh]
  <2>0. PICK x \in Attempts : x = Fresh
    BY <1>5
  <2>1. att[x] = NoAttempt
    <3>1. Fresh \in Nat \ {0} /\ \A a \in Attempts : a < Fresh <=> att[a].status # "free"
      BY FreshRow DEF IInv, Base
    <3>2. att[x].status = "free"
      BY <2>0, <3>1
    <3>3. RowOK(x)
      BY DEF IInv, Base, Books
    <3>4. QED
      BY <3>2, <3>3 DEF RowOK
  <2>2. QueryRow(r, x).status = "pending" /\ QueryRow(r, x).run = r
    BY DEF QueryRow, NoAttempt
  <2>3. att'[x] = QueryRow(r, x) /\ \A b \in Attempts : b # x => att'[b] = att[b]
    BY <1>0, <1>5, <2>0 DEF IInv, Base, TypeOK
  <2>4. Elsewhere(r)
    <3>1. \A b \in Attempts : att'[b] = att[b] \/ (att'[b].run = r /\ att[b].run \in {0, r})
      BY <2>1, <2>2, <2>3 DEF NoAttempt
    <3>2. QED
      BY <1>1, <3>1, ElsewhereBy
  <2>5. NoneDispatched /\ UnresolvedOf(r)' \subseteq UnresolvedOf(r)
    BY <2>2, <2>3 DEF NoneDispatched, UnresolvedOf, Unresolved, Of
  <2>6. exec'.pc = "tool" /\ exec'.run = r /\ exec'.orig = exec.orig
    BY <1>0, <1>5 DEF IInv, Base, TypeOK, ExecRecord
  <2>7. Table(exec', run'[r].status, UnresolvedOf(r)', Pending(r)')
    BY <1>1, <1>2, <2>5, <2>6 DEF Table
  <2>8. QED
    BY <1>0, <1>1, <2>4, <2>5, <2>6, <2>7, InsideHeld
<1>6. QED
  BY <1>3, <1>4, <1>5 DEF VerifyQuery, QueryRow

LEMMA VerifyResolvesHeld ==
  ASSUME IInv, Base', LifecycleAssumption, VerifyResolves
  PROVE  Held
<1>0. PICK r \in Runs, o \in Attempts : /\ r = exec.run /\ o = exec.orig /\ att[o].run = r
                                        /\ att[o].status = "unknown" /\ att[o].resolved = "no"
  BY DEF VerifyResolves, IInv, Base, ExecOK, Hands, Mine, Verifying
<1>1. exec.pc = "vresolve" /\ UNCHANGED <<run, steer, outside>>
  BY DEF VerifyResolves
<1>2. CASE Fails("input") /\ UNCHANGED att
  BY <1>1, <1>2, FailsHeld DEF Still, Errors
<1>3. CASE /\ att' = [att EXCEPT ![exec.orig].resolved = "verified"]
           /\ exec' = [exec EXCEPT !.pc = "next", !.orig = 0]
  <2>1. /\ \A b \in Attempts : b # o => att'[b] = att[b]
        /\ att'[o].status = "unknown" /\ att'[o].resolved = "verified" /\ att'[o].run = att[o].run
    BY <1>0, <1>3, VerifiedRow DEF IInv, Base
  <2>2. /\ Elsewhere(r)
        /\ UnresolvedOf(r)' = IF att'[o].status \in {"dispatched", "unknown"} /\ att'[o].resolved = "no"
                              THEN UnresolvedOf(r) \cup {o} ELSE UnresolvedOf(r) \ {o}
    BY <1>0, <1>1, <2>1, OneRow
  <2>3. exec'.pc = "next" /\ exec'.run = r /\ exec'.orig = 0
    BY <1>0, <1>3 DEF IInv, Base, TypeOK, ExecRecord
  <2>4. run[r].status = "running" /\ UnresolvedOf(r) \subseteq {o}
    BY <1>0, <1>1, TableNow DEF IInv, Table
  <2>5. UnresolvedOf(r)' = {}
    BY <2>1, <2>2, <2>4
  <2>6. Table(exec', run'[r].status, UnresolvedOf(r)', Pending(r)')
    BY <1>1, <2>3, <2>4, <2>5 DEF Table
  <2>7. NoneDispatched
    BY <2>1 DEF NoneDispatched
  <2>8. QED
    BY <1>0, <1>1, <2>2, <2>3, <2>6, <2>7, InsideHeld
<1>4. QED
  BY <1>2, <1>3 DEF VerifyResolves

LEMMA VerifyFailsHeld ==
  ASSUME IInv, Base', LifecycleAssumption, VerifyFails
  PROVE  Held
<1>0. PICK r \in Runs : r = exec.run
  BY DEF VerifyFails, IInv, Base, ExecOK
<1>1. exec.pc = "vfail" /\ UNCHANGED <<att, steer, outside>> /\ VerifyReturns /\ exec.orig # 0
  BY DEF VerifyFails, IInv, Base, ExecOK, Hands, Verifying
<1>2. RunIs(r, "unknown", "")
  BY <1>0, RunSetStatus DEF VerifyFails, IInv, Base, Statuses
<1>3. IF exec.err = "input" THEN ExecIs("next", exec.at, exec.todo, exec.prev, 0, 0, "ok")
      ELSE ExecIs("return", exec.at, exec.todo, exec.prev, 0, 0, "unknown")
  BY <1>1, ExecVerifyReturns DEF IInv, Base
<1>4. UnresolvedOf(r) # {}
  BY <1>0, <1>1, OrigUnresolved DEF IInv
<1>5. Table(exec', "unknown", UnresolvedOf(r), Pending(r))
  BY <1>3, <1>4 DEF Table, ExecIs
<1>6. QED
  BY <1>0, <1>1, <1>2, <1>3, <1>5, RunHeld DEF ExecIs

-----------------------------------------------------------------------------
(* Where an execution ends or begins, and settlements are not lost *)

LEMMA EndHeld ==
  ASSUME IInv, LifecycleAssumption, NEW r \in Runs, r = exec.run, exec.pc \in {"return", "settle"},
         exec' = Idle, UNCHANGED <<att, outside>>, \A q \in Runs : q # r => run'[q] = run[q],
         UnresolvedOf(r) # {} => Active(r)', Over(r)' => Pending(r) = {} /\ UnresolvedOf(r) = {},
         run'[r].status # "running",
         run[r].status \in {"completed", "abandoned"} => run'[r].status = run[r].status
  PROVE  Held
<1>1. Idle.pc = "idle" /\ Idle.run = 0 /\ 0 \notin Runs
  BY IdleRecord DEF Runs, LifecycleAssumption
<1>2. \A q : UnresolvedOf(q)' = UnresolvedOf(q) /\ Pending(q)' = Pending(q)
  BY DEF UnresolvedOf, Unresolved, Pending, Of
<1>3. \A q \in Runs : Claims(q) => q = r
  BY DEF IInv, Global
<1>4. \A q \in Runs : q # r => (Claims(q)' <=> Claims(q)) /\ (Active(q)' <=> Active(q))
  BY <1>2 DEF Claims, Active
<1>5. \A q \in Runs : Claims(q)' => q = r
  BY <1>3, <1>4
<1>6. UnresolvedBlocks'
  <2>1. ASSUME NEW q \in Runs, UnresolvedOf(q)' # {} PROVE Active(q)' \/ run'[q].status = "abandoned"
    <3>1. CASE q = r
      BY <1>2, <2>1, <3>1
    <3>2. CASE q # r
      BY <1>2, <1>3, <1>4, <2>1, <3>2 DEF Claims
    <3>3. QED
      BY <3>1, <3>2
  <2>2. QED
    BY <2>1 DEF UnresolvedBlocks
<1>7. \A q \in Runs : (run[q].status = "completed" \/ run[q].reason = "settled")' => UnresolvedOf(q)' = {}
  BY <1>2 DEF IInv, Global, Over
<1>8. \A q \in Runs : Over(q)' =>
        Pending(q)' = {} \/ (UnresolvedOf(q)' # {} /\ (exec.run = q \/ ~up)')
  BY <1>2 DEF IInv, Global, Over, outside
<1>9. (MaxSteps = 0 => RunningIsExecuted)'
  BY DEF IInv, Global, RunningIsExecuted, outside
<1>10. Global'
  BY <1>1, <1>5, <1>6, <1>7, <1>8, <1>9 DEF Global
<1>11. RunOver(exec, run[r].status, run[r].reason, UnresolvedOf(r), Pending(r))
  BY OverNow DEF IInv
<1>12. EndedKept
  BY <1>11 DEF EndedKept, RunOver
<1>13. Local' /\ DispatchAllowed
  BY <1>1 DEF Local, DispatchAllowed
<1>14. QED
  BY <1>10, <1>12, <1>13 DEF Held

LEMMA ReturnHeld ==
  ASSUME IInv, Base', LifecycleAssumption, Return
  PROVE  Held
<1>0. PICK r \in Runs : r = exec.run
  BY DEF Return, IInv, Base, ExecOK
<1>1. exec.pc = "return" /\ UNCHANGED <<att, steer, outside>>
  BY DEF Return
<1>2. Table(exec, run[r].status, UnresolvedOf(r), Pending(r))
  BY <1>0, <1>1, TableNow DEF IInv
<1>3. /\ \/ run[r].status \in {"running", "unknown", "waiting_confirmation"}
         \/ run[r].status \in {"completed", "failed"} /\ UnresolvedOf(r) = {} /\ Pending(r) = {}
      /\ run[r].status = "running" => exec.err # "ok"
  BY <1>1, <1>2 DEF Table
<1>4. run[r].reason = ""
  BY <1>3 DEF IInv, Base, Books
<1>5. CASE run[r].status # "running"
  <2>1. run' = run /\ exec' = Idle
    BY <1>0, <1>5 DEF Return
  <2>2. UnresolvedOf(r) # {} => Active(r)'
    BY <1>3, <1>5, <2>1 DEF Active
  <2>3. Over(r)' => Pending(r) = {} /\ UnresolvedOf(r) = {}
    BY <1>3, <1>4, <1>5, <2>1 DEF Over
  <2>4. QED
    BY <1>0, <1>1, <1>5, <2>1, <2>2, <2>3, EndHeld
<1>6. CASE run[r].status = "running"
  <2>1. PICK to \in {"unknown", "limited", "stopped"} :
          to = CASE exec.err = "unknown" -> "unknown"
                 [] exec.err \in {"limit", "context"} -> "limited"
                 [] OTHER -> "stopped"
    OBVIOUS
  <2>2. PICK why \in Reasons : why = (IF to = "limited" THEN exec.err ELSE "")
    BY <2>1 DEF Reasons
  <2>3. run' = Now(r, to, why) /\ exec' = IF to = "limited" THEN [exec EXCEPT !.pc = "settle"] ELSE Idle
    BY <1>0, <1>3, <1>6, <2>1, <2>2 DEF Return
  <2>4. RunIs(r, to, why) /\ why # "settled"
    BY <2>1, <2>2, <2>3, RunNow DEF IInv, Base, Statuses
  <2>5. CASE to # "limited"
    <3>1. exec' = Idle /\ why = ""
      BY <2>2, <2>3, <2>5
    <3>2. Active(r)' /\ ~Over(r)'
      BY <2>4, <2>5, <3>1 DEF RunIs, Active, Over
    <3>3. QED
      BY <1>0, <1>1, <1>6, <2>4, <2>5, <3>1, <3>2, EndHeld DEF RunIs
  <2>6. CASE to = "limited"
    <3>1. exec'.pc = "settle" /\ exec'.run = r
      BY <1>0, <2>3, <2>6 DEF IInv, Base, TypeOK, ExecRecord
    <3>2. Elsewhere(r) /\ NoneDispatched
      BY <1>1, <2>4, ElsewhereBy DEF RunIs, NoneDispatched
    <3>3. Table(exec', run'[r].status, UnresolvedOf(r)', Pending(r)')
      BY <2>4, <2>6, <3>1 DEF Table, RunIs
    <3>4. QED
      BY <1>0, <1>1, <1>6, <2>4, <3>1, <3>2, <3>3, InsideHeld DEF RunIs
  <2>7. QED
    BY <2>5, <2>6
<1>7. QED
  BY <1>5, <1>6

LEMMA SettleHeld ==
  ASSUME IInv, Base', LifecycleAssumption, Settle
  PROVE  Held
<1>0. PICK r \in Runs : r = exec.run
  BY DEF Settle, IInv, Base, ExecOK
<1>1. exec.pc = "settle" /\ exec' = Idle /\ UNCHANGED <<att, steer, outside>>
  BY DEF Settle
<1>2. run[r].status = "limited" /\ run[r].reason # "settled"
  BY <1>0, <1>1, TableNow DEF IInv, Local, Table
<1>3. CASE run' = run
  <2>1. Active(r)' /\ ~Over(r)'
    BY <1>2, <1>3 DEF Active, Over
  <2>2. QED
    BY <1>0, <1>1, <1>2, <1>3, <2>1, EndHeld
<1>4. CASE Pending(exec.run) \cup UnresolvedOf(exec.run) = {} /\ Settled
  <2>1. RunIs(r, run[r].status, "settled")
    BY <1>0, <1>4, SettledRow DEF Settled, IInv, Base
  <2>2. Pending(r) = {} /\ UnresolvedOf(r) = {}
    BY <1>0, <1>4
  <2>3. QED
    BY <1>0, <1>1, <1>2, <2>1, <2>2, EndHeld DEF RunIs
<1>5. QED
  BY <1>3, <1>4 DEF Settle

LEMMA NoRunZero ==
  ASSUME LifecycleAssumption
  PROVE  0 \notin Runs
BY DEF LifecycleAssumption, Runs

\* A Run starts: no other Run has a claim to the conversation.
LEMMA StartHeld ==
  ASSUME IInv, LifecycleAssumption, exec.run = 0, NEW r \in Runs, Starts(r), UNCHANGED outside,
         Elsewhere(r), NoneDispatched, \A q \in Runs : Claims(q) => q = r,
         run'[r].status = "running", run'[r].reason = "",
         run[r].status \notin {"completed", "abandoned", "failed"}, run[r].reason # "settled"
  PROVE  Held
<1>1. exec'.pc = "loop" /\ exec'.run = r
  BY ExecStarts DEF IInv, Base
<1>2. Table(exec', run'[r].status, UnresolvedOf(r)', Pending(r)')
  BY <1>1 DEF Table
<1>3. Local'
  BY <1>1, <1>2, NewPlace
<1>4. \A q \in Runs : Claims(q)' => q = r
  BY DEF Elsewhere, Claims, Active
<1>5. UnresolvedBlocks'
  <2>1. 0 \notin Runs
    BY NoRunZero
  <2>2. ASSUME NEW q \in Runs, q # r, up', UnresolvedOf(q)' # {}
        PROVE  (Active(q) \/ run[q].status = "abandoned")'
    <3>1. run'[q] = run[q] /\ UnresolvedOf(q)' = UnresolvedOf(q) /\ up /\ exec.run # q
      BY <2>1, <2>2 DEF Elsewhere, outside
    <3>2. Active(q) \/ run[q].status = "abandoned"
      BY <2>2, <3>1 DEF IInv, Global, UnresolvedBlocks
    <3>3. QED
      BY <3>1, <3>2 DEF Active
  <2>3. QED
    BY <1>1, <2>2 DEF UnresolvedBlocks
<1>6. \A q \in Runs : (run[q].status = "completed" \/ run[q].reason = "settled")' => UnresolvedOf(q)' = {}
  BY DEF IInv, Global, Elsewhere
<1>7. \A q \in Runs : Over(q)' =>
        Pending(q)' = {} \/ (UnresolvedOf(q)' # {} /\ (exec.run = q \/ ~up)')
  <2>1. 0 \notin Runs
    BY NoRunZero
  <2>2. ~Over(r)'
    BY DEF Over
  <2>3. QED
    BY <2>1, <2>2 DEF IInv, Global, Elsewhere, Over, outside
<1>8. (MaxSteps = 0 => RunningIsExecuted)'
  <2>1. \A q \in Runs : run'[q].status = "running" => q = r
    BY <1>4 DEF Claims, Active
  <2>2. QED
    BY <1>1, <2>1 DEF RunningIsExecuted
<1>9. Global'
  BY <1>1, <1>4, <1>5, <1>6, <1>7, <1>8 DEF Global
<1>10. EndedKept
  BY DEF EndedKept, Elsewhere
<1>11. DispatchAllowed
  BY DEF NoneDispatched, DispatchAllowed
<1>12. QED
  BY <1>3, <1>9, <1>10, <1>11 DEF Held

LEMMA CreateHeld ==
  ASSUME IInv, Base', LifecycleAssumption, up, exec.pc = "idle", NEW r \in Runs, NEW c \in BOOLEAN,
         NEW p \in 0..MaxRuns, Create(r, c, p)
  PROVE  Held
<1>1. exec = Idle /\ Base
  BY DEF IInv, Base, ExecOK
<1>2. /\ run'[r].status = "running" /\ run'[r].reason = ""
      /\ \A q \in Runs : q # r => run'[q] = run[q]
  BY <1>1, CreateRow
<1>3. UNCHANGED <<steer, outside>> /\ Starts(r) /\ run[r].status = "none" /\ \A q \in Runs : ~Active(q)
  BY DEF Create
<1>4. \A q \in Runs : ~Claims(q)
  <2>1. exec.run = 0 /\ 0 \notin Runs
    BY <1>1, IdleRecord DEF Runs, LifecycleAssumption
  <2>2. QED
    BY <1>3, <2>1 DEF Claims, IInv, Global, UnresolvedBlocks
<1>5. Elsewhere(r) /\ NoneDispatched
  <2>1. CASE att' = att
    BY <1>2, <2>1, ElsewhereBy DEF NoneDispatched
  <2>2. ASSUME NEW x \in Attempts, att[x].status = "free", att'[x] = ToolRow(r, x),
               \A b \in Attempts : b # x => att'[b] = att[b]
        PROVE  Elsewhere(r) /\ NoneDispatched
    <3>1. ToolRow(r, x).status = "pending" /\ ToolRow(r, x).run = r
      BY NewRows DEF LifecycleAssumption
    <3>2. att[x].run = 0
      <4>1. RowOK(x)
        BY <1>1 DEF Base, Books
      <4>2. QED
        BY <2>2, <4>1 DEF RowOK, NoAttempt
    <3>3. \A b \in Attempts : att'[b] = att[b] \/ (att'[b].run = r /\ att[b].run \in {0, r})
      BY <2>2, <3>1, <3>2
    <3>4. QED
      BY <1>2, <2>2, <3>1, <3>3, ElsewhereBy DEF NoneDispatched
  <2>3. QED
    BY <1>1, <2>1, <2>2, CreateCalls
<1>6. run[r].reason # "settled"
  BY <1>1, <1>3 DEF Base, Books
<1>7. exec.run = 0
  BY <1>1, IdleRecord
<1>8. QED
  BY <1>2, <1>3, <1>4, <1>5, <1>6, <1>7, StartHeld

LEMMA ContinueHeld ==
  ASSUME IInv, Base', LifecycleAssumption, NEW r \in Runs, Continue(r)
  PROVE  Held
<1>1. exec = Idle /\ UNCHANGED <<att, steer, outside>> /\ Starts(r)
  BY DEF Continue, IInv, Base, ExecOK
<1>2. RunIs(r, "running", "")
  BY RunSetStatus DEF IInv, Base, Statuses, Continue
<1>3. /\ Active(r) /\ run[r].status \notin {"completed", "abandoned", "failed"}
      /\ run[r].reason # "settled"
  <2>1. run[r].status \in Statuses /\ (run[r].reason # "" => run[r].status = "limited")
    BY DEF IInv, Base, TypeOK, RunRecord, Books
  <2>2. QED
    BY <2>1 DEF Continue, Active, Statuses
<1>4. \A q \in Runs : Claims(q) => q = r
  BY <1>3 DEF Claims, IInv, Global
<1>5. Elsewhere(r) /\ NoneDispatched
  BY <1>1, <1>2, ElsewhereBy DEF RunIs, NoneDispatched
<1>6. exec.run = 0
  BY <1>1, IdleRecord
<1>7. QED
  BY <1>1, <1>2, <1>3, <1>4, <1>5, <1>6, StartHeld DEF RunIs

LEMMA ConfirmControlHeld ==
  ASSUME IInv, Base', LifecycleAssumption, NEW r \in Runs, NEW applied \in BOOLEAN,
         ConfirmControl(r, applied)
  PROVE  Held
<1>0. PICK a \in Attempts : SettleProposal(r, a, applied)
  BY DEF ConfirmControl, Pending, Of
<1>1. /\ up /\ exec = Idle /\ UNCHANGED <<steer, outside>> /\ UnresolvedOf(r) = {}
      /\ run[r].status \in {"waiting_confirmation", "stopped"}
  BY DEF ConfirmControl, IInv, Base, ExecOK
<1>2. /\ Elsewhere(r) /\ NoneDispatched /\ UnresolvedOf(r)' = UnresolvedOf(r) /\ Pending(r)' = {}
      /\ run'[r].status = (IF applied THEN "completed" ELSE "running") /\ run'[r].reason = ""
  BY <1>0, <1>1, ProposalSets DEF IInv
<1>3. \A q \in Runs : Claims(q) => q = r
  BY <1>1 DEF Claims, Active, IInv, Global
<1>4. run[r].reason = ""
  BY <1>1 DEF IInv, Base, Books
<1>5. CASE Starts(r) /\ ~applied
  <2>1. exec.run = 0
    BY <1>1, IdleRecord
  <2>2. run'[r].status = "running"
    BY <1>2, <1>5
  <2>3. QED
    BY <1>1, <1>2, <1>3, <1>4, <1>5, <2>1, <2>2, StartHeld
<1>6. CASE exec' = Idle /\ (applied \/ MaxSteps > 0)
  <2>1. Idle.pc = "idle" /\ Idle.run = 0 /\ 0 \notin Runs
    BY IdleRecord DEF Runs, LifecycleAssumption
  <2>2. exec.run = 0
    BY <1>1, <2>1
  <2>3. \A q \in Runs : Claims(q)' => q = r
    BY <1>2, <1>3 DEF Elsewhere, Claims, Active
  <2>a. \A q \in Runs : q # r => /\ run'[q] = run[q] /\ UnresolvedOf(q)' = UnresolvedOf(q)
                                 /\ Pending(q)' = Pending(q)
    BY <1>2 DEF Elsewhere
  <2>b. up' = up /\ \A q \in Runs : exec.run # q
    BY <1>1, <2>1, <2>2 DEF outside
  <2>4. UnresolvedBlocks'
    <3>1. ASSUME NEW q \in Runs, up', UnresolvedOf(q)' # {}
          PROVE  (Active(q) \/ run[q].status = "abandoned")'
      <4>1. q # r
        BY <1>1, <1>2, <3>1
      <4>2. Active(q) \/ run[q].status = "abandoned"
        BY <2>a, <2>b, <3>1, <4>1 DEF IInv, Global, UnresolvedBlocks
      <4>3. QED
        BY <2>a, <4>1, <4>2 DEF Active
    <3>2. QED
      BY <3>1 DEF UnresolvedBlocks
  <2>5. \A q \in Runs :
          (run[q].status = "completed" \/ run[q].reason = "settled")' => UnresolvedOf(q)' = {}
    BY <1>1, <1>2 DEF IInv, Global, Elsewhere
  <2>6. \A q \in Runs : Over(q)' =>
          Pending(q)' = {} \/ (UnresolvedOf(q)' # {} /\ (exec.run = q \/ ~up)')
    <3>1. \A q \in Runs : Over(q) => Pending(q) = {}
      BY <1>1, <2>b DEF IInv, Global
    <3>2. \A q \in Runs : Over(q)' => Pending(q)' = {}
      BY <1>2, <2>a, <3>1 DEF Over
    <3>3. QED
      BY <3>2
  <2>7. (MaxSteps = 0 => RunningIsExecuted)'
    <3>1. MaxSteps = 0 => run'[r].status # "running"
      <4>1. MaxSteps = 0 => ~(MaxSteps > 0)
        OBVIOUS
      <4>2. MaxSteps = 0 => applied
        BY <1>6, <4>1, Zenon
      <4>3. applied => run'[r].status = "completed"
        BY <1>2
      <4>4. QED
        BY <4>2, <4>3
    <3>2. \A q \in Runs : q # r => run'[q].status # "running"
      BY <1>2, <1>3 DEF Elsewhere, Claims, Active
    <3>3. QED
      BY <3>1, <3>2 DEF RunningIsExecuted
  <2>8. Global'
    BY <1>6, <2>1, <2>3, <2>4, <2>5, <2>6, <2>7 DEF Global
  <2>9. EndedKept
    BY <1>1, <1>2, <1>4 DEF EndedKept, Elsewhere
  <2>10. Local' /\ DispatchAllowed
    BY <1>2, <1>6, <2>1 DEF Local, NoneDispatched, DispatchAllowed
  <2>11. QED
    BY <2>8, <2>9, <2>10 DEF Held
<1>7. QED
  BY <1>5, <1>6 DEF ConfirmControl

LEMMA AbandonHeld ==
  ASSUME IInv, Base', LifecycleAssumption, NEW r \in Runs, Abandon(r)
  PROVE  Held
<1>1. /\ exec = Idle /\ exec' = Idle /\ UNCHANGED <<steer, outside>> /\ ClosedBy(r)
      /\ run[r].status \notin {"completed", "abandoned"}
  BY DEF Abandon, ClosedBy, IInv, Base, ExecOK
<1>2. RunIs(r, "abandoned", "")
  BY RunSetStatus DEF IInv, Base, Statuses, Abandon
<1>3. Elsewhere(r) /\ NoneDispatched
  BY <1>1, <1>2, ClosedElsewhere DEF RunIs, IInv
<1>4. Idle.pc = "idle"
  BY IdleRecord
<1>5. ~Claims(r)' /\ ~Over(r)' /\ run'[r].status = "abandoned" /\ run'[r].reason = ""
  BY <1>2 DEF RunIs, Claims, Active, Over
<1>6. \A q \in Runs : Claims(q)' => Claims(q)
  BY <1>3, <1>5 DEF Elsewhere, Claims, Active
<1>7. UnresolvedBlocks'
  <2>1. ASSUME NEW q \in Runs, q # r, up', exec'.run # q, UnresolvedOf(q)' # {}
        PROVE  (Active(q) \/ run[q].status = "abandoned")'
    <3>1. run'[q] = run[q] /\ UnresolvedOf(q)' = UnresolvedOf(q) /\ up /\ exec.run # q
      BY <1>1, <1>3, <2>1 DEF Elsewhere, outside
    <3>2. Active(q) \/ run[q].status = "abandoned"
      BY <2>1, <3>1 DEF IInv, Global, UnresolvedBlocks
    <3>3. QED
      BY <3>1, <3>2 DEF Active
  <2>2. QED
    BY <1>5, <2>1 DEF UnresolvedBlocks
<1>8. \A q \in Runs : (run[q].status = "completed" \/ run[q].reason = "settled")' => UnresolvedOf(q)' = {}
  BY <1>3, <1>5 DEF IInv, Global, Elsewhere
<1>9. \A q \in Runs : Over(q)' =>
        Pending(q)' = {} \/ (UnresolvedOf(q)' # {} /\ (exec.run = q \/ ~up)')
  BY <1>1, <1>3, <1>5 DEF IInv, Global, Elsewhere, Over, outside
<1>10. (MaxSteps = 0 => RunningIsExecuted)'
  BY <1>1, <1>3, <1>5 DEF IInv, Global, RunningIsExecuted, Elsewhere, outside
<1>11. \A q, s \in Runs : Claims(q)' /\ Claims(s)' => q = s
  BY <1>6 DEF IInv, Global
<1>12. Global'
  BY <1>1, <1>4, <1>7, <1>8, <1>9, <1>10, <1>11 DEF Global
<1>13. EndedKept
  BY <1>1, <1>3, <1>5 DEF EndedKept, Elsewhere
<1>14. Local' /\ DispatchAllowed
  BY <1>1, <1>3, <1>4 DEF Local, NoneDispatched, DispatchAllowed
<1>15. QED
  BY <1>12, <1>13, <1>14 DEF Held

\* Steps that touch neither the rows nor the executor.
LEMMA AsideHeld ==
  ASSUME IInv, UNCHANGED <<run, att, exec, up>>
  PROVE  Held
<1>1. \A q : UnresolvedOf(q)' = UnresolvedOf(q) /\ Pending(q)' = Pending(q)
  BY DEF UnresolvedOf, Unresolved, Pending, Of
<1>2. Local'
  BY <1>1 DEF IInv, Local
<1>3. UnresolvedBlocks' /\ (MaxSteps = 0 => RunningIsExecuted)'
  BY <1>1 DEF IInv, Global, UnresolvedBlocks, RunningIsExecuted, Active
<1>4. Global'
  BY <1>1, <1>3 DEF IInv, Global, Claims, Active, Over
<1>5. EndedKept /\ DispatchAllowed
  BY DEF EndedKept, DispatchAllowed
<1>6. QED
  BY <1>2, <1>4, <1>5 DEF Held

LEMMA CrashHeld ==
  ASSUME IInv, LifecycleAssumption, Crash
  PROVE  Held
<1>1. UNCHANGED <<run, att>> /\ exec' = Idle /\ up' = FALSE
  BY DEF Crash
<1>2. \A q : UnresolvedOf(q)' = UnresolvedOf(q) /\ Pending(q)' = Pending(q)
  BY <1>1 DEF UnresolvedOf, Unresolved, Pending, Of
<1>3. exec'.pc = "idle"
  BY <1>1, IdleRecord
<1>4. UnresolvedBlocks' /\ (MaxSteps = 0 => RunningIsExecuted)'
  BY <1>1 DEF UnresolvedBlocks, RunningIsExecuted
<1>5. Global'
  BY <1>1, <1>2, <1>3, <1>4 DEF IInv, Global, Claims, Active, Over
<1>6. Local' /\ EndedKept /\ DispatchAllowed
  BY <1>1, <1>3 DEF Local, EndedKept, DispatchAllowed
<1>7. QED
  BY <1>5, <1>6 DEF Held

LEMMA RecoverHeld ==
  ASSUME IInv, LifecycleAssumption, Recover
  PROVE  Held
<1>1. ~up /\ up' /\ UNCHANGED exec
  BY DEF Recover
<1>2. exec = Idle /\ exec.pc = "idle" /\ exec.run = 0 /\ 0 \notin Runs
  <2>1. exec.pc = "idle"
    BY <1>1 DEF IInv, Base, ExecOK
  <2>2. exec = Idle
    BY <2>1 DEF IInv, Base, ExecOK
  <2>3. QED
    BY <2>1, <2>2, IdleRecord DEF Runs, LifecycleAssumption
<1>3. /\ \A q : UnresolvedOf(q)' = UnresolvedOf(q) /\ Pending(q)' = Pending(q)
      /\ \A a \in Attempts : att'[a].status # "dispatched"
  BY RecoverRows DEF IInv
<1>4. ASSUME NEW q \in Runs
      PROVE  /\ run[q] \in RunRecord /\ (run[q].reason # "" => run[q].status = "limited")
             /\ run[q].status = "none" => UnresolvedOf(q) = {}
             /\ IF run[q].status \notin {"none", "abandoned", "unknown"} /\ UnresolvedOf(q) # {}
                THEN run'[q].status = "unknown" /\ run'[q].reason = ""
                ELSE IF run[q].status = "running"
                THEN run'[q].status = "stopped" /\ run'[q].reason = run[q].reason
                ELSE run'[q] = run[q]
  <2>1. run[q] \in RunRecord
    BY DEF IInv, Base, TypeOK
  <2>2. run[q].reason # "" => run[q].status = "limited"
    BY DEF IInv, Base, Books
  <2>3. run[q].status = "none" => UnresolvedOf(q) = {}
    <3>1. \A a \in Attempts : RowOK(a)
      BY DEF IInv, Base, Books
    <3>2. QED
      BY <3>1 DEF RowOK, UnresolvedOf, Unresolved, Of
  <2>4. /\ [run[q] EXCEPT !.status = "unknown", !.reason = ""].status = "unknown"
        /\ [run[q] EXCEPT !.status = "unknown", !.reason = ""].reason = ""
        /\ [run[q] EXCEPT !.status = "stopped"].status = "stopped"
        /\ [run[q] EXCEPT !.status = "stopped"].reason = run[q].reason
    BY <2>1 DEF RunRecord
  <2>5. run'[q] = IF run[q].status \notin {"none", "abandoned", "unknown"} /\ UnresolvedOf(q) # {}
                  THEN [run[q] EXCEPT !.status = "unknown", !.reason = ""]
                  ELSE IF run[q].status = "running" THEN [run[q] EXCEPT !.status = "stopped"]
                  ELSE run[q]
    BY DEF Recover
  <2>6. QED
    BY <2>1, <2>2, <2>3, <2>4, <2>5
<1>5. \A q \in Runs : Claims(q)' => Claims(q)
  BY <1>3, <1>4 DEF Claims, Active
<1>6. UnresolvedBlocks' /\ (MaxSteps = 0 => RunningIsExecuted)'
  BY <1>3, <1>4 DEF UnresolvedBlocks, RunningIsExecuted, Active
<1>7. \A q \in Runs : (run[q].status = "completed" \/ run[q].reason = "settled")' => UnresolvedOf(q)' = {}
  BY <1>3, <1>4 DEF IInv, Global
<1>8. \A q \in Runs : Over(q)' => Pending(q)' = {}
  BY <1>3, <1>4 DEF IInv, Global, Over
<1>9. Global'
  BY <1>1, <1>2, <1>5, <1>6, <1>7, <1>8 DEF IInv, Global
<1>10. EndedKept
  BY <1>4 DEF EndedKept, IInv, Global
<1>11. Local' /\ DispatchAllowed
  BY <1>1, <1>2, <1>3 DEF Local, DispatchAllowed
<1>12. QED
  BY <1>9, <1>10, <1>11 DEF Held

-----------------------------------------------------------------------------
(* Every step *)

LEMMA ExecHeld ==
  ASSUME IInv, Base', LifecycleAssumption, ~WritesMayFail, ExecStep
  PROVE  Held
<1>1. CASE \/ LoopStops \/ LoopUnknown \/ ToolStops \/ SettlementLost \/ DispatchRefused
           \/ WaitCancelled \/ WaitFails \/ VerifyEnds \/ VerifyQueryRefused \/ VerifyInconclusive
  BY <1>1, QuietHeld
<1>2. CASE LoopAdopts \/ LoopLists \/ NextCall \/ FinishCommand
  BY <1>2, LoopAdoptsHeld, LoopListsHeld, NextCallHeld, FinishCommandHeld
<1>3. CASE ToolNotRun \/ ToolAnswers \/ ToolAwaits \/ ToolDispatch \/ ToolUncertain
  BY <1>3, ToolEndsHeld, ToolAwaitsHeld, ToolDispatchHeld, ToolUncertainHeld
<1>4. CASE \E applied \in BOOLEAN : ToolDecides(applied)
  BY <1>4, ToolDecidesHeld
<1>5. CASE Dispatch \/ ModelFails \/ ModelUncertain \/ Reserve \/ WaitUncompacted \/ WaitOver
  BY <1>5, DispatchHeld, ModelFailsHeld, ModelUncertainHeld, ReserveHeld, WaitUncompactedHeld,
     WaitOverHeld
<1>6. CASE \E k \in 0..MaxCalls : ModelAnswers(k)
  BY <1>6, ModelAnswersHeld
<1>7. CASE VerifyRound \/ VerifyQuery \/ VerifyResolves \/ VerifyFails
  BY <1>7, VerifyRoundHeld, VerifyQueryHeld, VerifyResolvesHeld, VerifyFailsHeld
<1>8. CASE VerifyFinishLost \/ ReturnLost
  BY <1>8 DEF VerifyFinishLost, ReturnLost
<1>9. CASE Return \/ Settle
  BY <1>9, ReturnHeld, SettleHeld
<1>10. QED
  BY <1>1, <1>2, <1>3, <1>4, <1>5, <1>6, <1>7, <1>8, <1>9 DEF ExecStep

LEMMA UserHeld ==
  ASSUME IInv, Base', LifecycleAssumption, UserStep
  PROVE  Held
<1>1. ASSUME NEW r \in Runs, NEW c \in BOOLEAN, Submit(r, c) PROVE Held
  <2>1. 0 \in 0..MaxRuns
    BY DEF LifecycleAssumption
  <2>2. QED
    BY <1>1, <2>1, CreateHeld DEF Submit
<1>2. ASSUME NEW r \in Runs, NEW p \in Runs, Successor(r, p) PROVE Held
  <2>1. p \in 0..MaxRuns /\ FALSE \in BOOLEAN
    BY DEF Runs, LifecycleAssumption
  <2>2. QED
    BY <1>2, <2>1, CreateHeld DEF Successor
<1>3. ASSUME NEW r \in Runs, Continue(r) \/ Abandon(r) PROVE Held
  BY <1>3, ContinueHeld, AbandonHeld
<1>4. ASSUME NEW r \in Runs, AcceptReads(r) \/ CancelSteer(r) PROVE Held
  <2>1. UNCHANGED <<run, att, exec, up>>
    BY <1>4 DEF AcceptReads, CancelSteer, outside
  <2>2. QED
    BY <2>1, AsideHeld
<1>5. ASSUME NEW r \in Runs, NEW applied \in BOOLEAN, ConfirmControl(r, applied) PROVE Held
  BY <1>5, ConfirmControlHeld
<1>6. CASE AcceptCommits
  <2>1. UNCHANGED <<run, att, exec, up>>
    BY <1>6 DEF AcceptCommits, outside
  <2>2. QED
    BY <2>1, AsideHeld
<1>7. CASE Cancel
  BY <1>7, CancelHeld
<1>8. QED
  BY <1>1, <1>2, <1>3, <1>4, <1>5, <1>6, <1>7 DEF UserStep

LEMMA NextHeld ==
  ASSUME IInv, LifecycleAssumption, ~WritesMayFail, [Next]_vars
  PROVE  IInv' /\ DispatchAllowed /\ EndedKept /\ FactsKept
<1>1. Base' /\ FactsKept
  BY NextBase DEF IInv
<1>2. CASE Next
  <2>1. Held
    BY <1>1, <1>2, ExecHeld, UserHeld, CrashHeld, RecoverHeld DEF Next
  <2>2. QED
    BY <1>1, <2>1 DEF Held, IInv
<1>3. CASE UNCHANGED vars
  <2>1. UNCHANGED <<run, att, exec, up>>
    BY <1>3 DEF vars
  <2>2. Held
    BY <2>1, AsideHeld
  <2>3. QED
    BY <1>1, <2>2 DEF Held, IInv
<1>4. QED
  BY <1>2, <1>3

LEMMA InitHolds ==
  ASSUME LifecycleAssumption, Init
  PROVE  IInv
<1>1. Base
  BY InitBase
<1>2. exec.pc = "idle" /\ \A r \in Runs : run[r] = NoRun
  BY IdleRecord DEF Init
<1>3. NoRun.status = "none" /\ NoRun.reason = "" /\ NoAttempt.status = "free"
  BY DEF NoRun, NoAttempt
<1>4. \A r \in Runs : UnresolvedOf(r) = {}
  BY <1>3 DEF Init, UnresolvedOf, Unresolved, Of
<1>5. Local
  BY <1>2 DEF Local
<1>6. Global
  BY <1>2, <1>3, <1>4 DEF Global, Claims, Active, Over, UnresolvedBlocks, RunningIsExecuted
<1>7. QED
  BY <1>1, <1>5, <1>6 DEF IInv

\* What the invariant says to a reader of the task list.
LEMMA HeldMeans ==
  ASSUME IInv
  PROVE  /\ TypeOK /\ OneActiveRun /\ UnresolvedBlocks /\ EndedIsAnswered
         /\ MaxSteps = 0 => RunHonest
<1>1. TypeOK /\ UnresolvedBlocks
  BY DEF IInv, Base, Global
<1>2. OneActiveRun
  BY DEF IInv, Global, Claims, OneActiveRun
<1>3. EndedIsAnswered
  BY DEF IInv, Global, Over, EndedIsAnswered
<1>4. MaxSteps = 0 => RunningIsExecuted
  BY DEF IInv, Global
<1>5. QED
  BY <1>1, <1>2, <1>3, <1>4 DEF RunHonest

-----------------------------------------------------------------------------
(* The theorems *)

\* For every value of the constants, lost settlements included, the state is always
\* one of the declared types: no Attempt is numbered beyond ModelRetries, no Run steps
\* beyond MaxSteps, no verification exceeds MaxRounds (store.go, model_recovery.go,
\* tool_verification.go).
THEOREM TypeAlways ==
  ASSUME LifecycleAssumption
  PROVE  Spec => []TypeOK
<1>1. Init => Base
  BY InitBase
<1>2. Base /\ [Next]_vars => Base'
  BY NextBase
<1>3. Base => TypeOK
  BY DEF Base
<1>4. QED
  BY <1>1, <1>2, <1>3, PTL DEF Spec

\* For every value of the constants, lost settlements included, no step rewrites what
\* an Attempt is known to be: UNKNOWN stays UNKNOWN, a result stays a result, what was
\* dispatched is never pending again and a resolution is never withdrawn (store.go
\* startTool, saveGuardedModel, Abandon, recover; model_recovery.go;
\* tool_verification.go).
THEOREM FactsAlways ==
  ASSUME LifecycleAssumption
  PROVE  Spec => [][FactsKept]_vars
<1>1. Init => Base
  BY InitBase
<1>2. Base /\ [Next]_vars => Base' /\ FactsKept
  BY NextBase
<1>3. QED
  BY <1>1, <1>2, PTL DEF Spec

LEMMA IInvAlways ==
  ASSUME LifecycleAssumption, ~WritesMayFail
  PROVE  Spec => []IInv
<1>1. Init => IInv
  BY InitHolds
<1>2. IInv /\ [Next]_vars => IInv'
  BY NextHeld
<1>3. QED
  BY <1>1, <1>2, PTL DEF Spec

\* Where settlements are not lost, with or without a step budget: one Run at a time is
\* active, so no write ever fails on the index one_active_run and recover can always
\* open the Owner; an unresolved call keeps its conversation occupied until the user
\* abandons the Run; an ended Run has every announced call answered (store.go FinishRun,
\* recover; limit_continuation.go settleLimited).
THEOREM OneActiveAlways ==
  ASSUME LifecycleAssumption, ~WritesMayFail
  PROVE  Spec => [](OneActiveRun /\ UnresolvedBlocks /\ EndedIsAnswered)
<1>1. IInv => OneActiveRun /\ UnresolvedBlocks /\ EndedIsAnswered
  BY HeldMeans
<1>2. QED
  BY <1>1, IInvAlways, PTL

\* Where settlements are not lost, an ordinary task (no step budget) in addition is
\* running only while an execution works on it (service.go process, store.go recover).
THEOREM RunHonestAlways ==
  ASSUME LifecycleAssumption, ~WritesMayFail, MaxSteps = 0
  PROVE  Spec => []RunHonest
<1>1. IInv => RunHonest
  BY HeldMeans
<1>2. QED
  BY <1>1, IInvAlways, PTL

\* Where settlements are not lost, no step dispatches a call past an unresolved one
\* that it does not replace or verify, brings an ended Run back, or rewrites an outcome
\* (store.go startGuardedModel, startTool, FinishRun, recover).
THEOREM RunFactsAlways ==
  ASSUME LifecycleAssumption, ~WritesMayFail
  PROVE  Spec => RunFacts
<1>1. IInv /\ [Next]_vars => DispatchAllowed /\ EndedKept /\ FactsKept
  BY NextHeld
<1>2. QED
  BY <1>1, IInvAlways, PTL DEF Spec, RunFacts

=============================================================================
