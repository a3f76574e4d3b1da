---------------------------- MODULE Collaboration ----------------------------
(* A bounded collaboration: one parent Run, children with dependencies, and    *)
(* one record (fa.meta collaboration/<parent>) that every transaction locks    *)
(* before it reads it. Continue is the only executor; it holds the lease of    *)
(* the parent's conversation and runs a batch of children in goroutines, each  *)
(* an ordinary Run whose calls reserve and settle output in the record. Users  *)
(* pause, resume, cancel, revise and raise limits at any moment.               *)
(*                                                                             *)
(* Run 0 is the parent, Run c > 0 the child of the same number; children are   *)
(* numbered in the order of record.Children. All children have one role. The   *)
(* children run without automatic retries and verification (ModelRetries = 0): *)
(* RunLifecycle models those. Conflicting evidence and its resolution, and the *)
(* planning of an unplanned goal, are left out.                                *)
EXTENDS Integers, Sequences, FiniteSets, FiniteSetsExt

CONSTANTS
  MaxChildren,     \* Plan.Budget.MaxChildren: children that can ever exist
  Initial,         \* how many of them the first plan may have
  Results,         \* children whose spec refers to results of its dependencies
  ReadOnly,        \* children that parallelSafe lets share a batch
  MaxModelCalls, MaxToolCalls, MaxOutput, MaxConcurrent, MaxReplans,
  CallOutput,      \* bytes reserved for one call
  ChildOutput,     \* bytes one child may use
  Sizes,           \* sizes an answer may have
  MaxEvents        \* bound: controls, user revisions, restarts and lost transactions together

ASSUME BudgetAssumption ==
  /\ MaxChildren \in Nat /\ Initial \subseteq 1 .. MaxChildren
  /\ Results \subseteq 1 .. MaxChildren /\ ReadOnly \subseteq 1 .. MaxChildren
  /\ MaxModelCalls \in Nat /\ MaxToolCalls \in Nat /\ MaxOutput \in Nat
  /\ MaxConcurrent \in Nat \ {0} /\ MaxReplans \in Nat
  /\ CallOutput \in Nat /\ ChildOutput \in Nat /\ Sizes \subseteq Nat
  /\ MaxEvents \in Nat

Child == 1 .. MaxChildren
Parent == 0

VARIABLES
  rec,      \* the collaboration record, without its children and reservations
  kid,      \* its children
  att,      \* the Attempts of all these Runs, each with its reservation
  run,      \* the status of every Run ("none": not created)
  exec,     \* who holds the lease, and where it is
  job,      \* the goroutine of each child
  ctl,      \* whether a committed cancel has still to try to drain
  events,   \* controls, revisions by users, restarts and lost transactions so far
  stuck     \* history: places in the record that no goroutine will give back

vars == <<rec, kid, att, run, exec, job, ctl, events, stuck>>

Statuses == {"none", "stopped", "running", "completed", "failed", "limited",
             "unknown", "waiting_confirmation", "abandoned"}
Errors == {"error", "limit", "unknown"}
Edits == {e \in [op : {"upsert", "retire"}, child : Child, deps : SUBSET Child] :
            e.child \notin e.deps /\ (e.op = "retire" => e.deps = {})}
NoEdit == [op |-> "none", child |-> 1, deps |-> {}]      \* acknowledge, change nothing
BadEdit == [op |-> "invalid", child |-> 1, deps |-> {}]  \* not a bounded revision

Present == {c \in Child : run[c] # "none"}
Live == {c \in Present : ~kid[c].retired}
Revision == Len(rec.sources)
Uncertain(r) ==
  \E i \in DOMAIN att : att[i].run = r /\ att[i].status \in {"dispatched", "unknown"}
NeedsResults(c) == c \in Results /\ kid[c].deps # {}
MaxCalls(kind) == IF kind = "model" THEN MaxModelCalls + rec.raised ELSE MaxToolCalls

Idle == [who |-> "nobody", pc |-> "idle", rev |-> 0, batch |-> {}, retired |-> {},
         seen |-> {}, replans |-> 0, whole |-> FALSE, over |-> FALSE, saved |-> 0, todo |-> {},
         err |-> {}, status |-> "none"]
Off == [pc |-> "off", spec |-> 0, limit |-> FALSE, err |-> {}]
NewKid(deps, spec) ==
  [control |-> "running", retired |-> FALSE, ready |-> FALSE, output |-> 0,
   deps |-> deps, spec |-> spec, steps |-> 0, pending |-> FALSE, follow |-> FALSE]

Event == events < MaxEvents /\ events' = events + 1

\* Create: the plan, the parent and every child in one transaction. Every child may
\* depend on earlier ones; an empty place holds a child that a revision may add.
Init ==
  /\ \E synthesis \in BOOLEAN :
       rec = [control |-> "running", sources |-> <<"user">>, active |-> {},
              model |-> 0, tool |-> 0, output |-> 0, raised |-> 0, replans |-> 0,
              replan |-> 0, replanned |-> {}, synthesis |-> synthesis, synth |-> 0]
  /\ \E n \in Initial : \E deps \in [1 .. n -> SUBSET (1 .. n)] :
       /\ \A c \in 1 .. n : \A d \in deps[c] : d < c
       /\ kid = [c \in Child |-> NewKid(IF c <= n THEN deps[c] ELSE {}, 1)]
       /\ run = [r \in {Parent} \cup Child |-> IF r <= n THEN "stopped" ELSE "none"]
  /\ att = << >>
  /\ exec = Idle /\ job = [c \in Child |-> Off] /\ ctl = FALSE /\ events = 0 /\ stuck = {}

-----------------------------------------------------------------------------
(* Budget: Reserve shares the transaction of the dispatch, Record that of the  *)
(* settlement.                                                                 *)

\* validateDeliveredResults: the sources are still the completed ones.
SourcesValid(c) ==
  \A d \in kid[c].deps : run[d] = "completed" /\ kid[d].control = "running" /\ ~kid[d].retired

Fits(c, kind) ==
  /\ c # Parent => kid[c].output + CallOutput <= ChildOutput
  /\ rec.output + CallOutput <= MaxOutput
  /\ rec[kind] < MaxCalls(kind)

\* collaborationGuard.Reserve for a child.
MayReserve(c) ==
  /\ rec.control = "running"
  /\ kid[c].control = "running" /\ ~kid[c].retired
  /\ NeedsResults(c) => kid[c].ready /\ SourcesValid(c)
  /\ c \in rec.active /\ Cardinality(rec.active) <= MaxConcurrent

NewAttempt(r, kind, purpose, spec) ==
  [run |-> r, kind |-> kind, purpose |-> purpose, status |-> "dispatched",
   spec |-> spec, rev |-> IF purpose = "replanning" THEN Revision ELSE 0, edit |-> NoEdit,
   bytes |-> CallOutput, observed |-> 0, final |-> FALSE]

\* reserveCollaborationCall, with the dispatch of the Attempt itself.
Reserve(r, kind, purpose, spec) ==
  /\ att' = Append(att, NewAttempt(r, kind, purpose, spec))
  /\ rec' = [rec EXCEPT ![kind] = @ + 1, !.output = @ + CallOutput,
                        !.replans = IF purpose = "replanning" THEN @ + 1 ELSE @,
                        !.replan = IF purpose = "replanning" THEN Len(att) + 1 ELSE @,
                        !.synth = IF purpose = "synthesis" THEN Len(att) + 1 ELSE @]
  /\ kid' = IF r = Parent THEN kid
            ELSE [kid EXCEPT ![r] = [kid[r] EXCEPT !.output = @ + CallOutput, !.steps = @ + 1,
                                                   !.pending = FALSE]]

\* The dispatched call of a Run: a Run makes one call at a time.
Flight(r) == CHOOSE i \in DOMAIN att : att[i].run = r /\ att[i].status = "dispatched"

Billed(a, size, final) ==
  LET observed == IF size > a.observed THEN size ELSE a.observed
  IN [a EXCEPT !.observed = observed, !.final = final,
               !.bytes = IF final \/ observed > @ THEN observed ELSE @]

\* collaborationGuard.Record of a call whose Attempt becomes next.
Record(i, next) ==
  LET delta == next.bytes - att[i].bytes
  IN /\ att' = [att EXCEPT ![i] = next]
     /\ rec' = [rec EXCEPT !.output = @ + delta]
     /\ kid' = IF next.run = Parent THEN kid ELSE [kid EXCEPT ![next.run].output = @ + delta]

\* Record's answer: the call, its child or the parent is over its limit.
Over(i) ==
  \/ att'[i].observed > CallOutput
  \/ att'[i].run # Parent /\ kid'[att'[i].run].output > ChildOutput
  \/ rec'.output > MaxOutput

-----------------------------------------------------------------------------
(* Children: runChild, and the calls of the child's Run.                       *)

End(c, err) ==
  job' = [job EXCEPT ![c] = [@ EXCEPT !.pc = "end", !.err = err]]

\* deliverResults: only into a child that was never dispatched.
Deliver(c) ==
  /\ job[c].pc = "deliver"
  /\ \/ /\ Revision = exec.rev /\ rec.control = "running"
        /\ kid[c].control = "running" /\ ~kid[c].retired
        /\ SourcesValid(c) /\ (kid[c].ready \/ kid[c].steps = 0)
        /\ kid' = [kid EXCEPT ![c].ready = TRUE]
        /\ job' = [job EXCEPT ![c].pc = "continue"]
     \/ End(c, {"error"}) /\ UNCHANGED kid
  /\ UNCHANGED <<rec, att, run, exec, ctl, events, stuck>>

\* Service.Continue of the child's Run, which may also refuse (configuration).
ChildContinue(c) ==
  /\ job[c].pc = "continue"
  /\ \/ /\ run[c] \notin {"completed", "failed", "abandoned"} /\ ~Uncertain(c)
        /\ run' = [run EXCEPT ![c] = "running"]
        /\ job' = [job EXCEPT ![c].pc = IF kid[c].pending THEN "tool" ELSE "model"]
     \/ Uncertain(c) /\ End(c, {"unknown"}) /\ UNCHANGED run
     \/ End(c, {"error"}) /\ UNCHANGED run
  /\ UNCHANGED <<rec, kid, att, exec, ctl, events, stuck>>

Dispatch(c) ==
  /\ job[c].pc \in {"model", "tool"}
  /\ MayReserve(c) /\ Fits(c, job[c].pc)
  /\ Reserve(c, job[c].pc, "", job[c].spec)
  /\ job' = [job EXCEPT ![c].pc = "call"]
  /\ UNCHANGED <<run, exec, ctl, events, stuck>>

\* A refused reservation or, at any time, a cancelled context.
Stop(c) ==
  /\ job[c].pc \in {"model", "tool"}
  /\ IF MayReserve(c) /\ ~Fits(c, job[c].pc)
     THEN run' = [run EXCEPT ![c] = "limited"] /\ End(c, {"limit"})
     ELSE run' = [run EXCEPT ![c] = "stopped"] /\ End(c, {"error"})
  /\ UNCHANGED <<rec, kid, att, exec, ctl, events, stuck>>

\* An operation that needs approval waits; a declined or invalid one is answered
\* without a dispatch and without a reservation.
AwaitApproval(c) ==
  /\ job[c].pc = "tool"
  /\ run' = [run EXCEPT ![c] = "waiting_confirmation"]
  /\ End(c, {})
  /\ UNCHANGED <<rec, kid, att, exec, ctl, events, stuck>>

AnswerUndispatched(c) ==
  /\ job[c].pc = "tool"
  /\ kid' = [kid EXCEPT ![c].pending = FALSE]
  /\ job' = [job EXCEPT ![c].pc = "model"]
  /\ UNCHANGED <<rec, att, run, exec, ctl, events, stuck>>

\* recordOutput: the size is recorded in a transaction of its own before the
\* outcome, so that an overrun is charged whatever happens next.
Observe(c) ==
  /\ job[c].pc = "call"
  /\ \E size \in Sizes :
       LET i == Flight(c)
       IN /\ Record(i, Billed(att[i], size, FALSE))
          /\ job' = [job EXCEPT ![c] = [@ EXCEPT !.pc = "settle", !.limit = Over(i)]]
  /\ UNCHANGED <<run, exec, ctl, events, stuck>>

\* saveGuardedModel and saveGuardedTool. A model answer completes the child or lists
\* a call; an answer over a limit leaves the Run limited. A tool that certainly
\* failed keeps its reservation.
Finish(c) ==
  /\ job[c].pc = "settle"
  /\ LET i == Flight(c)
         model == att[i].kind = "model"
     IN \E last, follow, refund \in BOOLEAN :
          LET next == [Billed(att[i], 0, refund) EXCEPT !.status = "finished"]
              delta == next.bytes - att[i].bytes
          IN /\ model => refund
             /\ (last => model) /\ (follow => last)
             /\ att' = [att EXCEPT ![i] = next]
             /\ rec' = [rec EXCEPT !.output = @ + delta]
             /\ kid' = [kid EXCEPT ![c] = [kid[c] EXCEPT !.output = @ + delta,
                                                         !.pending = model /\ ~last,
                                                         !.follow = follow]]
             /\ LET over == job[c].limit \/ Over(i)
                IN /\ run' = [run EXCEPT ![c] = IF over THEN "limited"
                                                ELSE IF last THEN "completed" ELSE @]
                   /\ IF over THEN End(c, {"limit"})
                      ELSE IF last THEN End(c, {})
                      ELSE job' = [job EXCEPT ![c].pc = IF model THEN "tool" ELSE "model"]
  /\ UNCHANGED <<exec, ctl, events, stuck>>

\* Mutant of Fail: the rest of the reservation is refunded.
FailRefunds(c) ==
  /\ job[c].pc = "settle"
  /\ LET i == Flight(c)
     IN /\ att[i].kind = "model"
        /\ Record(i, [Billed(att[i], 0, TRUE) EXCEPT !.status = "failed"])
  /\ run' = [run EXCEPT ![c] = "failed"]
  /\ End(c, {"error"})
  /\ UNCHANGED <<exec, ctl, events, stuck>>

\* failModel: definitive, and no refund ("failed": finished with a saved failure).
Fail(c) ==
  /\ job[c].pc = "settle"
  /\ LET i == Flight(c)
     IN /\ att[i].kind = "model"
        /\ Record(i, [Billed(att[i], 0, FALSE) EXCEPT !.status = "failed"])
  /\ run' = [run EXCEPT ![c] = "failed"]
  /\ End(c, {"error"})
  /\ UNCHANGED <<exec, ctl, events, stuck>>

\* markUnknown: nothing is settled.
Lose(c) ==
  /\ job[c].pc = "settle"
  /\ att' = [att EXCEPT ![Flight(c)].status = "unknown"]
  /\ run' = [run EXCEPT ![c] = "unknown"]
  /\ End(c, {"unknown"})
  /\ UNCHANGED <<rec, kid, exec, ctl, events, stuck>>

\* The goroutine gives its place back, whatever happened, and is gone. The transaction
\* has five seconds; it may fail, or its answer be lost: both are the child's error.
Deactivate(c) ==
  /\ job[c].pc = "end"
  /\ job' = [job EXCEPT ![c] = Off]
  /\ \/ /\ rec' = [rec EXCEPT !.active = @ \ {c}]
        /\ exec' = [exec EXCEPT !.err = @ \cup job[c].err]
        /\ UNCHANGED <<events, stuck>>
     \/ /\ Event
        /\ exec' = [exec EXCEPT !.err = @ \cup job[c].err \cup {"error"}]
        /\ \/ rec' = [rec EXCEPT !.active = @ \ {c}] /\ UNCHANGED stuck
           \/ stuck' = stuck \cup {c} /\ UNCHANGED rec
  /\ UNCHANGED <<kid, att, run, ctl>>

ChildStep(c) ==
  \/ Deliver(c) \/ ChildContinue(c) \/ Dispatch(c) \/ Stop(c) \/ AwaitApproval(c)
  \/ AnswerUndispatched(c) \/ Observe(c) \/ Finish(c) \/ Fail(c) \/ Lose(c)
  \/ Deactivate(c)

-----------------------------------------------------------------------------
(* Plan revisions.                                                             *)

Acyclic(deps) ==
  \A S \in SUBSET Child : S # {} => \E c \in S : deps[c] \cap S = {}

\* applyPlanEdit, its common part: nothing uncertain may be edited away.
Editable ==
  /\ rec.control # "cancelled"
  /\ run[Parent] \notin {"completed", "abandoned", "failed", "unknown"}
  /\ rec.synth # 0 => att[rec.synth].status \notin {"dispatched", "unknown"}

\* Mutant of Untouched: a child that was activated and not yet dispatched is edited.
UntouchedInBatch(c) == ~kid[c].retired /\ ~Uncertain(c) /\ run[c] # "unknown"

\* An assignment may change until it is dispatched, and not while a goroutine has it.
Untouched(c) ==
  /\ ~kid[c].retired /\ c \notin rec.active
  /\ ~Uncertain(c) /\ run[c] # "unknown"

Upsertable(c, deps) ==
  /\ \/ run[c] = "none" /\ c = Cardinality(Present) + 1
     \/ /\ c \in Present /\ Untouched(c)
        /\ kid[c].steps = 0 /\ run[c] # "abandoned" /\ kid[c].control # "cancelled"
  /\ deps \subseteq Live \ {c}
  /\ Acyclic([d \in Child |-> IF d = c THEN deps ELSE kid[d].deps])

Retirable(c) ==
  /\ c \in Present /\ Untouched(c)
  /\ kid[c].steps = 0 \/ run[c] = "failed"
  /\ \A d \in Live \ {c} : c \notin kid[d].deps

EditOK(e) ==
  /\ Editable
  /\ e.op = "upsert" => Upsertable(e.child, e.deps)
  /\ e.op = "retire" => Retirable(e.child)

EditedKid(e) ==
  CASE e.op = "upsert" /\ run[e.child] = "none" -> NewKid(e.deps, Revision + 1)
    [] e.op = "upsert" /\ run[e.child] # "none" ->
         [kid[e.child] EXCEPT !.deps = e.deps, !.spec = Revision + 1, !.ready = FALSE]
    [] e.op = "retire" ->
         [kid[e.child] EXCEPT !.retired = TRUE,
                              !.control = IF kid[e.child].steps = 0 THEN "cancelled" ELSE @]

EditedStatus(e) ==
  CASE run[e.child] = "none" -> "stopped"
    [] e.op = "retire" /\ kid[e.child].steps = 0 -> "abandoned"
    [] OTHER -> run[e.child]

\* Mutant of ApplyEdit: the synthesis of the previous revision is kept.
ApplyEditKeeping(e, source) ==
  /\ kid' = [kid EXCEPT ![e.child] = EditedKid(e)]
  /\ run' = [run EXCEPT ![e.child] = EditedStatus(e)]
  /\ rec' = [rec EXCEPT !.sources = Append(@, source), !.replan = 0,
                        !.replanned = IF source = "replanning" THEN @ \cup exec.seen ELSE @]

\* The edit itself; a new revision may be synthesised again.
ApplyEdit(e, source) ==
  /\ kid' = [kid EXCEPT ![e.child] = EditedKid(e)]
  /\ run' = [run EXCEPT ![e.child] = EditedStatus(e)]
  /\ rec' = [rec EXCEPT !.sources = Append(@, source), !.synth = 0, !.replan = 0,
                        !.replanned = IF source = "replanning" THEN @ \cup exec.seen ELSE @]

\* Revise and Adjust: a user edits the plan, with or without an execution. The edit
\* supersedes a saved proposal whose outcome is known.
Revise ==
  /\ Event
  /\ rec.replan # 0 => att[rec.replan].status \notin {"dispatched", "unknown"}
  /\ \E e \in Edits : EditOK(e) /\ ApplyEdit(e, "user")
  /\ UNCHANGED <<att, exec, job, ctl, stuck>>

\* IncreaseLimits takes the lease. Of the limits only the model calls grow here.
IncreaseLimits ==
  /\ Event
  /\ exec.pc = "idle"
  /\ run[Parent] \notin {"completed", "failed", "abandoned"} /\ rec.control # "cancelled"
  /\ rec' = [rec EXCEPT !.raised = @ + 1, !.sources = Append(@, "limits")]
  /\ UNCHANGED <<kid, att, run, exec, job, ctl, stuck>>

-----------------------------------------------------------------------------
(* Controls.                                                                   *)

NextControl == [pause |-> "paused", resume |-> "running", cancel |-> "cancelled"]

\* Control of the whole collaboration. A repeated cancel only drains again.
Control(action) ==
  /\ \/ rec.control = "cancelled" /\ action = "cancel" /\ UNCHANGED rec
     \/ /\ run[Parent] # "completed" /\ rec.control # "cancelled"
        /\ action = "resume" => run[Parent] # "unknown"
        /\ rec' = [rec EXCEPT !.control = NextControl[action]]
  /\ Event /\ ctl' = (ctl \/ action = "cancel")
  /\ UNCHANGED <<kid, att, run, exec, job, stuck>>

ControlChild(c, action) ==
  /\ run[Parent] # "completed" /\ rec.control # "cancelled"
  /\ c \in Live
  /\ \/ kid[c].control = "cancelled" /\ action = "cancel" /\ UNCHANGED kid
     \/ /\ run[c] # "completed" /\ kid[c].control # "cancelled"
        /\ action = "resume" => run[c] # "unknown"
        /\ kid' = [kid EXCEPT ![c].control = NextControl[action]]
  /\ Event /\ ctl' = (ctl \/ action = "cancel")
  /\ UNCHANGED <<rec, att, run, exec, job, stuck>>

\* After a cancel: drain now if nobody executes, otherwise leave it to the executor.
ControlDrain ==
  /\ ctl /\ ctl' = FALSE
  /\ exec' = IF exec.pc = "idle" THEN [Idle EXCEPT !.who = "control", !.pc = "drain"] ELSE exec
  /\ UNCHANGED <<rec, kid, att, run, job, events, stuck>>

-----------------------------------------------------------------------------
(* Continue.                                                                   *)

At(pc) == exec.pc = pc
Goto(pc) == exec' = [exec EXCEPT !.pc = pc]
\* Return from the loop. Of the errors only a limit still matters, and all else is
\* local to the part that is left.
Exit(err) ==
  exec' = [Idle EXCEPT !.who = exec.who, !.pc = "drain",
                       !.err = (exec.err \cup err) \cap {"limit"}]

\* A parent that a failed synthesis left failed is stopped again; a cancelled one
\* is drained; a completed, uncertain, failed or paused one is only reported.
ContinueBegin ==
  /\ At("idle")
  /\ run[Parent] \notin {"completed", "unknown", "abandoned"}
  /\ \/ /\ rec.control = "running"
        /\ \/ run[Parent] # "failed" /\ UNCHANGED run
           \/ /\ run[Parent] = "failed"
              /\ rec.synth # 0 /\ att[rec.synth].status = "failed"
              /\ run' = [run EXCEPT ![Parent] = "stopped"]
        /\ exec' = [Idle EXCEPT !.who = "continue", !.pc = "clear"]
     \/ /\ rec.control = "cancelled" /\ run[Parent] # "failed"
        /\ exec' = [Idle EXCEPT !.who = "control", !.pc = "drain"]
        /\ UNCHANGED run
  /\ UNCHANGED <<rec, kid, att, job, ctl, events, stuck>>

ContinueClear ==
  /\ At("clear")
  /\ rec' = [rec EXCEPT !.active = {}] /\ stuck' = {}
  /\ Goto("enter")
  /\ UNCHANGED <<kid, att, run, job, ctl, events>>

ContinueEnter ==
  /\ At("enter")
  /\ run' = [run EXCEPT ![Parent] = "running"]
  /\ Goto("loop")
  /\ UNCHANGED <<rec, kid, att, job, ctl, events, stuck>>

\* The context was cancelled or a read failed.
Abort ==
  /\ \/ exec.pc \in {"clear", "enter"} /\ exec' = Idle
     \/ /\ exec.pc \in {"loop", "activate", "replan", "propose", "apply", "finalize",
                        "synthesize", "inspect", "commit"}
        /\ Exit({"error"})
  /\ UNCHANGED <<rec, kid, att, run, job, ctl, events, stuck>>

Eligible(c) ==
  /\ c \in Live /\ kid[c].control = "running"
  /\ run[c] \notin {"completed", "failed", "abandoned", "waiting_confirmation"}
  /\ \A d \in kid[c].deps : run[d] = "completed"

\* The first eligible child, and with a read-only one the read-only ones after it.
Batch ==
  LET E == {c \in Child : Eligible(c)}
  IN {c \in E : /\ \A d \in E : d < c => d \in ReadOnly /\ c \in ReadOnly
                /\ Cardinality({d \in E : d < c}) < MaxConcurrent}

ShouldReplan(retired) ==
  \E c \in Present \ (retired \cup rec.replanned) :
    run[c] = "failed" \/ (run[c] = "completed" /\ kid[c].follow)

Ended == {c \in Present : run[c] \in {"completed", "failed"}}

LoopNext ==
  CASE rec.replan # 0 -> "replan"
    [] rec.replan = 0 /\ Batch # {} -> "activate"
    [] rec.replan = 0 /\ Batch = {} ->
         IF ShouldReplan(Present \ Live) /\ rec.replans < MaxReplans
         THEN "replan" ELSE "finalize"

\* One turn of the loop: a child that is UNKNOWN ends the execution.
Loop ==
  /\ At("loop")
  /\ IF \E c \in Present : run[c] = "unknown" THEN Exit({"unknown"})
     ELSE exec' =
       CASE LoopNext = "activate" ->
              [Idle EXCEPT !.who = "continue", !.pc = "activate", !.rev = Revision,
                           !.batch = Batch, !.retired = Present \ Live, !.replans = rec.replans]
         [] LoopNext = "replan" ->
              [Idle EXCEPT !.who = "continue", !.pc = "replan", !.seen = Ended]
         [] LoopNext = "finalize" ->
              [Idle EXCEPT !.who = "continue", !.pc = "finalize", !.rev = Revision,
                 !.whole = \A c \in Live : run[c] = "completed" /\ kid[c].control = "running"]
  /\ UNCHANGED <<rec, kid, att, run, job, ctl, events, stuck>>

\* activate: the plan may have been revised or controlled since it was read.
Room(batch) ==
  /\ Cardinality(rec.active) + Cardinality(batch) <= MaxConcurrent
  /\ rec.model < MaxCalls("model") /\ rec.output < MaxOutput

MayActivate(batch) ==
  /\ rec.control = "running" /\ Room(batch)
  /\ \A c \in batch : kid[c].control = "running" /\ ~kid[c].retired /\ c \notin rec.active

Start(batch, pc) ==
  /\ rec' = [rec EXCEPT !.active = @ \cup batch]
  /\ job' = [c \in Child |-> IF c \in batch THEN [Off EXCEPT !.pc = pc[c], !.spec = kid[c].spec]
                             ELSE job[c]]

FirstStep == [c \in Child |-> IF NeedsResults(c) THEN "deliver" ELSE "continue"]

Activate ==
  /\ At("activate")
  /\ IF Revision = exec.rev /\ MayActivate(exec.batch)
     THEN Start(exec.batch, FirstStep) /\ Goto("batch")
     ELSE /\ Exit({IF Revision = exec.rev /\ rec.control = "running" /\ ~Room(exec.batch)
                   THEN "limit" ELSE "error"})
          /\ UNCHANGED <<rec, job>>
  /\ UNCHANGED <<kid, att, run, ctl, events, stuck>>

\* activate is saved and its answer lost: no goroutine starts, of the loop's batch or of
\* a confirmation, and nothing gives the places back.
ActivateLost ==
  /\ Event
  /\ \E batch \in SUBSET Live :
       /\ MayActivate(batch)
       /\ \/ At("activate") /\ Revision = exec.rev /\ batch = exec.batch /\ Exit({"error"})
          \/ /\ At("idle") /\ UNCHANGED exec
             /\ \E c \in Live : batch = {c} /\ run[c] = "waiting_confirmation"
       /\ rec' = [rec EXCEPT !.active = @ \cup batch] /\ stuck' = stuck \cup batch
  /\ UNCHANGED <<kid, att, run, job, ctl>>

\* Every goroutine of the batch has returned.
AfterBatch ==
  /\ At("batch") /\ \A c \in Child : job[c].pc = "off"
  /\ CASE exec.who = "confirm" -> Exit({})
       [] exec.who # "confirm" /\ exec.err # {} ->
            \/ /\ "unknown" \notin exec.err
               /\ ShouldReplan(exec.retired) /\ exec.replans < MaxReplans
               /\ exec' = [Idle EXCEPT !.who = "continue", !.pc = "replan", !.seen = Ended,
                                       !.err = exec.err]
            \/ Exit({})
       [] exec.who # "confirm" /\ exec.err = {} ->
            IF \A c \in exec.batch : run[c] = "completed"
            THEN exec' = [Idle EXCEPT !.who = "continue", !.pc = "loop"] ELSE Exit({})
  /\ UNCHANGED <<rec, kid, att, run, job, ctl, events, stuck>>

\* ChildConfirm: the saved operation of one waiting child, approved or declined.
ChildConfirm(c) ==
  /\ At("idle") /\ c \in Live /\ run[c] = "waiting_confirmation"
  /\ MayActivate({c})
  /\ Start({c}, [d \in Child |-> "tool"])
  /\ run' = [run EXCEPT ![c] = "running"]
  /\ exec' = [Idle EXCEPT !.who = "confirm", !.pc = "batch", !.batch = {c}]
  /\ UNCHANGED <<kid, att, ctl, events, stuck>>

-----------------------------------------------------------------------------
(* Replanning: one model proposal per revision, applied or refused as saved.   *)

SavedProposals ==
  {i \in DOMAIN att : /\ att[i].run = Parent /\ att[i].purpose = "replanning"
                      /\ att[i].rev = Revision \/ rec.replan = i}

\* A proposal made for an older revision survives raised limits only.
OnlyLimitsSince(i) ==
  rec.replan = i /\ \A n \in att[i].rev + 1 .. Revision : rec.sources[n] = "limits"

ReplanRead ==
  /\ At("replan")
  /\ \/ Uncertain(Parent) /\ Exit({"unknown"})
     \/ /\ ~Uncertain(Parent) /\ SavedProposals = {}
        /\ exec' = [exec EXCEPT !.pc = "propose", !.rev = Revision]
     \/ /\ ~Uncertain(Parent) /\ SavedProposals # {}
        /\ LET s == Max(SavedProposals)
           IN IF /\ rec.replan \in {0, s} /\ att[s].status = "finished" /\ att[s].edit # BadEdit
                 /\ att[s].rev = Revision \/ OnlyLimitsSince(s)
              THEN exec' = [exec EXCEPT !.pc = "apply", !.saved = s, !.rev = Revision]
              ELSE Exit({"error"})
  /\ UNCHANGED <<rec, kid, att, run, job, ctl, events, stuck>>

MayPropose ==
  /\ rec.control = "running" /\ rec.replans < MaxReplans /\ rec.replan = 0
  /\ Revision = exec.rev /\ Fits(Parent, "model")

Propose ==
  /\ At("propose")
  /\ IF MayPropose THEN Reserve(Parent, "model", "replanning", 0) /\ Goto("call")
     ELSE /\ Exit({IF /\ rec.control = "running"
                      /\ rec.replans < MaxReplans => rec.replan = 0 /\ Revision = exec.rev
                   THEN "limit" ELSE "error"})
          /\ UNCHANGED <<rec, kid, att>>
  /\ UNCHANGED <<run, job, ctl, events, stuck>>

\* replan ends: it never leaves the parent failed.
ReplanFailed ==
  /\ At("failed")
  /\ run' = [run EXCEPT ![Parent] = "stopped"]
  /\ Exit({IF exec.over THEN "limit" ELSE "error"})
  /\ UNCHANGED <<rec, kid, att, job, ctl, events, stuck>>

\* The saved proposal, if nobody was faster and the controls still allow it.
Apply ==
  /\ At("apply")
  /\ LET e == att[exec.saved].edit
     IN IF /\ rec.control = "running" /\ rec.replan = exec.saved /\ Revision = exec.rev
           /\ e # NoEdit => EditOK(e)
        THEN /\ IF e # NoEdit THEN ApplyEdit(e, "replanning")
                ELSE /\ rec' = [rec EXCEPT !.sources = Append(@, "replanning"), !.replan = 0,
                                           !.replanned = @ \cup exec.seen]
                     /\ UNCHANGED <<kid, run>>
             /\ exec' = [Idle EXCEPT !.who = "continue", !.pc = "loop"]
        ELSE Exit({"error"}) /\ UNCHANGED <<rec, kid, run>>
  /\ UNCHANGED <<att, job, ctl, events, stuck>>

-----------------------------------------------------------------------------
(* Finalisation.                                                               *)

\* Every live child is complete and has its evidence; the draft is saved first.
Finalize ==
  /\ At("finalize")
  /\ \/ ~exec.whole /\ Exit({})
     \/ exec.whole /\ Exit({"error"})
     \/ /\ exec.whole /\ Revision = exec.rev /\ rec.control = "running"
        /\ Goto(IF rec.synthesis THEN "synthesize" ELSE "commit")
  /\ UNCHANGED <<rec, kid, att, run, job, ctl, events, stuck>>

AllComplete ==
  rec.active = {} /\ \A c \in Live : run[c] = "completed" /\ kid[c].control = "running"

MaySynthesize == rec.control = "running" /\ AllComplete /\ Fits(Parent, "model")

\* synthesize returns an error; finalize decides what becomes of it.
Report(err) == exec' = [exec EXCEPT !.pc = "inspect", !.err = @ \cup {err}]

\* A saved synthesis is used or, when it failed, replaced by the draft. A refused
\* dispatch ends the execution only for a control or a limit.
Synthesize ==
  /\ At("synthesize")
  /\ \/ /\ rec.synth # 0
        /\ CASE att[rec.synth].status = "finished" -> Goto("inspect")
             [] att[rec.synth].status = "failed" -> Report("error")
             [] OTHER -> Report("unknown")
        /\ UNCHANGED <<rec, kid, att>>
     \/ /\ rec.synth = 0 /\ MaySynthesize
        /\ Reserve(Parent, "model", "synthesis", 0)
        /\ Goto("call")
     \/ /\ rec.synth = 0 /\ ~MaySynthesize
        /\ CASE rec.control # "running" -> Exit({"error"})
             [] rec.control = "running" /\ AllComplete -> Exit({"limit"})
             [] OTHER -> Report("error")
        /\ UNCHANGED <<rec, kid, att>>
  /\ UNCHANGED <<run, job, ctl, events, stuck>>

\* The report is read again after the synthesis.
Reinspect ==
  /\ At("inspect")
  /\ IF \/ run[Parent] \in {"unknown", "limited"}
        \/ rec.synth # 0 /\ att[rec.synth].status \in {"dispatched", "unknown"}
     THEN Exit({})
     ELSE exec' = [exec EXCEPT !.pc = "commit", !.rev = Revision]
  /\ UNCHANGED <<rec, kid, att, run, job, ctl, events, stuck>>

\* A user control racing with synthesis must win before completion.
Commit ==
  /\ At("commit")
  /\ IF rec.control = "running" /\ Revision = exec.rev
     THEN run' = [run EXCEPT ![Parent] = "completed"] /\ Exit({})
     ELSE Exit({"error"}) /\ UNCHANGED run
  /\ UNCHANGED <<rec, kid, att, job, ctl, events, stuck>>

-----------------------------------------------------------------------------
(* The parent's own model calls, for a proposal or a synthesis.                *)

ParentObserve ==
  /\ At("call")
  /\ \E size \in Sizes :
       LET i == Flight(Parent)
       IN /\ Record(i, Billed(att[i], size, FALSE))
          /\ exec' = [exec EXCEPT !.pc = "settle", !.over = Over(i)]
  /\ UNCHANGED <<run, job, ctl, events, stuck>>

\* A settled call of a cancelled parent abandons it.
ParentFinish ==
  /\ At("settle")
  /\ LET i == Flight(Parent)
     IN \E e \in IF att[i].purpose = "replanning" THEN Edits \cup {NoEdit, BadEdit} ELSE {NoEdit} :
          /\ Record(i, [Billed(att[i], 0, TRUE) EXCEPT !.status = "finished", !.edit = e])
          /\ LET over == exec.over \/ Over(i)
             IN /\ run' = [run EXCEPT ![Parent] = IF over THEN "limited"
                                                  ELSE IF rec.control = "cancelled" THEN "abandoned"
                                                  ELSE @]
                /\ CASE over -> Exit({"limit"})
                     [] ~over /\ e = BadEdit -> Exit({"error"})
                     [] ~over /\ e # BadEdit ->
                          exec' = [exec EXCEPT !.saved = i,
                                     !.pc = IF att[i].purpose = "synthesis" THEN "inspect" ELSE "apply"]
  /\ UNCHANGED <<job, ctl, events, stuck>>

ParentFail ==
  /\ At("settle")
  /\ LET i == Flight(Parent)
     IN /\ Record(i, [Billed(att[i], 0, FALSE) EXCEPT !.status = "failed"])
        /\ CASE att[i].purpose = "replanning" -> Goto("failed")
             [] att[i].purpose = "synthesis" /\ exec.over -> Exit({"limit"})
             [] att[i].purpose = "synthesis" /\ ~exec.over -> Report("error")
  /\ run' = [run EXCEPT ![Parent] = "failed"]
  /\ UNCHANGED <<job, ctl, events, stuck>>

ParentLose ==
  /\ At("settle")
  /\ att' = [att EXCEPT ![Flight(Parent)].status = "unknown"]
  /\ run' = [run EXCEPT ![Parent] = "unknown"]
  /\ IF att[Flight(Parent)].purpose = "synthesis" THEN Report("unknown") ELSE Exit({"unknown"})
  /\ UNCHANGED <<rec, kid, job, ctl, events, stuck>>

-----------------------------------------------------------------------------
(* The end of an execution, and of a cancelled collaboration.                  *)

\* drainCancelled reads the record once and abandons what it says, one Run at a time.
DrainRead ==
  /\ At("drain")
  /\ exec' = [exec EXCEPT !.pc = "draining",
                !.todo = {c \in Present : "cancelled" \in {kid[c].control, rec.control}}
                         \cup (IF rec.control = "cancelled" THEN {Parent} ELSE {})]
  /\ UNCHANGED <<rec, kid, att, run, job, ctl, events, stuck>>

Drain ==
  /\ At("draining")
  /\ IF exec.todo = {} THEN
       /\ exec' = IF exec.who = "continue" THEN [exec EXCEPT !.pc = "pick"] ELSE Idle
       /\ UNCHANGED run
     ELSE LET r == IF exec.todo = {Parent} THEN Parent ELSE Min(exec.todo \ {Parent})
          IN /\ exec' = [exec EXCEPT !.todo = @ \ {r}]
             /\ run' = [run EXCEPT ![r] = IF @ = "completed" \/ (@ = "failed" /\ r # Parent)
                                          THEN @ ELSE "abandoned"]
  /\ UNCHANGED <<rec, kid, att, job, ctl, events, stuck>>

\* The deferred function of Continue reads what it will write ...
PickStatus ==
  /\ At("pick")
  /\ exec' = [exec EXCEPT !.pc = "finish",
       !.status = CASE run[Parent] # "running" -> "none"
                    [] run[Parent] = "running" /\ rec.control = "cancelled" -> "abandoned"
                    [] run[Parent] = "running" /\ rec.control # "cancelled" ->
                         IF \E c \in Present : run[c] = "unknown" THEN "unknown"
                         ELSE IF "limit" \in exec.err THEN "limited" ELSE "stopped"]
  /\ UNCHANGED <<rec, kid, att, run, job, ctl, events, stuck>>

\* ... and writes it, before the lease is released.
FinishParent ==
  /\ At("finish")
  /\ run' = [run EXCEPT ![Parent] = IF exec.status = "none" THEN @ ELSE exec.status]
  /\ exec' = Idle
  /\ UNCHANGED <<rec, kid, att, job, ctl, events, stuck>>

\* The Owner dies; the next one recovers the store before anything else runs.
Recovered(r) ==
  CASE Uncertain(r) /\ run[r] # "abandoned" -> "unknown"
    [] run[r] = "running" /\ ~Uncertain(r) -> "stopped"
    [] OTHER -> run[r]

Restart ==
  /\ Event
  /\ att' = [i \in DOMAIN att |->
               IF att[i].status = "dispatched" THEN [att[i] EXCEPT !.status = "unknown"] ELSE att[i]]
  /\ run' = [r \in DOMAIN run |-> Recovered(r)]
  /\ rec' = [rec EXCEPT !.active = {}] /\ stuck' = {}
  /\ exec' = Idle /\ job' = [c \in Child |-> Off] /\ ctl' = FALSE
  /\ UNCHANGED kid

-----------------------------------------------------------------------------

ExecStep ==
  \/ ContinueClear \/ ContinueEnter \/ Abort \/ Loop \/ Activate \/ ActivateLost \/ AfterBatch
  \/ ReplanRead \/ Propose \/ ReplanFailed \/ Apply
  \/ Finalize \/ Synthesize \/ Reinspect \/ Commit
  \/ ParentObserve \/ ParentFinish \/ ParentFail \/ ParentLose
  \/ DrainRead \/ Drain \/ PickStatus \/ FinishParent

UserStep ==
  \/ ContinueBegin \/ Revise \/ IncreaseLimits
  \/ \E action \in DOMAIN NextControl :
       Control(action) \/ \E c \in Child : ControlChild(c, action)
  \/ \E c \in Child : ChildConfirm(c)

Next ==
  \/ ExecStep \/ UserStep \/ ControlDrain \/ Restart
  \/ \E c \in Child : ChildStep(c)

Spec == Init /\ [][Next]_vars

-----------------------------------------------------------------------------

TypeOK ==
  /\ rec.control \in {"running", "paused", "cancelled"} /\ rec.active \subseteq Child
  /\ rec.model \in 0 .. MaxModelCalls + rec.raised /\ rec.tool \in 0 .. MaxToolCalls
  /\ rec.replans \in 0 .. MaxReplans /\ rec.output \in Nat
  /\ rec.replan \in 0 .. Len(att) /\ rec.synth \in 0 .. Len(att)
  /\ \A c \in Child : kid[c].output \in Nat /\ kid[c].deps \subseteq Present
  /\ run \in [{Parent} \cup Child -> Statuses]
  /\ exec.err \subseteq Errors /\ ctl \in BOOLEAN /\ events \in 0 .. MaxEvents

\* The charged bytes of some calls, one by one, and their number.
Charges(calls, S) == UNION {{i} \X (1 .. calls[i].bytes) : i \in S}
Bytes(S) == Cardinality(Charges(att, S))
CallsOf(kind) == Cardinality({i \in DOMAIN att : att[i].kind = kind})

\* The counters of the record are exactly the dispatched calls and their
\* reservations, and every child's share is its own calls: no crash, late settlement,
\* failure or overrun refunds or charges anything else.
AccountsExact ==
  /\ rec.model = CallsOf("model") /\ rec.tool = CallsOf("tool")
  /\ rec.output = Bytes(DOMAIN att)
  /\ \A c \in Child : kid[c].output = Bytes({i \in DOMAIN att : att[i].run = c})

\* docs/COLLABORATION.md: failed, interrupted and UNKNOWN output retains the greater
\* of reserved and observed bytes; only a definitive result settles the unused part.
UncertainStaysCharged ==
  \A i \in DOMAIN att :
    /\ att[i].bytes >= att[i].observed
    /\ att[i].status # "finished" => att[i].bytes >= CallOutput /\ ~att[i].final

\* A place in the batch is held by a goroutine that will give it back, or the record
\* could not be changed (stuck): such a place blocks revisions and later batches, and
\* nobody starts a second goroutine in it, until the next Continue clears it.
ActiveIsRunning ==
  stuck \subseteq rec.active /\ \A c \in rec.active : c \in stuck <=> job[c].pc = "off"

\* No child was dispatched before everything it depends on was complete, although the
\* dependencies may be revised between the choice of a batch and its start.
DependenciesFirst ==
  \A c \in Present : kid[c].steps > 0 => \A d \in kid[c].deps : run[d] = "completed"

\* Every call was made for the assignment that the plan shows: started work is never
\* rewritten, and a goroutine never works from a replaced assignment.
DispatchedAsPlanned ==
  \A i \in DOMAIN att : att[i].run # Parent => att[i].spec = kid[att[i].run].spec

\* A synthesis belongs to the present results: from its dispatch until the next
\* revision every live child is complete.
SynthesisCurrent ==
  rec.synth # 0 => \A c \in Live : run[c] = "completed"

\* A collaboration completes only while nobody has paused or cancelled it, and a
\* completed one can no longer be controlled (the comment in finalize).
ControlWins == run[Parent] = "completed" => rec.control = "running"

\* A completed collaboration has no unresolved call, its own or a child's.
NothingUncertainCompleted ==
  run[Parent] = "completed" => \A r \in {Parent} \cup Present : ~Uncertain(r)

\* A collaboration without synthesis completes only when every live child has. With one
\* this holds of its dispatch only (SynthesisCurrent): the report is read again after the
\* synthesis and its children are not looked at, so that a child revised meanwhile, or
\* added, is live and stopped when the parent completes.
DraftWhole ==
  run[Parent] = "completed" /\ ~rec.synthesis => \A c \in Live : run[c] = "completed"

\* The budget is what was dispatched, and an uncertain call stays charged.
AccountsHonest == TypeOK /\ AccountsExact /\ UncertainStaysCharged

\* Work is dispatched as the plan says, by a goroutine that holds its place.
DispatchHonest == ActiveIsRunning /\ DependenciesFirst /\ DispatchedAsPlanned

\* A completed collaboration was not stopped by anybody and nothing in it is uncertain;
\* without synthesis its live children are complete, and a synthesis that it still
\* records was made of complete children and they still are.
CompletionHonest ==
  SynthesisCurrent /\ ControlWins /\ NothingUncertainCompleted /\ DraftWhole
=============================================================================
