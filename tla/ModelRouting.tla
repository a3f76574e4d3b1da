---------------------------- MODULE ModelRouting ----------------------------
(* Which model a Run calls, and where: the bindings of the Run's snapshot     *)
(* (internal/harness/model_selection.go), the automatic choice among them     *)
(* (routing.go) and the dispatch of a model call (service.go generate,        *)
(* dispatchModel; store.go startGuardedModel; model_recovery.go).             *)
(*                                                                            *)
(* One Run with an uncertain task.  A model has a strength and a capacity;    *)
(* the context grows with every answer.  The configuration, the addresses of  *)
(* the Key profiles and the user act at any moment.                           *)
EXTENDS Naturals, Sequences, FiniteSets

CONSTANTS
  Models,          \* configured models
  Strength,        \* modelStrength of each
  Capacity,        \* the context each accepts
  Default,         \* Config.DefaultModel
  Assessor,        \* Auto.AssessmentModel
  MaxAssessments, MaxUpgrades,
  ModelRetries,
  Addrs,           \* addresses a Key profile may have
  MaxEdits,        \* bound: edits of the configuration and the Key profiles
  MaxAttempts,     \* bound: model calls
  MaxSize,         \* bound: size of the context
  MaxSwitches      \* bound: explicit switches

\* What the proofs assume of them.
RoutingAssumption ==
  /\ MaxAssessments \in Nat /\ MaxUpgrades \in Nat /\ MaxEdits \in Nat /\ MaxAttempts \in Nat
  /\ MaxSize \in Nat /\ Addrs # {} /\ Assessor \in Models

VARIABLES
  setup,    \* Auto.Enabled, the revision of each model, how many edits there were
  addr,     \* the address in the Key profile of each model
  turn,     \* the Run and its snapshot
  att,      \* its model Attempts
  exec,     \* the execution
  size      \* the size of its context

routingVars == <<setup, addr, turn, att, exec, size>>

Binding(m) == [m |-> m, rev |-> setup.rev[m], addr |-> addr[m]]
Last == turn.bindings[Len(turn.bindings)]
NoExec == [pc |-> "idle", purpose |-> "", to |-> "", number |-> 0, prev |-> 0]

Attempts == DOMAIN att
Assessments == {a \in Attempts : att[a].purpose = "assessment"}
Unresolved == {a \in Attempts : att[a].status \in {"dispatched", "unknown"} /\ ~att[a].replaced}

RoutingTypeOK ==
  /\ setup.auto \in BOOLEAN /\ setup.rev \in [Models -> 0..MaxEdits] /\ addr \in [Models -> Addrs]
  /\ turn.status \in {"none", "running", "stopped", "failed", "unknown", "completed"}
  /\ turn.auto \in BOOLEAN /\ turn.mode \in {"auto", "manual"}
  /\ Len(att) <= MaxAttempts /\ size \in 0..MaxSize
  /\ exec.pc \in {"idle", "loop", "client", "check", "slot", "sent", "retry", "corrupt"}

RoutingInit ==
  /\ setup = [auto |-> TRUE, rev |-> [m \in Models |-> 0], edits |-> 0]
  /\ addr = [m \in Models |-> CHOOSE a \in Addrs : TRUE]
  /\ turn = [status |-> "none", bindings |-> <<>>, policy |-> {}, auto |-> FALSE, mode |-> "manual",
            candidates |-> {}, assessed |-> 0, upgrades |-> 0, raised |-> 0, switches |-> 0,
            limit |-> MaxSize - 1]
  /\ att = <<>> /\ exec = NoExec /\ size = 0

-----------------------------------------------------------------------------
(* selectionContext: the context fits the model and the limits of the Run.    *)
FitsIn(m) == size <= Capacity[m] /\ size <= turn.limit

(* autoRunPolicy.authorized: Auto is on and every model of the policy is      *)
(* configured as it was.                                                      *)
Authorized == setup.auto /\ \A b \in turn.policy : setup.rev[b.m] = b.rev

(* strengthDistance to a desired strength of 3: a weaker model is four times  *)
(* as far.                                                                    *)
Distance(m) == IF Strength[m] >= 3 THEN Strength[m] - 3 ELSE (3 - Strength[m]) * 4

(* chooseAuto: the eligible bindings, and the best of them.                   *)
Eligible(policy, least) ==
  {b \in policy : Strength[b.m] >= least /\ setup.rev[b.m] = b.rev /\ FitsIn(b.m)}
Better(b, c) ==
  \/ Distance(b.m) < Distance(c.m)
  \/ Distance(b.m) = Distance(c.m) /\ Strength[b.m] > Strength[c.m]
  \/ Distance(b.m) = Distance(c.m) /\ Strength[b.m] = Strength[c.m] /\ b.m = Default /\ c.m # b.m
Best(S) == {b \in S : ~ \E c \in S : Better(c, b)}

Models0 == {Binding(m) : m \in Models}

(* forTask: a manual choice is one binding; Auto freezes a policy and binds   *)
(* the best of it.                                                            *)
StartManual(m) ==
  /\ turn.status = "none"
  /\ turn' = [turn EXCEPT !.status = "running", !.bindings = <<Binding(m)>>]
  /\ exec' = [NoExec EXCEPT !.pc = "loop"]
  /\ UNCHANGED <<setup, addr, att, size>>

StartAuto(b) ==
  /\ turn.status = "none" /\ setup.auto
  /\ b \in Best(Eligible(Models0, 0))
  /\ turn' = [turn EXCEPT !.status = "running", !.bindings = <<b>>, !.policy = Models0,
               !.auto = TRUE, !.mode = "auto", !.candidates = {c.m : c \in Eligible(Models0, 0)}]
  /\ exec' = [NoExec EXCEPT !.pc = "loop"]
  /\ UNCHANGED <<setup, addr, att, size>>

-----------------------------------------------------------------------------
(* The execution returns with an error; the Run keeps its status.             *)
Stops == exec' = NoExec

Doing(p) == exec.pc = p
Binds(b) == IF b = Last THEN turn.bindings ELSE Append(turn.bindings, b)

(* The loop stops at an unresolved Attempt, and at a model that is no longer  *)
(* configured as it was bound (checkConfig).                                  *)
LoopStops ==
  /\ Doing("loop")
  /\ Unresolved # {} \/ turn.status # "running" \/ setup.rev[Last.m] # Last.rev
  /\ Stops /\ UNCHANGED <<setup, addr, turn, att, size>>

Ready == Doing("loop") /\ Unresolved = {} /\ turn.status = "running" /\ setup.rev[Last.m] = Last.rev
Chatted == \E a \in Attempts : att[a].purpose = "chat"

(* prepareAuto, without authority: the saved model stays, Auto is over.       *)
Revoke ==
  /\ Ready /\ turn.auto /\ ~Authorized /\ Cardinality(Assessments) <= MaxAssessments
  /\ turn' = [turn EXCEPT !.auto = FALSE, !.mode = "manual",
               !.assessed = IF @ > Cardinality(Assessments) THEN @ ELSE Cardinality(Assessments)]
  /\ exec' = [exec EXCEPT !.pc = "client", !.purpose = "chat"]
  /\ UNCHANGED <<setup, addr, att, size>>

Assesses == turn.auto /\ Authorized /\ ~Chatted /\ turn.assessed = 0 /\ MaxAssessments > 0
            /\ Cardinality(Assessments) <= MaxAssessments

(* The assessment of an uncertain task is asked for when there is none.       *)
Assess ==
  /\ Ready /\ Assesses /\ Assessments = {}
  /\ exec' = [exec EXCEPT !.pc = "client", !.purpose = "assessment"]
  /\ UNCHANGED <<setup, addr, turn, att, size>>

(* A finished assessment names an eligible model, or is no use and the choice *)
(* stays; saveRouting counts it either way.                                   *)
Adopt(b) ==
  /\ Ready /\ Assesses /\ \E a \in Assessments : att[a].status = "finished"
  /\ b = Last \/ (b \in turn.policy /\ b.m \in turn.candidates /\ FitsIn(b.m))
  /\ turn' = [turn EXCEPT !.bindings = Binds(b), !.assessed = Cardinality(Assessments)]
  /\ UNCHANGED <<setup, addr, att, exec, size>>

(* More assessments than the policy allows, or one without an answer:         *)
(* ErrStoreFormat.                                                            *)
Unreadable ==
  /\ Ready /\ turn.auto
  /\ \/ Cardinality(Assessments) > MaxAssessments
     \/ Assesses /\ Assessments # {} /\ \A a \in Assessments : att[a].status # "finished"
  /\ exec' = [exec EXCEPT !.pc = "corrupt"]
  /\ UNCHANGED <<setup, addr, turn, att, size>>

Chosen == Ready /\ (turn.auto => Authorized /\ ~Assesses /\ Cardinality(Assessments) <= MaxAssessments)

(* The context fits: the call is made.                                        *)
Proceed ==
  /\ Chosen /\ FitsIn(Last.m)
  /\ exec' = [exec EXCEPT !.pc = "client", !.purpose = "chat"]
  /\ UNCHANGED <<setup, addr, turn, att, size>>

Raises(b) == Chosen /\ turn.auto /\ ~FitsIn(Last.m)
             /\ b \in Best(Eligible(turn.policy, Strength[Last.m]))
             /\ \A i \in DOMAIN turn.bindings : turn.bindings[i].m # b.m

Raised(b) == [turn EXCEPT !.bindings = Binds(b), !.upgrades = turn.upgrades + 1, !.raised = turn.raised + 1,
               !.candidates = {c.m : c \in Eligible(turn.policy, Strength[Last.m])}]

(* A model the context no longer fits is replaced by one at least as strong,  *)
(* never by one that was bound before.                                        *)
Upgrade(b) ==
  /\ Raises(b) /\ turn.upgrades < MaxUpgrades
  /\ turn' = Raised(b)
  /\ exec' = [exec EXCEPT !.pc = "client", !.purpose = "chat"]
  /\ UNCHANGED <<setup, addr, att, size>>

(* No model is left: ErrContextLimit.                                         *)
TooLarge ==
  /\ Chosen /\ ~FitsIn(Last.m)
  /\ ~turn.auto \/ turn.upgrades >= MaxUpgrades \/ ~ \E b \in turn.policy : Raises(b)
  /\ Stops /\ UNCHANGED <<setup, addr, turn, att, size>>

-----------------------------------------------------------------------------
(* dispatchModel                                                              *)
Calls == IF exec.purpose = "assessment" THEN CHOOSE b \in turn.policy : b.m = Assessor ELSE Last

ClientAnywhere ==
  /\ Doing("client")
  /\ exec' = [exec EXCEPT !.pc = "check", !.to = addr[Calls.m]]
  /\ UNCHANGED <<setup, addr, turn, att, size>>

(* modelClient: the key is resolved now; an address other than the bound one  *)
(* ends the call.                                                             *)
Client ==
  /\ Doing("client")
  /\ IF addr[Calls.m] = Calls.addr
     THEN exec' = [exec EXCEPT !.pc = "check", !.to = addr[Calls.m]]
     ELSE Stops
  /\ UNCHANGED <<setup, addr, turn, att, size>>

(* checkDispatchConfig.                                                       *)
Check ==
  /\ Doing("check")
  /\ IF setup.rev[Calls.m] = Calls.rev /\ (turn.auto => Authorized)
     THEN exec' = [exec EXCEPT !.pc = "slot"]
     ELSE Stops
  /\ UNCHANGED <<setup, addr, turn, att, size>>

Started == Append(IF exec.prev = 0 THEN att ELSE [att EXCEPT ![exec.prev].replaced = TRUE],
                  [purpose |-> exec.purpose, b |-> Calls, to |-> exec.to, status |-> "dispatched",
                   replaced |-> FALSE, number |-> exec.number])

(* A slot is free: startGuardedModel refuses an assessment beyond the limit,  *)
(* a repeated one included; a repeated call takes the place of the first.     *)
StartCall ==
  /\ Doing("slot") /\ Len(att) < MaxAttempts
  /\ IF exec.purpose = "assessment" /\ Cardinality(Assessments) >= MaxAssessments
     THEN Stops /\ UNCHANGED att
     ELSE att' = Started /\ exec' = [exec EXCEPT !.pc = "sent"]
  /\ UNCHANGED <<setup, addr, turn, size>>

Latest == Len(att)
AnswerIs(status) == att' = [att EXCEPT ![Latest].status = status]

(* The answer is saved; one without calls completes the Run.                  *)
Answers(last) ==
  /\ Doing("sent")
  /\ AnswerIs("finished")
  /\ IF exec.purpose = "chat" /\ last
     THEN turn' = [turn EXCEPT !.status = "completed"] /\ Stops
     ELSE exec' = [NoExec EXCEPT !.pc = "loop"] /\ UNCHANGED turn
  /\ size' = IF exec.purpose = "chat" /\ size < MaxSize THEN size + 1 ELSE size
  /\ UNCHANGED <<setup, addr>>

(* failModel and markUnknown; reserveModelRetry makes the Run running again   *)
(* for one more call, or the execution ends.                                  *)
Fails(status) ==
  /\ Doing("sent")
  /\ att' = [att EXCEPT ![Latest].status = IF status = "failed" THEN "finished" ELSE "unknown"]
  /\ IF exec.number < ModelRetries
     THEN /\ turn' = [turn EXCEPT !.status = "running"]
          /\ exec' = [exec EXCEPT !.pc = "retry", !.number = @ + 1, !.prev = Latest]
     ELSE turn' = [turn EXCEPT !.status = status] /\ Stops
  /\ UNCHANGED <<setup, addr, size>>

(* retryModel after its wait: the configuration is checked again.             *)
Retry ==
  /\ Doing("retry")
  /\ IF setup.rev[Calls.m] = Calls.rev /\ (turn.auto => Authorized)
     THEN exec' = [exec EXCEPT !.pc = "client"]
     ELSE Stops
  /\ UNCHANGED <<setup, addr, turn, att, size>>

(* The user stops the execution, or the Owner dies: a call that is out is     *)
(* unknown at the next start.                                                 *)
Interrupted ==
  /\ exec.pc \notin {"idle", "corrupt"}
  /\ Stops
  /\ att' = IF Doing("sent") THEN [att EXCEPT ![Latest].status = "unknown"] ELSE att
  /\ turn' = [turn EXCEPT !.status = IF Doing("sent") THEN "unknown" ELSE "stopped"]
  /\ UNCHANGED <<setup, addr, size>>

-----------------------------------------------------------------------------
(* The user                                                                   *)

Continue ==
  /\ Doing("idle") /\ turn.status \in {"running", "stopped"}
  /\ turn' = [turn EXCEPT !.status = "running"]
  /\ exec' = [NoExec EXCEPT !.pc = "loop"]
  /\ UNCHANGED <<setup, addr, att, size>>

(* SwitchModel between complete calls: one more binding, and Auto is over for *)
(* this Run.  An address alone is no new binding.                             *)
SwitchModel(m) ==
  /\ Doing("idle") /\ turn.status \in {"running", "stopped"} /\ Unresolved = {}
  /\ turn.switches < MaxSwitches /\ FitsIn(m)
  /\ ~ (Last.m = m /\ Last.rev = setup.rev[m] /\ Last.addr # addr[m])
  /\ turn' = [turn EXCEPT !.bindings = Binds(Binding(m)), !.auto = FALSE, !.mode = "manual",
               !.assessed = IF Assessments # {} THEN 1 ELSE turn.assessed,
               !.switches = turn.switches + 1]
  /\ UNCHANGED <<setup, addr, att, exec, size>>

(* IncreaseLimits.                                                            *)
IncreaseLimits ==
  /\ Doing("idle") /\ turn.status \in {"running", "stopped"} /\ turn.limit < MaxSize
  /\ turn' = [turn EXCEPT !.limit = @ + 1]
  /\ UNCHANGED <<setup, addr, att, exec, size>>

(* The configuration and the Key profiles are edited at any moment.           *)
SetAuto(on) ==
  /\ setup.edits < MaxEdits /\ setup.auto # on
  /\ setup' = [setup EXCEPT !.auto = on, !.edits = @ + 1]
  /\ UNCHANGED <<addr, turn, att, exec, size>>

EditModel(m) ==
  /\ setup.edits < MaxEdits
  /\ setup' = [setup EXCEPT !.rev = [setup.rev EXCEPT ![m] = @ + 1], !.edits = setup.edits + 1]
  /\ UNCHANGED <<addr, turn, att, exec, size>>

EditKey(m, a) ==
  /\ setup.edits < MaxEdits /\ addr[m] # a
  /\ addr' = [addr EXCEPT ![m] = a] /\ setup' = [setup EXCEPT !.edits = @ + 1]
  /\ UNCHANGED <<turn, att, exec, size>>

-----------------------------------------------------------------------------
RoutingNext ==
  \/ \E m \in Models : StartManual(m) \/ SwitchModel(m) \/ EditModel(m)
  \/ \E b \in Models0 : StartAuto(b)
  \/ \E b \in turn.policy : Adopt(b) \/ Upgrade(b)
  \/ LoopStops \/ Revoke \/ Assess \/ Unreadable \/ Proceed \/ TooLarge
  \/ Client \/ Check \/ StartCall \/ Retry \/ Interrupted
  \/ \E last \in BOOLEAN : Answers(last)
  \/ \E s \in {"failed", "unknown"} : Fails(s)
  \/ Continue \/ IncreaseLimits
  \/ \E on \in BOOLEAN : SetAuto(on)
  \/ \E m \in Models, a \in Addrs : EditKey(m, a)

RoutingSpec == RoutingInit /\ [][RoutingNext]_routingVars

-----------------------------------------------------------------------------
(* "A keyed run never dispatches to a different address": whatever happens to *)
(* the Key profile, a call goes where its binding says, and that binding is   *)
(* one of the Run's own (model_selection.go modelClient).                     *)
BoundAddress ==
  \A a \in Attempts :
    /\ att[a].to = att[a].b.addr
    /\ att[a].b \in turn.policy \union {turn.bindings[i] : i \in DOMAIN turn.bindings}

(* The policy's allowance of assessments holds over retries, interruptions    *)
(* and continuations, and what is saved can always be read back (routing.go   *)
(* prepareAuto, store.go startGuardedModel).                                  *)
AssessedOnce == Cardinality(Assessments) <= MaxAssessments /\ exec.pc # "corrupt"

(* Automatic upgrades stay within the allowance over the whole Run            *)
(* (routing.go prepareAuto).                                                  *)
UpgradesBounded == turn.raised <= MaxUpgrades

(* Once a model was chosen by hand, or Auto lost its authority, only the user *)
(* changes it (model_selection.go SwitchModel, routing.go prepareAuto).       *)
ManualKept ==
  turn.status # "none" /\ turn.mode = "manual" /\ turn'.bindings # turn.bindings
    => turn'.switches = turn.switches + 1

(* A Run's calls go where its bindings say, within its allowances.            *)
RoutingBounded == RoutingTypeOK /\ BoundAddress /\ AssessedOnce /\ UpgradesBounded
=============================================================================
