-------------------------------- MODULE MCRun --------------------------------
(* The Runs of a conversation in one run of TLC: of an ordinary task with       *)
(* steering inputs ("task", the constants of the configuration), and of a task  *)
(* with a step budget whose settlements may be lost ("budget").                 *)
EXTENDS RunLifecycle

VARIABLES part, brun, batt, bsteer, bincoming, binputs, bexec, bup, bcrashes

budget == <<brun, batt, bsteer, bincoming, binputs, bexec, bup, bcrashes>>
all == <<part, vars, budget>>

Budget == INSTANCE RunLifecycle
            WITH MaxRuns <- 3, MaxAttempts <- 4, MaxSteps <- 2, ModelRetries <- 1, MaxRounds <- 2,
                 MaxCalls <- 1, MaxInputs <- 0, MaxCrashes <- 1, WritesMayFail <- TRUE,
                 run <- brun, att <- batt, steer <- bsteer, incoming <- bincoming,
                 inputs <- binputs, exec <- bexec, up <- bup, crashes <- bcrashes

ASSUME Instances == LifecycleAssumption /\ Budget!LifecycleAssumption

MCInit == part \in {"task", "budget"} /\ Init /\ Budget!Init

MCNext ==
  \/ part = "task" /\ Next /\ UNCHANGED <<part, budget>>
  \/ part = "budget" /\ Budget!Next /\ UNCHANGED <<part, vars>>

MCSpec == MCInit /\ [][MCNext]_all

\* With a step budget and settlements that may be lost, a retry continues one chain
\* and stays within what was reserved before the wait (model_recovery.go), a settled
\* limit has one successor (limit_continuation.go), and what is verified has a later
\* read (tool_verification.go).
BudgetChained == part = "budget" => Budget!RunChained
=============================================================================
