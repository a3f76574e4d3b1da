-------------------------- MODULE InputQueueProofs --------------------------
(***************************************************************************)
(* The input queue is exact and orderly for any number of dispatchers,     *)
(* inputs, Runs and crashes and any cap on the inputs that wait.           *)
(*                                                                         *)
(* The two families of operations share no lock.  What keeps them apart is *)
(* the execution lease: between the read and the commit of createRun       *)
(* nobody else attaches a message, creates a Run or ends one, and          *)
(* acceptInput waits.  What SteerInput writes back late is a place in the  *)
(* queue that was counted when it was read.                                *)
(***************************************************************************)
EXTENDS InputQueue, FiniteSetTheorems, TLAPS

\* Whoever creates or executes a Run holds the conversation's lease.
LeaseHeld == \A d \in Dispatchers : disp[d].pc \in {"open", "running", "returned"} => lease = d

\* Keys and Runs in use are real ones.
Named ==
  /\ \A d \in Dispatchers :
       /\ disp[d].pc \in {"picked", "open"} => disp[d].key \in Inputs
       /\ disp[d].pc \in {"running", "returned"} => disp[d].run \in Runs
  /\ edit.op # "none" => edit.key \in Inputs
  /\ \A r \in Runs : run[r].status = "none" => run[r].key = 0

\* What createRun checked in its transaction is true until it commits: the input
\* is in no Run, nothing in front of it waits ...
StillFirst ==
  \A d \in Dispatchers : disp[d].pc = "open" =>
    /\ moved[disp[d].key] = 0
    /\ \A r \in Runs : run[r].key # disp[d].key
    /\ \A j \in Queued : j >= disp[d].key

\* The Runs of the conversation follow one another: the one that is active or
\* executed is the last one.
RunsInTurn ==
  /\ \A q, r \in Runs : q < r /\ run[q].status = "none" => run[r].status = "none"
  /\ \A r \in Runs : Active(r) => Latest(r)
  /\ \A d \in Dispatchers :
       /\ disp[d].pc = "open" => \A r \in Runs : ~Active(r)
       /\ disp[d].pc \in {"running", "returned"} => Latest(disp[d].run)

\* ... and the last Run has completed or the user has resumed the queue.
LastCompleted == \A r \in Runs : Latest(r) => run[r].status = "completed"
StillAllowed ==
  crashes = 0 => \A d \in Dispatchers : disp[d].pc = "open" => resumed \/ LastCompleted

\* An unpaused queue has nothing to wait for but the Run that is executed.
PausedInTime ==
  crashes = 0 /\ ~paused /\ ~resumed =>
    \A r \in Runs : Latest(r) =>
      \/ run[r].status = "completed"
      \/ \E d \in Dispatchers : disp[d].pc \in {"running", "returned"} /\ disp[d].run = r

\* The inputs that wait, with the one SteerInput may put back.
Places == Pending \cup (IF edit.op = "steer" THEN {edit.key} ELSE {})
PlacesBounded == Cardinality(Places) <= MaxPending

Inv ==
  /\ TypeOK /\ LeaseHeld /\ Named
  /\ ExecutedOnce /\ StillFirst /\ RunsInTurn /\ StillAllowed /\ PausedInTime /\ PlacesBounded

-----------------------------------------------------------------------------
(* Types *)

LEMMA InputRecords ==
  /\ NoInput \in InputRecord
  /\ \A action \in {"queue", "steer"}, target \in 0..MaxRuns, status \in {"pending", "target_ended"} :
       [NoInput EXCEPT !.action = action, !.target = target, !.status = status] \in InputRecord
  /\ \A i \in InputRecord : [i EXCEPT !.status = "cancelled"] \in InputRecord
  /\ \A i \in InputRecord, r \in 0..MaxRuns :
       /\ [i EXCEPT !.action = "steer", !.target = r] \in InputRecord
       /\ [i EXCEPT !.status = "adopted", !.run = r] \in InputRecord
<1>1. 0 \in 0..MaxRuns
  BY QueueAssumption DEF QueueAssumption
<1>2. QED
  BY <1>1 DEF InputRecord, NoInput

LEMMA DispRecords ==
  /\ IdleDisp \in DispRecord
  /\ \A k \in 0..MaxInputs : [IdleDisp EXCEPT !.pc = "picked", !.key = k] \in DispRecord
  /\ \A r \in 0..MaxRuns : [IdleDisp EXCEPT !.pc = "running", !.run = r] \in DispRecord
  /\ \A x \in DispRecord, i \in InputRecord : [x EXCEPT !.pc = "open", !.read = i] \in DispRecord
  /\ \A x \in DispRecord, r \in 0..MaxRuns : [x EXCEPT !.pc = "running", !.run = r] \in DispRecord
  /\ \A x \in DispRecord : [x EXCEPT !.pc = "returned"] \in DispRecord
<1>1. 0 \in 0..MaxRuns /\ 0 \in 0..MaxInputs
  BY QueueAssumption DEF QueueAssumption
<1>2. QED
  BY <1>1, InputRecords DEF DispRecord, IdleDisp

LEMMA EditRecords ==
  /\ NoEdit \in EditRecord
  /\ \A k \in 0..MaxInputs, i \in InputRecord, r \in 0..MaxRuns :
       /\ [op |-> "cancel", key |-> k, target |-> 0, read |-> i] \in EditRecord
       /\ [op |-> "steer", key |-> k, target |-> r, read |-> i] \in EditRecord
<1>1. 0 \in 0..MaxRuns /\ 0 \in 0..MaxInputs
  BY QueueAssumption DEF QueueAssumption
<1>2. QED
  BY <1>1, InputRecords DEF EditRecord, NoEdit

LEMMA TypeStep == ASSUME TypeOK, [Next]_vars PROVE TypeOK'
<1>a. Runs \subseteq 0..MaxRuns /\ Inputs \subseteq 0..MaxInputs /\ 0 \in 0..MaxRuns
  BY QueueAssumption DEF QueueAssumption, Runs, Inputs
<1>b. /\ \A q \in Runs, s \in {"running", "completed", "failed", "held"} :
           [run[q] EXCEPT !.status = s] \in RunRecord
      /\ \A k \in 0..MaxInputs : [status |-> "running", key |-> k] \in RunRecord
  BY DEF TypeOK, RunRecord
<1>c. /\ edit.read \in InputRecord /\ edit.target \in 0..MaxRuns
      /\ \A d \in Dispatchers : /\ disp[d].key \in 0..MaxInputs /\ disp[d].run \in 0..MaxRuns
                                /\ disp[d].read \in InputRecord
  BY DEF TypeOK, EditRecord, DispRecord
<1>1. ASSUME NEW k \in Inputs, NEW action \in {"queue", "steer"}, NEW target \in 0..MaxRuns,
             Accept(k, action, target)
      PROVE  TypeOK'
  BY <1>1, InputRecords DEF Accept, TypeOK, queue, owner
<1>2. ASSUME NEW k \in Inputs, CancelReads(k) PROVE TypeOK'
  BY <1>a, <1>2, EditRecords DEF CancelReads, TypeOK, queue, owner
<1>3. ASSUME NEW k \in Inputs, NEW r \in Runs, SteerReads(k, r) PROVE TypeOK'
  BY <1>a, <1>3, EditRecords DEF SteerReads, TypeOK, queue, owner
<1>4. CASE CancelCommits
  BY <1>c, <1>4, InputRecords, EditRecords DEF CancelCommits, TypeOK, queue, owner
<1>5. CASE SteerCommits
  BY <1>c, <1>5, InputRecords, EditRecords DEF SteerCommits, TypeOK, queue, owner
<1>6. CASE Pause \/ Resume
  BY <1>6 DEF Pause, Resume, TypeOK, owner
<1>7. ASSUME NEW r \in Runs, Abandon(r) PROVE TypeOK'
  BY <1>b, <1>7 DEF Abandon, TypeOK, queue, owner
<1>8. ASSUME NEW d \in Dispatchers, NEW k \in Inputs, Pick(d, k) PROVE TypeOK'
  BY <1>a, <1>8, DispRecords DEF Pick, TypeOK, queue, owner
<1>9. ASSUME NEW d \in Dispatchers, PickInvalid(d) PROVE TypeOK'
  BY <1>9 DEF PickInvalid, TypeOK, owner
<1>10. ASSUME NEW d \in Dispatchers, CreateReads(d) PROVE TypeOK'
  <2>1. input[disp[d].key] \in InputRecord
    BY <1>10 DEF CreateReads, MayCreate, First, Queued, Pending, TypeOK
  <2>2. QED
    BY <1>10, <2>1, DispRecords DEF CreateReads, TypeOK, queue, owner
<1>11. ASSUME NEW d \in Dispatchers, CreateBusy(d) PROVE TypeOK'
  BY <1>11, DispRecords DEF CreateBusy, TypeOK, queue, owner
<1>12. ASSUME NEW d \in Dispatchers, CreateRefused(d) PROVE TypeOK'
  BY <1>12, DispRecords DEF CreateRefused, TypeOK, owner
<1>13. ASSUME NEW d \in Dispatchers, NEW r \in Runs, CreateCommits(d, r) PROVE TypeOK'
  <2> DEFINE k == disp[d].key
  <2>1. /\ [disp[d].read EXCEPT !.status = "adopted", !.run = r] \in InputRecord
        /\ [disp[d] EXCEPT !.pc = "running", !.run = r] \in DispRecord
        /\ [status |-> "running", key |-> k] \in RunRecord
    BY <1>a, <1>b, <1>c, InputRecords, DispRecords DEF TypeOK
  <2>2. /\ run' = [run EXCEPT ![r] = [status |-> "running", key |-> k]]
        /\ moved' = [moved EXCEPT ![k] = r]
        /\ input' = [input EXCEPT ![k] = [disp[d].read EXCEPT !.status = "adopted", !.run = r]]
        /\ disp' = [disp EXCEPT ![d] = [disp[d] EXCEPT !.pc = "running", !.run = r]]
        /\ UNCHANGED <<queue, edit, lease, owner>>
    BY <1>13 DEF CreateCommits
  <2> HIDE DEF k
  <2>3. QED
    BY <1>a, <2>1, <2>2 DEF TypeOK, queue, owner
<1>14. ASSUME NEW d \in Dispatchers, NEW r \in Runs, SubmitDirect(d, r) PROVE TypeOK'
  BY <1>a, <1>b, <1>14, DispRecords DEF SubmitDirect, TypeOK, queue, owner
<1>15. ASSUME NEW d \in Dispatchers, NEW r \in Runs, Continue(d, r) PROVE TypeOK'
  BY <1>a, <1>b, <1>15, DispRecords DEF Continue, TypeOK, queue, owner
<1>16. ASSUME NEW d \in Dispatchers, AdoptSteering(d) PROVE TypeOK'
  BY <1>c, <1>16, InputRecords DEF AdoptSteering, TypeOK, queue, owner
<1>17. ASSUME NEW d \in Dispatchers, NEW s \in {"completed", "failed", "held"}, RunEnds(d, s)
       PROVE  TypeOK'
  BY <1>b, <1>17, DispRecords DEF RunEnds, TypeOK, owner
<1>18. ASSUME NEW d \in Dispatchers, Return(d) PROVE TypeOK'
  BY <1>18, DispRecords DEF Return, TypeOK, owner
<1>19. CASE Crash
  <2>1. crashes' \in 0..MaxCrashes
    BY <1>19, QueueAssumption DEF Crash, TypeOK, QueueAssumption
  <2>2. QED
    BY <1>b, <1>19, <2>1, DispRecords, EditRecords DEF Crash, TypeOK, queue
<1>20. CASE Start
  BY <1>20 DEF Start, TypeOK
<1>21. CASE UNCHANGED vars
  BY <1>21 DEF vars, TypeOK
<1>22. QED
  BY <1>a, <1>1, <1>2, <1>3, <1>4, <1>5, <1>6, <1>7, <1>8, <1>9, <1>10, <1>11, <1>12, <1>13, <1>14,
     <1>15, <1>16, <1>17, <1>18, <1>19, <1>20, <1>21 DEF Next, DispStep, UserStep

-----------------------------------------------------------------------------
(* The lease *)

LEMMA LeaseStep == ASSUME TypeOK, LeaseHeld, [Next]_vars PROVE LeaseHeld'
<1>a. Runs \subseteq 0..MaxRuns /\ 0 \in 0..MaxRuns /\ Nobody \notin Dispatchers
  BY QueueAssumption DEF QueueAssumption, Runs
<1> USE <1>a DEF LeaseHeld, TypeOK, DispRecord, IdleDisp
<1>1. ASSUME NEW k \in Inputs, NEW action \in {"queue", "steer"}, NEW target \in 0..MaxRuns,
             Accept(k, action, target)
      PROVE  LeaseHeld'
  BY <1>1 DEF Accept, queue, owner
<1>2. ASSUME NEW k \in Inputs, CancelReads(k) PROVE LeaseHeld'
  BY <1>2 DEF CancelReads, queue, owner
<1>3. ASSUME NEW k \in Inputs, NEW r \in Runs, SteerReads(k, r) PROVE LeaseHeld'
  BY <1>3 DEF SteerReads, queue, owner
<1>4. CASE CancelCommits
  BY <1>4 DEF CancelCommits, queue, owner
<1>5. CASE SteerCommits
  BY <1>5 DEF SteerCommits, queue, owner
<1>6. CASE Pause \/ Resume
  BY <1>6 DEF Pause, Resume, owner
<1>7. ASSUME NEW r \in Runs, Abandon(r) PROVE LeaseHeld'
  BY <1>7 DEF Abandon, queue, owner
<1>8. ASSUME NEW d \in Dispatchers, NEW k \in Inputs, Pick(d, k) PROVE LeaseHeld'
  BY <1>8 DEF Pick, queue, owner
<1>9. ASSUME NEW d \in Dispatchers, PickInvalid(d) PROVE LeaseHeld'
  BY <1>9 DEF PickInvalid, owner
<1>10. ASSUME NEW d \in Dispatchers, CreateReads(d) PROVE LeaseHeld'
  BY <1>10 DEF CreateReads, queue, owner
<1>11. ASSUME NEW d \in Dispatchers, CreateBusy(d) PROVE LeaseHeld'
  BY <1>11 DEF CreateBusy, queue, owner
<1>12. ASSUME NEW d \in Dispatchers, CreateRefused(d) PROVE LeaseHeld'
  BY <1>12 DEF CreateRefused, owner
<1>13. ASSUME NEW d \in Dispatchers, NEW r \in Runs, CreateCommits(d, r) PROVE LeaseHeld'
  BY <1>13 DEF CreateCommits, queue, owner
<1>14. ASSUME NEW d \in Dispatchers, NEW r \in Runs, SubmitDirect(d, r) PROVE LeaseHeld'
  BY <1>14 DEF SubmitDirect, queue, owner
<1>15. ASSUME NEW d \in Dispatchers, NEW r \in Runs, Continue(d, r) PROVE LeaseHeld'
  BY <1>15 DEF Continue, queue, owner
<1>16. ASSUME NEW d \in Dispatchers, AdoptSteering(d) PROVE LeaseHeld'
  BY <1>16 DEF AdoptSteering, queue, owner
<1>17. ASSUME NEW d \in Dispatchers, NEW s \in {"completed", "failed", "held"}, RunEnds(d, s)
       PROVE  LeaseHeld'
  BY <1>17 DEF RunEnds, owner
<1>18. ASSUME NEW d \in Dispatchers, Return(d) PROVE LeaseHeld'
  BY <1>18 DEF Return, owner
<1>19. CASE Crash
  BY <1>19 DEF Crash, queue
<1>20. CASE Start
  BY <1>20 DEF Start
<1>21. CASE UNCHANGED vars
  BY <1>21 DEF vars, queue, owner
<1>22. QED
  BY <1>a, <1>1, <1>2, <1>3, <1>4, <1>5, <1>6, <1>7, <1>8, <1>9, <1>10, <1>11, <1>12, <1>13, <1>14,
     <1>15, <1>16, <1>17, <1>18, <1>19, <1>20, <1>21 DEF Next, DispStep, UserStep

LEMMA NamedStep == ASSUME TypeOK, Named, [Next]_vars PROVE Named'
<1>a. /\ Runs \subseteq 0..MaxRuns /\ 0 \in 0..MaxRuns
      /\ run \in [Runs -> RunRecord] /\ disp \in [Dispatchers -> DispRecord]
  BY QueueAssumption DEF QueueAssumption, Runs, TypeOK
<1> USE <1>a DEF Named, RunRecord, DispRecord, IdleDisp, NoEdit
<1>1. ASSUME NEW k \in Inputs, NEW action \in {"queue", "steer"}, NEW target \in 0..MaxRuns,
             Accept(k, action, target)
      PROVE  Named'
  BY <1>1 DEF Accept, queue, owner
<1>2. ASSUME NEW k \in Inputs, CancelReads(k) PROVE Named'
  BY <1>2 DEF CancelReads, queue, owner
<1>3. ASSUME NEW k \in Inputs, NEW r \in Runs, SteerReads(k, r) PROVE Named'
  BY <1>3 DEF SteerReads, queue, owner
<1>4. CASE CancelCommits
  BY <1>4 DEF CancelCommits, queue, owner
<1>5. CASE SteerCommits
  BY <1>5 DEF SteerCommits, queue, owner
<1>6. CASE Pause \/ Resume
  BY <1>6 DEF Pause, Resume, owner
<1>7. ASSUME NEW r \in Runs, Abandon(r) PROVE Named'
  BY <1>7 DEF Abandon, queue, owner
<1>8. ASSUME NEW d \in Dispatchers, NEW k \in Inputs, Pick(d, k) PROVE Named'
  BY <1>8 DEF Pick, queue, owner
<1>9. ASSUME NEW d \in Dispatchers, PickInvalid(d) PROVE Named'
  BY <1>9 DEF PickInvalid, owner
<1>10. ASSUME NEW d \in Dispatchers, CreateReads(d) PROVE Named'
  BY <1>10 DEF CreateReads, queue, owner
<1>11. ASSUME NEW d \in Dispatchers, CreateBusy(d) PROVE Named'
  BY <1>11 DEF CreateBusy, queue, owner
<1>12. ASSUME NEW d \in Dispatchers, CreateRefused(d) PROVE Named'
  BY <1>12 DEF CreateRefused, owner
<1>13. ASSUME NEW d \in Dispatchers, NEW r \in Runs, CreateCommits(d, r) PROVE Named'
  BY <1>13 DEF CreateCommits, queue, owner
<1>14. ASSUME NEW d \in Dispatchers, NEW r \in Runs, SubmitDirect(d, r) PROVE Named'
  BY <1>14 DEF SubmitDirect, queue, owner
<1>15. ASSUME NEW d \in Dispatchers, NEW r \in Runs, Continue(d, r) PROVE Named'
  BY <1>15 DEF Continue, queue, owner
<1>16. ASSUME NEW d \in Dispatchers, AdoptSteering(d) PROVE Named'
  BY <1>16 DEF AdoptSteering, queue, owner
<1>17. ASSUME NEW d \in Dispatchers, NEW s \in {"completed", "failed", "held"}, RunEnds(d, s)
       PROVE  Named'
  BY <1>17 DEF RunEnds, owner
<1>18. ASSUME NEW d \in Dispatchers, Return(d) PROVE Named'
  BY <1>18 DEF Return, owner
<1>19. CASE Crash
  BY <1>19 DEF Crash, queue
<1>20. CASE Start
  BY <1>20 DEF Start
<1>21. CASE UNCHANGED vars
  BY <1>21 DEF vars, queue, owner
<1>22. QED
  BY <1>a, <1>1, <1>2, <1>3, <1>4, <1>5, <1>6, <1>7, <1>8, <1>9, <1>10, <1>11, <1>12, <1>13, <1>14,
     <1>15, <1>16, <1>17, <1>18, <1>19, <1>20, <1>21 DEF Next, DispStep, UserStep

-----------------------------------------------------------------------------
(* Each input once, in order *)

LEMMA OnceStep ==
  ASSUME TypeOK, Named, StillFirst, ExecutedOnce, [Next]_vars
  PROVE  ExecutedOnce'
<1>a. /\ Runs \subseteq 0..MaxRuns /\ 0 \in 0..MaxRuns /\ Runs \subseteq Nat \ {0}
      /\ run \in [Runs -> RunRecord] /\ disp \in [Dispatchers -> DispRecord]
      /\ moved \in [Inputs -> 0..MaxRuns]
  BY QueueAssumption DEF QueueAssumption, Runs, TypeOK
<1> USE <1>a DEF ExecutedOnce, RunRecord, Inputs
<1>1. ASSUME NEW k \in Inputs, NEW action \in {"queue", "steer"}, NEW target \in 0..MaxRuns,
             Accept(k, action, target)
      PROVE  ExecutedOnce'
  BY <1>1 DEF Accept, queue, owner
<1>2. ASSUME NEW k \in Inputs, CancelReads(k) PROVE ExecutedOnce'
  BY <1>2 DEF CancelReads, queue, owner
<1>3. ASSUME NEW k \in Inputs, NEW r \in Runs, SteerReads(k, r) PROVE ExecutedOnce'
  BY <1>3 DEF SteerReads, queue, owner
<1>4. CASE CancelCommits
  BY <1>4 DEF CancelCommits, queue, owner
<1>5. CASE SteerCommits
  BY <1>5 DEF SteerCommits, queue, owner
<1>6. CASE Pause \/ Resume
  BY <1>6 DEF Pause, Resume, owner
<1>7. ASSUME NEW r \in Runs, Abandon(r) PROVE ExecutedOnce'
  BY <1>7 DEF Abandon, queue, owner
<1>8. ASSUME NEW d \in Dispatchers, NEW k \in Inputs, Pick(d, k) PROVE ExecutedOnce'
  BY <1>8 DEF Pick, queue, owner
<1>9. ASSUME NEW d \in Dispatchers, PickInvalid(d) PROVE ExecutedOnce'
  BY <1>9 DEF PickInvalid, owner
<1>10. ASSUME NEW d \in Dispatchers, CreateReads(d) PROVE ExecutedOnce'
  BY <1>10 DEF CreateReads, queue, owner
<1>11. ASSUME NEW d \in Dispatchers, CreateBusy(d) PROVE ExecutedOnce'
  BY <1>11 DEF CreateBusy, queue, owner
<1>12. ASSUME NEW d \in Dispatchers, CreateRefused(d) PROVE ExecutedOnce'
  BY <1>12 DEF CreateRefused, owner
<1>13. ASSUME NEW d \in Dispatchers, NEW r \in Runs, CreateCommits(d, r) PROVE ExecutedOnce'
  <2> DEFINE k == disp[d].key
  <2>1. k \in Inputs /\ k # 0 /\ (\A q \in Runs : run[q].key # k)
    BY <1>13 DEF CreateCommits, Named, StillFirst
  <2>2. /\ run' = [run EXCEPT ![r] = [status |-> "running", key |-> k]]
        /\ moved' = [moved EXCEPT ![k] = r]
    BY <1>13 DEF CreateCommits
  <2> HIDE DEF k
  <2>3. run'[r].key = k /\ moved'[k] = r /\ \A q \in Runs \ {r} : run'[q] = run[q] /\ run'[q].key # k
    BY <2>1, <2>2
  <2>4. QED
    BY <2>1, <2>2, <2>3
<1>14. ASSUME NEW d \in Dispatchers, NEW r \in Runs, SubmitDirect(d, r) PROVE ExecutedOnce'
  BY <1>14 DEF SubmitDirect, queue, owner
<1>15. ASSUME NEW d \in Dispatchers, NEW r \in Runs, Continue(d, r) PROVE ExecutedOnce'
  BY <1>15 DEF Continue, queue, owner
<1>16. ASSUME NEW d \in Dispatchers, AdoptSteering(d) PROVE ExecutedOnce'
  <2>1. run' = run /\ \A k \in Inputs : moved[k] # 0 => moved'[k] = moved[k]
    BY <1>16 DEF AdoptSteering
  <2>2. \A r \in Runs : run[r].key # 0 => run[r].key \in Inputs /\ moved[run[r].key] = r /\ r # 0
    BY QueueAssumption DEF QueueAssumption
  <2>3. QED
    BY <2>1, <2>2
<1>17. ASSUME NEW d \in Dispatchers, NEW s \in {"completed", "failed", "held"}, RunEnds(d, s)
       PROVE  ExecutedOnce'
  BY <1>17 DEF RunEnds, owner
<1>18. ASSUME NEW d \in Dispatchers, Return(d) PROVE ExecutedOnce'
  BY <1>18 DEF Return, owner
<1>19. CASE Crash
  BY <1>19 DEF Crash, queue
<1>20. CASE Start
  BY <1>20 DEF Start
<1>21. CASE UNCHANGED vars
  BY <1>21 DEF vars, queue, owner
<1>22. QED
  BY <1>a, <1>1, <1>2, <1>3, <1>4, <1>5, <1>6, <1>7, <1>8, <1>9, <1>10, <1>11, <1>12, <1>13, <1>14,
     <1>15, <1>16, <1>17, <1>18, <1>19, <1>20, <1>21 DEF Next, DispStep, UserStep

LEMMA FirstStep ==
  ASSUME TypeOK, LeaseHeld, Named, StillFirst, [Next]_vars
  PROVE  StillFirst'
<1>a. /\ Runs \subseteq 0..MaxRuns /\ 0 \in 0..MaxRuns /\ Runs \subseteq Nat \ {0}
      /\ run \in [Runs -> RunRecord] /\ disp \in [Dispatchers -> DispRecord]
      /\ moved \in [Inputs -> 0..MaxRuns] /\ input \in [Inputs -> InputRecord]
      /\ Nobody \notin Dispatchers
  BY QueueAssumption DEF QueueAssumption, Runs, TypeOK
<1> USE <1>a DEF StillFirst, LeaseHeld, RunRecord, DispRecord, IdleDisp, Queued, Pending
<1>1. ASSUME NEW k \in Inputs, NEW action \in {"queue", "steer"}, NEW target \in 0..MaxRuns,
             Accept(k, action, target)
      PROVE  StillFirst'
  BY <1>1 DEF Accept, Creating, queue, owner
<1>2. ASSUME NEW k \in Inputs, CancelReads(k) PROVE StillFirst'
  BY <1>2 DEF CancelReads, queue, owner
<1>3. ASSUME NEW k \in Inputs, NEW r \in Runs, SteerReads(k, r) PROVE StillFirst'
  BY <1>3 DEF SteerReads, queue, owner
<1>4. CASE CancelCommits
  BY <1>4 DEF CancelCommits, queue, owner
<1>5. CASE SteerCommits
  BY <1>5 DEF SteerCommits, queue, owner
<1>6. CASE Pause \/ Resume
  BY <1>6 DEF Pause, Resume, owner
<1>7. ASSUME NEW r \in Runs, Abandon(r) PROVE StillFirst'
  BY <1>7 DEF Abandon, queue, owner
<1>8. ASSUME NEW d \in Dispatchers, NEW k \in Inputs, Pick(d, k) PROVE StillFirst'
  BY <1>8 DEF Pick, queue, owner
<1>9. ASSUME NEW d \in Dispatchers, PickInvalid(d) PROVE StillFirst'
  BY <1>9 DEF PickInvalid, owner
<1>10. ASSUME NEW d \in Dispatchers, CreateReads(d) PROVE StillFirst'
  BY <1>10 DEF CreateReads, MayCreate, First, queue, owner
<1>11. ASSUME NEW d \in Dispatchers, CreateBusy(d) PROVE StillFirst'
  BY <1>11 DEF CreateBusy, queue, owner
<1>12. ASSUME NEW d \in Dispatchers, CreateRefused(d) PROVE StillFirst'
  BY <1>12 DEF CreateRefused, owner
<1>13. ASSUME NEW d \in Dispatchers, NEW r \in Runs, CreateCommits(d, r) PROVE StillFirst'
  BY <1>13 DEF CreateCommits, queue, owner
<1>14. ASSUME NEW d \in Dispatchers, NEW r \in Runs, SubmitDirect(d, r) PROVE StillFirst'
  BY <1>14 DEF SubmitDirect, queue, owner
<1>15. ASSUME NEW d \in Dispatchers, NEW r \in Runs, Continue(d, r) PROVE StillFirst'
  BY <1>15 DEF Continue, queue, owner
<1>16. ASSUME NEW d \in Dispatchers, AdoptSteering(d) PROVE StillFirst'
  BY <1>16 DEF AdoptSteering, queue, owner
<1>17. ASSUME NEW d \in Dispatchers, NEW s \in {"completed", "failed", "held"}, RunEnds(d, s)
       PROVE  StillFirst'
  BY <1>17 DEF RunEnds, owner
<1>18. ASSUME NEW d \in Dispatchers, Return(d) PROVE StillFirst'
  BY <1>18 DEF Return, owner
<1>19. CASE Crash
  BY <1>19 DEF Crash, queue
<1>20. CASE Start
  BY <1>20 DEF Start
<1>21. CASE UNCHANGED vars
  BY <1>21 DEF vars, queue, owner
<1>22. QED
  BY <1>a, <1>1, <1>2, <1>3, <1>4, <1>5, <1>6, <1>7, <1>8, <1>9, <1>10, <1>11, <1>12, <1>13, <1>14,
     <1>15, <1>16, <1>17, <1>18, <1>19, <1>20, <1>21 DEF Next, DispStep, UserStep

-----------------------------------------------------------------------------
(* Only past a completed Run *)

LEMMA TurnStep ==
  ASSUME TypeOK, LeaseHeld, Named, RunsInTurn, [Next]_vars
  PROVE  RunsInTurn'
<1>a. /\ Runs \subseteq 0..MaxRuns /\ 0 \in 0..MaxRuns /\ Runs \subseteq Nat
      /\ run \in [Runs -> RunRecord] /\ disp \in [Dispatchers -> DispRecord]
      /\ Nobody \notin Dispatchers
  BY QueueAssumption DEF QueueAssumption, Runs, TypeOK
<1> USE <1>a DEF RunsInTurn, Active, Latest, LeaseHeld, Named, RunRecord, DispRecord, IdleDisp
<1>1. ASSUME NEW k \in Inputs, NEW action \in {"queue", "steer"}, NEW target \in 0..MaxRuns,
             Accept(k, action, target)
      PROVE  RunsInTurn'
  BY <1>1 DEF Accept, queue, owner
<1>2. ASSUME NEW k \in Inputs, CancelReads(k) PROVE RunsInTurn'
  BY <1>2 DEF CancelReads, queue, owner
<1>3. ASSUME NEW k \in Inputs, NEW r \in Runs, SteerReads(k, r) PROVE RunsInTurn'
  BY <1>3 DEF SteerReads, queue, owner
<1>4. CASE CancelCommits
  BY <1>4 DEF CancelCommits, queue, owner
<1>5. CASE SteerCommits
  BY <1>5 DEF SteerCommits, queue, owner
<1>6. CASE Pause \/ Resume
  BY <1>6 DEF Pause, Resume, owner
<1>7. ASSUME NEW r \in Runs, Abandon(r) PROVE RunsInTurn'
  BY <1>7 DEF Abandon, queue, owner
<1>8. ASSUME NEW d \in Dispatchers, NEW k \in Inputs, Pick(d, k) PROVE RunsInTurn'
  BY <1>8 DEF Pick, queue, owner
<1>9. ASSUME NEW d \in Dispatchers, PickInvalid(d) PROVE RunsInTurn'
  BY <1>9 DEF PickInvalid, owner
<1>10. ASSUME NEW d \in Dispatchers, CreateReads(d) PROVE RunsInTurn'
  BY <1>10 DEF CreateReads, MayCreate, queue, owner
<1>11. ASSUME NEW d \in Dispatchers, CreateBusy(d) PROVE RunsInTurn'
  BY <1>11 DEF CreateBusy, queue, owner
<1>12. ASSUME NEW d \in Dispatchers, CreateRefused(d) PROVE RunsInTurn'
  BY <1>12 DEF CreateRefused, owner
<1>13. ASSUME NEW d \in Dispatchers, NEW r \in Runs, CreateCommits(d, r) PROVE RunsInTurn'
  BY <1>13 DEF CreateCommits, NewRun, queue, owner
<1>14. ASSUME NEW d \in Dispatchers, NEW r \in Runs, SubmitDirect(d, r) PROVE RunsInTurn'
  BY <1>14 DEF SubmitDirect, NewRun, queue, owner
<1>15. ASSUME NEW d \in Dispatchers, NEW r \in Runs, Continue(d, r) PROVE RunsInTurn'
  BY <1>15 DEF Continue, queue, owner
<1>16. ASSUME NEW d \in Dispatchers, AdoptSteering(d) PROVE RunsInTurn'
  BY <1>16 DEF AdoptSteering, queue, owner
<1>17. ASSUME NEW d \in Dispatchers, NEW s \in {"completed", "failed", "held"}, RunEnds(d, s)
       PROVE  RunsInTurn'
  BY <1>17 DEF RunEnds, owner
<1>18. ASSUME NEW d \in Dispatchers, Return(d) PROVE RunsInTurn'
  BY <1>18 DEF Return, owner
<1>19. CASE Crash
  BY <1>19 DEF Crash, queue
<1>20. CASE Start
  BY <1>20 DEF Start
<1>21. CASE UNCHANGED vars
  BY <1>21 DEF vars, queue, owner
<1>22. QED
  BY <1>a, <1>1, <1>2, <1>3, <1>4, <1>5, <1>6, <1>7, <1>8, <1>9, <1>10, <1>11, <1>12, <1>13, <1>14,
     <1>15, <1>16, <1>17, <1>18, <1>19, <1>20, <1>21 DEF Next, DispStep, UserStep

LEMMA PausedStep ==
  ASSUME TypeOK, LeaseHeld, Named, RunsInTurn, PausedInTime, [Next]_vars
  PROVE  PausedInTime'
<1>a. /\ Runs \subseteq 0..MaxRuns /\ 0 \in 0..MaxRuns /\ Runs \subseteq Nat
      /\ run \in [Runs -> RunRecord] /\ disp \in [Dispatchers -> DispRecord]
      /\ Nobody \notin Dispatchers
  BY QueueAssumption DEF QueueAssumption, Runs, TypeOK
<1> USE <1>a DEF PausedInTime, Latest, LeaseHeld, RunRecord, DispRecord, IdleDisp
<1>1. ASSUME NEW k \in Inputs, NEW action \in {"queue", "steer"}, NEW target \in 0..MaxRuns,
             Accept(k, action, target)
      PROVE  PausedInTime'
  BY <1>1 DEF Accept, queue, owner
<1>2. ASSUME NEW k \in Inputs, CancelReads(k) PROVE PausedInTime'
  BY <1>2 DEF CancelReads, queue, owner
<1>3. ASSUME NEW k \in Inputs, NEW r \in Runs, SteerReads(k, r) PROVE PausedInTime'
  BY <1>3 DEF SteerReads, queue, owner
<1>4. CASE CancelCommits
  BY <1>4 DEF CancelCommits, queue, owner
<1>5. CASE SteerCommits
  BY <1>5 DEF SteerCommits, queue, owner
<1>6. CASE Pause \/ Resume
  BY <1>6 DEF Pause, Resume, owner
<1>7. ASSUME NEW r \in Runs, Abandon(r) PROVE PausedInTime'
  BY <1>7 DEF Abandon, queue, owner
<1>8. ASSUME NEW d \in Dispatchers, NEW k \in Inputs, Pick(d, k) PROVE PausedInTime'
  BY <1>8 DEF Pick, queue, owner
<1>9. ASSUME NEW d \in Dispatchers, PickInvalid(d) PROVE PausedInTime'
  BY <1>9 DEF PickInvalid, owner
<1>10. ASSUME NEW d \in Dispatchers, CreateReads(d) PROVE PausedInTime'
  BY <1>10 DEF CreateReads, queue, owner
<1>11. ASSUME NEW d \in Dispatchers, CreateBusy(d) PROVE PausedInTime'
  BY <1>11 DEF CreateBusy, queue, owner
<1>12. ASSUME NEW d \in Dispatchers, CreateRefused(d) PROVE PausedInTime'
  BY <1>12 DEF CreateRefused, owner
<1>13. ASSUME NEW d \in Dispatchers, NEW r \in Runs, CreateCommits(d, r) PROVE PausedInTime'
  BY <1>13 DEF CreateCommits, queue, owner
<1>14. ASSUME NEW d \in Dispatchers, NEW r \in Runs, SubmitDirect(d, r) PROVE PausedInTime'
  BY <1>14 DEF SubmitDirect, queue, owner
<1>15. ASSUME NEW d \in Dispatchers, NEW r \in Runs, Continue(d, r) PROVE PausedInTime'
  BY <1>15 DEF Continue, queue, owner
<1>16. ASSUME NEW d \in Dispatchers, AdoptSteering(d) PROVE PausedInTime'
  BY <1>16 DEF AdoptSteering, queue, owner
<1>17. ASSUME NEW d \in Dispatchers, NEW s \in {"completed", "failed", "held"}, RunEnds(d, s)
       PROVE  PausedInTime'
  <2> DEFINE last == disp[d].run
  <2>1. last \in Runs /\ Latest(last)
    BY <1>17 DEF RunEnds, RunsInTurn, Named
  <2>2. run'[last].status = s /\ \A r \in Runs \ {last} : run'[r] = run[r]
    BY <1>17, <2>1 DEF RunEnds
  <2>3. disp'[d].pc = "returned" /\ disp'[d].run = last
    BY <1>17 DEF RunEnds
  <2> HIDE DEF last
  <2>4. ASSUME NEW r \in Runs, Latest(r)' PROVE r = last
    BY <2>1, <2>2, <2>4
  <2>5. QED
    BY <2>3, <2>4
<1>18. ASSUME NEW d \in Dispatchers, Return(d) PROVE PausedInTime'
  BY <1>18 DEF Return, owner
<1>19. CASE Crash
  BY <1>19, QueueAssumption DEF Crash, TypeOK, QueueAssumption, queue
<1>20. CASE Start
  BY <1>20 DEF Start
<1>21. CASE UNCHANGED vars
  BY <1>21 DEF vars, queue, owner
<1>22. QED
  BY <1>a, <1>1, <1>2, <1>3, <1>4, <1>5, <1>6, <1>7, <1>8, <1>9, <1>10, <1>11, <1>12, <1>13, <1>14,
     <1>15, <1>16, <1>17, <1>18, <1>19, <1>20, <1>21 DEF Next, DispStep, UserStep

LEMMA AllowedStep ==
  ASSUME TypeOK, LeaseHeld, Named, PausedInTime, StillAllowed, [Next]_vars
  PROVE  StillAllowed'
<1>a. /\ Runs \subseteq 0..MaxRuns /\ 0 \in 0..MaxRuns /\ Runs \subseteq Nat
      /\ run \in [Runs -> RunRecord] /\ disp \in [Dispatchers -> DispRecord]
      /\ Nobody \notin Dispatchers
  BY QueueAssumption DEF QueueAssumption, Runs, TypeOK
<1> USE <1>a DEF StillAllowed, LastCompleted, Latest, LeaseHeld, RunRecord, DispRecord, IdleDisp
<1>1. ASSUME NEW k \in Inputs, NEW action \in {"queue", "steer"}, NEW target \in 0..MaxRuns,
             Accept(k, action, target)
      PROVE  StillAllowed'
  BY <1>1 DEF Accept, queue, owner
<1>2. ASSUME NEW k \in Inputs, CancelReads(k) PROVE StillAllowed'
  BY <1>2 DEF CancelReads, queue, owner
<1>3. ASSUME NEW k \in Inputs, NEW r \in Runs, SteerReads(k, r) PROVE StillAllowed'
  BY <1>3 DEF SteerReads, queue, owner
<1>4. CASE CancelCommits
  BY <1>4 DEF CancelCommits, queue, owner
<1>5. CASE SteerCommits
  BY <1>5 DEF SteerCommits, queue, owner
<1>6. CASE Pause \/ Resume
  BY <1>6 DEF Pause, Resume, owner
<1>7. ASSUME NEW r \in Runs, Abandon(r) PROVE StillAllowed'
  BY <1>7 DEF Abandon, queue, owner
<1>8. ASSUME NEW d \in Dispatchers, NEW k \in Inputs, Pick(d, k) PROVE StillAllowed'
  BY <1>8 DEF Pick, queue, owner
<1>9. ASSUME NEW d \in Dispatchers, PickInvalid(d) PROVE StillAllowed'
  BY <1>9 DEF PickInvalid, owner
<1>10. ASSUME NEW d \in Dispatchers, CreateReads(d) PROVE StillAllowed'
  BY <1>10 DEF CreateReads, MayCreate, PausedInTime, queue, owner
<1>11. ASSUME NEW d \in Dispatchers, CreateBusy(d) PROVE StillAllowed'
  BY <1>11 DEF CreateBusy, queue, owner
<1>12. ASSUME NEW d \in Dispatchers, CreateRefused(d) PROVE StillAllowed'
  BY <1>12 DEF CreateRefused, owner
<1>13. ASSUME NEW d \in Dispatchers, NEW r \in Runs, CreateCommits(d, r) PROVE StillAllowed'
  BY <1>13 DEF CreateCommits, queue, owner
<1>14. ASSUME NEW d \in Dispatchers, NEW r \in Runs, SubmitDirect(d, r) PROVE StillAllowed'
  BY <1>14 DEF SubmitDirect, queue, owner
<1>15. ASSUME NEW d \in Dispatchers, NEW r \in Runs, Continue(d, r) PROVE StillAllowed'
  BY <1>15 DEF Continue, queue, owner
<1>16. ASSUME NEW d \in Dispatchers, AdoptSteering(d) PROVE StillAllowed'
  BY <1>16 DEF AdoptSteering, queue, owner
<1>17. ASSUME NEW d \in Dispatchers, NEW s \in {"completed", "failed", "held"}, RunEnds(d, s)
       PROVE  StillAllowed'
  BY <1>17 DEF RunEnds, owner
<1>18. ASSUME NEW d \in Dispatchers, Return(d) PROVE StillAllowed'
  BY <1>18 DEF Return, owner
<1>19. CASE Crash
  BY <1>19 DEF Crash, queue
<1>20. CASE Start
  BY <1>20 DEF Start
<1>21. CASE UNCHANGED vars
  BY <1>21 DEF vars, queue, owner
<1>22. QED
  BY <1>a, <1>1, <1>2, <1>3, <1>4, <1>5, <1>6, <1>7, <1>8, <1>9, <1>10, <1>11, <1>12, <1>13, <1>14,
     <1>15, <1>16, <1>17, <1>18, <1>19, <1>20, <1>21 DEF Next, DispStep, UserStep

-----------------------------------------------------------------------------
(* The cap *)

\* The places change by one accepted input at most; what SteerInput writes back has
\* kept its place.
LEMMA PlacesStep ==
  ASSUME TypeOK, PlacesBounded, [Next]_vars
  PROVE  PlacesBounded'
<1>a. IsFiniteSet(Places)
  <2>1. IsFiniteSet(Inputs)
    BY QueueAssumption, FS_Interval DEF QueueAssumption, Inputs
  <2>2. Pending \subseteq Inputs
    BY DEF Pending
  <2>3. IsFiniteSet(Pending)
    BY <2>1, <2>2, FS_Subset
  <2>4. IsFiniteSet(Pending \cup {edit.key})
    BY <2>3, FS_AddElement
  <2>5. QED
    BY <2>3, <2>4 DEF Places
<1>b. ASSUME Places' \subseteq Places PROVE PlacesBounded'
  <2>1. Cardinality(Places') <= Cardinality(Places) /\ IsFiniteSet(Places')
    BY <1>a, <1>b, FS_Subset
  <2>2. Cardinality(Places') \in Nat /\ Cardinality(Places) \in Nat
    BY <1>a, <2>1, FS_CardinalityType
  <2>3. QED
    BY <2>1, <2>2, QueueAssumption DEF PlacesBounded, QueueAssumption
<1>c. /\ input \in [Inputs -> InputRecord] /\ edit \in EditRecord
      /\ disp \in [Dispatchers -> DispRecord]
  BY DEF TypeOK
<1>1. ASSUME NEW k \in Inputs, NEW action \in {"queue", "steer"}, NEW target \in 0..MaxRuns,
             Accept(k, action, target)
      PROVE  PlacesBounded'
  <2>1. Places = Pending /\ Places' \subseteq Pending \cup {k}
    BY <1>c, <1>1 DEF Accept, Places, Pending, NoEdit
  <2>2. Cardinality(Pending) < MaxPending
    BY <1>1 DEF Accept
  <2>3. IsFiniteSet(Pending \cup {k}) /\ Cardinality(Pending \cup {k}) <= Cardinality(Pending) + 1
    <3>1. IsFiniteSet(Pending) /\ Cardinality(Pending) \in Nat
      BY <1>a, <2>1, FS_CardinalityType
    <3>2. QED
      BY <3>1, FS_AddElement, SMTT(30)
  <2>4. IsFiniteSet(Places') /\ Cardinality(Places') <= Cardinality(Pending \cup {k})
    BY <2>1, <2>3, FS_Subset
  <2>5. /\ Cardinality(Pending) \in Nat /\ Cardinality(Places') \in Nat
        /\ Cardinality(Pending \cup {k}) \in Nat
    BY <1>a, <2>1, <2>3, <2>4, FS_CardinalityType
  <2>6. QED
    BY <2>2, <2>3, <2>4, <2>5, QueueAssumption DEF PlacesBounded, QueueAssumption
<1>2. CASE CancelCommits
  BY <1>b, <1>c, <1>2 DEF CancelCommits, Places, Pending, NoEdit, EditRecord, InputRecord
<1>3. CASE SteerCommits
  BY <1>b, <1>c, <1>3 DEF SteerCommits, Places, Pending, NoEdit
<1>4. ASSUME NEW k \in Inputs, CancelReads(k) \/ \E r \in Runs : SteerReads(k, r)
      PROVE  PlacesBounded'
  BY <1>b, <1>4 DEF CancelReads, SteerReads, Places, Pending, Queued
<1>5. ASSUME NEW d \in Dispatchers, NEW r \in Runs, CreateCommits(d, r) PROVE PlacesBounded'
  <2>1. [disp[d].read EXCEPT !.status = "adopted", !.run = r].status = "adopted"
    BY <1>c DEF DispRecord, InputRecord
  <2>2. /\ input' = [input EXCEPT ![disp[d].key] =
                                  [disp[d].read EXCEPT !.status = "adopted", !.run = r]]
        /\ edit' = edit
    BY <1>5 DEF CreateCommits
  <2>3. Places' \subseteq Places
    BY <1>c, <2>1, <2>2 DEF Places, Pending
  <2>4. QED
    BY <1>b, <2>3
<1>6. ASSUME NEW d \in Dispatchers, AdoptSteering(d) PROVE PlacesBounded'
  <2>1. Pending' \subseteq Pending /\ edit' = edit
    BY <1>c, <1>6 DEF AdoptSteering, Pending, InputRecord
  <2>2. QED
    BY <1>b, <2>1 DEF Places
<1>7. CASE Crash
  BY <1>b, <1>7 DEF Crash, Places, Pending, NoEdit
<1>8. CASE UNCHANGED <<input, edit>>
  BY <1>b, <1>8 DEF Places, Pending
<1>9. 0 \in 0..MaxRuns /\ Runs \subseteq 0..MaxRuns
  BY QueueAssumption DEF QueueAssumption, Runs
<1>10. QED
  BY <1>1, <1>2, <1>3, <1>4, <1>5, <1>6, <1>7, <1>8, <1>9
     DEF Next, DispStep, UserStep, vars, Pause, Resume, Abandon, Pick, PickInvalid, CreateReads,
         CreateBusy, CreateRefused, SubmitDirect, Continue, RunEnds, Return, Start

-----------------------------------------------------------------------------
(* The theorems *)

LEMMA InitInv == ASSUME Init PROVE Inv
<1>1. TypeOK
  <2>1. 0 \in 0..MaxRuns /\ 0 \in 0..MaxInputs /\ 0 \in 0..MaxCrashes
    BY QueueAssumption DEF QueueAssumption
  <2>2. [status |-> "none", key |-> 0] \in RunRecord
    BY <2>1 DEF RunRecord
  <2>3. QED
    BY <2>1, <2>2, InputRecords, DispRecords, EditRecords DEF Init, TypeOK
<1>2. LeaseHeld /\ Named /\ ExecutedOnce /\ StillFirst
  BY DEF Init, LeaseHeld, Named, ExecutedOnce, StillFirst, IdleDisp, NoEdit
<1>3. RunsInTurn /\ StillAllowed /\ PausedInTime
  BY DEF Init, RunsInTurn, Active, Latest, StillAllowed, PausedInTime, IdleDisp
<1>4. PlacesBounded
  <2>1. Places = {}
    BY DEF Init, Places, Pending, NoInput, NoEdit
  <2>2. QED
    BY <2>1, FS_EmptySet, QueueAssumption DEF PlacesBounded, QueueAssumption
<1>5. QED
  BY <1>1, <1>2, <1>3, <1>4 DEF Inv

LEMMA NextInv == ASSUME Inv, [Next]_vars PROVE Inv'
BY TypeStep, LeaseStep, NamedStep, OnceStep, FirstStep, TurnStep, PausedStep, AllowedStep, PlacesStep
   DEF Inv

\* An input is executed once and the cap on waiting inputs holds, although cancelling
\* and steering write back what they read before another lock was taken
\* (input_queue.go, createRunWithTool).
THEOREM QueueExactAlways == Spec => []QueueExact
<1>1. ASSUME Inv PROVE QueueExact
  <2>1. IsFiniteSet(Inputs) /\ Pending \subseteq Inputs
    BY QueueAssumption, FS_Interval DEF QueueAssumption, Inputs, Pending
  <2>2. IsFiniteSet(Pending) /\ IsFiniteSet(Pending \cup {edit.key})
    BY <2>1, FS_Subset, FS_AddElement
  <2>3. IsFiniteSet(Places) /\ Pending \subseteq Places
    BY <2>2 DEF Places
  <2>4. Cardinality(Pending) <= Cardinality(Places)
    BY <2>3, FS_Subset
  <2>5. Cardinality(Pending) \in Nat /\ Cardinality(Places) \in Nat
    BY <2>2, <2>3, FS_CardinalityType
  <2>6. QED
    BY <1>1, <2>4, <2>5, QueueAssumption DEF Inv, QueueExact, PendingBounded, PlacesBounded,
                                             QueueAssumption
<1>2. QED
  BY <1>1, InitInv, NextInv, PTL DEF Spec

\* Queued inputs start in the order in which they were accepted, and by themselves
\* only after a Run that completed (RunQueued, execute, createRunWithTool).
THEOREM QueueOrderlyAlways == Spec => QueueOrderly
<1>1. ASSUME Inv, [Next]_vars PROVE InOrder /\ StopsOnFailure
  <2>1. run \in [Runs -> RunRecord] /\ disp \in [Dispatchers -> DispRecord] /\ Runs \subseteq Nat
    BY <1>1, QueueAssumption DEF Inv, TypeOK, Runs, QueueAssumption
  <2>2. ASSUME \A r \in Runs : run'[r].key = run[r].key PROVE InOrder /\ StopsOnFailure
    BY <1>1, <2>2 DEF Inv, Named, InOrder, StopsOnFailure
  <2>3. ASSUME NEW d \in Dispatchers, NEW r \in Runs, CreateCommits(d, r) PROVE InOrder /\ StopsOnFailure
    <3>1. /\ run'[r].key = disp[d].key /\ \A q \in Runs \ {r} : run'[q] = run[q]
          /\ disp[d].pc = "open"
      BY <2>1, <2>3 DEF CreateCommits
    <3>2. /\ \A j \in Queued : j >= disp[d].key
          /\ crashes = 0 => resumed \/ LastCompleted
      BY <1>1, <3>1 DEF Inv, StillFirst, StillAllowed
    <3>3. InOrder
      BY <3>1, <3>2 DEF InOrder
    <3>4. StopsOnFailure
      BY <1>1, <3>1, <3>2 DEF Inv, Named, LastCompleted, StopsOnFailure
    <3>5. QED
      BY <3>3, <3>4
  <2>4. CASE UNCHANGED run
    BY <2>2, <2>4
  <2>5. ASSUME NEW r \in Runs, Abandon(r) \/ \E d \in Dispatchers : SubmitDirect(d, r) \/ Continue(d, r)
        PROVE  \A q \in Runs : run'[q].key = run[q].key
    <3>1. PICK s \in {"running", "failed"} : run' = [run EXCEPT ![r].status = s]
      BY <2>5 DEF Abandon, SubmitDirect, Continue
    <3>2. QED
      BY <2>1, <3>1 DEF RunRecord
  <2>6. ASSUME NEW d \in Dispatchers, NEW s \in {"completed", "failed", "held"}, RunEnds(d, s)
        PROVE  \A q \in Runs : run'[q].key = run[q].key
    BY <2>1, <2>6 DEF RunEnds, RunRecord
  <2>7. ASSUME Crash PROVE \A q \in Runs : run'[q].key = run[q].key
    BY <2>1, <2>7 DEF Crash, RunRecord
  <2>8. QED
    BY <1>1, <2>2, <2>3, <2>4, <2>5, <2>6, <2>7
       DEF Next, DispStep, UserStep, vars, Accept, CancelReads, SteerReads, CancelCommits, SteerCommits,
           Pause, Resume, Pick, PickInvalid, CreateReads, CreateBusy, CreateRefused, AdoptSteering,
           Return, Start
<1>2. QED
  BY <1>1, InitInv, NextInv, PTL DEF Spec, QueueOrderly
=============================================================================
