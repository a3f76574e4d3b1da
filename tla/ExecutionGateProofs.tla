------------------------ MODULE ExecutionGateProofs ------------------------
(***************************************************************************)
(* The safety of the in-process gates for any number of workers,           *)
(* conversations, callers and slots; and what the managed command sessions *)
(* keep for any commands, limits, ages and number of crashes.              *)
(***************************************************************************)
EXTENDS ExecutionGate, CommandSessions, FiniteSetTheorems, TLAPS

\* The gates keep the types of their fields: hostBusy and processBusy never go
\* below zero, and every hold names a conversation or none.
THEOREM TypeCorrect == Spec => []TypeOK
<1>1. Init => TypeOK
  <2> SUFFICES ASSUME Init PROVE TypeOK
    OBVIOUS
  <2>1. Nothing \in Holding
    BY DEF Nothing, Holding
  <2>2. 0 \in Nat /\ 0 \in 0..MaxProcesses
    BY GateAssumption DEF GateAssumption
  <2>3. QED
    BY <2>1, <2>2 DEF Init, TypeOK, Kinds
<1>2. TypeOK /\ [Next]_vars => TypeOK'
  <2> SUFFICES ASSUME TypeOK, [Next]_vars PROVE TypeOK'
    OBVIOUS
  <2> USE DEF TypeOK, Kinds, Holding, Nothing, gateVars, controlVars, modelVars
  <2>1. ASSUME NEW w \in Workers, NEW chat \in Chats, NEW kind \in {"execution", "edit"},
               Acquire(w, chat, kind)
        PROVE  TypeOK'
    BY <2>1 DEF Acquire
  <2>2. ASSUME NEW w \in Workers, Release(w) PROVE TypeOK'
    BY <2>2 DEF Release
  <2>3. ASSUME NEW w \in Workers, TryLock(w) PROVE TypeOK'
    BY <2>3 DEF TryLock
  <2>4. ASSUME NEW w \in Workers, Unlock(w) PROVE TypeOK'
    BY <2>4 DEF Unlock
  <2>5. ASSUME NEW w \in Workers, Commit(w) PROVE TypeOK'
    BY <2>5 DEF Commit
  <2>6. ASSUME NEW w \in Workers, DecideLocal(w) PROVE TypeOK'
    BY <2>6 DEF DecideLocal
  <2>7. ASSUME NEW w \in Workers, BeginControl(w) PROVE TypeOK'
    BY <2>7 DEF BeginControl
  <2>8. ASSUME NEW w \in Workers, ApplyOrdinary(w) PROVE TypeOK'
    BY <2>8 DEF ApplyOrdinary
  <2>9. ASSUME NEW w \in Workers, EndDecision(w) PROVE TypeOK'
    BY <2>9 DEF EndDecision
  <2>10. ASSUME NEW w \in Workers, BeginHost(w) PROVE TypeOK'
    <3>1. hostBusy' \in Nat
      BY <2>10 DEF BeginHost
    <3>2. holds' \in [Workers -> Holding]
      BY <2>10 DEF BeginHost
    <3>3. QED
      BY <2>10, <3>1, <3>2 DEF BeginHost
  <2>11. ASSUME NEW w \in Workers, EndHost(w) PROVE TypeOK'
    <3>1. hostBusy' \in Nat
      BY <2>11 DEF EndHost
    <3>2. holds' \in [Workers -> Holding]
      BY <2>11 DEF EndHost
    <3>3. QED
      BY <2>11, <3>1, <3>2 DEF EndHost
  <2>12. ASSUME NEW w \in Workers, BeginProcess(w) PROVE TypeOK'
    BY <2>12, GateAssumption DEF BeginProcess
  <2>13. ASSUME NEW w \in Workers, NEW c \in Callers, ModelStep(w, c) PROVE TypeOK'
    BY <2>13 DEF ModelStep, RequestModel, GrantModel, CancelModel, ReleaseModel
  <2>14. CASE EndProcess
    BY <2>14, GateAssumption DEF EndProcess
  <2>15. CASE UNCHANGED vars
    BY <2>15 DEF vars
  <2>16. QED
    BY <2>1, <2>2, <2>3, <2>4, <2>5, <2>6, <2>7, <2>8, <2>9, <2>10, <2>11, <2>12,
       <2>13, <2>14, <2>15 DEF Next, WorkerStep
<1>3. QED
  BY <1>1, <1>2, PTL DEF Spec
----------------------------------------------------------------------------
(* Leases *)

\* Only acquire and the release closure change a lease or the map of the gate.
LeaseFrame == chats' = chats /\ \A w \in Workers : holds'[w].lease = holds[w].lease

\* Every other step of a gate leaves the leases and their map alone.
LEMMA OtherStepsKeepLeases ==
  ASSUME TypeOK, [Next]_vars
  PROVE  \/ \E w \in Workers, chat \in Chats, kind \in {"execution", "edit"} :
              Acquire(w, chat, kind)
         \/ \E w \in Workers : Release(w)
         \/ LeaseFrame
<1> USE DEF TypeOK, LeaseFrame, Holding, Nothing, gateVars, controlVars, modelVars
<1>1. ASSUME NEW w \in Workers, TryLock(w) PROVE LeaseFrame
  BY <1>1 DEF TryLock
<1>2. ASSUME NEW w \in Workers, Unlock(w) PROVE LeaseFrame
  BY <1>2 DEF Unlock
<1>3. ASSUME NEW w \in Workers, Commit(w) PROVE LeaseFrame
  BY <1>3 DEF Commit
<1>4. ASSUME NEW w \in Workers, DecideLocal(w) \/ BeginControl(w) \/ ApplyOrdinary(w)
      PROVE  LeaseFrame
  <2>1. CASE DecideLocal(w)
    BY <2>1 DEF DecideLocal
  <2>2. CASE BeginControl(w)
    BY <2>2 DEF BeginControl
  <2>3. CASE ApplyOrdinary(w)
    BY <2>3 DEF ApplyOrdinary
  <2>4. QED
    BY <1>4, <2>1, <2>2, <2>3
<1>5. ASSUME NEW w \in Workers, EndDecision(w) PROVE LeaseFrame
  BY <1>5 DEF EndDecision
<1>6. ASSUME NEW w \in Workers, BeginHost(w) \/ EndHost(w) \/ BeginProcess(w)
      PROVE  LeaseFrame
  BY <1>6 DEF BeginHost, EndHost, BeginProcess
<1>7. ASSUME NEW w \in Workers, NEW c \in Callers, ModelStep(w, c) PROVE LeaseFrame
  BY <1>7 DEF ModelStep, RequestModel, GrantModel, CancelModel, ReleaseModel
<1>8. CASE EndProcess \/ UNCHANGED vars
  BY <1>8 DEF EndProcess, vars
<1>9. QED
  BY <1>1, <1>2, <1>3, <1>4, <1>5, <1>6, <1>7, <1>8 DEF Next, WorkerStep

\* Every step of a gate keeps the map and the holders of leases in agreement.
LEMMA LeasesStep ==
  ASSUME TypeOK, LeasesMatch, [Next]_vars
  PROVE  LeasesMatch'
<1> USE DEF TypeOK, LeasesMatch, Leased, Holding, Kinds
<1>1. ASSUME NEW w \in Workers, NEW chat \in Chats, NEW kind \in {"execution", "edit"},
             Acquire(w, chat, kind)
      PROVE  LeasesMatch'
  <2>1. /\ chats' = [chats EXCEPT ![chat] = kind]
        /\ chats[chat] = "free" /\ kind # "free"
    BY <1>1 DEF Acquire
  <2>2. /\ holds'[w].lease = chat /\ holds[w].lease = NoChat
        /\ \A v \in Workers : v # w => holds'[v].lease = holds[v].lease
    BY <1>1 DEF Acquire, Nothing
  <2>3. \A v \in Workers : holds[v].lease # chat
    BY <2>1
  <2>4. chat # NoChat
    BY GateAssumption DEF GateAssumption
  <2>5. ASSUME NEW c \in Chats
        PROVE  chats'[c] # "free" <=> \E v \in Workers : holds'[v].lease = c
    <3>1. CASE c = chat
      BY <2>1, <2>2, <3>1
    <3>2. CASE c # chat
      <4>1. chats'[c] = chats[c] /\ c # NoChat
        BY <2>1, <3>2, GateAssumption DEF GateAssumption
      <4>2. \A v \in Workers : holds'[v].lease = c <=> holds[v].lease = c
        BY <2>2, <3>2, <4>1
      <4>3. QED
        BY <4>1, <4>2
    <3>3. QED
      BY <3>1, <3>2
  <2>6. ASSUME NEW u \in Workers, NEW v \in Workers, holds'[u].lease # NoChat,
               holds'[u].lease = holds'[v].lease
        PROVE  u = v
    BY <2>2, <2>3, <2>4, <2>6
  <2>7. QED
    BY <2>5, <2>6
<1>2. ASSUME NEW w \in Workers, Release(w) PROVE LeasesMatch'
  <2> DEFINE chat == holds[w].lease
  <2>1. chat \in Chats /\ chat # NoChat
    BY <1>2 DEF Release
  <2>2. /\ chats' = [chats EXCEPT ![chat] = "free"]
        /\ holds'[w].lease = NoChat
        /\ \A v \in Workers : v # w => holds'[v].lease = holds[v].lease
    BY <1>2 DEF Release, Nothing
  <2>3. \A v \in Workers : v # w => holds[v].lease # chat
    BY <1>2, <2>1 DEF Release
  <2>4. ASSUME NEW c \in Chats
        PROVE  chats'[c] # "free" <=> \E v \in Workers : holds'[v].lease = c
    <3>1. c # NoChat
      BY GateAssumption DEF GateAssumption
    <3>2. CASE c = chat
      BY <2>1, <2>2, <2>3, <3>2
    <3>3. CASE c # chat
      <4>1. chats'[c] = chats[c]
        BY <2>1, <2>2, <3>3
      <4>2. \A v \in Workers : holds'[v].lease = c <=> holds[v].lease = c
        BY <2>2, <3>1, <3>3
      <4>3. QED
        BY <4>1, <4>2
    <3>4. QED
      BY <3>2, <3>3
  <2>5. ASSUME NEW u \in Workers, NEW v \in Workers, holds'[u].lease # NoChat,
               holds'[u].lease = holds'[v].lease
        PROVE  u = v
    BY <2>2, <2>5
  <2>6. QED
    BY <2>4, <2>5
<1>3. CASE LeaseFrame
  BY <1>3 DEF LeaseFrame
<1>4. QED
  BY <1>1, <1>2, <1>3, OtherStepsKeepLeases

\* A conversation has one lease holder, and a release never frees a conversation
\* that somebody else holds (executionGate.acquire and its release closure).
THEOREM LeasesMatchAlways == Spec => []LeasesMatch
<1>1. Init => LeasesMatch
  BY GateAssumption DEF GateAssumption, Init, LeasesMatch, Leased, Nothing
<1>2. LeasesMatch /\ TypeOK /\ [Next]_vars => LeasesMatch'
  BY LeasesStep
<1>3. QED
  BY <1>1, <1>2, TypeCorrect, PTL DEF Spec
----------------------------------------------------------------------------
(* The exclusive boundary *)

\* Every step of a gate keeps the exclusive boundary with one holder, alone.
LEMMA ExclusiveStep ==
  ASSUME TypeOK, LeasesMatch, ExclusiveAlone, [Next]_vars
  PROVE  ExclusiveAlone'
<1> USE DEF TypeOK, ExclusiveAlone, Leased, Holding, gateVars, controlVars, modelVars
<1> DEFINE Frame == /\ exclusive' = exclusive
                    /\ \A w \in Workers : /\ holds'[w].lease = holds[w].lease
                                          /\ holds'[w].excl = holds[w].excl
<1>0. Frame => ExclusiveAlone'
  OBVIOUS
<1>1. ASSUME NEW w \in Workers, NEW chat \in Chats, NEW kind \in {"execution", "edit"},
             Acquire(w, chat, kind)
      PROVE  ExclusiveAlone'
  <2>1. ~exclusive /\ exclusive' = exclusive
    BY <1>1 DEF Acquire
  <2>2. \A v \in Workers : holds'[v].excl = holds[v].excl
    BY <1>1 DEF Acquire
  <2>3. \A v \in Workers : ~holds'[v].excl
    BY <2>1, <2>2
  <2>4. QED
    BY <2>1, <2>3
<1>2. ASSUME NEW w \in Workers, Release(w) PROVE ExclusiveAlone'
  <2>1. /\ exclusive' = exclusive /\ ~holds[w].excl /\ ~holds'[w].excl
        /\ holds'[w].lease = NoChat
        /\ \A v \in Workers : v # w => holds'[v] = holds[v]
    BY <1>2 DEF Release, Nothing
  <2>2. QED
    BY <2>1
<1>3. ASSUME NEW w \in Workers, TryLock(w) PROVE ExclusiveAlone'
  <2>1. /\ exclusive' = TRUE /\ ~exclusive /\ holds'[w].excl
        /\ holds'[w].lease = holds[w].lease
        /\ \A v \in Workers : v # w => holds'[v] = holds[v]
    BY <1>3 DEF TryLock
  <2>2. \A v \in Workers : ~holds[v].excl
    BY <2>1
  <2>3. \A v \in Workers : holds[v].lease = NoChat
    BY <1>3 DEF TryLock, Held, LeasesMatch
  <2>4. QED
    BY <2>1, <2>2, <2>3
<1>4. ASSUME NEW w \in Workers, Unlock(w) PROVE ExclusiveAlone'
  <2>1. /\ exclusive' = FALSE /\ holds[w].excl /\ ~holds'[w].excl
        /\ \A v \in Workers : v # w => holds'[v] = holds[v]
    BY <1>4 DEF Unlock, Nothing
  <2>2. \A v \in Workers : ~holds'[v].excl
    BY <2>1
  <2>3. QED
    BY <2>1, <2>2
<1>5. ASSUME NEW w \in Workers, Commit(w) PROVE ExclusiveAlone'
  <2>1. /\ exclusive' = TRUE /\ ~exclusive /\ holds'[w].excl
        /\ holds'[w].lease = holds[w].lease
        /\ \A v \in Workers : v # w => holds'[v] = holds[v]
    BY <1>5 DEF Commit
  <2>2. \A v \in Workers : ~holds[v].excl
    BY <2>1
  <2>3. ASSUME NEW v \in Workers, holds[v].lease # NoChat PROVE v = w
    <3>1. holds[v].lease \in Chats /\ chats[holds[v].lease] # "free"
      BY <2>3 DEF LeasesMatch
    <3>2. holds[v].lease = holds[w].lease
      BY <3>1, <1>5 DEF Commit, Held
    <3>3. QED
      BY <2>3, <3>2 DEF LeasesMatch
  <2>4. QED
    BY <2>1, <2>2, <2>3
<1>6. ASSUME NEW w \in Workers, EndDecision(w) PROVE ExclusiveAlone'
  <2>1. /\ exclusive' = IF holds[w].excl THEN FALSE ELSE exclusive
        /\ ~holds'[w].excl /\ holds'[w].lease = holds[w].lease
        /\ \A v \in Workers : v # w => holds'[v] = holds[v]
    BY <1>6 DEF EndDecision, Nothing
  <2>2. CASE holds[w].excl
    <3>1. \A v \in Workers : ~holds'[v].excl
      BY <2>1, <2>2
    <3>2. QED
      BY <2>1, <2>2, <3>1
  <2>3. CASE ~holds[w].excl
    BY <2>1, <2>3
  <2>4. QED
    BY <2>2, <2>3
<1>7. ASSUME NEW w \in Workers, DecideLocal(w) \/ BeginControl(w) \/ ApplyOrdinary(w)
      PROVE  Frame
  <2>1. CASE DecideLocal(w)
    BY <2>1 DEF DecideLocal
  <2>2. CASE BeginControl(w)
    BY <2>2 DEF BeginControl
  <2>3. CASE ApplyOrdinary(w)
    BY <2>3 DEF ApplyOrdinary
  <2>4. QED
    BY <1>7, <2>1, <2>2, <2>3
<1>8. ASSUME NEW w \in Workers, BeginHost(w) \/ EndHost(w) \/ BeginProcess(w) PROVE Frame
  BY <1>8 DEF BeginHost, EndHost, BeginProcess
<1>9. ASSUME NEW w \in Workers, NEW c \in Callers, ModelStep(w, c) PROVE Frame
  BY <1>9 DEF ModelStep, RequestModel, GrantModel, CancelModel, ReleaseModel
<1>10. CASE EndProcess \/ UNCHANGED vars
  <2>1. Frame
    BY <1>10 DEF EndProcess, vars
  <2>2. QED
    BY <2>1, <1>0
<1>11. QED
  BY <1>0, <1>1, <1>2, <1>3, <1>4, <1>5, <1>6, <1>7, <1>8, <1>9, <1>10
  DEF Next, WorkerStep

\* While a settings commit, a backup or an abandonment holds the exclusive boundary
\* no other conversation is leased, and nobody else can clear the boundary
\* (executionGate.TryLock, Unlock and commit).
THEOREM ExclusiveAloneAlways == Spec => []ExclusiveAlone
<1>1. Init => ExclusiveAlone
  BY DEF Init, ExclusiveAlone, Leased, Nothing
<1>2. ExclusiveAlone /\ LeasesMatch /\ TypeOK /\ [Next]_vars => ExclusiveAlone'
  BY ExclusiveStep
<1>3. QED
  BY <1>1, <1>2, TypeCorrect, LeasesMatchAlways, PTL DEF Spec

----------------------------------------------------------------------------
(* The foreground limit *)

\* There are never more execution leases than MaxForegroundRuns, whatever edits,
\* releases and commits come between the check of acquire and the next one.
THEOREM ForegroundBoundAlways == Spec => []ForegroundBound
<1>1. Init => ForegroundBound
  <2>1. Init => Executing = {}
    BY DEF Init, Executing
  <2>2. QED
    BY <2>1, FS_EmptySet, GateAssumption DEF GateAssumption, ForegroundBound
<1>2. ForegroundBound /\ TypeOK /\ [Next]_vars => ForegroundBound'
  <2> SUFFICES ASSUME ForegroundBound, TypeOK, [Next]_vars PROVE ForegroundBound'
    OBVIOUS
  <2>0. IsFiniteSet(Executing) /\ Cardinality(Executing) \in Nat /\ MaxForegroundRuns \in Nat
    <3>1. Executing \subseteq Chats
      BY DEF Executing
    <3>2. IsFiniteSet(Executing)
      BY <3>1, FS_Subset, GateAssumption DEF GateAssumption
    <3>3. QED
      BY <3>2, FS_CardinalityType, GateAssumption DEF GateAssumption
  <2>1. ASSUME NEW w \in Workers, NEW chat \in Chats, NEW kind \in {"execution", "edit"},
               Acquire(w, chat, kind)
        PROVE  ForegroundBound'
    <3>1. CASE kind = "execution"
      <4>1. Executing' = Executing \cup {chat} /\ chat \notin Executing
        BY <2>1, <3>1 DEF Acquire, Executing, TypeOK
      <4>2. Cardinality(Executing') = Cardinality(Executing) + 1
        BY <2>0, <4>1, FS_AddElement
      <4>3. Cardinality(Executing) < MaxForegroundRuns
        BY <2>1, <3>1 DEF Acquire
      <4>4. QED
        BY <2>0, <4>2, <4>3 DEF ForegroundBound
    <3>2. CASE kind = "edit"
      <4>1. Executing' = Executing
        BY <2>1, <3>2 DEF Acquire, Executing, TypeOK
      <4>2. QED
        BY <4>1 DEF ForegroundBound
    <3>3. QED
      BY <3>1, <3>2
  <2>2. ASSUME NEW w \in Workers, Release(w) PROVE ForegroundBound'
    <3>1. Executing' \subseteq Executing
      BY <2>2 DEF Release, Executing, TypeOK, Leased, Holding
    <3>2. Cardinality(Executing') <= Cardinality(Executing) /\ Cardinality(Executing') \in Nat
      BY <2>0, <3>1, FS_Subset, FS_CardinalityType
    <3>3. QED
      BY <2>0, <3>2 DEF ForegroundBound
  <2>3. CASE LeaseFrame
    BY <2>3 DEF LeaseFrame, ForegroundBound, Executing
  <2>4. QED
    BY <2>1, <2>2, <2>3, OtherStepsKeepLeases
<1>3. QED
  BY <1>1, <1>2, TypeCorrect, PTL DEF Spec
----------------------------------------------------------------------------
(* The control gate *)

HostUsers == {w \in Workers : holds[w].host}

\* hostBusy counts the workers inside a host command, and none of them is also
\* inside a settings decision: what beginControl's test of the counter stands for.
HostInv ==
  /\ hostBusy = Cardinality(HostUsers)
  /\ \A w \in Workers : holds[w].stage # "none" => ~holds[w].host

\* Every step of a gate keeps the counter of host commands exact.
LEMMA HostStep ==
  ASSUME TypeOK, HostInv, [Next]_vars
  PROVE  HostInv'
<1> USE DEF TypeOK, Holding, gateVars, controlVars, modelVars
<1> DEFINE Frame == /\ hostBusy' = hostBusy
                    /\ \A w \in Workers : /\ holds'[w].host = holds[w].host
                                          /\ holds'[w].stage # "none" => ~holds[w].host
<1>0. ASSUME Frame PROVE HostInv'
  <2>1. HostUsers' = HostUsers
    BY <1>0 DEF HostUsers
  <2>2. QED
    BY <1>0, <2>1 DEF HostInv
<1>f. IsFiniteSet(HostUsers) /\ Cardinality(HostUsers) \in Nat
  <2>1. HostUsers \subseteq Workers
    BY DEF HostUsers
  <2>2. QED
    BY <2>1, FS_Subset, FS_CardinalityType, GateAssumption DEF GateAssumption
<1>1. ASSUME NEW w \in Workers, NEW chat \in Chats, NEW kind \in {"execution", "edit"},
             Acquire(w, chat, kind)
      PROVE  Frame
  BY <1>1 DEF Acquire, HostInv
<1>2. ASSUME NEW w \in Workers, Release(w) PROVE Frame
  BY <1>2 DEF Release, Nothing, HostInv
<1>3. ASSUME NEW w \in Workers, TryLock(w) PROVE Frame
  BY <1>3 DEF TryLock, HostInv
<1>4. ASSUME NEW w \in Workers, Unlock(w) PROVE Frame
  BY <1>4 DEF Unlock, Nothing, HostInv
<1>5. ASSUME NEW w \in Workers, Commit(w) PROVE Frame
  BY <1>5 DEF Commit, HostInv
<1>6. ASSUME NEW w \in Workers, DecideLocal(w) PROVE Frame
  BY <1>6 DEF DecideLocal, HostInv
<1>7. ASSUME NEW w \in Workers, BeginControl(w) PROVE Frame
  BY <1>7 DEF BeginControl, HostInv
<1>8. ASSUME NEW w \in Workers, ApplyOrdinary(w) PROVE Frame
  BY <1>8 DEF ApplyOrdinary, HostInv
<1>9. ASSUME NEW w \in Workers, EndDecision(w) PROVE Frame
  BY <1>9 DEF EndDecision, Nothing, HostInv
<1>10. ASSUME NEW w \in Workers, BeginHost(w) PROVE HostInv'
  <2>1. /\ ~holds[w].host /\ holds'[w].host /\ holds'[w].stage = "none"
        /\ \A v \in Workers : v # w => holds'[v] = holds[v]
    BY <1>10 DEF BeginHost
  <2>2. HostUsers' = HostUsers \cup {w} /\ w \notin HostUsers
    BY <2>1 DEF HostUsers
  <2>3. Cardinality(HostUsers') = Cardinality(HostUsers) + 1
    BY <1>f, <2>2, FS_AddElement
  <2>4. hostBusy' = hostBusy + 1
    BY <1>10 DEF BeginHost
  <2>5. hostBusy' = Cardinality(HostUsers')
    BY <2>3, <2>4 DEF HostInv
  <2>6. \A v \in Workers : holds'[v].stage # "none" => ~holds'[v].host
    BY <2>1 DEF HostInv
  <2>7. QED
    BY <2>5, <2>6 DEF HostInv
<1>11. ASSUME NEW w \in Workers, EndHost(w) PROVE HostInv'
  <2>1. /\ holds[w].host /\ ~holds'[w].host
        /\ \A v \in Workers : v # w => holds'[v] = holds[v]
    BY <1>11 DEF EndHost
  <2>2. HostUsers' = HostUsers \ {w} /\ w \in HostUsers
    BY <2>1 DEF HostUsers
  <2>3. Cardinality(HostUsers') = Cardinality(HostUsers) - 1
    BY <1>f, <2>2, FS_RemoveElement
  <2>4. Cardinality(HostUsers) # 0
    BY <1>f, <2>2, FS_EmptySet
  <2>5. hostBusy > 0
    BY <1>f, <2>4 DEF HostInv
  <2>6. hostBusy' = hostBusy - 1
    BY <1>11, <2>5 DEF EndHost
  <2>7. hostBusy' = Cardinality(HostUsers')
    BY <2>3, <2>6 DEF HostInv
  <2>8. \A v \in Workers : holds'[v].stage # "none" => ~holds'[v].host
    BY <2>1 DEF HostInv
  <2>9. QED
    BY <2>7, <2>8 DEF HostInv
<1>12. ASSUME NEW w \in Workers, BeginProcess(w) PROVE Frame
  BY <1>12 DEF BeginProcess, HostInv
<1>13. ASSUME NEW w \in Workers, NEW c \in Callers, ModelStep(w, c) PROVE Frame
  BY <1>13 DEF ModelStep, RequestModel, GrantModel, CancelModel, ReleaseModel, HostInv
<1>14. CASE EndProcess \/ UNCHANGED vars
  <2>1. Frame
    BY <1>14 DEF EndProcess, vars, HostInv
  <2>2. QED
    BY <2>1, <1>0
<1>15. QED
  BY <1>0, <1>1, <1>2, <1>3, <1>4, <1>5, <1>6, <1>7, <1>8, <1>9, <1>10, <1>11, <1>12,
     <1>13, <1>14 DEF Next, WorkerStep

\* A consequential settings change is applied while no host command and no
\* background process runs, and none starts before it ends (beginControl,
\* beginHost and beginProcess of controlDecisionGate).
THEOREM ControlAloneAlways == Spec => []ControlAlone
<1>1. Init => HostInv /\ ControlAlone
  <2>1. Init => HostUsers = {} /\ \A w \in Workers : holds[w].stage = "none"
    BY DEF Init, HostUsers, Nothing
  <2>2. QED
    BY <2>1, FS_EmptySet DEF Init, HostInv, ControlAlone
<1>2. TypeOK /\ HostInv /\ [Next]_vars => HostInv'
  BY HostStep
<1>3. TypeOK /\ HostInv /\ ControlAlone /\ [Next]_vars => ControlAlone'
  <2> SUFFICES ASSUME TypeOK, HostInv, ControlAlone, [Next]_vars, controlBusy'
               PROVE  hostBusy' = 0 /\ processBusy' = 0 /\ \A v \in Workers : ~holds'[v].host
    BY DEF ControlAlone
  <2> USE DEF TypeOK, Holding, gateVars, controlVars, modelVars
  <2> DEFINE Quiet == hostBusy' = 0 /\ processBusy' = 0 /\ \A v \in Workers : ~holds'[v].host
             Kept == /\ controlBusy' => controlBusy
                     /\ hostBusy' = hostBusy /\ processBusy' = processBusy
                     /\ \A v \in Workers : holds'[v].host => holds[v].host
  <2>0. Kept => Quiet
    BY DEF ControlAlone
  <2>1. ASSUME NEW w \in Workers, NEW chat \in Chats, NEW kind \in {"execution", "edit"},
               Acquire(w, chat, kind)
        PROVE  Kept
    BY <2>1 DEF Acquire
  <2>2. ASSUME NEW w \in Workers, Release(w) PROVE Kept
    BY <2>2 DEF Release, Nothing
  <2>3. ASSUME NEW w \in Workers, TryLock(w) PROVE Kept
    BY <2>3 DEF TryLock
  <2>4. ASSUME NEW w \in Workers, Unlock(w) PROVE Kept
    BY <2>4 DEF Unlock, Nothing
  <2>5. ASSUME NEW w \in Workers, Commit(w) PROVE Kept
    BY <2>5 DEF Commit
  <2>6. ASSUME NEW w \in Workers, DecideLocal(w) PROVE Kept
    BY <2>6 DEF DecideLocal
  <2>7. ASSUME NEW w \in Workers, BeginControl(w) PROVE Quiet
    <3>1. hostBusy = 0 /\ processBusy = 0 /\ hostBusy' = hostBusy /\ processBusy' = processBusy
      BY <2>7 DEF BeginControl
    <3>2. HostUsers \subseteq Workers /\ IsFiniteSet(HostUsers)
      <4>1. HostUsers \subseteq Workers
        BY DEF HostUsers
      <4>2. QED
        BY <4>1, FS_Subset, GateAssumption DEF GateAssumption
    <3>3. HostUsers = {}
      BY <3>1, <3>2, FS_EmptySet DEF HostInv
    <3>4. \A v \in Workers : holds'[v].host = holds[v].host
      BY <2>7 DEF BeginControl
    <3>5. QED
      BY <3>1, <3>3, <3>4 DEF HostUsers
  <2>8. ASSUME NEW w \in Workers, ApplyOrdinary(w) PROVE Kept
    BY <2>8 DEF ApplyOrdinary
  <2>9. ASSUME NEW w \in Workers, EndDecision(w) PROVE Kept
    BY <2>9 DEF EndDecision, Nothing
  <2>10. ASSUME NEW w \in Workers, BeginHost(w) \/ BeginProcess(w) PROVE FALSE
    BY <2>10 DEF BeginHost, BeginProcess
  <2>11. ASSUME NEW w \in Workers, EndHost(w) PROVE Quiet
    BY <2>11 DEF EndHost, ControlAlone
  <2>12. ASSUME NEW w \in Workers, NEW c \in Callers, ModelStep(w, c) PROVE Kept
    BY <2>12 DEF ModelStep, RequestModel, GrantModel, CancelModel, ReleaseModel
  <2>13. CASE EndProcess
    BY <2>13 DEF EndProcess, ControlAlone
  <2>14. CASE UNCHANGED vars
    BY <2>14, <2>0 DEF vars
  <2>15. QED
    BY <2>0, <2>1, <2>2, <2>3, <2>4, <2>5, <2>6, <2>7, <2>8, <2>9, <2>10, <2>11, <2>12,
       <2>13, <2>14 DEF Next, WorkerStep
<1>4. QED
  BY <1>1, <1>2, <1>3, TypeCorrect, PTL DEF Spec
----------------------------------------------------------------------------
(* Model slots *)

\* acquireModel never hands out more slots than there are, whoever asks and whether
\* or not the lease of the asking request is still held.
THEOREM SlotsAlways == Spec => []SlotsBounded
<1> DEFINE SInv == IsFiniteSet(slots) /\ SlotsBounded
<1>1. Init => SInv
  <2>1. Init => slots = {} /\ waiting = {}
    BY DEF Init
  <2>2. QED
    BY <2>1, FS_EmptySet, GateAssumption DEF GateAssumption, SlotsBounded
<1>2. SInv /\ [Next]_vars => SInv'
  <2> SUFFICES ASSUME SInv, [Next]_vars PROVE SInv'
    OBVIOUS
  <2>0. Cardinality(slots) \in Nat /\ ModelSlots \in Nat
    BY FS_CardinalityType, GateAssumption DEF GateAssumption
  <2>1. CASE UNCHANGED <<slots, waiting>>
    BY <2>1 DEF SlotsBounded
  <2>2. ASSUME NEW w \in Workers, NEW c \in Callers, RequestModel(w, c) PROVE SInv'
    BY <2>2 DEF RequestModel, SlotsBounded
  <2>3. ASSUME NEW w \in Workers, NEW c \in Callers, GrantModel(w, c) PROVE SInv'
    <3>0. PICK x : x = <<w, c>>
      OBVIOUS
    <3>1. slots' = slots \cup {x} /\ waiting' = waiting \ {x}
      BY <2>3, <3>0 DEF GrantModel
    <3>2. IsFiniteSet(slots') /\ Cardinality(slots') <= Cardinality(slots) + 1
      BY <2>0, <3>1, FS_AddElement, SMTT(30)
    <3>3. Cardinality(slots') \in Nat /\ Cardinality(slots) < ModelSlots
      BY <2>3, <3>2, FS_CardinalityType DEF GrantModel
    <3>4. Cardinality(slots') <= ModelSlots
      BY <2>0, <3>2, <3>3
    <3>5. slots' \cap waiting' = {}
      BY <3>1 DEF SlotsBounded
    <3>6. QED
      BY <3>2, <3>4, <3>5 DEF SlotsBounded
  <2>4. ASSUME NEW w \in Workers, NEW c \in Callers, CancelModel(w, c) PROVE SInv'
    BY <2>4 DEF CancelModel, SlotsBounded
  <2>5. ASSUME NEW w \in Workers, NEW c \in Callers, ReleaseModel(w, c) PROVE SInv'
    <3>1. slots' \subseteq slots /\ waiting' = waiting
      BY <2>5 DEF ReleaseModel
    <3>2. IsFiniteSet(slots') /\ Cardinality(slots') <= Cardinality(slots)
      BY <3>1, FS_Subset
    <3>3. Cardinality(slots') \in Nat /\ Cardinality(slots) <= ModelSlots
      BY <3>2, FS_CardinalityType DEF SlotsBounded
    <3>4. Cardinality(slots') <= ModelSlots
      BY <2>0, <3>2, <3>3
    <3>5. QED
      BY <3>1, <3>2, <3>4 DEF SlotsBounded
  <2>6. \/ \E w \in Workers, c \in Callers : ModelStep(w, c)
        \/ UNCHANGED <<slots, waiting>>
    BY DEF Next, WorkerStep, Acquire, Release, TryLock, Unlock, Commit, DecideLocal,
           BeginControl, ApplyOrdinary, EndDecision, BeginHost, EndHost, BeginProcess,
           EndProcess, vars, modelVars
  <2>7. QED
    BY <2>1, <2>2, <2>3, <2>4, <2>5, <2>6 DEF ModelStep
<1>3. QED
  BY <1>1, <1>2, PTL DEF Spec

(***************************************************************************)
(* Everything the gate promises, together.                                 *)
(***************************************************************************)

\* The whole safety invariant of the gate, for any number of Workers, Chats,
\* Callers and slots (execution_gate.go, model_dispatch.go, extension_host.go).
THEOREM GateSafeAlways == Spec => []GateSafe
<1>1. TypeOK /\ LeasesMatch /\ ExclusiveAlone /\ ForegroundBound /\ ControlAlone
        /\ SlotsBounded => GateSafe
  BY DEF GateSafe
<1>2. QED
  BY <1>1, TypeCorrect, LeasesMatchAlways, ExclusiveAloneAlways, ForegroundBoundAlways,
     ControlAloneAlways, SlotsAlways, PTL

-----------------------------------------------------------------------------
\* Command sessions: quota, profiles, records and the end of every process.

Phases == {"none", "new", "watch", "returned", "ending", "ended", "kept"}
MemRecord ==
  [phase : Phases, state : {"running", "stopping", "unknown"} \cup Known,
   reason : {"", "startup_persistence_failed", "stop", "deadline", "process_exit", "save_failed"},
   expires : 0..MaxAge, age : 0..MaxAge, stopped : BOOLEAN, cancelled : BOOLEAN,
   ready : {"no", "printed", "yes"},
   why : {"", "startup_persistence_failed", "stop", "deadline", "process_exit", "save_failed"}]
SavedRecord ==
  [state : {"absent", "running", "unknown"} \cup Known, expires : 0..MaxAge, reviewed : BOOLEAN]

\* What memory and records are.
RecordsOK ==
  /\ CommandsTypeOK
  /\ mem \in [Commands -> MemRecord] /\ saved \in [Commands -> SavedRecord]

\* The group of reservations keeps the quota and the profile.
GroupOK ==
  /\ IsFiniteSet(reserved)
  /\ \A mode \in {"command", "service"} :
       Cardinality({c \in reserved : Mode(c) = mode}) <= Quota(mode)
  /\ \A c, d \in reserved : SameProfile(c, d)

\* A process of this Owner that is not known to be gone keeps its reservation.
LiveReserved == \A c \in mine : process[c] \in {"alive", "exited"} => c \in reserved

\* Whatever may still be started has left no trace.
Startable(c) ==
  \/ attempt[c] \in {"none", "prepared"}
  \/ Up /\ attempt[c] = "dispatched" /\ c \notin mine
NotStarted ==
  \A c \in Commands : Startable(c) =>
    process[c] = "none" /\ saved[c] = NoRecord /\ ~Owned(c) /\ c \notin mine

\* What the supervisor has in memory is a process it started, and its end is known
\* only when the process is gone.
OwnedOK ==
  \A c \in Commands :
    /\ Owned(c) => Up /\ c \in mine /\ c \in reserved /\ c \notin Foreground
    /\ c \in mine => process[c] # "none"
    /\ mem[c].phase = "ended" => mem[c].state \in {"unknown"} \cup Known
    /\ mem[c].phase = "ended" /\ mem[c].state \in Known => process[c] = "gone"
    /\ mem[c].phase = "kept" => mem[c].state = "unknown"
    /\ Owned(c) /\ saved[c].state = "unknown" => mem[c].phase = "kept"

\* A started command without a record has an Attempt that recovery finds.
Traceable ==
  \A c \in Commands \ Foreground :
    process[c] # "none" /\ saved[c] = NoRecord => attempt[c] \in {"dispatched", "unknown"}

\* What a preview showed is not written any more, except by a review; and a command is
\* dispatched after the review only.
ShownStays ==
  \A c \in Commands :
    /\ \A u \in shown[c] : ~Owned(u) /\ saved[u].state = "unknown"
    /\ attempt[c] = "dispatched" \/ process[c] # "none" => \A u \in shown[c] : saved[u].reviewed

CommandsInv ==
  /\ RecordsOK /\ GroupOK /\ LiveReserved /\ NotStarted /\ OwnedOK /\ Traceable /\ ShownStays
  /\ KnownMeansGone /\ NothingLost

-----------------------------------------------------------------------------
\* A reservation less keeps the group.
LEMMA GroupShrinks == ASSUME GroupOK, NEW R, R \subseteq reserved, reserved' = R PROVE GroupOK'
<1>1. IsFiniteSet(R)
  BY FS_Subset DEF GroupOK
<1>2. ASSUME NEW mode \in {"command", "service"}
      PROVE  Cardinality({c \in R : Mode(c) = mode}) <= Quota(mode)
  <2> DEFINE A == {c \in R : Mode(c) = mode}
             B == {c \in reserved : Mode(c) = mode}
  <2>1. A \subseteq B /\ B \subseteq reserved
    OBVIOUS
  <2>2. IsFiniteSet(B)
    BY <2>1, FS_Subset DEF GroupOK
  <2>3. Cardinality(A) <= Cardinality(B) /\ Cardinality(A) \in Nat /\ Cardinality(B) \in Nat
    BY <2>1, <2>2, FS_Subset, FS_CardinalityType
  <2>4. Cardinality(B) <= Quota(mode) /\ Quota(mode) \in Nat
    BY DEF GroupOK, Quota
  <2> HIDE DEF A, B
  <2>5. Cardinality(A) <= Quota(mode)
    BY <2>3, <2>4
  <2>6. QED
    BY <2>5 DEF A
<1>3. \A c, d \in R : SameProfile(c, d)
  BY DEF GroupOK
<1>4. QED
  BY <1>1, <1>2, <1>3 DEF GroupOK, Mode, Quota, SameProfile

\* What reserve admits keeps the group.
LEMMA GroupGrows ==
  ASSUME GroupOK, NEW c, c \notin reserved, reserved' = reserved \cup {c},
         \A d \in reserved : SameProfile(c, d),
         Cardinality({d \in reserved : Mode(d) = Mode(c)}) < Quota(Mode(c))
  PROVE  GroupOK'
<1>1. IsFiniteSet(reserved \cup {c})
  BY FS_AddElement DEF GroupOK
<1>2. ASSUME NEW mode \in {"command", "service"}
      PROVE  Cardinality({d \in reserved \cup {c} : Mode(d) = mode}) <= Quota(mode)
  <2> DEFINE B == {d \in reserved : Mode(d) = mode}
  <2>1. IsFiniteSet(B) /\ Cardinality(B) \in Nat /\ Cardinality(B) <= Quota(mode) /\ Quota(mode) \in Nat
    <3>1. B \subseteq reserved
      OBVIOUS
    <3>2. IsFiniteSet(B)
      BY <3>1, FS_Subset DEF GroupOK
    <3>3. QED
      BY <3>2, FS_CardinalityType DEF GroupOK, Quota
  <2>2. CASE Mode(c) # mode
    <3>1. {d \in reserved \cup {c} : Mode(d) = mode} = B
      BY <2>2
    <3>2. QED
      BY <2>1, <3>1
  <2>3. CASE Mode(c) = mode
    <3>1. {d \in reserved \cup {c} : Mode(d) = mode} = B \cup {c} /\ c \notin B
      BY <2>3
    <3>2. Cardinality(B) < Quota(mode)
      BY <2>3
    <3> HIDE DEF B
    <3>3. Cardinality(B \cup {c}) = Cardinality(B) + 1
      BY <2>1, <3>1, FS_AddElement
    <3>4. QED
      BY <2>1, <3>1, <3>2, <3>3
  <2>4. QED
    BY <2>2, <2>3
<1>3. \A a, b \in reserved \cup {c} : SameProfile(a, b)
  BY DEF GroupOK, SameProfile
<1>4. QED
  BY <1>1, <1>2, <1>3 DEF GroupOK, Mode, Quota, SameProfile

LEMMA NoMemType ==
  ASSUME CommandsAssumption
  PROVE  /\ NoMem \in MemRecord /\ NoMem.phase = "none" /\ NoMem.state = "running"
         /\ NoRecord \in SavedRecord /\ NoRecord.state = "absent"
BY DEF NoMem, NoRecord, MemRecord, SavedRecord, Phases, CommandsAssumption

\* The fields of the type invariant.
LEMMA RecordsAreTyped ==
  ASSUME mem \in [Commands -> MemRecord], saved \in [Commands -> SavedRecord],
         owner \in {"up", "closing", "down"}, crashes \in 0..MaxCrashes,
         attempt \in [Commands -> {"none", "prepared", "dispatched", "finished", "unknown"}],
         shown \in [Commands -> SUBSET Commands], reserved \subseteq Commands, mine \subseteq Commands,
         process \in [Commands -> {"none", "alive", "exited", "gone"}]
  PROVE  RecordsOK
<1>1. ASSUME NEW c \in Commands
      PROVE  /\ mem[c].phase \in Phases
             /\ mem[c].state \in {"running", "stopping", "unknown"} \cup Known
             /\ mem[c].expires \in 0..MaxAge /\ mem[c].age \in 0..MaxAge
             /\ saved[c].state \in {"absent", "running", "unknown"} \cup Known
  BY DEF MemRecord, SavedRecord
<1>2. QED
  BY <1>1 DEF RecordsOK, CommandsTypeOK, Phases

\* The supervisor's memory of one command changes, perhaps with its record of a
\* running command, the Attempt of a start that was not saved, or its process.
LEMMA MemStep ==
  ASSUME CommandsAssumption, CommandsInv, NEW c \in Commands, Owned(c), NEW m \in MemRecord,
         m.phase # "none", mem' = [mem EXCEPT ![c] = m],
         mem[c].phase = "kept" => m.phase = "kept",
         m.phase = "kept" => m.state = "unknown",
         NEW left \in {process[c], "gone"}, process' = [process EXCEPT ![c] = left],
         m.phase = "ended" => m.state \in {"unknown"} \cup Known,
         m.phase = "ended" /\ m.state \in Known => left = "gone",
         \/ saved' = saved
         \/ /\ mem[c].phase # "kept"
            /\ \E e \in 0..MaxAge :
                 saved' = [saved EXCEPT ![c] = [state |-> "running", expires |-> e, reviewed |-> FALSE]],
         attempt' \in {attempt, [attempt EXCEPT ![c] = "unknown"]},
         UNCHANGED <<owner, crashes, shown, reserved, mine>>
  PROVE  CommandsInv'
<1>1. /\ mem \in [Commands -> MemRecord] /\ saved \in [Commands -> SavedRecord]
      /\ attempt \in [Commands -> {"none", "prepared", "dispatched", "finished", "unknown"}]
      /\ process \in [Commands -> {"none", "alive", "exited", "gone"}]
  BY DEF CommandsInv, RecordsOK, CommandsTypeOK
<1>2. mem' \in [Commands -> MemRecord] /\ \A d \in Commands : mem'[d] = IF d = c THEN m ELSE mem[d]
  BY <1>1
<1>3. /\ process' \in [Commands -> {"none", "alive", "exited", "gone"}]
      /\ \A d \in Commands : process'[d] = process[d] \/ (d = c /\ process'[d] = "gone")
      /\ process'[c] = left
  BY <1>1
<1>4. /\ attempt' \in [Commands -> {"none", "prepared", "dispatched", "finished", "unknown"}]
      /\ \A d \in Commands : attempt'[d] = attempt[d] \/ (d = c /\ attempt'[d] = "unknown")
  BY <1>1
<1>5. /\ saved' \in [Commands -> SavedRecord]
      /\ \A d \in Commands : \/ saved'[d] = saved[d]
                             \/ d = c /\ saved'[d].state = "running" /\ mem[c].phase # "kept"
  <2>1. ASSUME NEW e \in 0..MaxAge,
               saved' = [saved EXCEPT ![c] = [state |-> "running", expires |-> e, reviewed |-> FALSE]],
               mem[c].phase # "kept"
        PROVE  /\ saved' \in [Commands -> SavedRecord]
               /\ \A d \in Commands : \/ saved'[d] = saved[d]
                                      \/ d = c /\ saved'[d].state = "running" /\ mem[c].phase # "kept"
    <3> DEFINE n == [state |-> "running", expires |-> e, reviewed |-> FALSE]
    <3>1. n \in SavedRecord /\ n.state = "running"
      BY DEF SavedRecord
    <3>2. saved' = [saved EXCEPT ![c] = n] /\ mem[c].phase # "kept"
      BY <2>1
    <3> HIDE DEF n
    <3>3. saved' \in [Commands -> SavedRecord] /\ \A d \in Commands : saved'[d] = IF d = c THEN n ELSE saved[d]
      BY <1>1, <3>1, <3>2
    <3>4. QED
      BY <3>1, <3>2, <3>3
  <2>2. CASE saved' = saved
    BY <1>1, <2>2
  <2>3. QED
    BY <2>1, <2>2
<1>6. /\ \A d \in Commands : (Owned(d))' <=> Owned(d)
      /\ Up' <=> Up
  BY <1>2 DEF Owned, Up
<1>7. RecordsOK'
  <2>1. /\ owner \in {"up", "closing", "down"} /\ crashes \in 0..MaxCrashes
        /\ shown \in [Commands -> SUBSET Commands] /\ reserved \subseteq Commands /\ mine \subseteq Commands
    BY DEF CommandsInv, RecordsOK, CommandsTypeOK
  <2>2. \A d \in Commands : /\ mem'[d].phase \in Phases
             /\ mem'[d].state \in {"running", "stopping", "unknown"} \cup Known
             /\ mem'[d].expires \in 0..MaxAge /\ mem'[d].age \in 0..MaxAge
             /\ saved'[d].state \in {"absent", "running", "unknown"} \cup Known
    BY <1>2, <1>5 DEF MemRecord, SavedRecord
  <2>3. QED
    BY <1>2, <1>3, <1>4, <1>5, <2>1, <2>2 DEF RecordsOK, CommandsTypeOK, Phases
<1>8. GroupOK'
  BY GroupShrinks DEF CommandsInv
<1>9. LiveReserved'
  BY <1>3 DEF CommandsInv, LiveReserved, OwnedOK, RecordsOK, CommandsTypeOK
<1>10. NotStarted'
  <2>1. ASSUME NEW d \in Commands, Startable(d)' PROVE d # c /\ Startable(d)
    <3>1. Startable(d)
      BY <1>4, <1>6, <2>1 DEF Startable
    <3>2. QED
      BY <3>1 DEF CommandsInv, NotStarted
  <2>2. QED
    BY <1>3, <1>5, <1>6, <2>1 DEF CommandsInv, NotStarted
<1>11. OwnedOK'
  <2>1. ASSUME NEW d \in Commands
        PROVE  /\ (Owned(d))' => Up' /\ d \in mine' /\ d \in reserved' /\ d \notin Foreground
               /\ d \in mine' => process'[d] # "none"
    BY <1>3, <1>6 DEF CommandsInv, OwnedOK
  <2>2. ASSUME NEW d \in Commands
        PROVE  /\ mem'[d].phase = "ended" => mem'[d].state \in {"unknown"} \cup Known
               /\ mem'[d].phase = "ended" /\ mem'[d].state \in Known => process'[d] = "gone"
               /\ mem'[d].phase = "kept" => mem'[d].state = "unknown"
    BY <1>2, <1>3 DEF CommandsInv, OwnedOK
  <2>3. ASSUME NEW d \in Commands, (Owned(d))', saved'[d].state = "unknown" PROVE mem'[d].phase = "kept"
    BY <1>2, <1>5, <1>6, <2>3 DEF CommandsInv, OwnedOK
  <2>4. QED
    BY <2>1, <2>2, <2>3 DEF OwnedOK
<1>12. Traceable'
  <2>1. ASSUME NEW d \in Commands \ Foreground, process'[d] # "none", saved'[d] = NoRecord
        PROVE  attempt'[d] \in {"dispatched", "unknown"}
    <3>1. saved[d] = NoRecord
      BY <1>5, <2>1, NoMemType
    <3>2. process[d] # "none"
      BY <1>3, <2>1 DEF CommandsInv, OwnedOK
    <3>3. QED
      BY <1>4, <3>1, <3>2 DEF CommandsInv, Traceable
  <2>2. QED
    BY <2>1 DEF Traceable
<1>13. ShownStays'
  <2>1. ASSUME NEW d \in Commands, NEW u \in shown[d]
        PROVE  u \in Commands /\ ~(Owned(u))' /\ u # c /\ saved'[u] = saved[u] /\ saved[u].state = "unknown"
    BY <1>5, <1>6 DEF CommandsInv, ShownStays, RecordsOK, CommandsTypeOK
  <2>2. ASSUME NEW d \in Commands, attempt'[d] = "dispatched" \/ process'[d] # "none"
        PROVE  attempt[d] = "dispatched" \/ process[d] # "none"
    BY <1>3, <1>4, <2>2 DEF CommandsInv, OwnedOK
  <2>3. QED
    BY <2>1, <2>2 DEF CommandsInv, ShownStays
<1>14. KnownMeansGone' /\ NothingLost'
  <2>1. KnownMeansGone'
    BY <1>3, <1>5 DEF CommandsInv, KnownMeansGone, Known
  <2>2. ASSUME Up', NEW d \in Commands \ Foreground, process'[d] # "none", ~(Owned(d))'
        PROVE  saved'[d] # NoRecord
    BY <1>3, <1>5, <1>6, <2>2, NoMemType DEF CommandsInv, NothingLost
  <2>3. QED
    BY <2>1, <2>2 DEF NothingLost
<1>15. QED
  BY <1>7, <1>8, <1>9, <1>10, <1>11, <1>12, <1>13, <1>14 DEF CommandsInv
\* Memories change together, the Owner may start to close.
LEMMA MemsStep ==
  ASSUME CommandsAssumption, CommandsInv, mem' \in [Commands -> MemRecord],
         \A c \in Commands : /\ mem'[c].phase = mem[c].phase
                             /\ mem[c].phase \in {"ended", "kept"} => mem'[c].state = mem[c].state,
         owner' \in {"up", "closing"}, Up,
         UNCHANGED <<crashes, attempt, shown, reserved, process, mine, saved>>
  PROVE  CommandsInv'
<1>1. /\ \A d \in Commands : (Owned(d))' <=> Owned(d)
      /\ Up' /\ \A d \in Commands : Startable(d)' <=> Startable(d)
  BY DEF Owned, Up, Startable
<1>2. RecordsOK'
  <2>1. \A d \in Commands : /\ mem'[d].phase \in Phases
             /\ mem'[d].state \in {"running", "stopping", "unknown"} \cup Known
             /\ mem'[d].expires \in 0..MaxAge /\ mem'[d].age \in 0..MaxAge
    BY DEF MemRecord
  <2>2. QED
    BY <2>1 DEF CommandsInv, RecordsOK, CommandsTypeOK, Phases
<1>3. GroupOK'
  BY GroupShrinks DEF CommandsInv
<1>4. LiveReserved' /\ NotStarted' /\ Traceable' /\ KnownMeansGone'
  BY <1>1 DEF CommandsInv, LiveReserved, NotStarted, Traceable, KnownMeansGone
<1>5. OwnedOK'
  BY <1>1 DEF CommandsInv, OwnedOK
<1>6. ShownStays'
  BY <1>1 DEF CommandsInv, ShownStays, RecordsOK, CommandsTypeOK
<1>7. NothingLost'
  BY <1>1 DEF CommandsInv, NothingLost
<1>8. QED
  BY <1>2, <1>3, <1>4, <1>5, <1>6, <1>7 DEF CommandsInv

\* stop changes nothing of a command that is over.
LEMMA StoppedType ==
  ASSUME NEW m \in MemRecord, NEW reason \in {"stop", "deadline"}
  PROVE  /\ Stopped(m, reason) \in MemRecord /\ Stopped(m, reason).phase = m.phase
         /\ m.state \in {"unknown"} \cup Known => Stopped(m, reason) = m
BY DEF Stopped, terminal, MemRecord

\* The end of a wait, of which only the phase, the state and the reasons matter.
LEMMA ReturnStep ==
  ASSUME CommandsAssumption, CommandsInv, NEW c \in Commands, NEW m \in MemRecord,
         NEW why \in {"stop", "deadline", "process_exit"}, Returned(c, m, why)
  PROVE  CommandsInv'
<1> DEFINE n == [m EXCEPT !.phase = "returned", !.why = why, !.age = 0, !.ready = "no", !.cancelled = FALSE]
<1>1. n \in MemRecord /\ n.phase = "returned"
  <2>1. 0 \in 0..MaxAge
    BY DEF CommandsAssumption
  <2>2. QED
    BY <2>1 DEF MemRecord, Phases
<1>2. mem' = [mem EXCEPT ![c] = n] /\ mem[c].phase = "watch"
      /\ UNCHANGED <<owner, crashes, attempt, shown, reserved, process, mine, saved>>
  BY DEF Returned
<1> HIDE DEF n
<1>3. process' = [process EXCEPT ![c] = process[c]]
  BY <1>2 DEF CommandsInv, RecordsOK, CommandsTypeOK
<1>4. Owned(c)
  BY <1>2 DEF Owned
<1>5. QED
  BY <1>1, <1>2, <1>3, <1>4, MemStep

LEMMA MarkedType ==
  ASSUME NEW m \in MemRecord PROVE Marked(m, "deadline") \in MemRecord
BY DEF Marked, MemRecord

LEMMA CommandsInitInv == ASSUME CommandsAssumption, CommandsInit PROVE CommandsInv
<1>1. RecordsOK
  <2>1. crashes \in 0..MaxCrashes
    BY DEF CommandsInit, CommandsAssumption
  <2>2. mem \in [Commands -> MemRecord] /\ saved \in [Commands -> SavedRecord]
    BY NoMemType DEF CommandsInit
  <2>3. QED
    BY <2>1, <2>2, RecordsAreTyped DEF CommandsInit
<1>2. GroupOK
  <2>1. IsFiniteSet(reserved) /\ Cardinality({}) = 0
    BY FS_EmptySet DEF CommandsInit
  <2>2. \A mode \in {"command", "service"} : {c \in reserved : Mode(c) = mode} = {}
    BY DEF CommandsInit
  <2>3. \A c, d \in reserved : SameProfile(c, d)
    BY DEF CommandsInit
  <2>4. QED
    BY <2>1, <2>2, <2>3 DEF GroupOK, Quota
<1>3. \A c \in Commands : mem[c].phase = "none" /\ process[c] = "none" /\ saved[c] = NoRecord
                          /\ saved[c].state = "absent"
  BY NoMemType DEF CommandsInit
<1>4. QED
  BY <1>1, <1>2, <1>3 DEF CommandsInit, CommandsInv, LiveReserved, NotStarted, OwnedOK, Traceable, ShownStays,
     KnownMeansGone, NothingLost, Owned, Known
\* A step of the supervisor that leaves the process alone.
LEMMA MemOnly ==
  ASSUME CommandsAssumption, CommandsInv, NEW c \in Commands, Owned(c), NEW m \in MemRecord,
         m.phase # "none", mem' = [mem EXCEPT ![c] = m],
         mem[c].phase = "kept" => m.phase = "kept",
         m.phase = "kept" => m.state = "unknown",
         m.phase = "ended" => m.state \in {"unknown"} \cup Known,
         m.phase = "ended" /\ m.state \in Known => process[c] = "gone",
         \/ saved' = saved
         \/ /\ mem[c].phase # "kept"
            /\ \E e \in 0..MaxAge :
                 saved' = [saved EXCEPT ![c] = [state |-> "running", expires |-> e, reviewed |-> FALSE]],
         attempt' \in {attempt, [attempt EXCEPT ![c] = "unknown"]},
         UNCHANGED <<owner, crashes, shown, reserved, process, mine>>
  PROVE  CommandsInv'
<1>1. process' = [process EXCEPT ![c] = process[c]]
  BY DEF CommandsInv, RecordsOK, CommandsTypeOK
<1>2. QED
  BY <1>1, MemStep

LEMMA CommandsNextInv ==
  ASSUME CommandsAssumption, CommandsInv, [CommandsNext]_commandVars PROVE CommandsInv'
<1>0. /\ mem \in [Commands -> MemRecord] /\ saved \in [Commands -> SavedRecord]
      /\ owner \in {"up", "closing", "down"} /\ crashes \in 0..MaxCrashes
      /\ attempt \in [Commands -> {"none", "prepared", "dispatched", "finished", "unknown"}]
      /\ shown \in [Commands -> SUBSET Commands] /\ reserved \subseteq Commands /\ mine \subseteq Commands
      /\ process \in [Commands -> {"none", "alive", "exited", "gone"}]
  BY DEF CommandsInv, RecordsOK, CommandsTypeOK
<1>1. ASSUME NEW c \in Commands, Prepare(c) PROVE CommandsInv'
  <2>1. attempt[c] = "none" /\ liveUncertain = {} /\ Up
        /\ UNCHANGED <<owner, crashes, reserved, mem, process, mine, saved>>
    BY <1>1 DEF Prepare
  <2>2. /\ attempt' \in [Commands -> {"none", "prepared", "dispatched", "finished", "unknown"}]
        /\ \A d \in Commands : attempt'[d] = IF d = c THEN "prepared" ELSE attempt[d]
    BY <1>0, <1>1 DEF Prepare
  <2>3. shown' \in [Commands -> SUBSET Commands] /\ \A d \in Commands : shown'[d] = IF d = c THEN Unreviewed ELSE shown[d]
    BY <1>0, <1>1 DEF Prepare, Unreviewed
  <2>4. \A u \in Unreviewed : u \in Commands /\ saved[u].state = "unknown" /\ ~Owned(u)
    BY <2>1 DEF Unreviewed, liveUncertain, CommandsInv, OwnedOK
  <2>5. \A d \in Commands : ((Owned(d))' <=> Owned(d)) /\ (Startable(d)' <=> Startable(d))
    BY <2>1, <2>2 DEF Owned, Up, Startable
  <2>6. RecordsOK' /\ GroupOK'
    BY <1>0, <2>1, <2>2, <2>3, GroupShrinks DEF CommandsInv, RecordsOK, CommandsTypeOK
  <2>7. process[c] = "none"
    BY <2>1 DEF CommandsInv, NotStarted, Startable
  <2>8. ShownStays'
    BY <1>0, <2>1, <2>2, <2>3, <2>4, <2>5, <2>7 DEF CommandsInv, ShownStays
  <2>9. NotStarted' /\ LiveReserved' /\ OwnedOK' /\ KnownMeansGone' /\ NothingLost'
    BY <2>1, <2>5 DEF CommandsInv, NotStarted, LiveReserved, OwnedOK, KnownMeansGone, NothingLost, Up
  <2>10. Traceable'
    BY <2>1, <2>2, <2>7 DEF CommandsInv, Traceable
  <2>11. QED
    BY <2>6, <2>8, <2>9, <2>10 DEF CommandsInv
<1>2. ASSUME NEW c \in Commands, Review(c) PROVE CommandsInv'
  <2>1. Up /\ attempt[c] = "prepared" /\ UNCHANGED <<owner, crashes, shown, reserved, mem, process, mine>>
    BY <1>2 DEF Review
  <2>2. process[c] = "none" /\ saved[c] = NoRecord /\ ~Owned(c) /\ c \notin mine
    BY <2>1 DEF CommandsInv, NotStarted, Startable
  <2>3. \A d \in Commands : (Owned(d))' <=> Owned(d)
    BY <2>1 DEF Owned
  <2>4. CASE attempt' = [attempt EXCEPT ![c] = "finished"] /\ saved' = saved
    <3>1. /\ attempt' \in [Commands -> {"none", "prepared", "dispatched", "finished", "unknown"}]
          /\ \A d \in Commands : attempt'[d] = IF d = c THEN "finished" ELSE attempt[d]
      BY <1>0, <2>4
    <3>2. \A d \in Commands : Startable(d)' => Startable(d)
      BY <2>1, <3>1 DEF Startable, Up
    <3>3. RecordsOK' /\ GroupOK'
      BY <1>0, <2>1, <2>4, <3>1, GroupShrinks DEF CommandsInv, RecordsOK, CommandsTypeOK
    <3>4. NotStarted' /\ LiveReserved' /\ OwnedOK' /\ KnownMeansGone' /\ NothingLost'
      BY <2>1, <2>3, <2>4, <3>2 DEF CommandsInv, NotStarted, LiveReserved, OwnedOK, KnownMeansGone, NothingLost, Up
    <3>5. Traceable' /\ ShownStays'
      BY <1>0, <2>1, <2>2, <2>3, <2>4, <3>1 DEF CommandsInv, Traceable, ShownStays
    <3>6. QED
      BY <3>3, <3>4, <3>5 DEF CommandsInv
  <2>5. CASE /\ \A u \in shown[c] : saved[u].state = "unknown" /\ ~saved[u].reviewed
             /\ attempt' = [attempt EXCEPT ![c] = "dispatched"]
             /\ saved' = [u \in Commands |-> IF u \in shown[c] THEN [saved[u] EXCEPT !.reviewed = TRUE] ELSE saved[u]]
    <3>1. /\ attempt' \in [Commands -> {"none", "prepared", "dispatched", "finished", "unknown"}]
          /\ \A d \in Commands : attempt'[d] = IF d = c THEN "dispatched" ELSE attempt[d]
      BY <1>0, <2>5
    <3>2. ASSUME NEW u \in Commands
          PROVE  LET n == [saved[u] EXCEPT !.reviewed = TRUE]
                 IN n \in SavedRecord /\ n.state = saved[u].state /\ n.reviewed
      BY <1>0 DEF SavedRecord
    <3>3. /\ saved' \in [Commands -> SavedRecord]
          /\ \A u \in Commands : IF u \in shown[c] THEN saved'[u].state = saved[u].state /\ saved'[u].reviewed
                                                   ELSE saved'[u] = saved[u]
      BY <1>0, <2>5, <3>2
    <3>4. \A u \in shown[c] : u \in Commands /\ saved[u].state = "unknown" /\ saved[u] # NoRecord /\ saved'[u] # NoRecord
      BY <1>0, <2>5, <3>3, NoMemType
    <3>5. \A d \in Commands : Startable(d)' => Startable(d)
      BY <2>1, <3>1 DEF Startable, Up
    <3>6. RecordsOK'
      <4>1. \A d \in Commands : saved'[d].state \in {"absent", "running", "unknown"} \cup Known
        BY <3>3 DEF SavedRecord
      <4>2. QED
        BY <2>1, <3>1, <3>3, <4>1 DEF CommandsInv, RecordsOK, CommandsTypeOK
    <3>7. GroupOK' /\ LiveReserved'
      BY <2>1, GroupShrinks DEF CommandsInv, LiveReserved
    <3>8. NotStarted'
      BY <2>1, <2>3, <3>3, <3>4, <3>5 DEF CommandsInv, NotStarted
    <3>9. OwnedOK' /\ KnownMeansGone'
      BY <2>1, <2>3, <3>3 DEF CommandsInv, OwnedOK, KnownMeansGone, Up
    <3>10. NothingLost'
      BY <2>1, <2>3, <3>3, <3>4 DEF CommandsInv, NothingLost, Up
    <3>11. Traceable'
      BY <2>1, <2>2, <3>1, <3>3, <3>4 DEF CommandsInv, Traceable
    <3>12. ShownStays'
      BY <1>0, <2>1, <2>3, <3>1, <3>3 DEF CommandsInv, ShownStays
    <3>13. QED
      BY <3>6, <3>7, <3>8, <3>9, <3>10, <3>11, <3>12 DEF CommandsInv
  <2>6. QED
    BY <1>2, <2>4, <2>5 DEF Review
<1>3. ASSUME NEW c \in Commands, Reserve(c) PROVE CommandsInv'
  <2>1. reserved' = reserved \cup {c} /\ c \notin reserved
        /\ UNCHANGED <<owner, crashes, attempt, shown, mem, process, mine, saved>>
    BY <1>3 DEF Reserve
  <2>2. GroupOK'
    BY <1>3, GroupGrows DEF Reserve, CommandsInv
  <2>3. QED
    BY <2>1, <2>2 DEF CommandsInv, RecordsOK, CommandsTypeOK, LiveReserved, NotStarted, Startable, OwnedOK, Traceable,
       ShownStays, KnownMeansGone, NothingLost, Owned, Up
<1>4. ASSUME NEW c \in Commands, Refuse(c) PROVE CommandsInv'
  <2>1. /\ Up /\ attempt[c] = "dispatched" /\ c \notin mine /\ reserved' = reserved \ {c}
        /\ UNCHANGED <<owner, crashes, shown, mem, process, mine, saved>>
    BY <1>4 DEF Refuse
  <2>2. /\ attempt' \in [Commands -> {"none", "prepared", "dispatched", "finished", "unknown"}]
        /\ \A d \in Commands : attempt'[d] = IF d = c THEN "finished" ELSE attempt[d]
    BY <1>0, <1>4 DEF Refuse
  <2>3. process[c] = "none" /\ ~Owned(c)
    BY <2>1 DEF CommandsInv, NotStarted, Startable
  <2>4. \A d \in Commands : ((Owned(d))' <=> Owned(d)) /\ (Startable(d)' => Startable(d))
    BY <2>1, <2>2 DEF Owned, Up, Startable
  <2>5. RecordsOK' /\ GroupOK'
    <3>1. reserved \ {c} \subseteq reserved
      OBVIOUS
    <3>2. GroupOK'
      BY <2>1, <3>1, GroupShrinks DEF CommandsInv
    <3>3. RecordsOK'
      BY <2>1, <2>2 DEF CommandsInv, RecordsOK, CommandsTypeOK
    <3>4. QED
      BY <3>2, <3>3
  <2>6. LiveReserved' /\ NotStarted' /\ OwnedOK'
    BY <2>1, <2>3, <2>4 DEF CommandsInv, LiveReserved, NotStarted, OwnedOK, Up
  <2>7. Traceable' /\ ShownStays'
    BY <1>0, <2>1, <2>2, <2>3, <2>4 DEF CommandsInv, Traceable, ShownStays
  <2>8. KnownMeansGone' /\ NothingLost'
    BY <2>1, <2>4 DEF CommandsInv, KnownMeansGone, NothingLost, Up
  <2>9. QED
    BY <2>5, <2>6, <2>7, <2>8 DEF CommandsInv
<1>5. ASSUME NEW c \in Commands, NEW m \in MemRecord, m.phase \in {"none", "new"},
             c \in Foreground <=> m.phase = "none", c \in reserved, c \notin mine, Up, attempt[c] = "dispatched",
             mem' = [mem EXCEPT ![c] = m], process' = [process EXCEPT ![c] = "alive"], mine' = mine \cup {c},
             UNCHANGED <<owner, crashes, attempt, shown, reserved, saved>>
      PROVE  CommandsInv'
  <2>1. process[c] = "none" /\ saved[c] = NoRecord /\ ~Owned(c)
    BY <1>5 DEF CommandsInv, NotStarted, Startable
  <2>2. mem' \in [Commands -> MemRecord] /\ \A d \in Commands : mem'[d] = IF d = c THEN m ELSE mem[d]
    BY <1>0, <1>5
  <2>3. /\ process' \in [Commands -> {"none", "alive", "exited", "gone"}]
        /\ \A d \in Commands : process'[d] = IF d = c THEN "alive" ELSE process[d]
    BY <1>0, <1>5
  <2>4. \A d \in Commands : (Owned(d))' <=> Owned(d) \/ (d = c /\ c \notin Foreground)
    BY <1>5, <2>1, <2>2 DEF Owned
  <2>5. \A d \in Commands : Startable(d)' => Startable(d) /\ d # c
    BY <1>5 DEF Startable, Up
  <2>6. RecordsOK'
    <3>1. \A d \in Commands : /\ mem'[d].phase \in Phases
             /\ mem'[d].state \in {"running", "stopping", "unknown"} \cup Known
             /\ mem'[d].expires \in 0..MaxAge /\ mem'[d].age \in 0..MaxAge
      BY <2>2 DEF MemRecord
    <3>2. QED
      BY <1>5, <2>2, <2>3, <3>1 DEF CommandsInv, RecordsOK, CommandsTypeOK, Phases
  <2>7. GroupOK' /\ LiveReserved'
    BY <1>0, <1>5, <2>3, GroupShrinks DEF CommandsInv, LiveReserved
  <2>8. NotStarted'
    BY <1>5, <2>3, <2>4, <2>5 DEF CommandsInv, NotStarted
  <2>9. OwnedOK'
    <3>1. saved[c].state # "unknown"
      BY <2>1, NoMemType
    <3>2. \A d \in Commands : d # c => mem'[d] = mem[d] /\ process'[d] = process[d]
      BY <2>2, <2>3
    <3>3. mem'[c].phase \in {"none", "new"} /\ process'[c] = "alive"
      BY <1>5, <2>2, <2>3
    <3>4. QED
      BY <1>5, <2>4, <3>1, <3>2, <3>3 DEF CommandsInv, OwnedOK, Up
  <2>10. Traceable' /\ KnownMeansGone' /\ NothingLost'
    <3>1. saved[c].state \notin Known
      BY <2>1, NoMemType DEF Known
    <3>2. QED
      BY <1>5, <2>1, <2>3, <2>4, <3>1 DEF CommandsInv, Traceable, KnownMeansGone, NothingLost, Up
  <2>11. ShownStays'
    <3>1. saved[c].state # "unknown"
      BY <2>1, NoMemType
    <3>2. ASSUME NEW d \in Commands, NEW u \in shown[d] PROVE u # c /\ u \in Commands /\ ~(Owned(u))'
      BY <1>0, <2>4, <3>1 DEF CommandsInv, ShownStays
    <3>3. QED
      BY <1>5, <2>3, <3>2 DEF CommandsInv, ShownStays
  <2>12. QED
    BY <2>6, <2>7, <2>8, <2>9, <2>10, <2>11 DEF CommandsInv
<1>6. ASSUME NEW c \in Commands, Launch(c) PROVE CommandsInv'
  <2> DEFINE m == [NoMem EXCEPT !.phase = "new", !.expires = Duration]
  <2>1. m \in MemRecord /\ m.phase = "new"
    <3>1. Duration \in 0..MaxAge /\ NoMem \in MemRecord
      BY NoMemType DEF CommandsAssumption
    <3>2. QED
      BY <3>1 DEF MemRecord, Phases
  <2>2. mem' = [mem EXCEPT ![c] = m] /\ c \notin Foreground
    BY <1>6 DEF Launch
  <2> HIDE DEF m
  <2>3. QED
    BY <1>5, <1>6, <2>1, <2>2 DEF Launch
<1>7. ASSUME NEW c \in Commands, Execute(c) PROVE CommandsInv'
  <2>1. mem[c].phase = "none"
    BY <1>7 DEF Execute, CommandsInv, NotStarted, Startable, Owned
  <2>2. mem' = [mem EXCEPT ![c] = mem[c]] /\ mem[c] \in MemRecord
    BY <1>0, <1>7 DEF Execute
  <2>3. QED
    BY <1>5, <1>7, <2>1, <2>2 DEF Execute
<1>8. ASSUME NEW c \in Commands, SaveStart(c) PROVE CommandsInv'
  <2> DEFINE m == [mem[c] EXCEPT !.phase = "watch"]
  <2>1. m \in MemRecord /\ m.phase = "watch"
    <3>1. mem[c] \in MemRecord
      BY <1>0
    <3>2. QED
      BY <3>1 DEF MemRecord, Phases
  <2>2. mem' = [mem EXCEPT ![c] = m] /\ mem[c].phase = "new"
        /\ UNCHANGED <<owner, crashes, attempt, shown, reserved, process, mine>>
    BY <1>8 DEF SaveStart
  <2>3. \E e \in 0..MaxAge : saved' = [saved EXCEPT ![c] = [state |-> "running", expires |-> e, reviewed |-> FALSE]]
    BY <1>8 DEF SaveStart, Running, CommandsAssumption
  <2> HIDE DEF m
  <2>4. Owned(c)
    BY <2>2 DEF Owned
  <2>5. QED
    BY <2>1, <2>2, <2>3, <2>4, MemOnly
<1>9. ASSUME NEW c \in Commands, SaveStartFails(c) PROVE CommandsInv'
  <2> DEFINE m == [mem[c] EXCEPT !.phase = "watch", !.reason = "startup_persistence_failed", !.cancelled = TRUE]
  <2>1. m \in MemRecord /\ m.phase = "watch"
    <3>1. mem[c] \in MemRecord
      BY <1>0
    <3>2. QED
      BY <3>1 DEF MemRecord, Phases
  <2>2. mem' = [mem EXCEPT ![c] = m] /\ mem[c].phase = "new" /\ attempt' = [attempt EXCEPT ![c] = "unknown"]
        /\ UNCHANGED <<owner, crashes, shown, reserved, process, mine, saved>>
    BY <1>9 DEF SaveStartFails
  <2> HIDE DEF m
  <2>3. Owned(c)
    BY <2>2 DEF Owned
  <2>4. QED
    BY <2>1, <2>2, <2>3, MemOnly
<1>10. ASSUME NEW c \in Commands, FinishAttempt(c) PROVE CommandsInv'
  <2>1. /\ Up /\ attempt[c] = "dispatched" /\ saved[c] # NoRecord
        /\ UNCHANGED <<owner, crashes, shown, reserved, mem, process, mine, saved>>
    BY <1>10 DEF FinishAttempt
  <2>2. /\ attempt' \in [Commands -> {"none", "prepared", "dispatched", "finished", "unknown"}]
        /\ \A d \in Commands : attempt'[d] = IF d = c THEN "finished" ELSE attempt[d]
    BY <1>0, <1>10 DEF FinishAttempt
  <2>3. \A d \in Commands : ((Owned(d))' <=> Owned(d)) /\ (Startable(d)' => Startable(d))
    BY <2>1, <2>2 DEF Owned, Up, Startable
  <2>4. RecordsOK' /\ GroupOK'
    BY <1>0, <2>1, <2>2, GroupShrinks DEF CommandsInv, RecordsOK, CommandsTypeOK
  <2>5. LiveReserved' /\ NotStarted' /\ OwnedOK' /\ KnownMeansGone' /\ NothingLost'
    BY <2>1, <2>3 DEF CommandsInv, LiveReserved, NotStarted, OwnedOK, KnownMeansGone, NothingLost, Up
  <2>6. Traceable' /\ ShownStays'
    BY <1>0, <2>1, <2>2, <2>3 DEF CommandsInv, Traceable, ShownStays
  <2>7. QED
    BY <2>4, <2>5, <2>6 DEF CommandsInv
<1>11. ASSUME NEW c \in Commands, Exit(c) PROVE CommandsInv'
  <2>1. process[c] = "alive" /\ UNCHANGED <<owner, crashes, attempt, shown, reserved, mem, mine, saved>>
    BY <1>11 DEF Exit
  <2>2. /\ process' \in [Commands -> {"none", "alive", "exited", "gone"}]
        /\ \A d \in Commands : process'[d] = IF d = c THEN "exited" ELSE process[d]
    BY <1>0, <1>11 DEF Exit
  <2>3. \A d \in Commands : ((Owned(d))' <=> Owned(d)) /\ (Startable(d)' <=> Startable(d))
    BY <2>1 DEF Owned, Up, Startable
  <2>4. RecordsOK' /\ GroupOK'
    BY <1>0, <2>1, <2>2, GroupShrinks DEF CommandsInv, RecordsOK, CommandsTypeOK
  <2>5. LiveReserved' /\ NotStarted' /\ KnownMeansGone' /\ NothingLost'
    BY <1>0, <2>1, <2>2, <2>3 DEF CommandsInv, LiveReserved, NotStarted, KnownMeansGone, NothingLost, Up
  <2>6. OwnedOK'
    BY <2>1, <2>2, <2>3 DEF CommandsInv, OwnedOK, Up
  <2>7. Traceable' /\ ShownStays'
    BY <1>0, <2>1, <2>2, <2>3 DEF CommandsInv, Traceable, ShownStays
  <2>8. QED
    BY <2>4, <2>5, <2>6, <2>7 DEF CommandsInv
<1>12. ASSUME NEW c \in Commands, PrintReady(c) PROVE CommandsInv'
  <2> DEFINE m == [mem[c] EXCEPT !.ready = "printed"]
  <2>1. m \in MemRecord /\ m.phase = mem[c].phase /\ m.state = mem[c].state
    <3>1. mem[c] \in MemRecord
      BY <1>0
    <3>2. QED
      BY <3>1 DEF MemRecord
  <2>2. mem' = [mem EXCEPT ![c] = m] /\ mem[c].phase \in {"new", "watch"}
        /\ UNCHANGED <<owner, crashes, attempt, shown, reserved, process, mine, saved>>
    BY <1>12 DEF PrintReady
  <2> HIDE DEF m
  <2>3. Owned(c)
    BY <2>2 DEF Owned
  <2>4. QED
    BY <2>1, <2>2, <2>3, MemOnly
<1>13. ASSUME NEW c \in Commands, Stop(c) PROVE CommandsInv'
  <2> DEFINE m == Stopped(mem[c], "stop")
  <2>1. m \in MemRecord /\ m.phase = mem[c].phase
    BY <1>0, StoppedType
  <2>2. mem' = [mem EXCEPT ![c] = m] /\ Owned(c) /\ ~terminal(mem[c].state)
        /\ UNCHANGED <<owner, crashes, attempt, shown, reserved, process, mine, saved>>
    BY <1>13 DEF Stop
  <2> HIDE DEF m
  <2>3. mem[c].phase \notin {"ended", "kept"}
    BY <2>2 DEF CommandsInv, OwnedOK, terminal
  <2>4. QED
    BY <2>1, <2>2, <2>3, MemOnly DEF Owned
<1>14. ASSUME NEW c \in Commands, NEW target \in 1..MaxTotal, Extend(c, target) PROVE CommandsInv'
  <2> DEFINE m == [mem[c] EXCEPT !.expires = target]
  <2>1. target \in 0..MaxAge
    BY <1>14 DEF CommandsAssumption
  <2>2. m \in MemRecord /\ m.phase = mem[c].phase /\ m.state = mem[c].state
    <3>1. mem[c] \in MemRecord
      BY <1>0
    <3>2. QED
      BY <3>1, <2>1 DEF MemRecord
  <2>3. mem' = [mem EXCEPT ![c] = m] /\ Owned(c) /\ mem[c].state = "running"
        /\ UNCHANGED <<owner, crashes, attempt, shown, reserved, process, mine>>
    BY <1>14 DEF Extend
  <2>4. \E e \in 0..MaxAge : saved' = [saved EXCEPT ![c] = [state |-> "running", expires |-> e, reviewed |-> FALSE]]
    BY <1>14, <2>1 DEF Extend
  <2> HIDE DEF m
  <2>5. mem[c].phase \notin {"ended", "kept"}
    BY <2>3 DEF CommandsInv, OwnedOK, Known
  <2>6. QED
    BY <2>2, <2>3, <2>4, <2>5, MemOnly DEF Owned
<1>15. ASSUME NEW c \in Commands, WaitExited(c) \/ WaitCancelled(c) \/ WaitExpires(c) \/ WaitReadyTimeout(c)
       PROVE  CommandsInv'
  <2>1. mem[c] \in MemRecord /\ Marked(mem[c], "deadline") \in MemRecord
    BY <1>0, MarkedType
  <2>2. QED
    BY <1>15, <2>1, ReturnStep DEF WaitExited, WaitCancelled, WaitExpires, WaitReadyTimeout
<1>16. ASSUME NEW c \in Commands, WaitReady(c) PROVE CommandsInv'
  <2>1. ASSUME NEW m \in MemRecord, m.phase = mem[c].phase, mem' = [mem EXCEPT ![c] = m],
               saved' = saved \/ \E e \in 0..MaxAge :
                 saved' = [saved EXCEPT ![c] = [state |-> "running", expires |-> e, reviewed |-> FALSE]]
        PROVE  CommandsInv'
    <3>1. mem[c].phase = "watch" /\ UNCHANGED <<owner, crashes, attempt, shown, reserved, process, mine>>
      BY <1>16 DEF WaitReady
    <3>2. Owned(c)
      BY <3>1 DEF Owned
    <3>3. QED
      BY <2>1, <3>1, <3>2, MemOnly
  <2>2. CASE mem' = [mem EXCEPT ![c] = [@ EXCEPT !.ready = "yes", !.cancelled = TRUE, !.reason = "save_failed"]]
             /\ UNCHANGED saved
    <3> DEFINE m == [mem[c] EXCEPT !.ready = "yes", !.cancelled = TRUE, !.reason = "save_failed"]
    <3>1. m \in MemRecord /\ m.phase = mem[c].phase
      <4>1. mem[c] \in MemRecord
        BY <1>0
      <4>2. QED
        BY <4>1 DEF MemRecord
    <3>2. mem' = [mem EXCEPT ![c] = m]
      BY <2>2
    <3> HIDE DEF m
    <3>3. QED
      BY <2>1, <2>2, <3>1, <3>2
  <2>3. CASE /\ mem' = [mem EXCEPT ![c] = [@ EXCEPT !.ready = "yes"]]
             /\ \/ saved' = saved
                \/ saved' = [saved EXCEPT ![c] = [state |-> "running", expires |-> mem[c].expires, reviewed |-> FALSE]]
    <3> DEFINE m == [mem[c] EXCEPT !.ready = "yes"]
    <3>1. m \in MemRecord /\ m.phase = mem[c].phase /\ mem[c].expires \in 0..MaxAge
      <4>1. mem[c] \in MemRecord
        BY <1>0
      <4>2. QED
        BY <4>1 DEF MemRecord
    <3>2. mem' = [mem EXCEPT ![c] = m]
      BY <2>3
    <3> HIDE DEF m
    <3>3. QED
      BY <2>1, <2>3, <3>1, <3>2
  <2>4. QED
    BY <1>16, <2>2, <2>3 DEF WaitReady
<1>17. ASSUME NEW c \in Commands, BeginEnd(c) PROVE CommandsInv'
  <2> DEFINE why == IF mem[c].reason # "" THEN mem[c].reason ELSE mem[c].why
             m == [mem[c] EXCEPT !.phase = "ending", !.state = "stopping", !.reason = why, !.why = why]
  <2>1. m \in MemRecord /\ m.phase = "ending"
    <3>1. mem[c] \in MemRecord
      BY <1>0
    <3>2. QED
      BY <3>1 DEF MemRecord, Phases
  <2>2. mem' = [mem EXCEPT ![c] = m] /\ mem[c].phase = "returned"
        /\ UNCHANGED <<owner, crashes, attempt, shown, reserved, process, mine, saved>>
    BY <1>17 DEF BeginEnd
  <2> HIDE DEF m
  <2>3. Owned(c)
    BY <2>2 DEF Owned
  <2>4. QED
    BY <2>1, <2>2, <2>3, MemOnly
<1>18. ASSUME NEW c \in Commands, Cleanup(c) PROVE CommandsInv'
  <2>1. PICK confirmed \in BOOLEAN, left \in {process[c], "gone"} :
          /\ confirmed => left = "gone"
          /\ process' = [process EXCEPT ![c] = left]
          /\ mem' = [mem EXCEPT ![c] =
               [@ EXCEPT !.phase = "ended",
                         !.state = IF confirmed THEN EndState(mem[c].why) ELSE "unknown",
                         !.why = ""]]
    BY <1>18 DEF Cleanup
  <2> DEFINE m == [mem[c] EXCEPT !.phase = "ended",
                                 !.state = IF confirmed THEN EndState(mem[c].why) ELSE "unknown",
                                 !.why = ""]
  <2>2. EndState(mem[c].why) \in Known
    BY DEF EndState, Known
  <2>3. m \in MemRecord /\ m.phase = "ended" /\ m.state \in {"unknown"} \cup Known
        /\ (m.state \in Known => confirmed)
    <3>1. mem[c] \in MemRecord
      BY <1>0
    <3>2. QED
      BY <3>1, <2>2 DEF MemRecord, Phases, Known
  <2>4. mem' = [mem EXCEPT ![c] = m]
    BY <2>1
  <2> HIDE DEF m
  <2>5. mem[c].phase = "ending" /\ Owned(c) /\ UNCHANGED <<owner, crashes, attempt, shown, reserved, mine, saved>>
    BY <1>18 DEF Cleanup, Owned
  <2>6. QED
    BY <2>1, <2>3, <2>4, <2>5, MemStep
<1>19. ASSUME NEW c \in Commands, SaveEndFails(c) PROVE CommandsInv'
  <2> DEFINE m == [mem[c] EXCEPT !.phase = "kept", !.state = "unknown", !.reason = "save_failed"]
  <2>1. m \in MemRecord /\ m.phase = "kept" /\ m.state = "unknown"
    <3>1. mem[c] \in MemRecord
      BY <1>0
    <3>2. QED
      BY <3>1 DEF MemRecord, Phases
  <2>2. mem' = [mem EXCEPT ![c] = m] /\ mem[c].phase = "ended"
        /\ UNCHANGED <<owner, crashes, attempt, shown, reserved, process, mine, saved>>
    BY <1>19 DEF SaveEndFails
  <2> HIDE DEF m
  <2>3. Owned(c)
    BY <2>2 DEF Owned
  <2>4. QED
    BY <2>1, <2>2, <2>3, MemOnly
<1>20. ASSUME NEW c \in Commands, SaveEnd(c) PROVE CommandsInv'
  <2> DEFINE n == [state |-> mem[c].state, expires |-> mem[c].expires, reviewed |-> FALSE]
  <2>1. /\ mem[c] \in MemRecord /\ mem[c].phase = "ended" /\ mem[c].state \in {"unknown"} \cup Known
        /\ mem[c].expires \in 0..MaxAge /\ Owned(c)
    BY <1>0, <1>20 DEF SaveEnd, CommandsInv, OwnedOK, MemRecord, Owned
  <2>2. n \in SavedRecord /\ n.state = mem[c].state /\ n # NoRecord
    <3>1. n \in SavedRecord /\ n.state = mem[c].state
      BY <2>1 DEF SavedRecord
    <3>2. n.state # "absent"
      BY <2>1, <3>1 DEF Known
    <3> HIDE DEF n
    <3>3. QED
      BY <3>1, <3>2, NoMemType
  <2>3. saved' = [saved EXCEPT ![c] = n] /\ UNCHANGED <<owner, crashes, attempt, shown, process, mine>>
    BY <1>20 DEF SaveEnd
  <2> HIDE DEF n
  <2>4. saved' \in [Commands -> SavedRecord] /\ \A d \in Commands : saved'[d] = IF d = c THEN n ELSE saved[d]
    BY <1>0, <2>2, <2>3
  <2>5. ASSUME NEW m \in MemRecord, mem' = [mem EXCEPT ![c] = m], reserved' \subseteq reserved,
               \/ m.phase = "kept" /\ m.state = "unknown" /\ mem[c].state = "unknown" /\ reserved' = reserved
               \/ m.phase = "none" /\ process[c] = "gone" /\ reserved' = reserved \ {c}
                  /\ mem[c].state # "unknown"
        PROVE  CommandsInv'
    <3>1. mem' \in [Commands -> MemRecord] /\ \A d \in Commands : mem'[d] = IF d = c THEN m ELSE mem[d]
      BY <1>0, <2>5
    <3>2. /\ \A d \in Commands : d # c => ((Owned(d))' <=> Owned(d))
          /\ \A d \in Commands : Startable(d)' <=> Startable(d)
          /\ Up' <=> Up
      BY <2>3, <3>1 DEF Owned, Startable, Up
    <3>3. RecordsOK'
      <4>1. \A d \in Commands : /\ mem'[d].phase \in Phases
             /\ mem'[d].state \in {"running", "stopping", "unknown"} \cup Known
             /\ mem'[d].expires \in 0..MaxAge /\ mem'[d].age \in 0..MaxAge
             /\ saved'[d].state \in {"absent", "running", "unknown"} \cup Known
        BY <2>4, <3>1 DEF MemRecord, SavedRecord
      <4>2. QED
        BY <1>0, <2>3, <2>4, <2>5, <3>1, <4>1 DEF RecordsOK, CommandsTypeOK, Phases
    <3>4. GroupOK'
      BY <2>5, GroupShrinks DEF CommandsInv
    <3>5. LiveReserved'
      BY <2>3, <2>5 DEF CommandsInv, LiveReserved
    <3>6. NotStarted'
      BY <2>1, <2>3, <2>4, <3>2 DEF CommandsInv, NotStarted
    <3>7. OwnedOK'
      <4>1. ASSUME NEW d \in Commands, d # c
            PROVE  /\ (Owned(d))' => Up' /\ d \in mine' /\ d \in reserved' /\ d \notin Foreground
                   /\ d \in mine' => process'[d] # "none"
                   /\ mem'[d].phase = "ended" => mem'[d].state \in {"unknown"} \cup Known
                   /\ mem'[d].phase = "ended" /\ mem'[d].state \in Known => process'[d] = "gone"
                   /\ mem'[d].phase = "kept" => mem'[d].state = "unknown"
                   /\ (Owned(d))' /\ saved'[d].state = "unknown" => mem'[d].phase = "kept"
        BY <2>3, <2>4, <2>5, <3>1, <3>2, <4>1 DEF CommandsInv, OwnedOK
      <4>2. /\ (Owned(c))' => Up' /\ c \in mine' /\ c \in reserved' /\ c \notin Foreground
            /\ c \in mine' => process'[c] # "none"
        BY <2>1, <2>3, <2>5, <3>1, <3>2 DEF CommandsInv, OwnedOK, Owned
      <4>3. /\ mem'[c].phase # "ended" /\ (mem'[c].phase = "kept" => mem'[c].state = "unknown")
            /\ (Owned(c))' => mem'[c].phase = "kept"
        BY <2>5, <3>1 DEF Owned
      <4>4. QED
        BY <4>1, <4>2, <4>3 DEF OwnedOK
    <3>8. Traceable'
      BY <2>2, <2>3, <2>4 DEF CommandsInv, Traceable
    <3>9. ShownStays'
      <4>1. ASSUME NEW d \in Commands, NEW u \in shown[d] PROVE u # c /\ u \in Commands /\ ~(Owned(u))'
        BY <1>0, <2>1, <3>2 DEF CommandsInv, ShownStays
      <4>2. QED
        BY <2>3, <2>4, <4>1 DEF CommandsInv, ShownStays
    <3>10. KnownMeansGone'
      BY <2>1, <2>2, <2>3, <2>4 DEF CommandsInv, KnownMeansGone, OwnedOK
    <3>11. NothingLost'
      BY <2>2, <2>3, <2>4, <3>2 DEF CommandsInv, NothingLost
    <3>12. QED
      BY <3>3, <3>4, <3>5, <3>6, <3>7, <3>8, <3>9, <3>10, <3>11 DEF CommandsInv
  <2>6. CASE mem[c].state = "unknown"
    <3> DEFINE m == [mem[c] EXCEPT !.phase = "kept"]
    <3>1. m \in MemRecord /\ m.phase = "kept" /\ m.state = "unknown"
      BY <2>1, <2>6 DEF MemRecord, Phases
    <3>2. mem' = [mem EXCEPT ![c] = m] /\ reserved' = reserved
      BY <1>20, <2>6 DEF SaveEnd
    <3> HIDE DEF m
    <3>3. QED
      BY <2>5, <2>6, <3>1, <3>2
  <2>7. CASE mem[c].state # "unknown"
    <3>1. mem' = [mem EXCEPT ![c] = NoMem] /\ reserved' = reserved \ {c}
      BY <1>20, <2>7 DEF SaveEnd
    <3>2. process[c] = "gone"
      BY <2>1, <2>7 DEF CommandsInv, OwnedOK
    <3>3. QED
      BY <2>5, <2>7, <3>1, <3>2, NoMemType
  <2>8. QED
    BY <2>6, <2>7
<1>21. ASSUME NEW c \in Commands, ExecuteEnds(c) PROVE CommandsInv'
  <2>1. /\ Up /\ c \in mine /\ c \in Foreground /\ attempt[c] = "dispatched"
        /\ UNCHANGED <<owner, crashes, shown, mem, mine, saved>>
    BY <1>21 DEF ExecuteEnds
  <2>2. PICK left \in {process[c], "gone"}, a \in {"finished", "unknown"} :
          /\ process' = [process EXCEPT ![c] = left] /\ attempt' = [attempt EXCEPT ![c] = a]
          /\ reserved' = reserved \/ (left = "gone" /\ reserved' = reserved \ {c})
    BY <1>21 DEF ExecuteEnds
  <2>3. /\ process' \in [Commands -> {"none", "alive", "exited", "gone"}]
        /\ \A d \in Commands : process'[d] = IF d = c THEN left ELSE process[d]
    BY <1>0, <2>2
  <2>4. /\ attempt' \in [Commands -> {"none", "prepared", "dispatched", "finished", "unknown"}]
        /\ \A d \in Commands : attempt'[d] = IF d = c THEN a ELSE attempt[d]
    BY <1>0, <2>2
  <2>5. process[c] # "none" /\ left # "none" /\ ~Owned(c) /\ reserved' \subseteq reserved
    BY <2>1, <2>2 DEF CommandsInv, OwnedOK
  <2>6. \A d \in Commands : ((Owned(d))' <=> Owned(d)) /\ (Startable(d)' => Startable(d) /\ d # c)
    BY <2>1, <2>4 DEF Owned, Up, Startable
  <2>7. RecordsOK'
    BY <2>1, <2>3, <2>4, <2>5 DEF CommandsInv, RecordsOK, CommandsTypeOK
  <2>8. GroupOK'
    BY <2>5, GroupShrinks DEF CommandsInv
  <2>9. LiveReserved'
    BY <1>0, <2>1, <2>2, <2>3 DEF CommandsInv, LiveReserved
  <2>10. NotStarted'
    BY <2>1, <2>3, <2>6 DEF CommandsInv, NotStarted
  <2>11. OwnedOK'
    BY <2>1, <2>2, <2>3, <2>5, <2>6 DEF CommandsInv, OwnedOK, Up
  <2>12. Traceable'
    BY <2>1, <2>3, <2>4 DEF CommandsInv, Traceable
  <2>13. ShownStays'
    BY <1>0, <2>1, <2>3, <2>4, <2>5, <2>6 DEF CommandsInv, ShownStays
  <2>14. KnownMeansGone' /\ NothingLost'
    BY <2>1, <2>2, <2>3, <2>6 DEF CommandsInv, KnownMeansGone, NothingLost, Up
  <2>15. QED
    BY <2>7, <2>8, <2>9, <2>10, <2>11, <2>12, <2>13, <2>14 DEF CommandsInv
<1>22. CASE Tick
  <2>1. Up /\ mem' = [c \in Commands |-> IF Ages(c) THEN [mem[c] EXCEPT !.age = @ + 1] ELSE mem[c]]
        /\ UNCHANGED <<owner, crashes, attempt, shown, reserved, process, mine, saved>>
    BY <1>22 DEF Tick
  <2>2. ASSUME NEW c \in Commands, Ages(c)
        PROVE  LET m == [mem[c] EXCEPT !.age = @ + 1]
               IN m \in MemRecord /\ m.phase = mem[c].phase /\ m.state = mem[c].state
    <3>1. mem[c] \in MemRecord
      BY <1>0
    <3>2. mem[c].age \in 0..MaxAge
      BY <3>1 DEF MemRecord
    <3>3. mem[c].age + 1 \in 0..MaxAge
      BY <2>2, <3>2 DEF Ages, CommandsAssumption
    <3>4. QED
      BY <3>1, <3>3 DEF MemRecord
  <2>3. /\ mem' \in [Commands -> MemRecord]
        /\ \A c \in Commands : mem'[c].phase = mem[c].phase /\ mem'[c].state = mem[c].state
    BY <1>0, <2>1, <2>2
  <2>4. owner' \in {"up", "closing"}
    BY <1>0, <2>1 DEF Up
  <2>5. QED
    BY <2>1, <2>3, <2>4, MemsStep
<1>23. CASE Close
  <2>1. /\ owner = "up" /\ owner' = "closing"
        /\ mem' = [c \in Commands |-> IF Owned(c) THEN Stopped(mem[c], "stop") ELSE mem[c]]
        /\ UNCHANGED <<crashes, attempt, shown, reserved, process, mine, saved>>
    BY <1>23 DEF Close
  <2>2. ASSUME NEW c \in Commands
        PROVE  LET m == Stopped(mem[c], "stop")
               IN /\ m \in MemRecord /\ m.phase = mem[c].phase
                  /\ mem[c].phase \in {"ended", "kept"} => m.state = mem[c].state
    <3>1. mem[c] \in MemRecord
      BY <1>0
    <3>2. mem[c].phase \in {"ended", "kept"} => mem[c].state \in {"unknown"} \cup Known
      BY DEF CommandsInv, OwnedOK
    <3>3. QED
      BY <3>1, <3>2, StoppedType
  <2>3. /\ mem' \in [Commands -> MemRecord]
        /\ \A c \in Commands : /\ mem'[c].phase = mem[c].phase
                               /\ mem[c].phase \in {"ended", "kept"} => mem'[c].state = mem[c].state
    BY <1>0, <2>1, <2>2
  <2>4. Up
    BY <2>1 DEF Up
  <2>5. QED
    BY <2>1, <2>3, <2>4, MemsStep
<1>24. ASSUME NEW lost \in {0, 1}, OwnerGone(lost), crashes + lost <= MaxCrashes PROVE CommandsInv'
  <2>1. /\ owner' = "down" /\ reserved' = {} /\ mine' = {} /\ mem' = [c \in Commands |-> NoMem]
        /\ crashes' = crashes + lost /\ UNCHANGED <<attempt, shown, saved>>
    BY <1>24 DEF OwnerGone
  <2>2. /\ process' \in [Commands -> {"none", "alive", "exited", "gone"}]
        /\ \A c \in Commands : /\ process'[c] = "none" <=> process[c] = "none"
                               /\ process[c] = "gone" => process'[c] = "gone"
    <3>1. PICK left \in SUBSET {c \in Commands : process[c] \in {"alive", "exited"}} :
            process' = [c \in Commands |-> IF process[c] = "none" THEN "none"
                                           ELSE IF c \in left THEN process[c] ELSE "gone"]
      BY <1>24 DEF OwnerGone
    <3>2. QED
      BY <1>0, <3>1
  <2>3. \A c \in Commands : mem'[c].phase = "none" /\ ~(Owned(c))'
    BY <2>1, NoMemType DEF Owned
  <2>4. ~Up' /\ \A c \in Commands : Startable(c)' => Startable(c)
    BY <2>1 DEF Up, Startable
  <2>5. RecordsOK'
    <3>1. mem' \in [Commands -> MemRecord]
      BY <2>1, NoMemType
    <3>2. \A d \in Commands : /\ mem'[d].phase \in Phases
             /\ mem'[d].state \in {"running", "stopping", "unknown"} \cup Known
             /\ mem'[d].expires \in 0..MaxAge /\ mem'[d].age \in 0..MaxAge
      BY <3>1 DEF MemRecord
    <3>3. crashes' \in 0..MaxCrashes
      BY <1>0, <1>24, <2>1 DEF CommandsAssumption
    <3>4. QED
      BY <2>1, <2>2, <3>1, <3>2, <3>3 DEF CommandsInv, RecordsOK, CommandsTypeOK, Phases
  <2>6. GroupOK'
    BY <2>1, GroupShrinks DEF CommandsInv
  <2>7. NotStarted'
    BY <2>1, <2>2, <2>3, <2>4 DEF CommandsInv, NotStarted
  <2>8. LiveReserved' /\ OwnedOK'
    BY <2>1, <2>3 DEF LiveReserved, OwnedOK
  <2>9. Traceable' /\ KnownMeansGone' /\ NothingLost'
    BY <2>1, <2>2, <2>4 DEF CommandsInv, Traceable, KnownMeansGone, NothingLost
  <2>10. ShownStays'
    BY <1>0, <2>1, <2>2, <2>3 DEF CommandsInv, ShownStays
  <2>11. QED
    BY <2>5, <2>6, <2>7, <2>8, <2>9, <2>10 DEF CommandsInv
<1>25. CASE CloseReturns \/ Crash
  <2>1. crashes \in Nat /\ MaxCrashes \in Nat /\ crashes <= MaxCrashes
    BY <1>0 DEF CommandsAssumption
  <2>2. CASE CloseReturns
    BY <1>24, <2>1, <2>2 DEF CloseReturns
  <2>3. CASE Crash
    BY <1>24, <2>1, <2>3 DEF Crash
  <2>4. QED
    BY <1>25, <2>2, <2>3
<1>26. CASE Recover
  <2> DEFINE due == recoverMissing \cup {c \in Commands : saved[c].state = "running"}
  <2>1. PICK done \in SUBSET due :
          /\ saved' = [c \in Commands |-> IF c \in done THEN Lost ELSE saved[c]]
          /\ owner' = (IF done = due THEN "up" ELSE "down")
          /\ attempt' = [c \in Commands |->
               IF done # due THEN attempt[c]
               ELSE CASE attempt[c] = "dispatched" -> "unknown"
                      [] attempt[c] = "prepared" -> "finished"
                      [] OTHER -> attempt[c]]
    BY <1>26 DEF Recover
  <2>2. owner = "down" /\ ~Up /\ UNCHANGED <<crashes, shown, reserved, mem, process, mine>>
    BY <1>26 DEF Recover, Up
  <2>3. Lost \in SavedRecord /\ Lost.state = "unknown" /\ Lost # NoRecord
    <3>1. Lost \in SavedRecord /\ Lost.state = "unknown"
      BY DEF Lost, SavedRecord, CommandsAssumption
    <3>2. QED
      BY <3>1, NoMemType
  <2>4. saved' \in [Commands -> SavedRecord] /\ \A c \in Commands : saved'[c] = IF c \in done THEN Lost ELSE saved[c]
    BY <1>0, <2>1, <2>3
  <2>5. /\ attempt' \in [Commands -> {"none", "prepared", "dispatched", "finished", "unknown"}]
        /\ \A c \in Commands : /\ attempt'[c] = attempt[c]
                                  \/ (attempt[c] = "dispatched" /\ attempt'[c] = "unknown")
                                  \/ (attempt[c] = "prepared" /\ attempt'[c] = "finished")
                               /\ done = due => attempt'[c] \notin {"dispatched", "prepared"}
    BY <1>0, <2>1
  <2>6. \A c \in Commands : ~Owned(c) /\ ~(Owned(c))'
    BY <2>2 DEF CommandsInv, OwnedOK, Owned
  <2>7. ASSUME NEW c \in done
        PROVE  /\ c \in Commands /\ saved[c].state \in {"absent", "running"}
               /\ attempt[c] \notin {"none", "prepared"}
    <3>1. c \in Commands /\ (saved[c] = NoRecord \/ saved[c].state = "running")
      BY DEF recoverMissing
    <3>2. CASE c \in recoverMissing
      BY <3>1, <3>2, NoMemType DEF recoverMissing
    <3>3. CASE saved[c].state = "running"
      BY <3>1, <3>3, NoMemType DEF CommandsInv, NotStarted, Startable
    <3>4. QED
      BY <3>2, <3>3
  <2>8. \A c \in Commands : Startable(c)' => c \notin done /\ Startable(c) /\ attempt'[c] = attempt[c]
    <3>1. ASSUME NEW c \in Commands, attempt'[c] \in {"none", "prepared"}
          PROVE  c \notin done /\ Startable(c) /\ attempt'[c] = attempt[c]
      BY <2>5, <2>7, <3>1 DEF Startable
    <3>2. ASSUME NEW c \in Commands, Up', attempt'[c] = "dispatched" PROVE FALSE
      BY <2>1, <2>5, <3>2 DEF Up
    <3>3. QED
      BY <3>1, <3>2 DEF Startable
  <2>9. RecordsOK'
    <3>1. \A d \in Commands : saved'[d].state \in {"absent", "running", "unknown"} \cup Known
      BY <2>4 DEF SavedRecord
    <3>2. owner' \in {"up", "closing", "down"}
      BY <2>1
    <3>3. QED
      BY <2>2, <2>4, <2>5, <3>1, <3>2 DEF CommandsInv, RecordsOK, CommandsTypeOK
  <2>10. GroupOK' /\ LiveReserved'
    BY <2>2, GroupShrinks DEF CommandsInv, LiveReserved
  <2>11. NotStarted'
    BY <2>2, <2>4, <2>6, <2>8 DEF CommandsInv, NotStarted
  <2>12. OwnedOK'
    BY <2>2, <2>6 DEF CommandsInv, OwnedOK
  <2>13. Traceable'
    BY <2>2, <2>3, <2>4, <2>5 DEF CommandsInv, Traceable
  <2>14. ShownStays'
    <3>1. ASSUME NEW d \in Commands, NEW u \in shown[d] PROVE u \in Commands /\ u \notin done /\ saved'[u] = saved[u]
      BY <1>0, <2>4, <2>7 DEF CommandsInv, ShownStays
    <3>2. QED
      BY <1>0, <2>2, <2>5, <2>6, <3>1 DEF CommandsInv, ShownStays
  <2>15. KnownMeansGone'
    BY <2>2, <2>3, <2>4 DEF CommandsInv, KnownMeansGone, Known
  <2>16. NothingLost'
    <3>1. ASSUME Up', NEW c \in Commands \ Foreground, process[c] # "none" PROVE saved'[c] # NoRecord
      <4>1. done = due
        BY <2>1, <3>1 DEF Up
      <4>2. saved[c] = NoRecord => c \in done
        BY <3>1, <4>1 DEF CommandsInv, Traceable, recoverMissing
      <4>3. QED
        BY <2>3, <2>4, <4>2
    <3>2. QED
      BY <2>2, <3>1 DEF NothingLost
  <2>17. QED
    BY <2>9, <2>10, <2>11, <2>12, <2>13, <2>14, <2>15, <2>16 DEF CommandsInv
<1>27. CASE UNCHANGED commandVars
  <2>1. UNCHANGED <<owner, crashes, attempt, shown, reserved, mem, process, mine, saved>>
    BY <1>27 DEF commandVars
  <2>2. GroupOK'
    BY <2>1, GroupShrinks DEF CommandsInv
  <2>3. QED
    BY <2>1, <2>2 DEF CommandsInv, RecordsOK, CommandsTypeOK, LiveReserved, NotStarted, Startable, OwnedOK, Traceable,
       ShownStays, KnownMeansGone, NothingLost, Owned, Up
<1>28. QED
  BY <1>1, <1>2, <1>3, <1>4, <1>6, <1>7, <1>8, <1>9, <1>10, <1>11, <1>12, <1>13, <1>14, <1>15, <1>16,
     <1>17, <1>18, <1>19, <1>20, <1>21, <1>22, <1>23, <1>25, <1>26, <1>27 DEF CommandsNext, Supervise

\* For any commands, services, deadlines and crashes: processes not known to be gone
\* keep the quota and one profile, a known end on record is of a process tree that is
\* gone, no background process is without a record or an owner, and a command starts
\* after the unknown ends it was shown are acknowledged (command_sessions.go reserve,
\* launch, supervise; command_recovery.go; command_review.go; commands.go execute).
THEOREM CommandsKeptAlways == ASSUME CommandsAssumption PROVE CommandsSpec => []CommandsKept
<1>1. ASSUME CommandsInv PROVE QuotaHonest
  <2> DEFINE live == {c \in mine : process[c] \in {"alive", "exited"}}
  <2>1. live \subseteq reserved
    BY <1>1 DEF CommandsInv, LiveReserved
  <2>2. ASSUME NEW mode \in {"command", "service"}
        PROVE  Cardinality({c \in live : Mode(c) = mode}) <= Quota(mode)
    <3> DEFINE A == {c \in live : Mode(c) = mode}
               B == {c \in reserved : Mode(c) = mode}
    <3>1. A \subseteq B /\ B \subseteq reserved
      BY <2>1
    <3>2. IsFiniteSet(B)
      BY <1>1, <3>1, FS_Subset DEF CommandsInv, GroupOK
    <3>3. Cardinality(A) <= Cardinality(B) /\ Cardinality(A) \in Nat /\ Cardinality(B) \in Nat
      BY <3>1, <3>2, FS_Subset, FS_CardinalityType
    <3>4. Cardinality(B) <= Quota(mode) /\ Quota(mode) \in Nat
      BY <1>1 DEF CommandsInv, GroupOK, Quota
    <3> HIDE DEF A, B
    <3>5. Cardinality(A) <= Quota(mode)
      BY <3>3, <3>4
    <3>6. QED
      BY <3>5 DEF A
  <2>3. \A c, d \in live : SameProfile(c, d)
    BY <1>1, <2>1 DEF CommandsInv, GroupOK
  <2>4. QED
    BY <2>2, <2>3 DEF QuotaHonest
<1>2. CommandsInv => AcknowledgedFirst /\ CommandsTypeOK
  BY DEF CommandsInv, ShownStays, AcknowledgedFirst, RecordsOK
<1>3. CommandsInv => CommandsKept
  BY <1>1, <1>2 DEF CommandsInv, CommandsKept
<1>4. QED
  BY <1>3, CommandsInitInv, CommandsNextInv, PTL DEF CommandsSpec

=============================================================================
