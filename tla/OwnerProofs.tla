----------------------------- MODULE OwnerProofs -----------------------------
(* The Owner of a data directory, what it hands out and when it ends: one     *)
(* Owner in every respect (OwnerStore), a quiet end of its server             *)
(* (OwnerServer), one file of keys for all processes (KeyStore), Runs of a    *)
(* channel under their grant (SpaceAccess), and the models a Run is bound to  *)
(* (ModelRouting).  The components do not share state; each has its own       *)
(* inductive invariant and its own theorems, for any number of processes,     *)
(* sessions, requests, profiles, Runs, changes and crashes.                   *)
EXTENDS OwnerStore, OwnerServer, KeyStore, SpaceAccess, ModelRouting, FiniteSetTheorems,
        SequenceTheorems, TLAPS

-----------------------------------------------------------------------------
(* One Owner for a data directory.                                            *)
(*                                                                            *)
(* Three facts make the promises of OwnerStore inductive: whoever is on the   *)
(* way into or out of ownership holds owner.lock, so no two are; a claim      *)
(* takes a number below the sessions that were opened; and a file that the    *)
(* Owner has published so far holds its generation.                           *)

\* owner.lock is held from the first step in to the last step out.
LockHeld == \A p \in Procs : pc[p] # "off" => lock = p

\* A generation is claimed once for every advisory session at most.
Numbered ==
  /\ last \in 0..MaxSessions /\ doc.gen <= last
  /\ \A p \in Procs :
       /\ pc[p] \in {"lock", "runtime"} => last < MaxSessions
       /\ pc[p] = "advisory" => doc.gen < last
       /\ pc[p] \in {"claimed", "engine", "secret", "chat", "serving"} => gen[p] # 0

\* What handoff.Publish has written so far carries the Owner's generation.
PublishedSoFar ==
  \A p \in Procs :
    /\ pc[p] \in {"secret", "chat", "serving"} => files["engine"] = gen[p]
    /\ pc[p] \in {"chat", "serving"} => files["secret"] = gen[p]
    /\ pc[p] = "serving" => files["chat"] = gen[p]

\* A running cluster has somebody who will stop it: a read-only process that
\* started it, or an Owner between AcquireOwner and releaseRuntime.
Stopper ==
  database => left \/ viewer = "starter" \/ \E p \in Procs : pc[p] \notin {"off", "lock", "unlock"}

\* What the attaching client has read so far.
ReaderOK ==
  reader \in [pc : {"idle", "secret", "chat", "ask", "attached"}, read : [Names -> 0..MaxSessions]]

StoreInv ==
  /\ StoreTypeOK /\ LockHeld /\ Numbered
  /\ WritersCurrent /\ PublishedSoFar /\ ReaderOK /\ AttachedToOne /\ Stopper

-----------------------------------------------------------------------------
LEMMA StoreInitInv == ASSUME OwnerAssumption, StoreInit PROVE StoreInv
BY DEF OwnerAssumption, StoreInit, StoreInv, StoreTypeOK, LockHeld, Numbered, WritersCurrent, PublishedSoFar,
       ReaderOK, AttachedToOne, Stopper, NoFiles, Names, Opening, Closing

LEMMA StoreNextInv == ASSUME OwnerAssumption, StoreInv, [StoreNext]_storeVars PROVE StoreInv'
<1> USE DEF OwnerAssumption, StoreInv, StoreTypeOK, LockHeld, Numbered, WritersCurrent, PublishedSoFar,
            ReaderOK, AttachedToOne, Stopper, Names, Opening, Closing, At
<1>1. ASSUME NEW p \in Procs, AcquireLock(p) PROVE StoreInv'
  BY <1>1 DEF AcquireLock
<1>2. ASSUME NEW p \in Procs, AcquireRuntime(p) PROVE StoreInv'
  BY <1>2 DEF AcquireRuntime
<1>3. ASSUME NEW p \in Procs, AcquireRuntimeFails(p) PROVE StoreInv'
  BY <1>3 DEF AcquireRuntimeFails
<1>4. ASSUME NEW p \in Procs, TryAdvisory(p) PROVE StoreInv'
  BY <1>4 DEF TryAdvisory
<1>5. ASSUME NEW p \in Procs, Claim(p) PROVE StoreInv'
  BY <1>5 DEF Claim, ClaimWaits
<1>6. ASSUME NEW p \in Procs, ClaimTimesOut(p) PROVE StoreInv'
  BY <1>6 DEF ClaimTimesOut
<1>7. ASSUME NEW p \in Procs, Recover(p) PROVE StoreInv'
  BY <1>7 DEF Recover
<1>8. ASSUME NEW p \in Procs, NEW n \in Names, Publish(p, n) PROVE StoreInv'
  BY <1>8 DEF Publish, AfterFile
<1>9. ASSUME NEW p \in Procs, NEW n \in Names, PublishFails(p, n) PROVE StoreInv'
  BY <1>9 DEF PublishFails, Before
<1>10. ASSUME NEW p \in Procs, Stop(p) PROVE StoreInv'
  BY <1>10 DEF Stop
<1>11. ASSUME NEW p \in Procs, Unpublish(p) PROVE StoreInv'
  BY <1>11 DEF Unpublish
<1>12. ASSUME NEW p \in Procs, ClosePool(p) PROVE StoreInv'
  BY <1>12 DEF ClosePool
<1>13. ASSUME NEW p \in Procs, CloseSession(p) PROVE StoreInv'
  BY <1>13 DEF CloseSession
<1>14. ASSUME NEW p \in Procs, StopRuntime(p) PROVE StoreInv'
  BY <1>14 DEF StopRuntime, ClusterStops
<1>15. ASSUME NEW p \in Procs, ReleaseLock(p) PROVE StoreInv'
  BY <1>15 DEF ReleaseLock
<1>16. ASSUME NEW p \in Procs, Begin(p) PROVE StoreInv'
  <2>1. gen[p] \in 1..MaxSessions
    BY <1>16 DEF Begin
  <2>2. [gen |-> gen[p], fenced |-> FALSE] \in [gen : 1..MaxSessions, fenced : BOOLEAN]
    BY <2>1
  <2>3. StoreTypeOK' /\ WritersCurrent'
    BY <1>16, <2>2 DEF Begin
  <2>4. QED
    BY <1>16, <2>3 DEF Begin
<1>17. ASSUME NEW p \in Procs, Watch(p) PROVE StoreInv'
  BY <1>17 DEF Watch
<1>18. ASSUME NEW p \in Procs, Crash(p) PROVE StoreInv'
  BY <1>18 DEF Crash
<1>19. ASSUME NEW t \in txs, Fence(t) PROVE StoreInv'
  BY <1>19 DEF Fence, Passes
<1>20. ASSUME NEW t \in txs, Ends(t) PROVE StoreInv'
  BY <1>20 DEF Ends
<1>21. CASE SessionDropped \/ BackendEnds
  BY <1>21 DEF SessionDropped, BackendEnds
<1>22. CASE ViewerOpens \/ ViewerCloses
  BY <1>22 DEF ViewerOpens, ViewerCloses, ClusterStops
<1>23. ASSUME NEW n \in Names, ReadFile(n) PROVE StoreInv'
  BY <1>23 DEF ReadFile, NoFiles, AfterFile
<1>24. CASE AskState
  BY <1>24 DEF AskState, SameOwner, NoFiles
<1>25. CASE Detach
  BY <1>25 DEF Detach, NoFiles
<1>26. CASE UNCHANGED storeVars
  BY <1>26 DEF storeVars
<1>27. QED
  BY <1>1, <1>2, <1>3, <1>4, <1>5, <1>6, <1>7, <1>8, <1>9, <1>10, <1>11, <1>12, <1>13, <1>14,
     <1>15, <1>16, <1>17, <1>18, <1>19, <1>20, <1>21, <1>22, <1>23, <1>24, <1>25, <1>26, SMTT(30)
     DEF StoreNext

\* A data directory has one Owner in every respect: no transaction of an earlier
\* generation can commit, the published files are those of the Owner that serves,
\* a client attaches to one Owner, and a cluster is not left running
\* (postgres_store.go, postgres_schema.sql, handoff/discovery.go, postgres/runtime.go).
THEOREM OneOwnerAlways == ASSUME OwnerAssumption PROVE StoreSpec => []OneOwner
<1>1. StoreInv => OneOwner
  BY DEF StoreInv, OneOwner, PublishedSoFar, DiscoveryIsOwners, Stopper, NotLeftRunning, Names
<1>2. QED
  BY <1>1, StoreInitInv, StoreNextInv, PTL DEF StoreSpec

-----------------------------------------------------------------------------
(* The end of the Owner's server is quiet.                                    *)
(*                                                                            *)
(* The handoff is spread over three critical sections: the one that stops     *)
(* admission, the release of the last execution, and the return from          *)
(* CloseCommands.  What makes the promise inductive is what the requests      *)
(* between the first and the last one know.                                   *)

\* The process ends only with a closed server.
EndsClosed == main # "serving" => closed

\* A handoff under way has stopped admission; one that found nothing running
\* still finds nothing running.
EndingKnows ==
  \A r \in Reqs : req[r].kind = "ending" /\ ~recanted =>
    /\ stopping
    /\ ~req[r].active => running = {}

\* A requested stop admits nothing.
StopIsStopping == stopRequested /\ ~recanted => stopping

\* The idle shutdown leaves no handoff under way that could take it back.
IdleIsFinal == why = "idle" => stopping /\ \A r \in Reqs : req[r].kind # "ending"

ServerInv ==
  /\ ServerTypeOK /\ EndsClosed /\ EndingKnows /\ StopIsStopping /\ IdleIsFinal
  /\ DrainedMeansQuiet /\ StopMeansQuiet /\ IdleLosesNothing

-----------------------------------------------------------------------------
LEMMA ServerInitInv == ASSUME ServerInit PROVE ServerInv
<1>1. Out \in [kind : Kinds \cup {"none", "ending"}, active : BOOLEAN]
  BY DEF Out
<1>2. ServerTypeOK
  BY <1>1 DEF ServerInit, ServerTypeOK
<1>3. QED
  BY <1>2 DEF ServerInit, ServerInv, EndsClosed, EndingKnows, StopIsStopping, IdleIsFinal, DrainedMeansQuiet,
              StopMeansQuiet, IdleLosesNothing, Out

LEMMA ServerNextInv == ASSUME ServerInv, [ServerNext]_serverVars PROVE ServerInv'
<1> USE DEF ServerInv, ServerTypeOK, EndsClosed, EndingKnows, StopIsStopping, IdleIsFinal, DrainedMeansQuiet,
            StopMeansQuiet, IdleLosesNothing, Out, Kinds, lifetime, executions
<1>1. ASSUME NEW c \in Chats, Dispatch(c) PROVE ServerInv'
  BY <1>1 DEF Dispatch, Reserve, Reservable
<1>2. ASSUME NEW c \in Chats, Record(c) PROVE ServerInv'
  BY <1>2 DEF Record
<1>3. ASSUME NEW c \in Chats, StartCommand(c) PROVE ServerInv'
  BY <1>3 DEF StartCommand
<1>4. ASSUME NEW c \in Chats, Release(c) PROVE ServerInv'
  BY <1>4 DEF Release, RequestStop
<1>5. ASSUME NEW c \in Chats, CancelChat(c) PROVE ServerInv'
  BY <1>5 DEF CancelChat
<1>6. ASSUME NEW r \in Reqs, NEW kind \in Kinds, Enter(r, kind) PROVE ServerInv'
  BY <1>6 DEF Enter
<1>7. ASSUME NEW r \in Reqs, Answer(r) PROVE ServerInv'
  BY <1>7 DEF Answer, Leave
<1>8. ASSUME NEW r \in Reqs, NEW c \in Chats, Submit(r, c) PROVE ServerInv'
  BY <1>8 DEF Submit, Reserve, Reservable, Leave
<1>9. ASSUME NEW r \in Reqs, HandOff(r) PROVE ServerInv'
  <2>1. CASE Leave(r) /\ UNCHANGED <<cancelled, stopping>>
    BY <1>9, <2>1 DEF HandOff, Leave
  <2>2. CASE ~stopping /\ stopping' = TRUE /\ cancelled' = running
             /\ req' = [req EXCEPT ![r] = [kind |-> "ending", active |-> running # {}]]
    <3>1. [kind |-> "ending", active |-> running # {}]
            \in [kind : Kinds \cup {"none", "ending"}, active : BOOLEAN]
      OBVIOUS
    <3>2. ServerTypeOK'
      BY <1>9, <2>2, <3>1 DEF HandOff
    <3>3. EndingKnows'
      BY <1>9, <2>2 DEF HandOff
    <3>4. QED
      BY <1>9, <2>2, <3>2, <3>3 DEF HandOff
  <2>3. QED
    BY <1>9, <2>1, <2>2 DEF HandOff, CancelAll
<1>10. ASSUME NEW r \in Reqs, CommandsClosed(r) PROVE ServerInv'
  BY <1>10 DEF CommandsClosed, RequestStop, CancelAll, Leave
<1>11. ASSUME NEW r \in Reqs, CommandsNotClosed(r) PROVE ServerInv'
  BY <1>11 DEF CommandsNotClosed, Leave
<1>12. CASE CommandEnds
  BY <1>12 DEF CommandEnds
<1>13. CASE ClientGone
  BY <1>13 DEF ClientGone
<1>14. CASE IdleTick
  BY <1>14 DEF IdleTick, RequestStop, KeepOwnerAlive
<1>15. CASE DatabaseLost
  BY <1>15 DEF DatabaseLost, CancelAll
<1>16. CASE Close
  BY <1>16 DEF Close, CancelAll
<1>17. CASE Drained
  BY <1>17 DEF Drained
<1>18. CASE UNCHANGED serverVars
  BY <1>18 DEF serverVars
<1>19. QED
  BY <1>1, <1>2, <1>3, <1>4, <1>5, <1>6, <1>7, <1>8, <1>9, <1>10, <1>11, <1>12, <1>13, <1>14,
     <1>15, <1>16, <1>17, <1>18 DEF ServerNext

\* Close waits for every execution, a stop is requested only when nothing runs and
\* nothing starts after it, and the idle shutdown takes no command and no
\* undecided Run with it (chatui/server.go Close, execution.go release, attach.go,
\* client_lifetime.go tryIdleShutdown).
THEOREM EndIsQuietAlways == ServerSpec => []EndIsQuiet
<1>1. ServerInv => EndIsQuiet
  BY DEF ServerInv, EndIsQuiet
<1>2. QED
  BY <1>1, ServerInitInv, ServerNextInv, PTL DEF ServerSpec

-----------------------------------------------------------------------------
(* The file of keys is one store for all processes.                           *)
(*                                                                            *)
(* What makes it inductive: the copy a process edits is the file, because     *)
(* the file lock is held from the fresh read to the new cache, and no cache   *)
(* carries a stamp of the future.                                             *)

File == [Ids -> Profile]
Job == [op : {"idle", "add", "update", "remove", "probe"},
        at : {"idle", "lock", "edit", "published"}, id : Ids, base : Bases \union {""},
        source : {"", "saved", "env"}, secret : 0..MaxSecrets, seen : File,
        check : [base : Bases \union {""}, secret : 0..MaxSecrets]]
Cache == [valid : BOOLEAN, stamp : 0..MaxPublished, profiles : File]

\* What jobs, caches and the counter of keys are.
JobsOK ==
  /\ file \in File /\ truth \in File
  /\ stamp \in 0..MaxPublished /\ keysLock \in Processes \union {Nobody}
  /\ cache \in [Processes -> Cache] /\ job \in [Processes -> Job]
  /\ secrets \in 0..MaxSecrets

\* A step towards the lock is a step of a change.
JobsWork == \A p \in Processes : job[p].at # "idle" => job[p].op # "idle"

\* keys.json.lock is held from the fresh copy to the new cache, and the copy is
\* the file.
UnderLock ==
  \A p \in Processes : job[p].at \in {"edit", "published"} => keysLock = p /\ job[p].seen = file

\* A cache is not of the future.
CachesPast == \A p \in Processes : cache[p].stamp <= stamp

KeyInv == JobsOK /\ JobsWork /\ UnderLock /\ CachesPast /\ Serialized /\ CacheHonest /\ KeyAtItsAddress

-----------------------------------------------------------------------------
LEMMA GoneType == ASSUME KeyAssumption PROVE Gone \in Profile
<1>1. NoKey \in Key
  BY DEF KeyAssumption, NoKey, Key
<1>2. NoCheck \in [base : Bases \union {""}, secret : 0..MaxSecrets]
  BY DEF KeyAssumption, NoCheck
<1>3. QED
  BY <1>1, <1>2 DEF Gone, Profile

LEMMA NoJobType == ASSUME KeyAssumption PROVE NoJob \in Job /\ NoJob.at = "idle"
<1>1. (CHOOSE i \in Ids : TRUE) \in Ids
  BY DEF KeyAssumption
<1>2. [i \in Ids |-> Gone] \in File
  BY GoneType DEF File
<1>3. NoCheck \in [base : Bases \union {""}, secret : 0..MaxSecrets]
  BY DEF NoCheck, KeyAssumption
<1> DEFINE i0 == CHOOSE i \in Ids : TRUE
           seen == [i \in Ids |-> Gone]
<1>4. NoJob = [op |-> "idle", at |-> "idle", id |-> i0, base |-> "", source |-> "",
               secret |-> 0, seen |-> seen, check |-> NoCheck]
  BY DEF NoJob
<1>5. i0 \in Ids /\ seen \in File /\ 0 \in 0..MaxSecrets
  BY <1>1, <1>2 DEF KeyAssumption
<1> HIDE DEF i0, seen
<1>6. QED
  BY <1>3, <1>4, <1>5 DEF Job

LEMMA NoCacheType == ASSUME KeyAssumption PROVE NoCache \in Cache /\ ~NoCache.valid /\ NoCache.stamp = 0
<1>1. [i \in Ids |-> Gone] \in File
  BY GoneType DEF File
<1>2. QED
  BY <1>1 DEF NoCache, Cache, KeyAssumption

\* An entered key gets a number of its own.
LEMMA SecretType ==
  ASSUME KeyAssumption, KeyInv, NEW s, s = "saved" => secrets < MaxSecrets
  PROVE  /\ (IF s = "saved" THEN secrets + 1 ELSE 0) \in 0..MaxSecrets
         /\ (IF s = "saved" THEN secrets + 1 ELSE secrets) \in 0..MaxSecrets
<1>1. secrets \in 0..MaxSecrets /\ MaxSecrets \in Nat
  BY DEF KeyInv, JobsOK, KeyAssumption
<1>2. CASE s = "saved"
  BY <1>1, <1>2
<1>3. CASE s # "saved"
  BY <1>1, <1>3
<1>4. QED
  BY <1>2, <1>3

\* What an edit makes of a file is a file.
LEMMA EditType ==
  ASSUME KeyAssumption, NEW f \in File, NEW j \in Job, j.op # "idle"
  PROVE  Edit(f, j) \in File
<1>1. j.id \in Ids /\ f[j.id] \in Profile
  BY DEF Job, File
<1>2. Sealed(j) \in Key
  <2>1. NoKey \in Key
    BY DEF Key, NoKey, KeyAssumption
  <2>2. j.source \in {"", "saved", "env"} /\ j.secret \in 0..MaxSecrets /\ j.base \in Bases \union {""}
    BY DEF Job
  <2>3. [source |-> j.source, secret |-> j.secret, bound |-> j.base] \in Key
    BY <2>2 DEF Key
  <2>4. QED
    BY <2>1, <2>3 DEF Sealed
<1>3. NoCheck \in [base : Bases \union {""}, secret : 0..MaxSecrets]
  BY DEF NoCheck, KeyAssumption
<1>4. [base |-> j.base, key |-> Sealed(j), check |-> NoCheck] \in Profile
  BY <1>2, <1>3 DEF Job, Profile
<1>5. Updated(f[j.id], j) \in Profile
  <2> DEFINE old == f[j.id]
             key == IF j.source # "" THEN Sealed(j)
                    ELSE IF old.key.source = "env" THEN [old.key EXCEPT !.bound = j.base]
                    ELSE old.key
             check == IF j.base = old.base /\ key = old.key THEN old.check ELSE NoCheck
  <2>1. old.key \in Key /\ old.check \in [base : Bases \union {""}, secret : 0..MaxSecrets]
    BY <1>1 DEF Profile
  <2>2. key \in Key
    BY <1>2, <2>1 DEF Key, Job
  <2>3. check \in [base : Bases \union {""}, secret : 0..MaxSecrets]
    BY <1>3, <2>1
  <2>4. [base |-> j.base, key |-> key, check |-> check] \in Profile
    BY <2>2, <2>3 DEF Job, Profile
  <2>5. QED
    BY <2>4 DEF Updated
<1>6. [f[j.id] EXCEPT !.check = j.check] \in Profile
  BY <1>1 DEF Profile, Job
<1>7. j.op \in {"add", "update", "remove", "probe"}
  BY DEF Job
<1> DEFINE new == CASE j.op = "add" -> [base |-> j.base, key |-> Sealed(j), check |-> NoCheck]
                    [] j.op = "update" -> Updated(f[j.id], j)
                    [] j.op = "remove" -> Gone
                    [] j.op = "probe" -> [f[j.id] EXCEPT !.check = j.check]
<1>8. new \in Profile
  BY <1>4, <1>5, <1>6, <1>7, GoneType
<1>9. [f EXCEPT ![j.id] = new] \in File
  <2> HIDE DEF new
  <2> QED
    BY <1>1, <1>8 DEF File
<1>10. QED
  BY <1>9 DEF Edit

\* A read sees the file.
LEMMA ViewIsFile ==
  ASSUME KeyInv, NEW p \in Processes
  PROVE  View(p) = file /\ View(p) \in File
BY DEF View, KeyInv, CacheHonest, JobsOK

\* A read leaves an honest cache.
LEMMA LoadedHonest ==
  ASSUME KeyInv, NEW p \in Processes, Loaded(p), UNCHANGED <<file, stamp>>
  PROVE  cache' \in [Processes -> Cache] /\ CachesPast' /\ CacheHonest'
<1> DEFINE new == [valid |-> TRUE, stamp |-> stamp, profiles |-> View(p)]
<1>1. new \in Cache /\ new.stamp = stamp /\ new.profiles = file
  BY ViewIsFile DEF Cache, KeyInv, JobsOK
<1>2. cache' = [cache EXCEPT ![p] = new]
  BY DEF Loaded
<1> HIDE DEF new
<1>3. QED
  BY <1>1, <1>2 DEF KeyInv, JobsOK, CachesPast, CacheHonest

\* A cache that is dropped is honest too.
LEMMA DroppedHonest ==
  ASSUME KeyAssumption, KeyInv, NEW p \in Processes, cache' = [cache EXCEPT ![p] = NoCache],
         UNCHANGED <<file, stamp>>
  PROVE  cache' \in [Processes -> Cache] /\ CachesPast' /\ CacheHonest'
BY NoCacheType DEF KeyInv, JobsOK, CachesPast, CacheHonest

\* A process that starts or ends a job outside the lock disturbs nobody who holds it.
LEMMA JobOutside ==
  ASSUME KeyInv, NEW p \in Processes, NEW j \in Job, j.at = "idle" \/ (j.at = "lock" /\ j.op # "idle"),
         job' = [job EXCEPT ![p] = j], UNCHANGED file,
         keysLock' = keysLock \/ (keysLock = p /\ keysLock' = Nobody)
                     \/ (job[p].at \in {"edit", "published"} /\ keysLock' = Nobody)
  PROVE  job' \in [Processes -> Job] /\ JobsWork' /\ UnderLock' /\ keysLock' \in Processes \union {Nobody}
<1>1. job' \in [Processes -> Job] /\ \A q \in Processes : job'[q] = IF q = p THEN j ELSE job[q]
  BY DEF KeyInv, JobsOK
<1>2. keysLock' \in Processes \union {Nobody}
  BY DEF KeyInv, JobsOK
<1>3. ASSUME NEW q \in Processes, job'[q].at \in {"edit", "published"}
      PROVE  keysLock' = q /\ job'[q].seen = file'
  <2>1. q # p /\ job'[q] = job[q]
    BY <1>1, <1>3
  <2>2. keysLock = q /\ job[q].seen = file
    BY <1>3, <2>1 DEF KeyInv, UnderLock
  <2>3. ~(job[p].at \in {"edit", "published"})
    BY <2>1, <2>2 DEF KeyInv, UnderLock
  <2>4. QED
    BY <2>1, <2>2, <2>3
<1>4. QED
  BY <1>1, <1>2, <1>3 DEF UnderLock, KeyInv, JobsWork

LEMMA KeyInitInv == ASSUME KeyAssumption, KeyInit PROVE KeyInv
<1>1. [i \in Ids |-> Gone] \in File
  BY GoneType DEF File
<1>2. JobsOK
  BY <1>1, NoJobType, NoCacheType DEF KeyInit, JobsOK, KeyAssumption
<1>3. JobsWork /\ UnderLock /\ CachesPast /\ CacheHonest
  BY NoJobType, NoCacheType DEF KeyInit, JobsWork, UnderLock, CachesPast, CacheHonest
<1>4. QED
  BY <1>2, <1>3 DEF KeyInit, KeyInv, Serialized, KeyAtItsAddress, NotSent

LEMMA KeyNextInv == ASSUME KeyAssumption, KeyInv, [KeyNext]_keyVars PROVE KeyInv'
<1>1. ASSUME NEW p \in Processes, NEW i \in Ids, NEW b \in Bases, NEW s \in {"saved", "env"},
             Add(p, i, b, s)
      PROVE  KeyInv'
  <2> DEFINE n == IF s = "saved" THEN secrets + 1 ELSE 0
             j == [NoJob EXCEPT !.op = "add", !.at = "lock", !.id = i, !.base = b,
                     !.source = s, !.secret = n]
  <2>0. n \in 0..MaxSecrets /\ secrets' \in 0..MaxSecrets
    BY <1>1, SecretType DEF Add
  <2>2. job' = [job EXCEPT ![p] = j] /\ UNCHANGED <<file, stamp, keysLock, cache, sent, truth>>
    BY <1>1 DEF Add
  <2> HIDE DEF n
  <2>1. j \in Job /\ j.at = "lock" /\ j.op # "idle"
    BY <2>0, NoJobType DEF Job
  <2> HIDE DEF j
  <2>3. job' \in [Processes -> Job] /\ JobsWork' /\ UnderLock'
    BY <2>1, <2>2, JobOutside
  <2>4. QED
    BY <2>0, <2>2, <2>3 DEF KeyInv, JobsOK, CachesPast, Serialized, CacheHonest, KeyAtItsAddress
<1>2. ASSUME NEW p \in Processes, NEW i \in Ids, NEW b \in Bases \union {""},
             NEW s \in {"", "saved", "env"}, Update(p, i, b, s)
      PROVE  KeyInv'
  <2> DEFINE base == IF b = "" THEN View(p)[i].base ELSE b
             n == IF s = "saved" THEN secrets + 1 ELSE 0
             j == [NoJob EXCEPT !.op = "update", !.at = "lock", !.id = i, !.base = base,
                     !.source = s, !.secret = n]
  <2>0. n \in 0..MaxSecrets /\ secrets' \in 0..MaxSecrets
    BY <1>2, SecretType DEF Update
  <2>1. base \in Bases \union {""}
    BY ViewIsFile DEF File, Profile
  <2>2. job' = [job EXCEPT ![p] = j] /\ UNCHANGED <<file, stamp, keysLock, sent, truth>>
        /\ Loaded(p)
    BY <1>2 DEF Update
  <2> HIDE DEF base, n
  <2>3. j \in Job /\ j.at = "lock" /\ j.op # "idle"
    BY <2>0, <2>1, NoJobType DEF Job
  <2> HIDE DEF j
  <2>4. job' \in [Processes -> Job] /\ JobsWork' /\ UnderLock'
    BY <2>2, <2>3, JobOutside
  <2>5. cache' \in [Processes -> Cache] /\ CachesPast' /\ CacheHonest'
    BY <2>2, LoadedHonest
  <2>6. QED
    BY <2>0, <2>2, <2>4, <2>5 DEF KeyInv, JobsOK, Serialized, KeyAtItsAddress
<1>3. ASSUME NEW p \in Processes, NEW i \in Ids, Remove(p, i) PROVE KeyInv'
  <2> DEFINE j == [NoJob EXCEPT !.op = "remove", !.at = "lock", !.id = i]
  <2>1. j \in Job /\ j.at = "lock" /\ j.op # "idle"
    BY NoJobType DEF Job
  <2>2. job' = [job EXCEPT ![p] = j] /\ UNCHANGED <<file, stamp, keysLock, sent, truth, secrets>>
        /\ Loaded(p)
    BY <1>3 DEF Remove
  <2> HIDE DEF j
  <2>3. job' \in [Processes -> Job] /\ JobsWork' /\ UnderLock'
    BY <2>1, <2>2, JobOutside
  <2>4. cache' \in [Processes -> Cache] /\ CachesPast' /\ CacheHonest'
    BY <2>2, LoadedHonest
  <2>5. QED
    BY <2>2, <2>3, <2>4 DEF KeyInv, JobsOK, Serialized, KeyAtItsAddress
<1>4. ASSUME NEW p \in Processes, NEW i \in Ids, Resolvable(View(p)[i]), Sends(View(p)[i])
      PROVE  KeyAtItsAddress'
  BY <1>4 DEF Resolvable, Sends, KeyAtItsAddress
<1>5. ASSUME NEW p \in Processes, NEW i \in Ids, Call(p, i) PROVE KeyInv'
  <2>1. cache' \in [Processes -> Cache] /\ CachesPast' /\ CacheHonest'
    BY <1>5, LoadedHonest DEF Call
  <2>2. KeyAtItsAddress'
    BY <1>4, <1>5 DEF Call
  <2>3. QED
    BY <1>5, <2>1, <2>2 DEF Call, KeyInv, JobsOK, JobsWork, UnderLock, Serialized
<1>6. ASSUME NEW p \in Processes, NEW i \in Ids, Probe(p, i) PROVE KeyInv'
  <2> DEFINE c == [base |-> View(p)[i].base, secret |-> View(p)[i].key.secret]
             j == [NoJob EXCEPT !.op = "probe", !.at = "lock", !.id = i, !.check = c]
  <2>1. c \in [base : Bases \union {""}, secret : 0..MaxSecrets]
    BY ViewIsFile DEF File, Profile, Key
  <2>2. job' = [job EXCEPT ![p] = j] /\ UNCHANGED <<file, stamp, keysLock, truth, secrets>>
        /\ Loaded(p)
    BY <1>6 DEF Probe
  <2>3. KeyAtItsAddress'
    BY <1>4, <1>6 DEF Probe
  <2> HIDE DEF c
  <2>4. j \in Job /\ j.at = "lock" /\ j.op # "idle"
    BY <2>1, NoJobType DEF Job
  <2> HIDE DEF j
  <2>5. job' \in [Processes -> Job] /\ JobsWork' /\ UnderLock'
    BY <2>2, <2>4, JobOutside
  <2>6. cache' \in [Processes -> Cache] /\ CachesPast' /\ CacheHonest'
    BY <2>2, LoadedHonest
  <2>7. QED
    BY <2>2, <2>3, <2>5, <2>6 DEF KeyInv, JobsOK, Serialized
<1>7. ASSUME NEW p \in Processes, LockAndRead(p) PROVE KeyInv'
  <2> DEFINE j == [job[p] EXCEPT !.at = "edit", !.seen = file]
  <2>1. j \in Job /\ j.seen = file /\ j.op = job[p].op
    BY DEF KeyInv, JobsOK, Job
  <2>2. job' = [job EXCEPT ![p] = j] /\ keysLock = Nobody /\ keysLock' = p
        /\ UNCHANGED <<file, stamp, cache, sent, secrets, truth>>
    BY <1>7 DEF LockAndRead
  <2> HIDE DEF j
  <2>3. job' \in [Processes -> Job] /\ \A q \in Processes : job'[q] = IF q = p THEN j ELSE job[q]
    BY <2>1, <2>2 DEF KeyInv, JobsOK
  <2>4. \A q \in Processes : job[q].at \notin {"edit", "published"}
    BY <2>2 DEF KeyInv, UnderLock, KeyAssumption, Nobody
  <2>5. UnderLock' /\ JobsWork'
    BY <1>7, <2>1, <2>2, <2>3, <2>4 DEF LockAndRead, UnderLock, KeyInv, JobsWork
  <2>6. QED
    BY <2>2, <2>3, <2>5 DEF KeyInv, JobsOK, CachesPast, Serialized, CacheHonest, KeyAtItsAddress
<1>8. ASSUME NEW p \in Processes, KeysBusy(p) PROVE KeyInv'
  <2>1. job' \in [Processes -> Job] /\ JobsWork' /\ UnderLock'
    BY <1>8, NoJobType, JobOutside DEF KeysBusy
  <2>2. QED
    BY <1>8, <2>1 DEF KeysBusy, KeyInv, JobsOK, CachesPast, Serialized, CacheHonest, KeyAtItsAddress
<1>9. ASSUME NEW p \in Processes, Refused(p) PROVE KeyInv'
  <2>1. job' \in [Processes -> Job] /\ JobsWork' /\ UnderLock'
    BY <1>9, NoJobType, JobOutside DEF Refused
  <2>2. QED
    BY <1>9, <2>1 DEF Refused, KeyInv, JobsOK, CachesPast, Serialized, CacheHonest, KeyAtItsAddress
<1>10. ASSUME NEW p \in Processes, PublishKeys(p) PROVE KeyInv'
  <2> DEFINE e == Edit(job[p].seen, job[p])
             j == [job[p] EXCEPT !.at = "published", !.seen = e]
  <2>1. job[p] \in Job /\ job[p].seen = file /\ keysLock = p /\ file = truth
    BY <1>10 DEF PublishKeys, KeyInv, UnderLock, JobsOK, Serialized
  <2>2. job[p].op # "idle"
    BY <1>10 DEF PublishKeys, KeyInv, JobsWork
  <2>3. e \in File
    BY <2>1, <2>2, EditType DEF Job
  <2>4. job' = [job EXCEPT ![p] = j] /\ file' = e /\ truth' = e /\ stamp < MaxPublished
        /\ stamp' = stamp + 1 /\ cache' = [cache EXCEPT ![p] = NoCache]
        /\ UNCHANGED <<keysLock, sent, secrets>>
    BY <1>10, <2>1 DEF PublishKeys
  <2> HIDE DEF e
  <2>5. j \in Job /\ j.seen = file' /\ j.op = job[p].op
    BY <2>1, <2>3, <2>4 DEF Job
  <2> HIDE DEF j
  <2>6. job' \in [Processes -> Job] /\ \A q \in Processes : job'[q] = IF q = p THEN j ELSE job[q]
    BY <2>4, <2>5 DEF KeyInv, JobsOK
  <2>7. UnderLock' /\ JobsWork'
    BY <2>1, <2>2, <2>4, <2>5, <2>6 DEF KeyInv, UnderLock, JobsWork
  <2>8. cache' \in [Processes -> Cache] /\ CachesPast' /\ CacheHonest' /\ stamp' \in 0..MaxPublished
    BY <2>4, NoCacheType DEF KeyInv, JobsOK, CachesPast, CacheHonest, Cache, KeyAssumption
  <2>9. QED
    BY <2>3, <2>4, <2>6, <2>7, <2>8 DEF KeyInv, JobsOK, Serialized, KeyAtItsAddress
<1>11. ASSUME NEW p \in Processes, PublishKeysFails(p) PROVE KeyInv'
  <2>1. job' \in [Processes -> Job] /\ JobsWork' /\ UnderLock'
    BY <1>11, NoJobType, JobOutside DEF PublishKeysFails
  <2>2. cache' \in [Processes -> Cache] /\ CachesPast' /\ CacheHonest'
    BY <1>11, DroppedHonest DEF PublishKeysFails
  <2>3. QED
    BY <1>11, <2>1, <2>2 DEF PublishKeysFails, KeyInv, JobsOK, Serialized, KeyAtItsAddress
<1>12. ASSUME NEW p \in Processes, Recache(p) PROVE KeyInv'
  <2> DEFINE new == [valid |-> TRUE, stamp |-> stamp, profiles |-> job[p].seen]
  <2>1. new \in Cache /\ new.stamp = stamp /\ new.profiles = file
    BY <1>12 DEF Recache, KeyInv, JobsOK, UnderLock, Cache
  <2>2. cache' = [cache EXCEPT ![p] = new]
    BY <1>12 DEF Recache
  <2>3. job' \in [Processes -> Job] /\ JobsWork' /\ UnderLock'
    BY <1>12, NoJobType, JobOutside DEF Recache
  <2> HIDE DEF new
  <2>4. cache' \in [Processes -> Cache] /\ CachesPast' /\ CacheHonest'
    <3>1. cache' \in [Processes -> Cache]
          /\ \A q \in Processes : cache'[q] = IF q = p THEN new ELSE cache[q]
      BY <2>1, <2>2 DEF KeyInv, JobsOK
    <3>2. file' = file /\ stamp' = stamp /\ stamp \in Nat
      BY <1>12 DEF Recache, KeyInv, JobsOK
    <3>3. QED
      BY <2>1, <3>1, <3>2 DEF KeyInv, CachesPast, CacheHonest
  <2>5. QED
    BY <1>12, <2>3, <2>4 DEF Recache, KeyInv, JobsOK, Serialized, KeyAtItsAddress
<1>13. ASSUME NEW p \in Processes, Kill(p) PROVE KeyInv'
  <2>1. job' \in [Processes -> Job] /\ JobsWork' /\ UnderLock' /\ keysLock' \in Processes \union {Nobody}
    BY <1>13, NoJobType, JobOutside DEF Kill
  <2>2. cache' \in [Processes -> Cache] /\ CachesPast' /\ CacheHonest'
    BY <1>13, DroppedHonest DEF Kill
  <2>3. QED
    BY <1>13, <2>1, <2>2 DEF Kill, KeyInv, JobsOK, Serialized, KeyAtItsAddress
<1>14. CASE UNCHANGED keyVars
  BY <1>14 DEF keyVars, KeyInv, JobsOK, JobsWork, UnderLock, CachesPast,
               Serialized, CacheHonest, KeyAtItsAddress
<1>15. QED
  BY <1>1, <1>2, <1>3, <1>5, <1>6, <1>7, <1>8, <1>9, <1>10, <1>11, <1>12, <1>13, <1>14 DEF KeyNext

\* For any processes, profiles, addresses and numbers of edits and kills, every
\* change of keys.json is one atomic step, no cache that is used is outdated, and
\* a saved key is sent to the address it was entered for only (keys.go).
THEOREM KeysHonestAlways == ASSUME KeyAssumption PROVE KeySpec => []KeysHonest
<1>1. KeyInv => KeysHonest
  BY DEF KeyInv, KeysHonest, KeyTypeOK, JobsOK, CachesPast, Job, File
<1>2. QED
  BY <1>1, KeyInitInv, KeyNextInv, PTL DEF KeySpec

-----------------------------------------------------------------------------
(* Work of a channel Run goes on under its grant, in its space.               *)
(*                                                                            *)
(* What makes it inductive: telegramMu is held from the second check of the   *)
(* grant to the saved record of the command, spaces are numbered and never    *)
(* made again, and a Run of the current space is not of a later revision      *)
(* than the grant.                                                            *)

Live == {"frozen", "running", "checked", "launch", "ending", "done", "sending"}

\* The conversation is in the target's space or Local, and spaces are numbered.
ChatPlaced == chat \in {0, space} /\ space <= spaces

\* The frozen Run of a channel requester came from a space, that is not made again;
\* in the same space its revision is not of the future.
FromASpace ==
  \A r \in Runs : run[r].entry = "chat" /\ (run[r].pc \in Live \/ command[r] # "none") =>
    /\ run[r].space \in 1..spaces
    /\ run[r].space = space => run[r].rev <= grant.rev

\* A command belongs to a Run that was created.
CommandsOfRuns == \A r \in Runs : command[r] # "none" => run[r].pc \notin {"none", "received", "frozen"}

\* telegramMu is held while a command of a channel Run starts, under its grant,
\* and while a reply goes out.
MutexHeld ==
  \A r \in Runs :
    /\ run[r].entry = "chat" /\ run[r].pc = "launch" => mu = r /\ Granted(r)
    /\ run[r].entry = "chat" => run[r].pc # "ending"
    /\ run[r].pc = "sending" => mu = r

\* Only while a changed grant is enforced may a command be without it.
GrantedOrStopping ==
  mu # "admin" => \A r \in Runs :
    run[r].entry = "chat" /\ command[r] = "running" => Granted(r) \/ r \in missed

\* A Run that lost its grant is of an older revision, or of a space that is gone.
RevokedIsOld ==
  \A r \in Runs : revoked[r] =>
    /\ run[r].pc \notin {"none", "received"}
    /\ run[r].entry = "chat" /\ run[r].pc \in Live =>
         run[r].space # space \/ run[r].rev < grant.rev

AccessInv ==
  /\ AccessTypeOK /\ ChatPlaced /\ FromASpace /\ CommandsOfRuns /\ MutexHeld
  /\ GrantedOrStopping /\ RunInItsSpace /\ RevokedIsOld
-----------------------------------------------------------------------------
LEMMA TopMode == ASSUME AccessAssumption PROVE Max(Modes) \in Modes /\ 0 \in Modes
<1>1. PICK n \in Nat : Modes = 0..n
  BY DEF AccessAssumption
<1>2. n \in Modes /\ \A y \in Modes : n >= y
  BY <1>1
<1>3. QED
  BY <1>1, <1>2 DEF Max

LEMMA LesserMode ==
  ASSUME AccessAssumption, NEW a \in Modes, NEW b \in Modes
  PROVE  Min({a}) \in Modes /\ Min({a, b}) \in Modes
<1>1. a \in Nat /\ b \in Nat
  BY DEF AccessAssumption
<1>2. \E x \in {a} : \A y \in {a} : x =< y
  BY <1>1
<1>3. \E x \in {a, b} : \A y \in {a, b} : x =< y
  BY <1>1
<1>4. Min({a}) \in {a} /\ Min({a, b}) \in {a, b}
  BY <1>2, <1>3 DEF Min
<1>5. QED
  BY <1>4

\* What is frozen for a Run is a permission.
LEMMA FrozenMode ==
  ASSUME AccessAssumption, AccessTypeOK, NEW entry \in {"chat", "owner", "public"}
  PROVE  Min({SpacePermission(chat)} \cup (IF entry = "chat" THEN {person} ELSE {})
                                     \cup (IF entry = "public" THEN {ceiling} ELSE {})) \in Modes
<1> DEFINE p == SpacePermission(chat)
<1>1. p \in Modes /\ person \in Modes /\ ceiling \in Modes
  BY TopMode DEF AccessTypeOK, SpacePermission
<1> HIDE DEF p
<1>2. CASE entry = "chat"
  <2>1. {p} \cup (IF entry = "chat" THEN {person} ELSE {})
            \cup (IF entry = "public" THEN {ceiling} ELSE {}) = {p, person}
    BY <1>2
  <2>2. QED
    BY <1>1, <2>1, LesserMode DEF p
<1>3. CASE entry = "public"
  <2>1. {p} \cup (IF entry = "chat" THEN {person} ELSE {})
            \cup (IF entry = "public" THEN {ceiling} ELSE {}) = {p, ceiling}
    BY <1>3
  <2>2. QED
    BY <1>1, <2>1, LesserMode DEF p
<1>4. CASE entry = "owner"
  <2>1. {p} \cup (IF entry = "chat" THEN {person} ELSE {})
            \cup (IF entry = "public" THEN {ceiling} ELSE {}) = {p}
    BY <1>4
  <2>2. QED
    BY <1>1, <2>1, LesserMode DEF p
<1>5. QED
  BY <1>2, <1>3, <1>4

LEMMA NoRunType ==
  ASSUME AccessAssumption
  PROVE  NoRun \in [pc : Pcs, entry : {"chat", "owner", "public"}, space : 0..MaxSpaces,
                    mode : Modes, rev : 0..MaxRevision]
BY TopMode DEF NoRun, Pcs, AccessAssumption

LEMMA AccessInitInv == ASSUME AccessAssumption, AccessInit PROVE AccessInv
<1>1. NoRun \in [pc : Pcs, entry : {"chat", "owner", "public"}, space : 0..MaxSpaces,
                 mode : Modes, rev : 0..MaxRevision]
  BY TopMode DEF NoRun, Pcs, AccessAssumption
<1>2. AccessTypeOK
  BY <1>1, TopMode DEF AccessInit, AccessTypeOK, AccessAssumption
<1>3. ChatPlaced /\ FromASpace /\ CommandsOfRuns /\ MutexHeld
  BY <1>2 DEF AccessInit, ChatPlaced, FromASpace, CommandsOfRuns, MutexHeld, NoRun, Live
<1>4. GrantedOrStopping /\ RunInItsSpace /\ RevokedIsOld
  BY <1>2 DEF AccessInit, GrantedOrStopping, RunInItsSpace, RevokedIsOld, NoRun
<1>5. QED
  BY <1>2, <1>3, <1>4 DEF AccessInv

\* A Run that goes on to another point keeps what was frozen.
LEMMA ToType ==
  ASSUME AccessTypeOK, NEW r \in Runs, NEW next \in Pcs, To(r, next)
  PROVE  /\ run' \in [Runs -> [pc : Pcs, entry : {"chat", "owner", "public"}, space : 0..MaxSpaces,
                                mode : Modes, rev : 0..MaxRevision]]
         /\ \A q \in Runs : /\ run'[q].pc = IF q = r THEN next ELSE run[q].pc
                            /\ run'[q].entry = run[q].entry /\ run'[q].space = run[q].space
                            /\ run'[q].mode = run[q].mode /\ run'[q].rev = run[q].rev
<1> DEFINE n == [run[r] EXCEPT !.pc = next]
<1>1. n \in [pc : Pcs, entry : {"chat", "owner", "public"}, space : 0..MaxSpaces,
             mode : Modes, rev : 0..MaxRevision]
      /\ n.pc = next /\ n.entry = run[r].entry /\ n.space = run[r].space /\ n.mode = run[r].mode
      /\ n.rev = run[r].rev
  BY DEF AccessTypeOK
<1>2. run' = [run EXCEPT ![r] = n]
  BY DEF To, Set
<1> HIDE DEF n
<1>3. \A q \in Runs : run'[q] = IF q = r THEN n ELSE run[q]
  BY <1>2 DEF AccessTypeOK
<1>4. run' \in [Runs -> [pc : Pcs, entry : {"chat", "owner", "public"}, space : 0..MaxSpaces,
                         mode : Modes, rev : 0..MaxRevision]]
  BY <1>1, <1>2 DEF AccessTypeOK
<1>5. ASSUME NEW q \in Runs
      PROVE  /\ run'[q].pc = IF q = r THEN next ELSE run[q].pc
             /\ run'[q].entry = run[q].entry /\ run'[q].space = run[q].space
             /\ run'[q].mode = run[q].mode /\ run'[q].rev = run[q].rev
  <2>1. CASE q = r
    BY <1>1, <1>3, <2>1
  <2>2. CASE q # r
    BY <1>3, <2>2
  <2>3. QED
    BY <2>1, <2>2
<1>6. QED
  BY <1>4, <1>5

\* A Run that goes on, starts nothing and holds no mutex disturbs nothing.
LEMMA GoesOn ==
  ASSUME AccessAssumption, AccessInv, NEW r \in Runs, NEW next \in {"running", "checked", "done", "over"}, To(r, next),
         run[r].pc \in Live \/ next = "over",
         next = "checked" => run[r].space = chat,
         run[r].pc = "sending" => mu' = "free", run[r].pc # "sending" => mu' = mu,
         UNCHANGED <<perm, person, ceiling, space, spaces, chat, grant, command, reducer, revoked, missed>>
  PROVE  AccessInv'
<1>1. next \in Pcs
  BY DEF Pcs
<1>2. AccessTypeOK /\ mu' \in Runs \cup {"free", "admin"}
  BY DEF AccessInv, AccessTypeOK
<1>3. AccessTypeOK'
  BY <1>1, <1>2, ToType DEF AccessTypeOK
<1>4. \A q \in Runs : /\ run'[q].pc = IF q = r THEN next ELSE run[q].pc
                      /\ run'[q].entry = run[q].entry /\ run'[q].space = run[q].space
                      /\ run'[q].mode = run[q].mode /\ run'[q].rev = run[q].rev
                      /\ command'[q] = command[q] /\ revoked'[q] = revoked[q]
                      /\ (Granted(q)' <=> Granted(q))
  <2>1. \A q \in Runs : /\ run'[q].pc = IF q = r THEN next ELSE run[q].pc
                        /\ run'[q].entry = run[q].entry /\ run'[q].space = run[q].space
                        /\ run'[q].mode = run[q].mode /\ run'[q].rev = run[q].rev
    BY <1>1, <1>2, ToType
  <2>2. QED
    BY <2>1 DEF Granted
<1>5. ChatPlaced' /\ FromASpace'
  BY <1>4 DEF AccessInv, ChatPlaced, FromASpace, Live
<1>6. CommandsOfRuns' /\ RunInItsSpace'
  BY <1>4 DEF AccessInv, CommandsOfRuns, RunInItsSpace
<1>7. MutexHeld'
  BY <1>4 DEF AccessInv, MutexHeld
<1>8. GrantedOrStopping'
  BY <1>4 DEF AccessInv, AccessAssumption, GrantedOrStopping, MutexHeld
<1>9. RevokedIsOld'
  BY <1>4 DEF AccessInv, RevokedIsOld, Live
<1>10. QED
  BY <1>3, <1>5, <1>6, <1>7, <1>8, <1>9 DEF AccessInv

\* A Run that is new, or that is frozen where its conversation is, disturbs nothing.
LEMMA Fresh ==
  ASSUME AccessAssumption, AccessInv, NEW r \in Runs,
         NEW n \in [pc : Pcs, entry : {"chat", "owner", "public"}, space : 0..MaxSpaces,
                    mode : Modes, rev : 0..MaxRevision],
         run[r].pc \in {"none", "received"}, run' = [run EXCEPT ![r] = n],
         n.pc = "received" \/ n.pc = "frozen",
         n.pc = "frozen" /\ n.entry = "chat" =>
           n.space = chat /\ chat = space /\ space # 0 /\ n.rev = grant.rev,
         UNCHANGED <<perm, person, ceiling, space, spaces, chat, grant, command, mu, reducer, revoked, missed>>
  PROVE  AccessInv'
<1>1. command[r] = "none" /\ ~revoked[r]
  BY DEF AccessInv, CommandsOfRuns, RevokedIsOld
<1>2. \A q \in Runs : run'[q] = IF q = r THEN n ELSE run[q]
  BY DEF AccessInv, AccessTypeOK
<1>3. AccessTypeOK'
  BY DEF AccessInv, AccessTypeOK
<1>4. space <= spaces /\ space \in Nat /\ spaces \in Nat /\ grant.rev \in Nat
  BY DEF AccessInv, AccessTypeOK, ChatPlaced, AccessAssumption
<1>5. \A q \in Runs : q # r => (Granted(q)' <=> Granted(q))
  BY <1>2 DEF Granted
<1>6. ChatPlaced' /\ FromASpace'
  BY <1>1, <1>2, <1>4 DEF AccessInv, ChatPlaced, FromASpace, Live
<1>7. CommandsOfRuns' /\ RunInItsSpace'
  BY <1>1, <1>2 DEF AccessInv, CommandsOfRuns, RunInItsSpace
<1>8. MutexHeld' /\ GrantedOrStopping'
  BY <1>1, <1>2, <1>5 DEF AccessInv, MutexHeld, GrantedOrStopping
<1>9. RevokedIsOld'
  BY <1>1, <1>2 DEF AccessInv, RevokedIsOld, Live
<1>10. QED
  BY <1>3, <1>6, <1>7, <1>8, <1>9 DEF AccessInv

\* Commands that end or are asked to stop disturb nothing.
LEMMA CommandsChange ==
  ASSUME AccessInv, command' \in [Runs -> {"none", "running", "stopping"}],
         \A q \in Runs : \/ command'[q] \in {command[q], "none"}
                         \/ command[q] = "running" /\ command'[q] = "stopping",
         reducer' \in {"idle", reducer},
         UNCHANGED <<perm, person, ceiling, space, spaces, chat, grant, run, mu, revoked, missed>>
  PROVE  AccessInv'
<1>1. AccessTypeOK'
  BY DEF AccessInv, AccessTypeOK
<1>2. \A q \in Runs : (command'[q] # "none" => command[q] # "none")
                      /\ (command'[q] = "running" => command[q] = "running")
  OBVIOUS
<1>3. QED
  BY <1>1, <1>2 DEF AccessInv, ChatPlaced, FromASpace, CommandsOfRuns, MutexHeld,
                    GrantedOrStopping, RunInItsSpace, RevokedIsOld, Granted

LEMMA AccessNextInv == ASSUME AccessAssumption, AccessInv, [AccessNext]_accessVars PROVE AccessInv'
<1>1. ASSUME NEW r \in Runs, CheckRun(r) PROVE AccessInv'
  <2>1. PICK next \in {"checked", "over"} : To(r, next) /\ (next = "checked" => Valid(r))
    BY <1>1 DEF CheckRun
  <2>2. QED
    BY <1>1, <2>1, GoesOn DEF CheckRun, Live, Valid
<1>2. ASSUME NEW r \in Runs, DispatchCall(r) PROVE AccessInv'
  BY <1>2, GoesOn DEF DispatchCall, Live
<1>3. ASSUME NEW r \in Runs, Finish(r) PROVE AccessInv'
  BY <1>3, GoesOn DEF Finish, Live
<1>4. ASSUME NEW r \in Runs, Sent(r) PROVE AccessInv'
  BY <1>4, GoesOn DEF Sent, Live
<1>5. ASSUME NEW r \in Runs, Create(r) PROVE AccessInv'
  BY <1>5, GoesOn DEF Create, Live
<1>6. ASSUME NEW r \in Runs, Receive(r) PROVE AccessInv'
  <2> DEFINE n == [NoRun EXCEPT !.pc = "received", !.entry = "chat", !.rev = grant.rev]
  <2>1. n \in [pc : Pcs, entry : {"chat", "owner", "public"}, space : 0..MaxSpaces,
               mode : Modes, rev : 0..MaxRevision] /\ n.pc = "received"
    <3>1. grant.rev \in 0..MaxRevision /\ "received" \in Pcs
      BY DEF AccessInv, AccessTypeOK, Pcs
    <3>2. QED
      BY <3>1, NoRunType
  <2>2. run[r].pc = "none" /\ run' = [run EXCEPT ![r] = n]
        /\ UNCHANGED <<perm, person, ceiling, space, spaces, chat, grant, command, mu, reducer, revoked, missed>>
    BY <1>6 DEF Receive, Set
  <2> HIDE DEF n
  <2>3. QED
    BY <2>1, <2>2, Fresh
<1>7. ASSUME NEW r \in Runs, Resolve(r) PROVE AccessInv'
  <2>1. CASE To(r, "over")
    BY <1>7, <2>1, GoesOn DEF Resolve
  <2>2. ASSUME NEW entry \in {"chat", "owner", "public"}, NEW rev \in 0..MaxRevision,
               Frozen(r, entry, rev), entry = "chat" => chat = space /\ Granted(r) /\ rev = run[r].rev
        PROVE  AccessInv'
    <3> DEFINE m == Min({SpacePermission(chat)} \cup (IF entry = "chat" THEN {person} ELSE {})
                                          \cup (IF entry = "public" THEN {ceiling} ELSE {}))
               n == [pc |-> "frozen", entry |-> entry, space |-> chat, rev |-> rev, mode |-> m]
    <3>1. m \in Modes
      BY FrozenMode DEF AccessInv
    <3>2. run' = [run EXCEPT ![r] = n]
      BY <2>2 DEF Frozen, Set
    <3> HIDE DEF m
    <3>3. n \in [pc : Pcs, entry : {"chat", "owner", "public"}, space : 0..MaxSpaces,
                 mode : Modes, rev : 0..MaxRevision]
          /\ n.pc = "frozen" /\ n.entry = entry /\ n.space = chat /\ n.rev = rev
      BY <3>1 DEF Pcs, AccessInv, AccessTypeOK
    <3> HIDE DEF n
    <3>4. QED
      BY <1>7, <2>2, <3>2, <3>3, Fresh DEF Resolve, Granted
  <2>3. QED
    <3>1. CASE run[r].pc = "received" /\ chat = space /\ Granted(r) /\ Frozen(r, "chat", run[r].rev)
      BY <2>2, <3>1 DEF AccessInv, AccessTypeOK
    <3>2. ASSUME NEW entry \in {"owner", "public"},
                 Frozen(r, entry, IF chat = space /\ grant.enabled THEN grant.rev ELSE 0)
          PROVE  AccessInv'
      <4>1. (IF chat = space /\ grant.enabled THEN grant.rev ELSE 0) \in 0..MaxRevision
        BY DEF AccessInv, AccessTypeOK, AccessAssumption
      <4>2. QED
        BY <2>2, <3>2, <4>1
    <3>3. QED
      BY <1>7, <2>1, <3>1, <3>2 DEF Resolve
<1>8. ASSUME NEW r \in Runs, Launch(r) PROVE AccessInv'
  <2>1. CASE Locks(r) /\ ~Granted(r)
    BY <1>8, <2>1, GoesOn DEF Launch, Live
  <2>2. CASE ~(Locks(r) /\ ~Granted(r))
    <3>1. run[r].pc = "checked" /\ command[r] = "none" /\ To(r, "launch")
          /\ (run[r].entry = "chat" => mu = "free" /\ mu' = r /\ Granted(r))
          /\ (run[r].entry # "chat" => mu' = mu)
          /\ UNCHANGED <<perm, person, ceiling, space, spaces, chat, grant, command, reducer, revoked, missed>>
      BY <1>8, <2>2 DEF Launch, Locks
    <3>2. \A q \in Runs : /\ run'[q].pc = IF q = r THEN "launch" ELSE run[q].pc
                          /\ run'[q].entry = run[q].entry /\ run'[q].space = run[q].space
                          /\ run'[q].mode = run[q].mode /\ run'[q].rev = run[q].rev
      BY <3>1, ToType DEF AccessInv, Pcs
    <3>3. AccessTypeOK'
      BY <3>1, ToType DEF AccessInv, AccessTypeOK, Pcs
    <3>4. \A q \in Runs : Granted(q)' <=> Granted(q)
      BY <3>1, <3>2 DEF Granted
    <3>5. ChatPlaced' /\ FromASpace'
      BY <3>1, <3>2 DEF AccessInv, ChatPlaced, FromASpace, Live
    <3>6. CommandsOfRuns' /\ RunInItsSpace'
      BY <3>1, <3>2 DEF AccessInv, CommandsOfRuns, RunInItsSpace
    <3>7. MutexHeld'
      <4>1. "free" \notin Runs
        BY DEF AccessAssumption
      <4>2. QED
        BY <3>1, <3>2, <3>4, <4>1 DEF AccessInv, MutexHeld
    <3>8. GrantedOrStopping'
      BY <3>1, <3>2, <3>4 DEF AccessInv, GrantedOrStopping
    <3>9. RevokedIsOld'
      BY <3>1, <3>2 DEF AccessInv, RevokedIsOld, Live
    <3>10. QED
      BY <3>3, <3>5, <3>6, <3>7, <3>8, <3>9 DEF AccessInv
  <2>3. QED
    BY <2>1, <2>2
<1>9. ASSUME NEW r \in Runs, CommandStarted(r) PROVE AccessInv'
  <2>1. PICK next \in {"running", "over"} : To(r, next)
    BY <1>9 DEF CommandStarted
  <2>2. run[r].pc \in {"launch", "ending"} /\ command' = [command EXCEPT ![r] = "running"]
        /\ mu' = (IF mu = r THEN "free" ELSE mu)
        /\ UNCHANGED <<perm, person, ceiling, space, spaces, chat, grant, reducer, revoked, missed>>
    BY <1>9 DEF CommandStarted
  <2>3. \A q \in Runs : /\ run'[q].pc = IF q = r THEN next ELSE run[q].pc
                        /\ run'[q].entry = run[q].entry /\ run'[q].space = run[q].space
                        /\ run'[q].mode = run[q].mode /\ run'[q].rev = run[q].rev
    BY <2>1, ToType DEF AccessInv, Pcs
  <2>4. \A q \in Runs : command'[q] = IF q = r THEN "running" ELSE command[q]
    BY <2>2 DEF AccessInv, AccessTypeOK
  <2>5. AccessTypeOK'
    <3>1. command' \in [Runs -> {"none", "running", "stopping"}] /\ mu' \in Runs \cup {"free", "admin"}
      BY <2>2 DEF AccessInv, AccessTypeOK
    <3>2. QED
      BY <2>1, <2>2, <3>1, ToType DEF AccessInv, AccessTypeOK, Pcs
  <2>6. \A q \in Runs : Granted(q)' <=> Granted(q)
    BY <2>2, <2>3 DEF Granted
  <2>7. ChatPlaced' /\ FromASpace'
    BY <2>2, <2>3, <2>4 DEF AccessInv, ChatPlaced, FromASpace, Live
  <2>8. CommandsOfRuns' /\ RunInItsSpace'
    BY <2>2, <2>3, <2>4 DEF AccessInv, CommandsOfRuns, RunInItsSpace
  <2>9. MutexHeld'
    <3>1. ASSUME NEW q \in Runs, q # r, mu = q PROVE mu' = q
      BY <2>2, <3>1
    <3>2. QED
      BY <2>2, <2>3, <2>6, <3>1 DEF AccessInv, MutexHeld
  <2>10. GrantedOrStopping'
    <3>1. run[r].entry = "chat" => Granted(r) /\ mu # "admin"
      BY <2>2 DEF AccessInv, MutexHeld, AccessAssumption
    <3>2. mu' # "admin" => mu # "admin"
      BY <2>2 DEF AccessAssumption
    <3>3. QED
      BY <2>2, <2>3, <2>4, <2>6, <3>1, <3>2 DEF AccessInv, GrantedOrStopping
  <2>11. RevokedIsOld'
    BY <2>2, <2>3 DEF AccessInv, RevokedIsOld, Live
  <2>12. QED
    BY <2>5, <2>7, <2>8, <2>9, <2>10, <2>11 DEF AccessInv
<1>10. ASSUME NEW r \in Runs, Send(r) PROVE AccessInv'
  <2>1. CASE To(r, "over") /\ UNCHANGED mu
    BY <1>10, <2>1, GoesOn DEF Send
  <2>2. CASE To(r, "sending") /\ mu' = r
    <3>1. run[r].pc = "done" /\ mu = "free"
          /\ UNCHANGED <<perm, person, ceiling, space, spaces, chat, grant, command, reducer, revoked, missed>>
      BY <1>10 DEF Send
    <3>2. \A q \in Runs : /\ run'[q].pc = IF q = r THEN "sending" ELSE run[q].pc
                          /\ run'[q].entry = run[q].entry /\ run'[q].space = run[q].space
                          /\ run'[q].mode = run[q].mode /\ run'[q].rev = run[q].rev
      BY <2>2, ToType DEF AccessInv, Pcs
    <3>3. AccessTypeOK'
      BY <2>2, <3>1, ToType DEF AccessInv, AccessTypeOK, Pcs
    <3>4. \A q \in Runs : Granted(q)' <=> Granted(q)
      BY <3>1, <3>2 DEF Granted
    <3>5. ChatPlaced' /\ FromASpace'
      BY <3>1, <3>2 DEF AccessInv, ChatPlaced, FromASpace, Live
    <3>6. CommandsOfRuns' /\ RunInItsSpace'
      BY <3>1, <3>2 DEF AccessInv, CommandsOfRuns, RunInItsSpace
    <3>7. MutexHeld' /\ GrantedOrStopping'
      <4>1. "free" \notin Runs
        BY DEF AccessAssumption
      <4>2. QED
        BY <2>2, <3>1, <3>2, <3>4, <4>1 DEF AccessInv, MutexHeld, GrantedOrStopping
    <3>8. RevokedIsOld'
      BY <3>1, <3>2 DEF AccessInv, RevokedIsOld, Live
    <3>9. QED
      BY <3>3, <3>5, <3>6, <3>7, <3>8 DEF AccessInv
  <2>3. QED
    BY <1>10, <2>1, <2>2 DEF Send
<1>11. ASSUME NEW r \in Runs, CommandExits(r) PROVE AccessInv'
  <2>1. command' \in [Runs -> {"none", "running", "stopping"}]
        /\ \A q \in Runs : command'[q] = command[q] \/ command'[q] = "none"
    BY <1>11 DEF CommandExits, AccessInv, AccessTypeOK
  <2>2. UNCHANGED <<perm, person, ceiling, space, spaces, chat, grant, run, mu, reducer, revoked, missed>>
    BY <1>11 DEF CommandExits
  <2>3. QED
    BY <2>1, <2>2, CommandsChange
<1>12. CASE StopCommands
  <2>1. command' \in [Runs -> {"none", "running", "stopping"}]
        /\ \A q \in Runs : command'[q] = command[q] \/ (command[q] = "running" /\ command'[q] = "stopping")
    BY <1>12 DEF StopCommands, Stopped, AccessInv, AccessTypeOK
  <2>2. UNCHANGED <<perm, person, ceiling, space, spaces, chat, grant, run, mu, revoked, missed>>
        /\ reducer' = "idle"
    BY <1>12 DEF StopCommands
  <2>3. QED
    BY <2>1, <2>2, CommandsChange
<1>13. ASSUME NEW kind \in {"space", "person", "public"}, NEW m \in Modes, SavePermission(kind, m)
       PROVE  AccessInv'
  <2>1. perm' \in Modes /\ person' \in Modes /\ ceiling' \in Modes
        /\ reducer' \in {"idle", "space", "person", "public"}
        /\ UNCHANGED <<space, spaces, chat, grant, run, command, mu, revoked, missed>>
    BY <1>13 DEF SavePermission, AccessInv, AccessTypeOK
  <2>2. QED
    BY <2>1 DEF AccessInv, AccessTypeOK, ChatPlaced, FromASpace, CommandsOfRuns, MutexHeld,
                GrantedOrStopping, RunInItsSpace, RevokedIsOld, Granted
<1>14. ASSUME NEW enabled \in BOOLEAN, ChangeGrant(enabled) PROVE AccessInv'
  <2> DEFINE g == [enabled |-> enabled, rev |-> grant.rev + 1]
  <2>1. g \in [enabled : BOOLEAN, rev : 0..MaxRevision] /\ g.rev = grant.rev + 1
    BY <1>14 DEF ChangeGrant, AccessInv, AccessTypeOK, AccessAssumption
  <2>2. /\ mu = "free" /\ mu' = "admin" /\ grant' = g
        /\ \/ space = 0 /\ spaces < MaxSpaces /\ spaces' = spaces + 1 /\ space' = spaces + 1 /\ perm' = 0
           \/ space # 0 /\ UNCHANGED <<space, spaces, perm>>
        /\ UNCHANGED <<person, ceiling, chat, run, command, reducer, missed>>
    BY <1>14 DEF ChangeGrant
  <2>3. /\ revoked' \in [Runs -> BOOLEAN]
        /\ \A q \in Runs : revoked'[q] <=> revoked[q] \/ run[q].pc \notin {"none", "received"}
    BY <1>14 DEF ChangeGrant, AccessInv, AccessTypeOK
  <2> HIDE DEF g
  <2>4. AccessTypeOK'
    BY <2>1, <2>2, <2>3, TopMode DEF AccessInv, AccessTypeOK, AccessAssumption
  <2>5. ChatPlaced'
    BY <2>2 DEF AccessInv, AccessTypeOK, ChatPlaced, AccessAssumption
  <2>6. FromASpace'
    BY <2>1, <2>2 DEF AccessInv, AccessTypeOK, FromASpace, AccessAssumption
  <2>7. CommandsOfRuns' /\ RunInItsSpace' /\ GrantedOrStopping'
    BY <2>2 DEF AccessInv, CommandsOfRuns, RunInItsSpace, GrantedOrStopping
  <2>8. MutexHeld'
    BY <2>2 DEF AccessInv, MutexHeld, AccessAssumption
  <2>9. RevokedIsOld'
    BY <2>1, <2>2, <2>3 DEF AccessInv, AccessTypeOK, RevokedIsOld, FromASpace, AccessAssumption
  <2>10. QED
    BY <2>4, <2>5, <2>6, <2>7, <2>8, <2>9 DEF AccessInv
<1>15. ASSUME NEW unstopped \in SUBSET Runs, GrantStops(unstopped) PROVE AccessInv'
  <2>1. mu = "admin" /\ mu' = "free" /\ missed' = missed \cup unstopped
        /\ command' = [q \in Runs |-> IF q \in unstopped THEN command[q] ELSE Stopped("space")[q]]
        /\ unstopped \subseteq {q \in Runs : Stopped("space")[q] # command[q]}
        /\ UNCHANGED <<perm, person, ceiling, space, spaces, chat, grant, reducer, revoked>>
    BY <1>15 DEF GrantStops
  <2>2. run' \in [Runs -> [pc : Pcs, entry : {"chat", "owner", "public"}, space : 0..MaxSpaces,
                           mode : Modes, rev : 0..MaxRevision]]
        /\ \A q \in Runs : /\ run'[q].entry = run[q].entry /\ run'[q].space = run[q].space
                           /\ run'[q].mode = run[q].mode /\ run'[q].rev = run[q].rev
                           /\ \/ run'[q].pc = run[q].pc
                              \/ run[q].pc \in {"launch", "ending"} /\ run'[q].pc = "ending"
                              \/ run[q].pc \in {"running", "checked"} /\ run'[q].pc = "over"
    <3>1. ASSUME NEW q \in Runs, q \in Active
          PROVE  LET n == [run[q] EXCEPT !.pc = IF @ \in {"launch", "ending"} THEN "ending" ELSE "over"]
                 IN /\ n \in [pc : Pcs, entry : {"chat", "owner", "public"}, space : 0..MaxSpaces,
                              mode : Modes, rev : 0..MaxRevision]
                    /\ n.entry = run[q].entry /\ n.space = run[q].space
                    /\ n.mode = run[q].mode /\ n.rev = run[q].rev
                    /\ \/ run[q].pc \in {"launch", "ending"} /\ n.pc = "ending"
                       \/ run[q].pc \in {"running", "checked"} /\ n.pc = "over"
      BY <3>1 DEF AccessInv, AccessTypeOK, Active, Pcs
    <3>2. run' = [q \in Runs |-> IF q \notin Active \/ chat # space THEN run[q]
            ELSE [run[q] EXCEPT !.pc = IF @ \in {"launch", "ending"} THEN "ending" ELSE "over"]]
      BY <1>15 DEF GrantStops
    <3>3. QED
      BY <3>1, <3>2 DEF AccessInv, AccessTypeOK
  <2>3. /\ command' \in [Runs -> {"none", "running", "stopping"}]
        /\ \A q \in Runs : /\ command'[q] = "none" <=> command[q] = "none"
                           /\ command'[q] = "running" =>
                                /\ command[q] = "running"
                                /\ q \in unstopped \/ ~(space # 0 /\ run[q].space = space)
    BY <2>1 DEF Stopped, AccessInv, AccessTypeOK
  <2>4. \A q \in Runs : Granted(q)' <=> Granted(q)
    BY <2>1, <2>2 DEF Granted
  <2>5. AccessTypeOK'
    BY <2>1, <2>2, <2>3 DEF AccessInv, AccessTypeOK
  <2>6. ChatPlaced' /\ FromASpace'
    BY <2>1, <2>2, <2>3 DEF AccessInv, ChatPlaced, FromASpace, Live
  <2>7. CommandsOfRuns' /\ RunInItsSpace'
    BY <2>1, <2>2, <2>3 DEF AccessInv, CommandsOfRuns, RunInItsSpace
  <2>8. MutexHeld'
    <3>1. mu = "admin" /\ mu' = "free" /\ "admin" \notin Runs
      BY <2>1 DEF AccessAssumption
    <3>2. QED
      BY <2>2, <2>4, <3>1 DEF AccessInv, MutexHeld
  <2>9. GrantedOrStopping'
    <3>1. ASSUME NEW q \in Runs, run'[q].entry = "chat", command'[q] = "running", q \notin unstopped
          PROVE  FALSE
      <4>1. run[q].entry = "chat" /\ command[q] = "running" /\ ~(space # 0 /\ run[q].space = space)
        BY <2>2, <2>3, <3>1
      <4>2. run[q].space = chat /\ run[q].space \in 1..spaces
        BY <4>1 DEF AccessInv, RunInItsSpace, FromASpace
      <4>3. chat # 0 /\ chat = space
        BY <4>2 DEF AccessInv, AccessTypeOK, ChatPlaced
      <4>4. QED
        BY <4>1, <4>2, <4>3
    <3>2. QED
      BY <2>1, <3>1 DEF GrantedOrStopping
  <2>10. RevokedIsOld'
    BY <2>1, <2>2 DEF AccessInv, RevokedIsOld, Live
  <2>11. QED
    BY <2>5, <2>6, <2>7, <2>8, <2>9, <2>10 DEF AccessInv
<1>16. ASSUME NEW to \in 0..MaxSpaces, Move(to) PROVE AccessInv'
  <2>1. chat' \in {0, space} /\ chat' \in 0..MaxSpaces
        /\ UNCHANGED <<perm, person, ceiling, space, spaces, grant, run, command, mu, reducer, revoked, missed>>
    BY <1>16 DEF Move
  <2>2. \A q \in Runs : run[q].pc \notin {"checked", "launch", "ending"} /\ command[q] = "none"
    BY <1>16 DEF Move, Quiet, Active, Busy
  <2>3. QED
    BY <2>1, <2>2 DEF AccessInv, AccessTypeOK, ChatPlaced, FromASpace, CommandsOfRuns, MutexHeld,
                      GrantedOrStopping, RunInItsSpace, RevokedIsOld, Granted
<1>17. CASE DeleteSpace
  <2>1. /\ space # 0 /\ space' = 0 /\ perm' = 0 /\ grant' = NoGrant
        /\ chat' = (IF chat = space THEN 0 ELSE chat)
        /\ UNCHANGED <<person, ceiling, spaces, run, command, mu, reducer, missed>>
    BY <1>17 DEF DeleteSpace
  <2>2. chat = space => \A q \in Runs : run[q].pc \notin {"checked", "launch", "ending"} /\ command[q] = "none"
    BY <1>17 DEF DeleteSpace, Quiet, Active, Busy
  <2>3. /\ revoked' \in [Runs -> BOOLEAN]
        /\ \A q \in Runs : revoked'[q] <=> revoked[q] \/ run[q].pc \notin {"none", "received"}
    BY <1>17 DEF DeleteSpace, AccessInv, AccessTypeOK
  <2>4. NoGrant \in [enabled : BOOLEAN, rev : 0..MaxRevision]
    BY DEF NoGrant, AccessAssumption
  <2>5. AccessTypeOK'
    BY <2>1, <2>3, <2>4, TopMode DEF AccessInv, AccessTypeOK, AccessAssumption
  <2>6. ChatPlaced' /\ CommandsOfRuns' /\ RunInItsSpace'
    BY <2>1, <2>2 DEF AccessInv, AccessTypeOK, ChatPlaced, CommandsOfRuns, RunInItsSpace, AccessAssumption
  <2>7. FromASpace' /\ RevokedIsOld'
    BY <2>1, <2>3 DEF AccessInv, AccessTypeOK, FromASpace, RevokedIsOld, AccessAssumption
  <2>8. ASSUME NEW q \in Runs, run[q].entry = "chat", run[q].pc = "launch" \/ command[q] # "none"
        PROVE  FALSE
    <3>1. run[q].space = chat /\ run[q].space \in 1..spaces
      BY <2>8 DEF AccessInv, RunInItsSpace, FromASpace, Live
    <3>2. chat = space
      BY <3>1 DEF AccessInv, AccessTypeOK, ChatPlaced
    <3>3. QED
      BY <2>2, <2>8, <3>2
  <2>9. MutexHeld' /\ GrantedOrStopping'
    BY <2>1, <2>8 DEF AccessInv, MutexHeld, GrantedOrStopping
  <2>10. QED
    BY <2>5, <2>6, <2>7, <2>9 DEF AccessInv
<1>18. CASE GrantAborted
  <2>1. /\ mu = "admin" /\ mu' = "free"
        /\ missed' = missed \cup {q \in Runs : run[q].entry = "chat" /\ command[q] = "running"}
        /\ UNCHANGED <<perm, person, ceiling, space, spaces, chat, grant, run, command, reducer, revoked>>
    BY <1>18 DEF GrantAborted
  <2>2. AccessTypeOK'
    BY <2>1 DEF AccessInv, AccessTypeOK
  <2>3. MutexHeld' /\ GrantedOrStopping'
    BY <2>1 DEF AccessInv, MutexHeld, GrantedOrStopping, AccessAssumption
  <2>4. QED
    BY <2>1, <2>2, <2>3 DEF AccessInv, ChatPlaced, FromASpace, CommandsOfRuns, RunInItsSpace,
                            RevokedIsOld, Granted
<1>19. CASE UNCHANGED accessVars
  BY <1>19 DEF accessVars, AccessInv, AccessTypeOK, ChatPlaced, FromASpace, CommandsOfRuns, MutexHeld,
               GrantedOrStopping, RunInItsSpace, RevokedIsOld, Granted
<1>20. QED
  BY <1>1, <1>2, <1>3, <1>4, <1>5, <1>6, <1>7, <1>8, <1>9, <1>10, <1>11, <1>12, <1>13, <1>14,
     <1>15, <1>16, <1>17, <1>18, <1>19 DEF AccessNext

\* For any Runs, permissions, spaces and changes of the grant: a command of a channel
\* Run is under its grant, is stopping, or is one a change of the grant itself failed to
\* stop, never one started after the change; and a Run dispatches in the space its
\* conversation is in (lockTelegramDispatch, applyTelegramAccess, MoveConversation,
\* checkCurrentPermission).
THEOREM UnderGrantAlways == ASSUME AccessAssumption PROVE AccessSpec => []UnderGrant
<1>1. AccessInv => UnderGrant
  BY DEF AccessInv, UnderGrant, CommandsUnderGrant, GrantedOrStopping
<1>2. QED
  BY <1>1, AccessInitInv, AccessNextInv, PTL DEF AccessSpec

\* A channel Run whose grant changed passes no check any more, whatever is granted
\* later and although revisions start again with a new space (checkTelegramRun).
THEOREM RevokedStays == ASSUME AccessAssumption PROVE AccessSpec => [][RevokedKept]_accessVars
<1>1. ASSUME AccessInv, NEW r \in Runs, run[r].pc = "running", run[r].entry = "chat",
             CheckRun(r), Valid(r)
      PROVE  ~revoked[r]
  <2>1. grant.rev = run[r].rev /\ chat = run[r].space
    BY <1>1 DEF Valid, Granted
  <2>2. run[r].space \in 1..spaces
    BY <1>1 DEF AccessInv, FromASpace, Live
  <2>3. chat = space
    BY <1>1, <2>1, <2>2 DEF AccessInv, AccessTypeOK, ChatPlaced
  <2>4. grant.rev \in Nat
    BY <1>1 DEF AccessInv, AccessTypeOK
  <2>5. ASSUME revoked[r] PROVE FALSE
    <3>1. run[r].space # space \/ run[r].rev < grant.rev
      BY <1>1, <2>5 DEF AccessInv, RevokedIsOld, Live
    <3>2. run[r].rev < grant.rev
      BY <2>1, <2>3, <3>1
    <3>3. QED
      BY <2>1, <2>4, <3>2
  <2>6. QED
    BY <2>5
<1>2. ASSUME AccessInv, AccessNext, NEW r \in Runs, run[r].pc = "running", run'[r].pc = "checked"
      PROVE  CheckRun(r) /\ Valid(r)
  <2>1. run \in [Runs -> [pc : Pcs, entry : {"chat", "owner", "public"}, space : 0..MaxSpaces,
                          mode : Modes, rev : 0..MaxRevision]]
    BY <1>2 DEF AccessInv, AccessTypeOK
  <2>2. ASSUME NEW q \in Runs, NEW n, Set(q, n), n.pc # "checked" PROVE FALSE
    BY <1>2, <2>1, <2>2 DEF Set
  <2>3. ASSUME NEW q \in Runs, NEW next, To(q, next), next # "checked" PROVE FALSE
    BY <1>2, <2>1, <2>3 DEF To, Set
  <2>4. ASSUME NEW q \in Runs, Receive(q) PROVE FALSE
    BY <2>2, <2>4 DEF Receive, NoRun
  <2>5. ASSUME NEW q \in Runs, Resolve(q) PROVE FALSE
    <3>1. ASSUME NEW entry, NEW v, Frozen(q, entry, v) PROVE FALSE
      BY <2>2, <3>1 DEF Frozen
    <3>2. QED
      BY <2>3, <2>5, <3>1 DEF Resolve
  <2>6. ASSUME NEW q \in Runs, Create(q) PROVE FALSE
    BY <2>3, <2>6 DEF Create
  <2>7. ASSUME NEW q \in Runs, CheckRun(q) PROVE CheckRun(r) /\ Valid(r)
    <3>1. q = r
      BY <1>2, <2>1, <2>7 DEF CheckRun, To, Set
    <3>2. QED
      BY <2>3, <2>7, <3>1 DEF CheckRun
  <2>8. ASSUME NEW q \in Runs, DispatchCall(q) PROVE FALSE
    BY <2>3, <2>8 DEF DispatchCall
  <2>9. ASSUME NEW q \in Runs, Launch(q) PROVE FALSE
    BY <2>3, <2>9 DEF Launch
  <2>10. ASSUME NEW q \in Runs, CommandStarted(q) PROVE FALSE
    BY <2>3, <2>10 DEF CommandStarted
  <2>11. ASSUME NEW q \in Runs, Finish(q) \/ Send(q) \/ Sent(q) PROVE FALSE
    BY <2>3, <2>11 DEF Finish, Send, Sent
  <2>12. ASSUME UNCHANGED run PROVE FALSE
    BY <1>2, <2>12
  <2>13. ASSUME NEW unstopped \in SUBSET Runs, GrantStops(unstopped) PROVE FALSE
    <3>1. run'[r].pc \in {run[r].pc, "ending", "over"}
      BY <2>1, <2>13 DEF GrantStops
    <3>2. QED
      BY <1>2, <3>1
  <2>14. QED
    BY <1>2, <2>4, <2>5, <2>6, <2>7, <2>8, <2>9, <2>10, <2>11, <2>12, <2>13
       DEF AccessNext, CommandExits, SavePermission, StopCommands, DeleteSpace, ChangeGrant, GrantAborted,
           Move
<1>3. ASSUME AccessInv, [AccessNext]_accessVars PROVE [RevokedKept]_accessVars
  <2>1. ASSUME AccessNext PROVE RevokedKept
    BY <1>1, <1>2, <1>3, <2>1 DEF RevokedKept
  <2>2. QED
    BY <1>3, <2>1
<1>4. QED
  BY <1>3, AccessInitInv, AccessNextInv, PTL DEF AccessSpec

-----------------------------------------------------------------------------
(* The models of a Run.                                                       *)
(*                                                                            *)
(* Inductive together with four facts: the call on its way keeps the binding  *)
(* and the address it was resolved with, a repeated call is of the purpose of *)
(* the one it replaces, so that one assessment is not replaced, and a Run     *)
(* that is automatic has the assessor in its policy.                          *)

\* The snapshot of the Run, its Attempts and its execution.
Bound == [m : Models, rev : Nat, addr : Addrs]
Turns ==
  [status : {"none", "running", "stopped", "failed", "unknown", "completed"}, bindings : Seq(Bound),
   policy : SUBSET Bound, auto : BOOLEAN, mode : {"auto", "manual"}, candidates : SUBSET Models,
   assessed : Nat, upgrades : Nat, raised : Nat, switches : Nat, limit : Int]
ModelAttempts ==
  [purpose : {"chat", "assessment"}, b : Bound, to : Addrs,
   status : {"dispatched", "finished", "unknown"}, replaced : BOOLEAN, number : Nat]
Execs ==
  [pc : {"idle", "loop", "client", "check", "slot", "sent", "retry"},
   purpose : {"", "chat", "assessment"}, to : Addrs \cup {""}, number : Nat, prev : Nat]
Setups == [auto : BOOLEAN, rev : [Models -> Nat], edits : 0..MaxEdits]

RoutingTypes ==
  /\ setup \in Setups /\ (\A m \in Models : setup.rev[m] <= setup.edits)
  /\ addr \in [Models -> Addrs] /\ turn \in Turns /\ exec \in Execs
  /\ att \in Seq(ModelAttempts) /\ Len(att) <= MaxAttempts /\ size \in 0..MaxSize

\* A Run that was started has a binding, and one that is automatic, or whose execution
\* asks for an assessment, has the assessor in its policy.
Bindings ==
  /\ turn.status # "none" => Len(turn.bindings) > 0
  /\ turn.status = "none" => att = <<>> /\ exec.pc = "idle" /\ ~turn.auto
  /\ turn.auto \/ exec.purpose = "assessment" => \E b \in turn.policy : b.m = Assessor
  /\ turn.auto <=> turn.mode = "auto"
  /\ turn.raised = turn.upgrades /\ turn.upgrades <= MaxUpgrades

\* From the resolved key to the dispatch the call keeps its binding; the execution of a
\* call that is out holds the last Attempt, and a repeated call is of the same purpose.
Calling ==
  /\ exec.pc \in {"client", "check", "slot", "sent", "retry"} => exec.purpose \in {"chat", "assessment"}
  /\ exec.pc \in {"check", "slot"} => exec.to = Calls.addr
  /\ exec.pc = "sent" => /\ Len(att) > 0 /\ att[Len(att)].purpose = exec.purpose
                         /\ ~att[Len(att)].replaced
  /\ exec.pc \in {"idle", "loop"} => exec.prev = 0 /\ exec.purpose = ""
  /\ exec.prev # 0 => exec.prev \in Attempts /\ att[exec.prev].purpose = exec.purpose

\* An assessment is replaced by an assessment: the last of them is not replaced.
OneStands == Assessments # {} => \E a \in Assessments : ~att[a].replaced
FewAssessments == Cardinality(Assessments) <= MaxAssessments

RoutingInv == RoutingTypes /\ Bindings /\ Calling /\ OneStands /\ FewAssessments /\ BoundAddress

-----------------------------------------------------------------------------
LEMMA NoExecTyped ==
  /\ NoExec \in Execs /\ NoExec.pc = "idle" /\ NoExec.purpose = "" /\ NoExec.prev = 0
  /\ [NoExec EXCEPT !.pc = "loop"] \in Execs /\ [NoExec EXCEPT !.pc = "loop"].pc = "loop"
  /\ [NoExec EXCEPT !.pc = "loop"].purpose = "" /\ [NoExec EXCEPT !.pc = "loop"].prev = 0
BY DEF NoExec, Execs

\* Attempts are numbered from 1, and the binding that is called is one of the Run's.
LEMMA AttemptsNumbered ==
  ASSUME RoutingTypes
  PROVE  /\ Attempts = 1..Len(att) /\ Len(att) \in Nat
         /\ \A a \in Attempts : att[a] \in ModelAttempts
         /\ IsFiniteSet(Assessments) /\ Assessments \subseteq Attempts
<1>1. att \in Seq(ModelAttempts)
  BY DEF RoutingTypes
<1>2. Attempts = 1..Len(att) /\ Len(att) \in Nat /\ (\A a \in Attempts : att[a] \in ModelAttempts)
  BY <1>1 DEF Attempts
<1>3. IsFiniteSet(1..Len(att))
  BY <1>2, FS_Interval
<1>4. Assessments \subseteq Attempts
  BY DEF Assessments
<1>. QED BY <1>2, <1>3, <1>4, FS_Subset

LEMMA LastBound ==
  ASSUME RoutingTypes, Bindings, turn.status # "none"
  PROVE  Last \in Bound /\ Last \in {turn.bindings[i] : i \in DOMAIN turn.bindings}
<1>1. turn.bindings \in Seq(Bound) /\ Len(turn.bindings) > 0
  BY DEF RoutingTypes, Bindings, Turns
<1>. QED BY <1>1 DEF Last

LEMMA CallsBound ==
  ASSUME RoutingTypes, Bindings, turn.status # "none"
  PROVE  /\ Calls \in Bound
         /\ Calls \in turn.policy \union {turn.bindings[i] : i \in DOMAIN turn.bindings}
<1>1. CASE exec.purpose = "assessment"
  <2>1. Calls \in turn.policy
    BY <1>1 DEF Calls, Bindings
  <2>2. turn.policy \subseteq Bound
    BY DEF RoutingTypes, Turns
  <2>. QED BY <2>1, <2>2
<1>2. CASE exec.purpose # "assessment"
  BY <1>2, LastBound DEF Calls
<1>. QED BY <1>1, <1>2

-----------------------------------------------------------------------------
(* Steps of the execution that leave the Run and its Attempts alone.          *)

LEMMA ExecKeeps ==
  ASSUME RoutingInv, UNCHANGED <<setup, addr, turn, att, size>>, exec' \in Execs,
         exec'.pc # "idle" => exec.pc # "idle",
         exec'.purpose = "assessment" => \E b \in turn.policy : b.m = Assessor,
         Calling'
  PROVE  RoutingInv'
<1> USE DEF RoutingInv
<1>1. RoutingTypes'
  BY DEF RoutingTypes
<1>2. Bindings'
  BY DEF Bindings
<1>3. OneStands' /\ FewAssessments' /\ BoundAddress'
  BY DEF OneStands, FewAssessments, BoundAddress, Assessments, Attempts
<1>. QED BY <1>1, <1>2, <1>3

LEMMA StopsKeeps ==
  ASSUME RoutingInv, UNCHANGED <<setup, addr, turn, att, size>>, Stops
  PROVE  RoutingInv'
<1>1. exec' \in Execs /\ exec'.pc = "idle" /\ exec'.purpose = "" /\ exec'.prev = 0
  BY NoExecTyped DEF Stops
<1>2. Calling'
  BY <1>1 DEF Calling
<1>. QED BY <1>1, <1>2, ExecKeeps

\* The loop goes on to a call.
LEMMA CallKeeps ==
  ASSUME RoutingInv, UNCHANGED <<setup, addr, turn, att, size>>, exec.pc = "loop",
         NEW p \in {"chat", "assessment"}, p = "assessment" => turn.auto,
         exec' = [exec EXCEPT !.pc = "client", !.purpose = p], exec.prev = 0
  PROVE  RoutingInv'
<1>1. exec \in Execs
  BY DEF RoutingInv, RoutingTypes
<1>2. exec' \in Execs /\ exec'.pc = "client" /\ exec'.purpose = p /\ exec'.prev = 0
  BY <1>1 DEF Execs
<1>3. Calling'
  BY <1>2 DEF Calling
<1>4. p = "assessment" => \E b \in turn.policy : b.m = Assessor
  BY DEF RoutingInv, Bindings
<1>. QED BY <1>2, <1>3, <1>4, ExecKeeps

LEMMA LoopKeeps ==
  ASSUME RoutingAssumption, RoutingInv, LoopStops \/ Assess \/ Proceed \/ TooLarge
  PROVE  RoutingInv'
<1>1. exec.pc = "loop" => exec.prev = 0
  BY DEF RoutingInv, Calling
<1>2. CASE LoopStops
  BY <1>2, StopsKeeps DEF LoopStops
<1>3. CASE TooLarge
  BY <1>3, StopsKeeps DEF TooLarge
<1>4. CASE Assess
  BY <1>1, <1>4, CallKeeps DEF Assess, Ready, Doing, Assesses
<1>5. CASE Proceed
  BY <1>1, <1>5, CallKeeps DEF Proceed, Chosen, Ready, Doing
<1>. QED BY <1>2, <1>3, <1>4, <1>5

\* More assessments than allowed, or none that stands: it does not come to this.
LEMMA ReadableKeeps ==
  ASSUME RoutingAssumption, RoutingInv, Unreadable
  PROVE  FALSE
<1>1. Cardinality(Assessments) <= MaxAssessments /\ Cardinality(Assessments) \in Nat
  BY AttemptsNumbered, FS_CardinalityType DEF RoutingInv, FewAssessments
<1>2. /\ Assessments # {} /\ (\A a \in Assessments : att[a].status # "finished") /\ Unresolved = {}
  BY <1>1 DEF Unreadable, Ready, RoutingAssumption
<1>3. PICK a \in Assessments : ~att[a].replaced
  BY <1>2 DEF RoutingInv, OneStands
<1>4. a \in Attempts /\ att[a].status \in {"dispatched", "unknown"}
  BY <1>2, <1>3, AttemptsNumbered DEF RoutingInv, ModelAttempts
<1>. QED BY <1>2, <1>3, <1>4 DEF Unresolved

LEMMA ClientKeeps ==
  ASSUME RoutingAssumption, RoutingInv, Client
  PROVE  RoutingInv'
<1>1. UNCHANGED <<setup, addr, turn, att, size>> /\ exec.pc = "client"
  BY DEF Client, Doing
<1>2. CASE Stops
  BY <1>1, <1>2, StopsKeeps
<1>3. CASE addr[Calls.m] = Calls.addr /\ exec' = [exec EXCEPT !.pc = "check", !.to = addr[Calls.m]]
  <2>1. exec \in Execs /\ turn.status # "none"
    BY <1>1 DEF RoutingInv, RoutingTypes, Bindings
  <2>2. addr[Calls.m] \in Addrs
    BY <2>1, CallsBound DEF RoutingInv, RoutingTypes, Bound
  <2>3. exec' \in Execs /\ exec'.pc = "check" /\ exec'.to = Calls.addr /\ exec'.purpose = exec.purpose /\ exec'.prev = exec.prev
    BY <1>3, <2>1, <2>2 DEF Execs
  <2>4. Calls' = Calls
    BY <1>1, <2>3 DEF Calls, Last
  <2>5. Calling'
    BY <1>1, <2>3, <2>4 DEF RoutingInv, Calling, Attempts
  <2>. QED BY <1>1, <2>3, <2>5, ExecKeeps DEF RoutingInv, Bindings
<1>. QED BY <1>2, <1>3 DEF Client

LEMMA CheckKeeps ==
  ASSUME RoutingAssumption, RoutingInv, Check \/ Retry
  PROVE  RoutingInv'
<1>1. UNCHANGED <<setup, addr, turn, att, size>> /\ exec.pc \in {"check", "retry"}
  BY DEF Check, Retry, Doing
<1>2. CASE Stops
  BY <1>1, <1>2, StopsKeeps
<1>3. ASSUME NEW p \in {"slot", "client"}, exec' = [exec EXCEPT !.pc = p], p = "slot" => exec.pc = "check"
      PROVE  RoutingInv'
  <2>1. exec \in Execs
    BY DEF RoutingInv, RoutingTypes
  <2>2. exec' \in Execs /\ exec'.pc = p /\ exec'.to = exec.to /\ exec'.purpose = exec.purpose /\ exec'.prev = exec.prev
    BY <1>3, <2>1 DEF Execs
  <2>3. Calls' = Calls
    BY <1>1, <2>2 DEF Calls, Last
  <2>4. Calling'
    BY <1>1, <1>3, <2>2, <2>3 DEF RoutingInv, Calling, Attempts
  <2>. QED BY <1>1, <2>2, <2>4, ExecKeeps DEF RoutingInv, Bindings
<1>. QED BY <1>2, <1>3 DEF Check, Retry, Doing

-----------------------------------------------------------------------------
(* The configuration and the Key profiles change under the Run.               *)
LEMMA EditKeeps ==
  ASSUME RoutingAssumption, RoutingInv,
         \/ \E on \in BOOLEAN : SetAuto(on)
         \/ \E m \in Models : EditModel(m)
         \/ \E m \in Models, a \in Addrs : EditKey(m, a)
  PROVE  RoutingInv'
<1>1. UNCHANGED <<turn, att, exec, size>>
  BY DEF SetAuto, EditModel, EditKey
<1>2. /\ setup \in Setups /\ (\A m \in Models : setup.rev[m] <= setup.edits)
      /\ addr \in [Models -> Addrs]
  BY DEF RoutingInv, RoutingTypes
<1>8. /\ setup.rev \in [Models -> Nat] /\ setup.edits \in 0..MaxEdits /\ MaxEdits \in Nat
      /\ setup.edits < MaxEdits => setup.edits + 1 \in 0..MaxEdits
      /\ \A m \in Models : setup.rev[m] <= setup.edits + 1
  <2>1. setup.rev \in [Models -> Nat] /\ setup.edits \in 0..MaxEdits /\ MaxEdits \in Nat
    BY <1>2 DEF Setups, RoutingAssumption
  <2>. QED BY <1>2, <2>1
<1>3. /\ setup' \in Setups /\ (\A m \in Models : setup'.rev[m] <= setup'.edits)
      /\ addr' \in [Models -> Addrs]
  <2>1. ASSUME NEW on \in BOOLEAN, SetAuto(on)
        PROVE  /\ setup' \in Setups /\ (\A n \in Models : setup'.rev[n] <= setup'.edits)
               /\ addr' \in [Models -> Addrs]
    <3>1. setup' = [setup EXCEPT !.auto = on, !.edits = @ + 1] /\ addr' = addr /\ setup.edits < MaxEdits
      BY <2>1 DEF SetAuto
    <3>2. setup' \in Setups /\ setup'.rev = setup.rev /\ setup'.edits = setup.edits + 1
      BY <1>2, <1>8, <3>1 DEF Setups
    <3>. QED BY <1>2, <1>8, <3>1, <3>2
  <2>2. ASSUME NEW m \in Models, EditModel(m)
        PROVE  /\ setup' \in Setups /\ (\A n \in Models : setup'.rev[n] <= setup'.edits)
               /\ addr' \in [Models -> Addrs]
    <3>1. setup.edits < MaxEdits
      BY <2>2 DEF EditModel
    <3> DEFINE rev == [setup.rev EXCEPT ![m] = @ + 1]
    <3>2. rev \in [Models -> Nat] /\ (\A n \in Models : rev[n] <= setup.edits + 1)
      BY <1>2, <1>8, <3>1
    <3>3. setup' = [setup EXCEPT !.rev = rev, !.edits = setup.edits + 1] /\ addr' = addr
      BY <2>2 DEF EditModel
    <3> HIDE DEF rev
    <3>4. setup' \in Setups /\ setup'.rev = rev /\ setup'.edits = setup.edits + 1
      <4>1. setup.edits + 1 \in 0..MaxEdits
        BY <1>8, <3>1
      <4>. QED BY <1>2, <3>2, <3>3, <4>1 DEF Setups
    <3>. QED BY <1>2, <3>2, <3>3, <3>4
  <2>3. ASSUME NEW m \in Models, NEW a \in Addrs, EditKey(m, a)
        PROVE  /\ setup' \in Setups /\ (\A n \in Models : setup'.rev[n] <= setup'.edits)
               /\ addr' \in [Models -> Addrs]
    <3>1. setup' = [setup EXCEPT !.edits = @ + 1] /\ addr' = [addr EXCEPT ![m] = a] /\ setup.edits < MaxEdits
      BY <2>3 DEF EditKey
    <3>2. setup' \in Setups /\ setup'.rev = setup.rev /\ setup'.edits = setup.edits + 1
      BY <1>2, <1>8, <3>1 DEF Setups
    <3>. QED BY <1>2, <1>8, <3>1, <3>2
  <2>. QED BY <2>1, <2>2, <2>3
<1>4. RoutingTypes'
  BY <1>1, <1>3 DEF RoutingInv, RoutingTypes
<1>5. Calls' = Calls
  BY <1>1 DEF Calls, Last
<1>6. Bindings' /\ Calling'
  BY <1>1, <1>5 DEF RoutingInv, Bindings, Calling, Attempts
<1>7. OneStands' /\ FewAssessments' /\ BoundAddress'
  BY <1>1 DEF RoutingInv, OneStands, FewAssessments, BoundAddress, Assessments, Attempts
<1>. QED BY <1>4, <1>6, <1>7 DEF RoutingInv

-----------------------------------------------------------------------------
(* The Run's snapshot changes between its calls.                              *)

\* The bindings of s are among those of t; the policy names the assessor.
Grown(s, t) == \A i \in DOMAIN s : \E j \in DOMAIN t : t[j] = s[i]
HasAssessor(policy) == \E b \in policy : b.m = Assessor

LEMMA GrownSame == ASSUME NEW s PROVE Grown(s, s)
BY DEF Grown

\* A binding of the present configuration.
LEMMA BindingTyped == ASSUME RoutingTypes, NEW m \in Models PROVE Binding(m) \in Bound
BY DEF RoutingTypes, Setups, Binding, Bound

\* The bindings grow at their end.
LEMMA BindsGrow ==
  ASSUME RoutingTypes, NEW b \in Bound
  PROVE  /\ Binds(b) \in Seq(Bound)
         /\ Len(turn.bindings) > 0 => Len(Binds(b)) > 0
         /\ Grown(turn.bindings, Binds(b))
<1>1. turn.bindings \in Seq(Bound)
  BY DEF RoutingTypes, Turns
<1>2. CASE b = Last
  BY <1>1, <1>2 DEF Binds, Grown
<1>3. CASE b # Last
  <2>1. Binds(b) = Append(turn.bindings, b)
    BY <1>3 DEF Binds
  <2>2. Binds(b) \in Seq(Bound) /\ Len(Binds(b)) = Len(turn.bindings) + 1 /\ Len(turn.bindings) \in Nat
    BY <1>1, <2>1
  <2>3. DOMAIN turn.bindings = 1..Len(turn.bindings) /\ DOMAIN Binds(b) = 1..Len(Binds(b))
    BY <1>1, <2>2
  <2>4. \A i \in DOMAIN turn.bindings : i \in DOMAIN Binds(b) /\ Binds(b)[i] = turn.bindings[i]
    BY <1>1, <2>1, <2>2, <2>3
  <2>. QED BY <2>2, <2>4 DEF Grown
<1>. QED BY <1>2, <1>3

\* What is asked of the new snapshot, and of the execution that goes on with it.
NewTurn ==
  /\ UNCHANGED <<setup, addr, att, size>> /\ turn' \in Turns /\ exec' \in Execs
  /\ \/ exec'.pc \in {"idle", "loop"} /\ exec'.purpose = ""
     \/ exec'.pc = "client" /\ exec'.purpose = "chat"
  /\ exec'.prev = 0 /\ turn'.status # "none" /\ Len(turn'.bindings) > 0
  /\ turn'.auto => HasAssessor(turn'.policy)
  /\ turn'.auto <=> turn'.mode = "auto"
  /\ turn'.raised = turn'.upgrades /\ turn'.upgrades <= MaxUpgrades
  /\ att = <<>> \/ (turn'.policy = turn.policy /\ Grown(turn.bindings, turn'.bindings))

LEMMA NoAttempts ==
  ASSUME RoutingTypes, att = <<>>
  PROVE  Attempts = {} /\ Assessments = {}
<1>1. Len(att) = 0
  <2>1. Len(<<>>) = 0
    BY EmptySeq
  <2>. QED BY <2>1
<1>2. Attempts = 1..0
  BY <1>1, AttemptsNumbered
<1>3. Attempts = {}
  BY <1>2
<1>. QED BY <1>3 DEF Assessments

LEMMA TurnKeeps ==
  ASSUME RoutingInv, NewTurn
  PROVE  RoutingInv'
<1> USE DEF NewTurn
<1>1. RoutingTypes'
  BY DEF RoutingInv, RoutingTypes
<1>2. Bindings'
  BY DEF Bindings, HasAssessor
<1>3. Calling'
  BY DEF Calling
<1>4. OneStands' /\ FewAssessments'
  BY DEF RoutingInv, OneStands, FewAssessments, Assessments, Attempts
<1>5. BoundAddress'
  <2>1. CASE att = <<>>
    <3>1. Attempts = {} /\ att' = att
      BY <2>1, NoAttempts DEF RoutingInv
    <3>3. Attempts' = {}
      BY <3>1 DEF Attempts
    <3>. QED BY <3>3 DEF BoundAddress
  <2>2. CASE att # <<>>
    <3>1. turn'.policy = turn.policy /\ Grown(turn.bindings, turn'.bindings)
      BY <2>2
    <3>2. \A i \in DOMAIN turn.bindings : turn.bindings[i] \in {turn'.bindings[j] : j \in DOMAIN turn'.bindings}
      BY <3>1 DEF Grown
    <3>3. ASSUME NEW x \in turn.policy \union {turn.bindings[i] : i \in DOMAIN turn.bindings}
          PROVE  x \in turn'.policy \union {turn'.bindings[i] : i \in DOMAIN turn'.bindings}
      BY <3>1, <3>2
    <3>4. att' = att
      OBVIOUS
    <3>. QED BY <3>3, <3>4 DEF RoutingInv, BoundAddress, Attempts
  <2>. QED BY <2>1, <2>2
<1>. QED BY <1>1, <1>2, <1>3, <1>4, <1>5 DEF RoutingInv

LEMMA StartManualKeeps ==
  ASSUME RoutingAssumption, RoutingInv, NEW m \in Models, StartManual(m)
  PROVE  RoutingInv'
<1>1. /\ UNCHANGED <<setup, addr, att, size>> /\ turn.status = "none"
      /\ turn' = [turn EXCEPT !.status = "running", !.bindings = <<Binding(m)>>]
      /\ exec' = [NoExec EXCEPT !.pc = "loop"]
  BY DEF StartManual
<1>2. turn \in Turns /\ Binding(m) \in Bound /\ att = <<>> /\ ~turn.auto
      /\ turn.raised = turn.upgrades /\ turn.upgrades <= MaxUpgrades /\ turn.mode # "auto"
  BY <1>1, BindingTyped DEF RoutingInv, RoutingTypes, Bindings
<1>3. <<Binding(m)>> \in Seq(Bound) /\ Len(<<Binding(m)>>) = 1
  BY <1>2
<1>4. /\ turn' \in Turns /\ turn'.status = "running" /\ turn'.bindings = <<Binding(m)>>
      /\ turn'.auto = turn.auto /\ turn'.mode = turn.mode /\ turn'.raised = turn.raised
      /\ turn'.upgrades = turn.upgrades
  BY <1>1, <1>2, <1>3 DEF Turns
<1>5. exec' \in Execs /\ exec'.pc = "loop" /\ exec'.purpose = "" /\ exec'.prev = 0
  BY <1>1, NoExecTyped
<1>6. ~turn'.auto /\ turn'.mode # "auto" /\ Len(turn'.bindings) > 0
  BY <1>2, <1>3, <1>4
<1>7. turn'.raised = turn'.upgrades /\ turn'.upgrades <= MaxUpgrades
  BY <1>2, <1>4
<1>20. NewTurn
  BY <1>1, <1>2, <1>4, <1>5, <1>6, <1>7 DEF NewTurn
<1>. QED BY <1>20, TurnKeeps

LEMMA StartAutoKeeps ==
  ASSUME RoutingAssumption, RoutingInv, NEW b \in Models0, StartAuto(b)
  PROVE  RoutingInv'
<1> DEFINE chosen == {c.m : c \in Eligible(Models0, 0)}
<1>1. /\ UNCHANGED <<setup, addr, att, size>> /\ turn.status = "none"
      /\ turn' = [turn EXCEPT !.status = "running", !.bindings = <<b>>, !.policy = Models0,
               !.auto = TRUE, !.mode = "auto", !.candidates = chosen]
      /\ exec' = [NoExec EXCEPT !.pc = "loop"]
  BY DEF StartAuto
<1>2. turn \in Turns /\ att = <<>> /\ turn.raised = turn.upgrades /\ turn.upgrades <= MaxUpgrades
  BY <1>1 DEF RoutingInv, RoutingTypes, Bindings
<1>3. Models0 \subseteq Bound
  BY BindingTyped DEF Models0, RoutingInv
<1>4. <<b>> \in Seq(Bound) /\ Len(<<b>>) = 1
  BY <1>3
<1>5. chosen \subseteq Models
  BY <1>3 DEF Eligible, Bound
<1>6. Binding(Assessor) \in Models0 /\ Binding(Assessor).m = Assessor
  BY DEF Models0, Binding, RoutingAssumption
<1> HIDE DEF chosen
<1>7. /\ turn' \in Turns /\ turn'.status = "running" /\ turn'.bindings = <<b>> /\ turn'.policy = Models0
      /\ turn'.auto /\ turn'.mode = "auto" /\ turn'.raised = turn.raised
      /\ turn'.upgrades = turn.upgrades
  BY <1>1, <1>2, <1>3, <1>4, <1>5 DEF Turns
<1>8. exec' \in Execs /\ exec'.pc = "loop" /\ exec'.purpose = "" /\ exec'.prev = 0
  BY <1>1, NoExecTyped
<1>9. HasAssessor(turn'.policy)
  BY <1>6, <1>7 DEF HasAssessor
<1>10. Len(turn'.bindings) > 0
  BY <1>4, <1>7
<1>11. turn'.raised = turn'.upgrades /\ turn'.upgrades <= MaxUpgrades
  BY <1>2, <1>7
<1>20. NewTurn
  BY <1>1, <1>2, <1>7, <1>8, <1>9, <1>10, <1>11 DEF NewTurn
<1>. QED BY <1>20, TurnKeeps

\* A step on a Run that was started.
LEMMA StartedFacts ==
  ASSUME RoutingInv, turn.status # "none"
  PROVE  /\ turn \in Turns /\ Len(turn.bindings) > 0 /\ turn.policy \subseteq Bound
         /\ turn.auto => HasAssessor(turn.policy)
         /\ turn.auto <=> turn.mode = "auto"
         /\ turn.raised = turn.upgrades /\ turn.upgrades <= MaxUpgrades /\ turn.upgrades \in Nat
         /\ exec.pc # "idle" \/ (exec \in Execs /\ exec.purpose = "" /\ exec.prev = 0)
         /\ exec.pc = "loop" => exec \in Execs /\ exec.purpose = "" /\ exec.prev = 0
<1>1. turn \in Turns /\ exec \in Execs
  BY DEF RoutingInv, RoutingTypes
<1>2. turn.policy \subseteq Bound /\ turn.upgrades \in Nat
  BY <1>1 DEF Turns
<1>. QED BY <1>1, <1>2 DEF RoutingInv, Bindings, Calling, HasAssessor

LEMMA AdoptKeeps ==
  ASSUME RoutingAssumption, RoutingInv, NEW b \in turn.policy, Adopt(b)
  PROVE  RoutingInv'
<1>1. /\ UNCHANGED <<setup, addr, att, size, exec>> /\ exec.pc = "loop" /\ turn.status = "running"
      /\ turn' = [turn EXCEPT !.bindings = Binds(b), !.assessed = Cardinality(Assessments)]
  BY DEF Adopt, Ready, Doing
<1>2. Cardinality(Assessments) \in Nat
  BY AttemptsNumbered, FS_CardinalityType DEF RoutingInv
<1>3. b \in Bound /\ turn \in Turns
  BY <1>1, StartedFacts
<1>4. /\ Binds(b) \in Seq(Bound) /\ Len(Binds(b)) > 0
      /\ Grown(turn.bindings, Binds(b))
  BY <1>1, <1>3, BindsGrow, StartedFacts DEF RoutingInv
<1>5. /\ turn' \in Turns /\ turn'.status = "running" /\ turn'.bindings = Binds(b) /\ turn'.policy = turn.policy
      /\ turn'.auto = turn.auto /\ turn'.mode = turn.mode /\ turn'.raised = turn.raised
      /\ turn'.upgrades = turn.upgrades
  BY <1>1, <1>2, <1>3, <1>4 DEF Turns
<1>20. NewTurn
  BY <1>1, <1>4, <1>5, StartedFacts DEF NewTurn
<1>. QED BY <1>20, TurnKeeps

LEMMA UpgradeKeeps ==
  ASSUME RoutingAssumption, RoutingInv, NEW b \in turn.policy, Upgrade(b)
  PROVE  RoutingInv'
<1> DEFINE chosen == {c.m : c \in Eligible(turn.policy, Strength[Last.m])}
<1>1. /\ UNCHANGED <<setup, addr, att, size>> /\ exec.pc = "loop" /\ turn.status = "running"
      /\ turn' = [turn EXCEPT !.bindings = Binds(b), !.upgrades = turn.upgrades + 1,
                    !.raised = turn.raised + 1, !.candidates = chosen]
      /\ exec' = [exec EXCEPT !.pc = "client", !.purpose = "chat"] /\ turn.upgrades < MaxUpgrades
  BY DEF Upgrade, Raises, Raised, Chosen, Ready, Doing
<1>2. b \in Bound /\ turn \in Turns /\ exec \in Execs /\ exec.prev = 0 /\ turn.policy \subseteq Bound
  BY <1>1, StartedFacts
<1>3. chosen \subseteq Models
  BY <1>2 DEF Eligible, Bound
<1>4. /\ Binds(b) \in Seq(Bound) /\ Len(Binds(b)) > 0
      /\ Grown(turn.bindings, Binds(b))
  BY <1>1, <1>2, BindsGrow, StartedFacts DEF RoutingInv
<1> HIDE DEF chosen
<1>5. turn.upgrades + 1 \in Nat /\ turn.raised + 1 \in Nat /\ turn.upgrades + 1 <= MaxUpgrades
      /\ turn.raised = turn.upgrades
  <2>1. turn.upgrades \in Nat /\ turn.raised = turn.upgrades /\ MaxUpgrades \in Nat /\ turn.upgrades < MaxUpgrades
    BY <1>1, StartedFacts DEF RoutingAssumption
  <2>. QED BY <2>1
<1>6. /\ turn' \in Turns /\ turn'.status = "running" /\ turn'.bindings = Binds(b) /\ turn'.policy = turn.policy
      /\ turn'.auto = turn.auto /\ turn'.mode = turn.mode /\ turn'.raised = turn.raised + 1
      /\ turn'.upgrades = turn.upgrades + 1
  BY <1>1, <1>2, <1>3, <1>4, <1>5 DEF Turns
<1>7. exec' \in Execs /\ exec'.pc = "client" /\ exec'.purpose = "chat" /\ exec'.prev = 0
  BY <1>1, <1>2 DEF Execs
<1>20. NewTurn
  BY <1>1, <1>4, <1>5, <1>6, <1>7, StartedFacts DEF NewTurn
<1>. QED BY <1>20, TurnKeeps

LEMMA RevokeKeeps ==
  ASSUME RoutingAssumption, RoutingInv, Revoke
  PROVE  RoutingInv'
<1> DEFINE n == IF turn.assessed > Cardinality(Assessments) THEN turn.assessed ELSE Cardinality(Assessments)
<1>1. /\ UNCHANGED <<setup, addr, att, size>> /\ exec.pc = "loop" /\ turn.status = "running"
      /\ turn' = [turn EXCEPT !.auto = FALSE, !.mode = "manual", !.assessed = n]
      /\ exec' = [exec EXCEPT !.pc = "client", !.purpose = "chat"]
  BY DEF Revoke, Ready, Doing
<1>2. turn \in Turns /\ exec \in Execs /\ exec.prev = 0
  BY <1>1, StartedFacts
<1>3. n \in Nat
  BY <1>2, AttemptsNumbered, FS_CardinalityType DEF RoutingInv, Turns
<1> HIDE DEF n
<1>4. /\ turn' \in Turns /\ turn'.status = "running" /\ turn'.bindings = turn.bindings /\ turn'.policy = turn.policy
      /\ ~turn'.auto /\ turn'.mode = "manual" /\ turn'.raised = turn.raised /\ turn'.upgrades = turn.upgrades
  BY <1>1, <1>2, <1>3 DEF Turns
<1>5. exec' \in Execs /\ exec'.pc = "client" /\ exec'.purpose = "chat" /\ exec'.prev = 0
  BY <1>1, <1>2 DEF Execs
<1>20. NewTurn
  BY <1>1, <1>4, <1>5, StartedFacts, GrownSame DEF NewTurn
<1>. QED BY <1>20, TurnKeeps

LEMMA SwitchKeeps ==
  ASSUME RoutingAssumption, RoutingInv, NEW m \in Models, SwitchModel(m)
  PROVE  RoutingInv'
<1> DEFINE n == IF Assessments # {} THEN 1 ELSE turn.assessed
           b == Binding(m)
<1>1. /\ UNCHANGED <<setup, addr, att, size, exec>> /\ exec.pc = "idle" /\ turn.status # "none"
      /\ turn' = [turn EXCEPT !.bindings = Binds(b), !.auto = FALSE, !.mode = "manual", !.assessed = n,
                    !.switches = turn.switches + 1]
  BY DEF SwitchModel, Doing
<1>2. turn \in Turns /\ exec \in Execs /\ exec.prev = 0 /\ exec.purpose = "" /\ b \in Bound
  BY <1>1, StartedFacts, BindingTyped DEF RoutingInv
<1>3. n \in Nat /\ turn.switches + 1 \in Nat
  <2>1. turn.assessed \in Nat /\ turn.switches \in Nat
    BY <1>2 DEF Turns
  <2>. QED BY <2>1
<1> HIDE DEF n, b
<1>4. /\ Binds(b) \in Seq(Bound) /\ Len(Binds(b)) > 0
      /\ Grown(turn.bindings, Binds(b))
  BY <1>1, <1>2, BindsGrow, StartedFacts DEF RoutingInv
<1>5. /\ turn' \in Turns /\ turn'.status = turn.status /\ turn'.bindings = Binds(b) /\ turn'.policy = turn.policy
      /\ ~turn'.auto /\ turn'.mode = "manual" /\ turn'.raised = turn.raised /\ turn'.upgrades = turn.upgrades
  BY <1>1, <1>2, <1>3, <1>4 DEF Turns
<1>20. NewTurn
  BY <1>1, <1>2, <1>4, <1>5, StartedFacts DEF NewTurn
<1>. QED BY <1>20, TurnKeeps

LEMMA ContinueKeeps ==
  ASSUME RoutingAssumption, RoutingInv, Continue \/ IncreaseLimits
  PROVE  RoutingInv'
<1>1. /\ UNCHANGED <<setup, addr, att, size>> /\ exec.pc = "idle" /\ turn.status # "none"
      /\ exec' = exec \/ exec' = [NoExec EXCEPT !.pc = "loop"]
      /\ turn' = [turn EXCEPT !.status = "running"] \/ turn' = [turn EXCEPT !.limit = @ + 1]
  BY DEF Continue, IncreaseLimits, Doing
<1>2. turn \in Turns /\ exec \in Execs /\ exec.prev = 0 /\ exec.purpose = ""
  BY <1>1, StartedFacts
<1>3. /\ turn' \in Turns /\ turn'.status # "none" /\ turn'.bindings = turn.bindings /\ turn'.policy = turn.policy
      /\ turn'.auto = turn.auto /\ turn'.mode = turn.mode /\ turn'.raised = turn.raised /\ turn'.upgrades = turn.upgrades
  <2>1. CASE turn' = [turn EXCEPT !.status = "running"]
    BY <1>2, <2>1 DEF Turns
  <2>2. CASE turn' = [turn EXCEPT !.limit = @ + 1]
    <3>2. turn.limit \in Int
      BY <1>2 DEF Turns
    <3>1. turn.limit + 1 \in Int
      BY <3>2
    <3>. QED BY <1>1, <1>2, <2>2, <3>1 DEF Turns
  <2>. QED BY <1>1, <2>1, <2>2
<1>4. exec' \in Execs /\ exec'.pc \in {"idle", "loop"} /\ exec'.purpose = "" /\ exec'.prev = 0
  BY <1>1, <1>2, NoExecTyped
<1>20. NewTurn
  BY <1>1, <1>3, <1>4, StartedFacts, GrownSame DEF NewTurn
<1>. QED BY <1>20, TurnKeeps

-----------------------------------------------------------------------------
(* A call that is out is answered, fails or is interrupted.                   *)

\* Only the state of one Attempt changes.
StateOnly ==
  /\ att' \in Seq(ModelAttempts) /\ Len(att') = Len(att) /\ Attempts' = Attempts
  /\ \A a \in Attempts : /\ att'[a].purpose = att[a].purpose /\ att'[a].b = att[a].b
                         /\ att'[a].to = att[a].to /\ att'[a].replaced = att[a].replaced

LEMMA AnsweredTyped ==
  ASSUME RoutingTypes, NEW k \in Attempts, NEW s \in {"finished", "unknown"},
         att' = [att EXCEPT ![k].status = s]
  PROVE  StateOnly
<1>1. att \in Seq(ModelAttempts) /\ k \in 1..Len(att) /\ att[k] \in ModelAttempts
  BY AttemptsNumbered DEF RoutingTypes
<1> DEFINE e == [att[k] EXCEPT !.status = s]
<1>2. e \in ModelAttempts /\ e.purpose = att[k].purpose /\ e.b = att[k].b /\ e.to = att[k].to
      /\ e.replaced = att[k].replaced
  BY <1>1 DEF ModelAttempts
<1>3. att' = [att EXCEPT ![k] = e]
  OBVIOUS
<1> HIDE DEF e
<1>4. att' \in Seq(ModelAttempts) /\ Len(att') = Len(att) /\ DOMAIN att' = DOMAIN att
  BY <1>1, <1>2, <1>3
<1>5. \A a \in Attempts : att'[a] = IF a = k THEN e ELSE att[a]
  BY <1>1, <1>3 DEF Attempts
<1>. QED BY <1>2, <1>4, <1>5 DEF StateOnly, Attempts

LEMMA SameTyped == ASSUME RoutingTypes, att' = att PROVE StateOnly
BY DEF StateOnly, RoutingTypes, Attempts

\* What is asked of a step that ends a call, or the execution.
CallEnds ==
  /\ StateOnly /\ UNCHANGED <<setup, addr>> /\ size' \in 0..MaxSize
  /\ turn' \in Turns /\ turn'.status # "none" /\ turn.status # "none"
  /\ turn'.bindings = turn.bindings /\ turn'.policy = turn.policy /\ turn'.auto = turn.auto
  /\ turn'.mode = turn.mode /\ turn'.raised = turn.raised /\ turn'.upgrades = turn.upgrades
  /\ exec' \in Execs
  /\ \/ exec'.pc \in {"idle", "loop"} /\ exec'.purpose = "" /\ exec'.prev = 0
     \/ /\ exec.pc = "sent" /\ exec'.pc = "retry" /\ exec'.purpose = exec.purpose
        /\ exec'.prev = Len(att)

LEMMA CallEndsKeeps ==
  ASSUME RoutingInv, CallEnds
  PROVE  RoutingInv'
<1>1. RoutingTypes'
  BY DEF RoutingInv, RoutingTypes, CallEnds, StateOnly
<1>2. Bindings'
  BY DEF RoutingInv, Bindings, CallEnds
<1>3. Calling'
  <2>1. CASE exec'.pc \in {"idle", "loop"} /\ exec'.purpose = "" /\ exec'.prev = 0
    BY <2>1 DEF Calling
  <2>2. CASE exec.pc = "sent" /\ exec'.pc = "retry" /\ exec'.purpose = exec.purpose /\ exec'.prev = Len(att)
    <3>1. /\ exec.purpose \in {"chat", "assessment"} /\ Len(att) > 0
          /\ att[Len(att)].purpose = exec.purpose
      BY <2>2 DEF RoutingInv, Calling
    <3>2. Len(att) \in Attempts
      BY <3>1, AttemptsNumbered DEF RoutingInv
    <3>3. Len(att) \in Attempts' /\ att'[Len(att)].purpose = exec.purpose
      BY <3>1, <3>2 DEF CallEnds, StateOnly
    <3>. QED BY <2>2, <3>1, <3>3 DEF Calling
  <2>. QED BY <2>1, <2>2 DEF CallEnds
<1>4. Assessments' = Assessments
  BY DEF CallEnds, StateOnly, Assessments
<1>5. OneStands' /\ FewAssessments'
  BY <1>4 DEF RoutingInv, OneStands, FewAssessments, CallEnds, StateOnly, Assessments
<1>6. BoundAddress'
  <2>1. \A a \in Attempts' : /\ a \in Attempts /\ att'[a].b = att[a].b /\ att'[a].to = att[a].to
    BY DEF CallEnds, StateOnly
  <2>2. turn'.bindings = turn.bindings /\ turn'.policy = turn.policy
    BY DEF CallEnds
  <2>3. \A a \in Attempts : /\ att[a].to = att[a].b.addr
                            /\ att[a].b \in turn.policy \union {turn.bindings[i] : i \in DOMAIN turn.bindings}
    BY DEF RoutingInv, BoundAddress
  <2>. QED BY <2>1, <2>2, <2>3 DEF BoundAddress
<1>. QED BY <1>1, <1>2, <1>3, <1>5, <1>6 DEF RoutingInv

\* The status of the Run alone changes.
LEMMA StatusTyped ==
  ASSUME RoutingInv, NEW s \in {"running", "stopped", "failed", "unknown", "completed"},
         turn' = [turn EXCEPT !.status = s]
  PROVE  /\ turn' \in Turns /\ turn'.status # "none" /\ turn'.bindings = turn.bindings
         /\ turn'.policy = turn.policy /\ turn'.auto = turn.auto /\ turn'.mode = turn.mode
         /\ turn'.raised = turn.raised /\ turn'.upgrades = turn.upgrades
<1>1. turn \in Turns
  BY DEF RoutingInv, RoutingTypes
<1>. QED BY <1>1 DEF Turns

LEMMA SentFacts ==
  ASSUME RoutingInv, exec.pc # "idle"
  PROVE  /\ turn.status # "none" /\ turn \in Turns /\ exec \in Execs /\ size \in 0..MaxSize
         /\ exec.pc = "sent" => Len(att) \in Attempts
<1>1. exec.pc = "sent" => Len(att) > 0
  BY DEF RoutingInv, Calling
<1>2. exec.pc = "sent" => Len(att) \in Attempts
  BY <1>1, AttemptsNumbered DEF RoutingInv
<1>. QED BY <1>2 DEF RoutingInv, RoutingTypes, Bindings

LEMMA AnswersKeeps ==
  ASSUME RoutingAssumption, RoutingInv, NEW final \in BOOLEAN, Answers(final)
  PROVE  RoutingInv'
<1>1. /\ UNCHANGED <<setup, addr>> /\ exec.pc = "sent" /\ att' = [att EXCEPT ![Len(att)].status = "finished"]
      /\ size' = IF exec.purpose = "chat" /\ size < MaxSize THEN size + 1 ELSE size
  BY DEF Answers, Doing, AnswerIs, Latest
<1>2. StateOnly
  BY <1>1, SentFacts, AnsweredTyped DEF RoutingInv
<1>3. size' \in 0..MaxSize
  BY <1>1, SentFacts DEF RoutingAssumption
<1>4. \/ turn' = [turn EXCEPT !.status = "completed"] /\ exec' = NoExec
      \/ turn' = turn /\ exec' = [NoExec EXCEPT !.pc = "loop"]
  BY DEF Answers, Stops
<1>5. /\ turn' \in Turns /\ turn'.status # "none" /\ turn'.bindings = turn.bindings
      /\ turn'.policy = turn.policy /\ turn'.auto = turn.auto /\ turn'.mode = turn.mode
      /\ turn'.raised = turn.raised /\ turn'.upgrades = turn.upgrades
  <2>1. CASE turn' = turn
    BY <1>1, <2>1, SentFacts
  <2>. QED BY <1>4, <2>1, StatusTyped
<1>6. exec' \in Execs /\ exec'.pc \in {"idle", "loop"} /\ exec'.purpose = "" /\ exec'.prev = 0
  BY <1>4, NoExecTyped
<1>7. CallEnds
  BY <1>1, <1>2, <1>3, <1>5, <1>6, SentFacts DEF CallEnds
<1>. QED BY <1>7, CallEndsKeeps

LEMMA FailsKeeps ==
  ASSUME RoutingAssumption, RoutingInv, NEW s \in {"failed", "unknown"}, Fails(s)
  PROVE  RoutingInv'
<1> DEFINE r == IF s = "failed" THEN "finished" ELSE "unknown"
<1>1. /\ UNCHANGED <<setup, addr, size>> /\ exec.pc = "sent" /\ att' = [att EXCEPT ![Len(att)].status = r]
      /\ \/ /\ turn' = [turn EXCEPT !.status = "running"]
            /\ exec' = [exec EXCEPT !.pc = "retry", !.number = @ + 1, !.prev = Len(att)]
         \/ turn' = [turn EXCEPT !.status = s] /\ exec' = NoExec
  BY DEF Fails, Doing, Stops, Latest
<1>2. StateOnly
  BY <1>1, SentFacts, AnsweredTyped DEF RoutingInv
<1>3. /\ turn' \in Turns /\ turn'.status # "none" /\ turn'.bindings = turn.bindings
      /\ turn'.policy = turn.policy /\ turn'.auto = turn.auto /\ turn'.mode = turn.mode
      /\ turn'.raised = turn.raised /\ turn'.upgrades = turn.upgrades
  BY <1>1, StatusTyped
<1>4. /\ exec' \in Execs
      /\ \/ exec'.pc = "idle" /\ exec'.purpose = "" /\ exec'.prev = 0
         \/ exec'.pc = "retry" /\ exec'.purpose = exec.purpose /\ exec'.prev = Len(att)
  <2>1. CASE exec' = NoExec
    BY <2>1, NoExecTyped
  <2>2. CASE exec' = [exec EXCEPT !.pc = "retry", !.number = @ + 1, !.prev = Len(att)]
    <3>1. exec \in Execs /\ Len(att) \in Nat
      BY <1>1, SentFacts, AttemptsNumbered DEF RoutingInv
    <3>2. exec.number + 1 \in Nat
      <4>1. exec.number \in Nat
        BY <3>1 DEF Execs
      <4>. QED BY <4>1
    <3>. QED BY <2>2, <3>1, <3>2 DEF Execs
  <2>. QED BY <1>1, <2>1, <2>2
<1>5. size' \in 0..MaxSize
  BY <1>1, SentFacts
<1>6. CallEnds
  BY <1>1, <1>2, <1>3, <1>4, <1>5, SentFacts DEF CallEnds
<1>. QED BY <1>6, CallEndsKeeps

LEMMA InterruptedKeeps ==
  ASSUME RoutingAssumption, RoutingInv, Interrupted
  PROVE  RoutingInv'
<1>1. /\ UNCHANGED <<setup, addr, size>> /\ exec.pc # "idle" /\ exec' = NoExec
      /\ att' = IF exec.pc = "sent" THEN [att EXCEPT ![Len(att)].status = "unknown"] ELSE att
      /\ turn' = [turn EXCEPT !.status = IF exec.pc = "sent" THEN "unknown" ELSE "stopped"]
  BY DEF Interrupted, Doing, Stops, Latest
<1>2. StateOnly
  <2>1. CASE exec.pc = "sent"
    BY <1>1, <2>1, SentFacts, AnsweredTyped DEF RoutingInv
  <2>2. CASE exec.pc # "sent"
    BY <1>1, <2>2, SameTyped DEF RoutingInv
  <2>. QED BY <2>1, <2>2
<1>3. /\ turn' \in Turns /\ turn'.status # "none" /\ turn'.bindings = turn.bindings
      /\ turn'.policy = turn.policy /\ turn'.auto = turn.auto /\ turn'.mode = turn.mode
      /\ turn'.raised = turn.raised /\ turn'.upgrades = turn.upgrades
  BY <1>1, StatusTyped
<1>4. exec' \in Execs /\ exec'.pc = "idle" /\ exec'.purpose = "" /\ exec'.prev = 0
  BY <1>1, NoExecTyped
<1>5. size' \in 0..MaxSize
  BY <1>1, SentFacts
<1>6. CallEnds
  BY <1>1, <1>2, <1>3, <1>4, <1>5, SentFacts DEF CallEnds
<1>. QED BY <1>6, CallEndsKeeps

-----------------------------------------------------------------------------
(* A call starts: one more Attempt, in the place of the one it repeats.       *)
Repeated == IF exec.prev = 0 THEN att ELSE [att EXCEPT ![exec.prev].replaced = TRUE]
NewAttempt == [purpose |-> exec.purpose, b |-> Calls, to |-> exec.to, status |-> "dispatched",
               replaced |-> FALSE, number |-> exec.number]

LEMMA RepeatedTyped ==
  ASSUME RoutingInv
  PROVE  /\ Repeated \in Seq(ModelAttempts) /\ Len(Repeated) = Len(att) /\ DOMAIN Repeated = Attempts
         /\ \A a \in Attempts :
              /\ Repeated[a].purpose = att[a].purpose /\ Repeated[a].b = att[a].b
              /\ Repeated[a].to = att[a].to /\ (a # exec.prev => Repeated[a].replaced = att[a].replaced)
<1>1. CASE exec.prev = 0
  BY <1>1 DEF Repeated, RoutingInv, RoutingTypes, Attempts
<1>2. CASE exec.prev # 0
  <2>1. att \in Seq(ModelAttempts) /\ exec.prev \in Attempts /\ att[exec.prev] \in ModelAttempts
        /\ exec.prev \in 1..Len(att)
    BY <1>2, AttemptsNumbered DEF RoutingInv, RoutingTypes, Calling
  <2> DEFINE k == exec.prev
             e == [att[k] EXCEPT !.replaced = TRUE]
  <2>2. e \in ModelAttempts /\ e.purpose = att[k].purpose /\ e.b = att[k].b /\ e.to = att[k].to
    BY <2>1 DEF ModelAttempts
  <2>3. Repeated = [att EXCEPT ![k] = e]
    BY <1>2 DEF Repeated
  <2> HIDE DEF e
  <2>4. Repeated \in Seq(ModelAttempts) /\ Len(Repeated) = Len(att) /\ DOMAIN Repeated = DOMAIN att
    BY <2>1, <2>2, <2>3
  <2>5. \A a \in Attempts : Repeated[a] = IF a = k THEN e ELSE att[a]
    BY <2>1, <2>3 DEF Attempts
  <2>. QED BY <2>2, <2>4, <2>5 DEF Attempts
<1>. QED BY <1>1, <1>2

LEMMA StartCallKeeps ==
  ASSUME RoutingAssumption, RoutingInv, StartCall
  PROVE  RoutingInv'
<1>1. UNCHANGED <<setup, addr, turn, size>> /\ exec.pc = "slot" /\ Len(att) < MaxAttempts
  BY DEF StartCall, Doing
<1>2. CASE Stops /\ UNCHANGED att
  BY <1>1, <1>2, StopsKeeps
<1>3. CASE /\ ~(exec.purpose = "assessment" /\ Cardinality(Assessments) >= MaxAssessments)
           /\ att' = Started /\ exec' = [exec EXCEPT !.pc = "sent"]
  <2> DEFINE n == Len(att) + 1
  <2>1. att' = Append(Repeated, NewAttempt)
    BY <1>3 DEF Started, Repeated, NewAttempt
  <2>2. exec \in Execs /\ turn.status # "none" /\ exec.purpose \in {"chat", "assessment"}
        /\ exec.to = Calls.addr
    BY <1>1 DEF RoutingInv, RoutingTypes, Bindings, Calling
  <2>3. exec' \in Execs /\ exec'.pc = "sent" /\ exec'.purpose = exec.purpose /\ exec'.prev = exec.prev
    BY <1>3, <2>2 DEF Execs
  <2>4. Calls \in Bound /\ Calls \in turn.policy \union {turn.bindings[i] : i \in DOMAIN turn.bindings}
    BY <2>2, CallsBound DEF RoutingInv
  <2>5. /\ NewAttempt \in ModelAttempts /\ NewAttempt.purpose = exec.purpose /\ NewAttempt.b = Calls
        /\ NewAttempt.to = Calls.addr /\ ~NewAttempt.replaced
    <3>1. exec.number \in Nat /\ exec.to \in Addrs
      BY <2>2, <2>4 DEF Execs, Bound
    <3>. QED BY <2>2, <2>4, <3>1 DEF NewAttempt, ModelAttempts
  <2>6. Len(att) \in Nat /\ Attempts = 1..Len(att) /\ n \notin Attempts
    <3>1. Len(att) \in Nat /\ Attempts = 1..Len(att)
      BY AttemptsNumbered DEF RoutingInv
    <3>. QED BY <3>1
  <2>7. /\ att' \in Seq(ModelAttempts) /\ Len(att') = n /\ att'[n] = NewAttempt
        /\ \A a \in Attempts : att'[a] = Repeated[a]
    BY <2>1, <2>5, <2>6, RepeatedTyped
  <2>8. Attempts' = Attempts \cup {n}
    <3>1. DOMAIN att' = 1..n
      BY <2>7
    <3>. QED BY <2>6, <3>1 DEF Attempts
  <2>9. \A a \in Attempts : /\ att'[a].purpose = att[a].purpose /\ att'[a].b = att[a].b
                            /\ att'[a].to = att[a].to
                            /\ (a # exec.prev => att'[a].replaced = att[a].replaced)
    BY <2>7, RepeatedTyped
  <2>10. /\ att'[n].purpose = exec.purpose /\ att'[n].b = Calls /\ att'[n].to = Calls.addr
         /\ ~att'[n].replaced
    BY <2>5, <2>7
  <2>11. Assessments' = IF exec.purpose = "assessment" THEN Assessments \cup {n} ELSE Assessments
    BY <2>2, <2>8, <2>9, <2>10 DEF Assessments
  <2>12. RoutingTypes'
    <3>1. Len(att') <= MaxAttempts
      BY <1>1, <2>6, <2>7 DEF RoutingAssumption
    <3>. QED BY <1>1, <2>3, <2>7, <3>1 DEF RoutingInv, RoutingTypes
  <2>13. Bindings'
    BY <1>1, <2>2, <2>3 DEF RoutingInv, Bindings
  <2>14. Calling'
    <3>1. Len(att') = n /\ n > 0
      BY <2>6, <2>7
    <3>2. exec.prev # 0 => exec.prev \in Attempts /\ att[exec.prev].purpose = exec.purpose
      BY DEF RoutingInv, Calling
    <3>3. exec.prev # 0 => exec.prev \in Attempts' /\ att'[exec.prev].purpose = exec.purpose
      BY <2>8, <2>9, <3>2
    <3> HIDE DEF n
    <3>. QED BY <2>2, <2>3, <2>10, <3>1, <3>3 DEF Calling
  <2>15. OneStands'
    <3>1. CASE exec.purpose = "assessment"
      <4>1. n \in Assessments' /\ ~att'[n].replaced
        BY <2>10, <2>11, <3>1
      <4>. QED BY <4>1 DEF OneStands
    <3>2. CASE exec.purpose # "assessment"
      <4>1. SUFFICES ASSUME Assessments # {} PROVE \E a \in Assessments : ~att'[a].replaced
        BY <2>11, <3>2 DEF OneStands
      <4>2. PICK a \in Assessments : ~att[a].replaced
        BY <4>1 DEF RoutingInv, OneStands
      <4>3. a \in Attempts /\ a # exec.prev
        <5>1. a \in Attempts /\ att[a].purpose = "assessment"
          BY DEF Assessments
        <5>2. a \in 1..Len(att)
          BY <2>6, <5>1
        <5>3. exec.prev # 0 => att[exec.prev].purpose = exec.purpose
          BY DEF RoutingInv, Calling
        <5>. QED BY <2>6, <3>2, <5>1, <5>2, <5>3
      <4>. QED BY <2>9, <4>2, <4>3
    <3>. QED BY <3>1, <3>2
  <2>16. FewAssessments'
    <3>1. IsFiniteSet(Assessments) /\ n \notin Assessments /\ Cardinality(Assessments) \in Nat
      BY <2>6, AttemptsNumbered, FS_CardinalityType DEF RoutingInv
    <3>2. Cardinality(Assessments \cup {n}) = Cardinality(Assessments) + 1
      BY <3>1, FS_AddElement
    <3>3. Cardinality(Assessments) <= MaxAssessments /\ MaxAssessments \in Nat
      BY DEF RoutingInv, FewAssessments, RoutingAssumption
    <3> HIDE DEF n
    <3>4. CASE exec.purpose = "assessment"
      <4>1. Cardinality(Assessments) < MaxAssessments
        BY <1>3, <3>1, <3>3, <3>4
      <4>2. Cardinality(Assessments') <= MaxAssessments
        BY <2>11, <3>1, <3>2, <3>3, <3>4, <4>1
      <4>. QED BY <4>2 DEF FewAssessments
    <3>5. CASE exec.purpose # "assessment"
      BY <2>11, <3>3, <3>5 DEF FewAssessments
    <3>. QED BY <3>4, <3>5
  <2>17. BoundAddress'
    <3>1. \A a \in Attempts : /\ att'[a].to = att'[a].b.addr
                              /\ att'[a].b \in turn.policy \union {turn.bindings[i] : i \in DOMAIN turn.bindings}
      BY <2>9 DEF RoutingInv, BoundAddress
    <3>2. /\ att'[n].to = att'[n].b.addr
          /\ att'[n].b \in turn.policy \union {turn.bindings[i] : i \in DOMAIN turn.bindings}
      BY <2>4, <2>10
    <3> HIDE DEF n
    <3>. QED BY <1>1, <2>8, <3>1, <3>2 DEF BoundAddress
  <2>. QED BY <2>12, <2>13, <2>14, <2>15, <2>16, <2>17 DEF RoutingInv
<1>. QED BY <1>2, <1>3 DEF StartCall

-----------------------------------------------------------------------------
LEMMA RoutingStarts ==
  ASSUME RoutingAssumption, RoutingInit
  PROVE  RoutingInv
<1> DEFINE first == CHOOSE a \in Addrs : TRUE
<1>1. first \in Addrs
  BY DEF RoutingAssumption
<1>2. /\ setup = [auto |-> TRUE, rev |-> [m \in Models |-> 0], edits |-> 0]
      /\ addr = [m \in Models |-> first] /\ att = <<>> /\ exec = NoExec /\ size = 0
  BY DEF RoutingInit
<1> HIDE DEF first
<1>3. setup \in Setups /\ (\A m \in Models : setup.rev[m] <= setup.edits)
  BY <1>2 DEF Setups, RoutingAssumption
<1>4. addr \in [Models -> Addrs]
  BY <1>1, <1>2
<1>5. /\ turn \in Turns /\ turn.status = "none" /\ ~turn.auto /\ turn.mode = "manual"
      /\ turn.raised = 0 /\ turn.upgrades = 0
  <2>1. MaxSize - 1 \in Int
    BY DEF RoutingAssumption
  <2>2. <<>> \in Seq(Bound)
    OBVIOUS
  <2>. QED BY <2>1, <2>2 DEF RoutingInit, Turns
<1>6. exec \in Execs /\ exec.pc = "idle" /\ exec.purpose = "" /\ exec.prev = 0
  BY <1>2, NoExecTyped
<1>7. RoutingTypes
  <2>1. att \in Seq(ModelAttempts) /\ Len(att) = 0
    BY <1>2
  <2>2. Len(att) <= MaxAttempts /\ size \in 0..MaxSize
    BY <1>2, <2>1 DEF RoutingAssumption
  <2>. QED BY <1>3, <1>4, <1>5, <1>6, <2>1, <2>2 DEF RoutingTypes
<1>8. Bindings
  <2>1. turn.raised = turn.upgrades /\ turn.upgrades <= MaxUpgrades
    BY <1>5 DEF RoutingAssumption
  <2>2. turn.mode # "auto"
    BY <1>5
  <2>. QED BY <1>2, <1>5, <1>6, <2>1, <2>2 DEF Bindings
<1>9. Calling
  BY <1>6 DEF Calling
<1>10. Attempts = {} /\ Assessments = {}
  BY <1>2, <1>7, NoAttempts
<1>11. OneStands /\ FewAssessments /\ BoundAddress
  BY <1>10, FS_EmptySet DEF OneStands, FewAssessments, BoundAddress, RoutingAssumption
<1>. QED BY <1>7, <1>8, <1>9, <1>11 DEF RoutingInv

LEMMA RoutingKeeps ==
  ASSUME RoutingAssumption, RoutingInv, [RoutingNext]_routingVars
  PROVE  RoutingInv'
<1>1. CASE UNCHANGED routingVars
  <2>1. setup' = setup /\ addr' = addr /\ turn' = turn /\ att' = att /\ exec' = exec /\ size' = size
    BY <1>1 DEF routingVars
  <2>2. Attempts' = Attempts /\ Assessments' = Assessments /\ Calls' = Calls
    BY <2>1 DEF Attempts, Assessments, Calls, Last
  <2>3. RoutingTypes' /\ Bindings'
    BY <2>1 DEF RoutingInv, RoutingTypes, Bindings
  <2>4. Calling' /\ OneStands' /\ FewAssessments' /\ BoundAddress'
    BY <2>1, <2>2 DEF RoutingInv, Calling, OneStands, FewAssessments, BoundAddress
  <2>. QED BY <2>3, <2>4 DEF RoutingInv
<1>2. CASE RoutingNext
  <2>1. CASE \E m \in Models : StartManual(m) \/ SwitchModel(m)
    BY <2>1, StartManualKeeps, SwitchKeeps
  <2>2. CASE \E b \in Models0 : StartAuto(b)
    BY <2>2, StartAutoKeeps
  <2>3. CASE \E b \in turn.policy : Adopt(b) \/ Upgrade(b)
    BY <2>3, AdoptKeeps, UpgradeKeeps
  <2>4. CASE LoopStops \/ Assess \/ Proceed \/ TooLarge
    BY <2>4, LoopKeeps
  <2>5. CASE Revoke
    BY <2>5, RevokeKeeps
  <2>6. CASE Unreadable
    BY <2>6, ReadableKeeps
  <2>7. CASE Client \/ Check \/ Retry
    BY <2>7, ClientKeeps, CheckKeeps
  <2>8. CASE StartCall
    BY <2>8, StartCallKeeps
  <2>9. CASE Interrupted
    BY <2>9, InterruptedKeeps
  <2>10. CASE \E final \in BOOLEAN : Answers(final)
    BY <2>10, AnswersKeeps
  <2>11. CASE \E s \in {"failed", "unknown"} : Fails(s)
    BY <2>11, FailsKeeps
  <2>12. CASE Continue \/ IncreaseLimits
    BY <2>12, ContinueKeeps
  <2>13. CASE \/ \E on \in BOOLEAN : SetAuto(on)
              \/ \E m \in Models : EditModel(m)
              \/ \E m \in Models, a \in Addrs : EditKey(m, a)
    BY <2>13, EditKeeps
  <2>. QED BY <1>2, <2>1, <2>2, <2>3, <2>4, <2>5, <2>6, <2>7, <2>8, <2>9, <2>10, <2>11, <2>12, <2>13
           DEF RoutingNext
<1>. QED BY <1>1, <1>2

LEMMA RoutingImplied ==
  ASSUME RoutingAssumption, RoutingInv
  PROVE  RoutingBounded
<1>1. RoutingTypes /\ turn \in Turns /\ exec \in Execs /\ setup \in Setups
  BY DEF RoutingInv, RoutingTypes
<1>2. setup.rev \in [Models -> 0..MaxEdits] /\ setup.auto \in BOOLEAN
  <2>1. setup.rev \in [Models -> Nat] /\ setup.edits \in 0..MaxEdits /\ setup.auto \in BOOLEAN
    BY <1>1 DEF Setups
  <2>2. \A m \in Models : setup.rev[m] <= setup.edits
    BY <1>1 DEF RoutingTypes
  <2>3. \A m \in Models : setup.rev[m] \in 0..MaxEdits
    BY <2>1, <2>2 DEF RoutingAssumption
  <2>. QED BY <2>1, <2>3
<1>3. /\ turn.status \in {"none", "running", "stopped", "failed", "unknown", "completed"}
      /\ turn.auto \in BOOLEAN /\ turn.mode \in {"auto", "manual"}
  BY <1>1 DEF Turns
<1>4. exec.pc \in {"idle", "loop", "client", "check", "slot", "sent", "retry"}
  BY <1>1 DEF Execs
<1>5. RoutingTypeOK
  BY <1>1, <1>2, <1>3, <1>4 DEF RoutingTypeOK, RoutingTypes
<1>6. AssessedOnce
  BY <1>4 DEF RoutingInv, FewAssessments, AssessedOnce
<1>7. UpgradesBounded
  BY DEF RoutingInv, Bindings, UpgradesBounded
<1>. QED BY <1>5, <1>6, <1>7 DEF RoutingBounded, RoutingInv

(* However the configuration, the Key profiles and the user act around a Run, *)
(* its calls go to the address of a binding of its own, no assessment and no  *)
(* automatic upgrade exceeds its allowance over retries and continuations,    *)
(* and what routing saves can always be read back (routing.go prepareAuto,    *)
(* store.go startGuardedModel, model_selection.go modelClient).               *)
THEOREM RoutingBoundedAlways ==
  ASSUME RoutingAssumption
  PROVE  RoutingSpec => []RoutingBounded
<1>1. RoutingInit => RoutingInv
  BY RoutingStarts
<1>2. RoutingInv /\ [RoutingNext]_routingVars => RoutingInv'
  BY RoutingKeeps
<1>3. RoutingInv => RoutingBounded
  BY RoutingImplied
<1>. QED BY <1>1, <1>2, <1>3, PTL DEF RoutingSpec

(* Only SwitchModel changes the bindings of a Run whose model was chosen by   *)
(* hand.                                                                      *)
LEMMA ManualStep ==
  ASSUME RoutingInv, RoutingNext
  PROVE  ManualKept
<1>1. SUFFICES ASSUME turn.status # "none", turn.mode = "manual", turn'.bindings # turn.bindings
               PROVE  turn'.switches = turn.switches + 1
  BY DEF ManualKept
<1>2. turn \in Turns /\ ~turn.auto
  BY <1>1 DEF RoutingInv, RoutingTypes, Bindings
<1>3. CASE \E m \in Models : StartManual(m) \/ SwitchModel(m)
  <2>1. PICK m \in Models : SwitchModel(m)
    BY <1>1, <1>3 DEF StartManual
  <2>. QED BY <1>2, <2>1 DEF SwitchModel, Turns
<1>4. ~ \E b \in Models0 : StartAuto(b)
  BY <1>1 DEF StartAuto
<1>5. ~ \E b \in turn.policy : Adopt(b) \/ Upgrade(b)
  BY <1>2 DEF Adopt, Assesses, Upgrade, Raises
<1>6. ASSUME turn' = turn PROVE FALSE
  BY <1>1, <1>6
<1>7. ~(LoopStops \/ Assess \/ Proceed \/ TooLarge \/ Unreadable \/ Client \/ Check \/ Retry \/ StartCall)
  BY <1>6 DEF LoopStops, Assess, Proceed, TooLarge, Unreadable, Client, Check, Retry, StartCall
<1>8. ~ \/ \E on \in BOOLEAN : SetAuto(on)
        \/ \E m \in Models : EditModel(m)
        \/ \E m \in Models, a \in Addrs : EditKey(m, a)
  BY <1>6 DEF SetAuto, EditModel, EditKey
<1>9. ~Revoke
  BY <1>2 DEF Revoke
<1>10. ASSUME NEW s, turn' = [turn EXCEPT !.status = s] PROVE FALSE
  BY <1>1, <1>2, <1>10 DEF Turns
<1>11. ~Interrupted /\ ~Continue /\ ~(\E final \in BOOLEAN : Answers(final))
       /\ ~(\E s \in {"failed", "unknown"} : Fails(s))
  BY <1>6, <1>10 DEF Interrupted, Continue, Answers, Fails
<1>12. ~IncreaseLimits
  BY <1>1, <1>2 DEF IncreaseLimits, Turns
<1>. QED BY <1>3, <1>4, <1>5, <1>7, <1>8, <1>9, <1>11, <1>12 DEF RoutingNext

(* Once a model was chosen by hand, or Auto lost its authority, no retry,     *)
(* assessment or outgrown context of the Run brings an automatic choice back: *)
(* only the user changes the model (model_selection.go SwitchModel,           *)
(* routing.go prepareAuto).                                                   *)
THEOREM ManualStays ==
  ASSUME RoutingAssumption
  PROVE  RoutingSpec => [][ManualKept]_routingVars
<1>1. RoutingInit => RoutingInv
  BY RoutingStarts
<1>2. RoutingInv /\ [RoutingNext]_routingVars => RoutingInv'
  BY RoutingKeeps
<1>3. RoutingInv /\ [RoutingNext]_routingVars => [ManualKept]_routingVars
  BY ManualStep
<1>. QED BY <1>1, <1>2, <1>3, PTL DEF RoutingSpec
=============================================================================
