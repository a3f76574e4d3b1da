----------------------------- MODULE OwnerStore -----------------------------
(* Who owns a data directory: openPostgresStore, Store.Close and the watcher  *)
(* of harness/postgres_store.go, claim_owner and fence_writer of              *)
(* postgres_schema.sql, the managed database of postgres/runtime.go, and the  *)
(* discovery files of handoff/discovery.go with the client that reads them.   *)
(*                                                                            *)
(* An Owner holds owner.lock, then a session with the advisory lock, then a   *)
(* new generation; it publishes its identity in three files and gives all of  *)
(* this back in its own order.  A process may crash at any point: the system  *)
(* frees owner.lock at once, but the server works on for a while, both on the *)
(* advisory session and on a statement that was already sent.                 *)
EXTENDS Naturals, FiniteSets

CONSTANTS
  Procs,       \* processes that may become the Owner
  MaxSessions, \* bound: advisory sessions and generations
  MaxCrashes,  \* bound: crashes of processes
  MaxLosses    \* bound: sessions the server drops, writes of files that fail

\* What the proofs assume of them.
OwnerAssumption == "none" \notin Procs /\ MaxSessions \in Nat

VARIABLES
  pc,        \* where each process is on its way into or out of ownership
  lock,      \* the process that holds owner.lock, or "none"
  database,  \* the managed cluster is running
  session,   \* the number of the advisory session of each process, or 0
  advisory,  \* the session that holds the advisory lock, or 0
  doc,       \* meta row core/owner: generation and session
  gen,       \* the generation each process claimed
  lost,      \* pgOwner.lost of each process
  txs,       \* transactions at the server: generation, and the fence is passed
  files,     \* discovery files: the generation in each, or 0
  reader,    \* a client that attaches: next step and what it has read
  viewer,    \* a read-only process: "off", "user" or "starter" of the cluster
  last,      \* the number of the last advisory session
  crashes, losses,
  left       \* a process crashed and no Owner has adopted the cluster since

storeVars == <<pc, lock, database, session, advisory, doc, gen, lost, txs, files, reader, viewer, last,
          crashes, losses, left>>

Names == {"engine", "secret", "chat"}
NoFiles == [n \in Names |-> 0]

\* The order of ownership: what openPostgresStore and startLocalOwner acquire,
\* and what localOwner.Close and Store.Close give back.
Opening == {"lock", "runtime", "advisory", "claimed", "engine", "secret", "chat"}
Closing == {"unpublish", "pool", "session", "stop", "unlock"}
Watched == {"claimed", "engine", "secret", "chat", "serving", "unpublish", "pool"}

StoreInit ==
  /\ pc = [p \in Procs |-> "off"]
  /\ lock = "none" /\ database = FALSE
  /\ session = [p \in Procs |-> 0] /\ advisory = 0
  /\ doc = [gen |-> 0, session |-> 0] /\ gen = [p \in Procs |-> 0]
  /\ lost = [p \in Procs |-> FALSE]
  /\ txs = {} /\ files = NoFiles
  /\ reader = [pc |-> "idle", read |-> NoFiles] /\ viewer = "off"
  /\ last = 0 /\ crashes = 0 /\ losses = 0 /\ left = FALSE

At(p, here, next) == pc[p] = here /\ pc' = [pc EXCEPT ![p] = next]

-----------------------------------------------------------------------------
(* Opening *)

\* acquireProcessFileLock: without owner.lock the process ends with
\* ErrOwnerActive and attaches instead.
AcquireLock(p) ==
  /\ At(p, "off", "lock")
  /\ lock = "none" /\ last < MaxSessions
  /\ lock' = p
  /\ UNCHANGED <<database, session, advisory, doc, gen, lost, txs, files, reader, viewer, last,
                 crashes, losses, left>>

\* postgres.AcquireOwner: starts the cluster unless it is running, and adopts
\* it in both cases.
AcquireRuntime(p) ==
  /\ At(p, "lock", "runtime")
  /\ database' = TRUE /\ left' = FALSE
  /\ UNCHANGED <<lock, session, advisory, doc, gen, lost, txs, files, reader, viewer, last, crashes,
                 losses>>

\* pg_ctl start fails: what it may have launched is stopped again.
AcquireRuntimeFails(p) ==
  /\ At(p, "lock", "stop")
  /\ ~database /\ losses < MaxLosses /\ losses' = losses + 1
  /\ left' = FALSE
  /\ UNCHANGED <<lock, database, session, advisory, doc, gen, lost, txs, files, reader, viewer, last,
                 crashes>>

\* pg_try_advisory_lock on a connection of its own; taken, or the database
\* gone, the open fails and releases what it holds.
TryAdvisory(p) ==
  /\ pc[p] = "runtime"
  /\ IF database /\ advisory = 0
     THEN /\ pc' = [pc EXCEPT ![p] = "advisory"]
          /\ last' = last + 1 /\ advisory' = last' /\ session' = [session EXCEPT ![p] = last']
     ELSE pc' = [pc EXCEPT ![p] = "stop"] /\ UNCHANGED <<last, advisory, session>>
  /\ UNCHANGED <<lock, database, doc, gen, lost, txs, files, reader, viewer, crashes, losses, left>>

\* Mutant: the owner row is read without FOR UPDATE.
ClaimAtOnce == FALSE

\* SELECT ... FOR UPDATE of the owner row waits for every transaction that
\* holds the row FOR SHARE since it passed the fence.
ClaimWaits == \E t \in txs : t.fenced

\* SELECT fa.claim_owner(): needs the advisory lock in this session.
Claim(p) ==
  /\ pc[p] = "advisory"
  /\ IF advisory = session[p]
     THEN /\ ~ClaimWaits
          /\ pc' = [pc EXCEPT ![p] = "claimed"]
          /\ doc' = [gen |-> doc.gen + 1, session |-> session[p]]
          /\ gen' = [gen EXCEPT ![p] = doc.gen + 1]
          /\ lost' = [lost EXCEPT ![p] = FALSE]
     ELSE pc' = [pc EXCEPT ![p] = "session"] /\ UNCHANGED <<doc, gen, lost>>
  /\ UNCHANGED <<lock, database, session, advisory, txs, files, reader, viewer, last, crashes,
                 losses, left>>

\* lock_timeout: a claim that waited too long fails.
ClaimTimesOut(p) ==
  /\ At(p, "advisory", "session")
  /\ advisory = session[p] /\ ClaimWaits
  /\ UNCHANGED <<lock, database, session, advisory, doc, gen, lost, txs, files, reader, viewer, last,
                 crashes, losses, left>>

\* fence_writer lets a statement pass: the generation of its connection is the
\* current one and the session that claimed it still holds the advisory lock.
Passes(g) == database /\ doc.gen = g /\ advisory = doc.session

\* recover: a transaction of the new Owner; if it fails, the open fails.
Recover(p) ==
  /\ pc[p] = "claimed"
  /\ pc' = [pc EXCEPT ![p] = IF ~lost[p] /\ Passes(gen[p]) THEN "engine" ELSE "pool"]
  /\ UNCHANGED <<lock, database, session, advisory, doc, gen, lost, txs, files, reader, viewer, last,
                 crashes, losses, left>>

AfterFile == [engine |-> "secret", secret |-> "chat", chat |-> "serving"]
Before(n) == CASE n = "engine" -> {} [] n = "secret" -> {"engine"} [] n = "chat" -> {"engine", "secret"}

\* handoff.Publish: one atomic rename after the other.
Publish(p, n) ==
  /\ At(p, n, AfterFile[n])
  /\ files' = [files EXCEPT ![n] = gen[p]]
  /\ UNCHANGED <<lock, database, session, advisory, doc, gen, lost, txs, reader, viewer, last,
                 crashes, losses, left>>

\* A file that cannot be written: the ones before it are removed, the open fails.
PublishFails(p, n) ==
  /\ At(p, n, "pool")
  /\ losses < MaxLosses /\ losses' = losses + 1
  /\ files' = [m \in Names |-> IF m \in Before(n) THEN 0 ELSE files[m]]
  /\ UNCHANGED <<lock, database, session, advisory, doc, gen, lost, txs, reader, viewer, last,
                 crashes, left>>

-----------------------------------------------------------------------------
(* Closing *)

\* A stop request, the end of the context or the loss of the database; the
\* requests and Runs of the Owner are over when localOwner.Close goes on.
Stop(p) ==
  /\ At(p, "serving", "unpublish")
  /\ UNCHANGED <<lock, database, session, advisory, doc, gen, lost, txs, files, reader, viewer, last,
                 crashes, losses, left>>

\* Published.Close: the three files, one by one and whatever they hold.
Unpublish(p) ==
  /\ pc[p] = "unpublish"
  /\ IF files = NoFiles THEN pc' = [pc EXCEPT ![p] = "pool"] /\ UNCHANGED files
     ELSE /\ UNCHANGED pc
          /\ \E n \in Names :
               /\ files[n] # 0 /\ (\A m \in Before(n) : files[m] = 0)
               /\ files' = [files EXCEPT ![n] = 0]
  /\ UNCHANGED <<lock, database, session, advisory, doc, gen, lost, txs, reader, viewer, last,
                 crashes, losses, left>>

\* Store.Close, db.Close: waits for the statements that have started.
ClosePool(p) ==
  /\ At(p, "pool", "session")
  /\ \A t \in txs : t.gen # gen[p]
  /\ UNCHANGED <<lock, database, session, advisory, doc, gen, lost, txs, files, reader, viewer, last,
                 crashes, losses, left>>

\* pgOwner.close: the watcher ends, then the session with its lock.
CloseSession(p) ==
  /\ At(p, "session", "stop")
  /\ advisory' = IF advisory = session[p] THEN 0 ELSE advisory
  /\ session' = [session EXCEPT ![p] = 0]
  /\ UNCHANGED <<lock, database, doc, gen, lost, txs, files, reader, viewer, last, crashes, losses,
                 left>>

\* pg_ctl stop -m fast: every session and transaction of the cluster ends.
ClusterStops == database' = FALSE /\ advisory' = 0 /\ txs' = {}

\* releaseRuntime of an Owner, who adopted the cluster.
StopRuntime(p) ==
  /\ At(p, "stop", "unlock")
  /\ ClusterStops
  /\ UNCHANGED <<lock, session, doc, gen, lost, files, reader, viewer, last, crashes, losses, left>>

ReleaseLock(p) ==
  /\ At(p, "unlock", "off")
  /\ lock' = "none"
  /\ UNCHANGED <<database, session, advisory, doc, gen, lost, txs, files, reader, viewer, last,
                 crashes, losses, left>>

-----------------------------------------------------------------------------
(* Serving: writes, the watcher, faults *)

\* pgDatabase.BeginTx, ready: a request's transaction reaches the server.
Begin(p) ==
  /\ pc[p] = "serving" /\ ~lost[p] /\ database
  /\ \A t \in txs : t.gen # gen[p]
  /\ txs' = txs \cup {[gen |-> gen[p], fenced |-> FALSE]}
  /\ UNCHANGED <<pc, lock, database, session, advisory, doc, gen, lost, files, reader, viewer, last,
                 crashes, losses, left>>

\* The trigger of its first writing statement: FOR SHARE of the owner row, or
\* the transaction is refused.
Fence(t) ==
  /\ t \in txs /\ ~t.fenced
  /\ txs' = (txs \ {t}) \cup IF Passes(t.gen) THEN {[t EXCEPT !.fenced = TRUE]} ELSE {}
  /\ UNCHANGED <<pc, lock, database, session, advisory, doc, gen, lost, files, reader, viewer, last,
                 crashes, losses, left>>

\* It commits, or is rolled back when its client is gone.
Ends(t) ==
  /\ t \in txs /\ t.fenced
  /\ txs' = txs \ {t}
  /\ UNCHANGED <<pc, lock, database, session, advisory, doc, gen, lost, files, reader, viewer, last,
                 crashes, losses, left>>

\* watchPGOwner: every tick asks whether the session still has the lock.
Watch(p) ==
  /\ pc[p] \in Watched /\ ~lost[p] /\ advisory # session[p]
  /\ lost' = [lost EXCEPT ![p] = TRUE]
  /\ UNCHANGED <<pc, lock, database, session, advisory, doc, gen, txs, files, reader, viewer, last,
                 crashes, losses, left>>

\* The server drops an advisory session.
SessionDropped ==
  /\ advisory # 0 /\ losses < MaxLosses /\ losses' = losses + 1
  /\ advisory' = 0
  /\ UNCHANGED <<pc, lock, database, session, doc, gen, lost, txs, files, reader, viewer, last,
                 crashes, left>>

\* A process dies: owner.lock is free at once.
Crash(p) ==
  /\ pc[p] # "off" /\ crashes < MaxCrashes /\ crashes' = crashes + 1
  /\ pc' = [pc EXCEPT ![p] = "off"]
  /\ lock' = IF lock = p THEN "none" ELSE lock
  /\ session' = [session EXCEPT ![p] = 0]
  /\ left' = TRUE
  /\ UNCHANGED <<database, advisory, doc, gen, lost, txs, files, reader, viewer, last, losses>>

\* The server notices that the client of the advisory session is gone.
BackendEnds ==
  /\ advisory # 0 /\ \A p \in Procs : session[p] # advisory
  /\ advisory' = 0
  /\ UNCHANGED <<pc, lock, database, session, doc, gen, lost, txs, files, reader, viewer, last,
                 crashes, losses, left>>

-----------------------------------------------------------------------------
(* A read-only process, and a client that attaches *)

\* OpenStoreReadOnly, postgres.Acquire: no owner.lock, no session; it stops the
\* cluster afterwards only if it started it.
ViewerOpens ==
  /\ viewer = "off"
  /\ viewer' = IF database THEN "user" ELSE "starter"
  /\ database' = TRUE
  /\ UNCHANGED <<pc, lock, session, advisory, doc, gen, lost, txs, files, reader, last, crashes,
                 losses, left>>

ViewerCloses ==
  /\ viewer # "off" /\ viewer' = "off"
  /\ IF viewer = "starter" THEN ClusterStops ELSE UNCHANGED <<database, advisory, txs>>
  /\ UNCHANGED <<pc, lock, session, doc, gen, lost, files, reader, last, crashes, losses, left>>

\* handoff.Read: one file after the other; a missing file ends it.
ReadFile(n) ==
  /\ reader.pc = IF n = "engine" THEN "idle" ELSE n
  /\ reader' = IF files[n] = 0 THEN [pc |-> "idle", read |-> NoFiles]
               ELSE [pc |-> [AfterFile EXCEPT !["chat"] = "ask"][n],
                     read |-> [reader.read EXCEPT ![n] = files[n]]]
  /\ UNCHANGED <<pc, lock, database, session, advisory, doc, gen, lost, txs, files, viewer, last,
                 crashes, losses, left>>

\* attachedOwner compares the generation it read with the one it is told.
SameOwner(p) == reader.read["engine"] = gen[p]

\* attachedOwner: GET state at the origin, which a later Owner may have as
\* well; the secret is compared by the server.
AskState ==
  /\ reader.pc = "ask"
  /\ \/ \E p \in Procs :
          /\ pc[p] = "serving" /\ reader.read["secret"] = gen[p] /\ SameOwner(p)
          /\ reader' = [reader EXCEPT !.pc = "attached"]
     \/ reader' = [pc |-> "idle", read |-> NoFiles]
  /\ UNCHANGED <<pc, lock, database, session, advisory, doc, gen, lost, txs, files, viewer, last,
                 crashes, losses, left>>

Detach ==
  /\ reader.pc = "attached"
  /\ reader' = [pc |-> "idle", read |-> NoFiles]
  /\ UNCHANGED <<pc, lock, database, session, advisory, doc, gen, lost, txs, files, viewer, last,
                 crashes, losses, left>>

-----------------------------------------------------------------------------
StoreNext ==
  \/ \E p \in Procs :
       \/ AcquireLock(p) \/ AcquireRuntime(p) \/ AcquireRuntimeFails(p) \/ TryAdvisory(p)
       \/ Claim(p) \/ ClaimTimesOut(p) \/ Recover(p) \/ \E n \in Names : Publish(p, n) \/ PublishFails(p, n)
       \/ Stop(p) \/ Unpublish(p) \/ ClosePool(p) \/ CloseSession(p) \/ StopRuntime(p)
       \/ ReleaseLock(p) \/ Begin(p) \/ Watch(p) \/ Crash(p)
  \/ \E t \in txs : Fence(t) \/ Ends(t)
  \/ SessionDropped \/ BackendEnds \/ ViewerOpens \/ ViewerCloses
  \/ \E n \in Names : ReadFile(n)
  \/ AskState \/ Detach

StoreSpec == StoreInit /\ [][StoreNext]_storeVars

-----------------------------------------------------------------------------
StoreTypeOK ==
  /\ pc \in [Procs -> {"off", "serving"} \cup Opening \cup Closing]
  /\ lock \in Procs \cup {"none"}
  /\ session \in [Procs -> 0..MaxSessions] /\ advisory \in 0..MaxSessions
  /\ doc \in [gen : 0..MaxSessions, session : 0..MaxSessions]
  /\ gen \in [Procs -> 0..MaxSessions]
  /\ txs \subseteq [gen : 1..MaxSessions, fenced : BOOLEAN]
  /\ files \in [Names -> 0..MaxSessions]
  /\ viewer \in {"off", "user", "starter"}

\* A transaction that may still commit belongs to the newest generation: an
\* Owner that has claimed, and so its recovery, never races with a write of an
\* earlier one, crashed or not (fence_writer and claim_owner).
WritersCurrent == \A t \in txs : t.fenced => t.gen = doc.gen

\* The files a serving Owner published are complete and its own: neither the
\* removal by an earlier Owner nor a failed publication touches them
\* (Published.Close before Store.Close).
DiscoveryIsOwners == \A p \in Procs : pc[p] = "serving" => \A n \in Names : files[n] = gen[p]

\* A client that attached read the identity and the secret of one Owner, though
\* it read them from two files while Owners changed (handoff.Read, attachedOwner).
AttachedToOne == reader.pc = "attached" => reader.read["engine"] = reader.read["secret"]

\* When the last process has left in order, the managed cluster is stopped, also
\* the one a crashed Owner left running (AcquireOwner, releaseRuntime).
NotLeftRunning ==
  database => left \/ viewer # "off" \/ \E p \in Procs : pc[p] # "off"

\* An Owner that lost its lock does not go on serving (watchPGOwner,
\* watchDatabaseOwner).
LossEndsOwner(p) == (pc[p] = "serving" /\ advisory # session[p]) ~> pc[p] # "serving"

\* A data directory has one Owner in every respect: the one that writes, the one
\* that is published and found, and the one that stops the database.
OneOwner == StoreTypeOK /\ WritersCurrent /\ DiscoveryIsOwners /\ AttachedToOne /\ NotLeftRunning
=============================================================================
