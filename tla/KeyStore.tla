------------------------------ MODULE KeyStore ------------------------------
(* The file of Key profiles, keys.json (internal/harness/keys.go), shared by  *)
(* the Owner and by command-line processes (cmd/freeagent/key.go).  Every     *)
(* process has a KeyStore of its own, with a mutex and a cache; a change is   *)
(* made under the file lock keys.json.lock on a fresh copy, and published     *)
(* with a rename.  Readers take no file lock.                                 *)
(*                                                                            *)
(* A profile is its address, its key and its last connection check.  Names    *)
(* and notes, the protocol (bound exactly like the address) and the           *)
(* encryption of the key are left out.                                        *)
EXTENDS Naturals, FiniteSets

CONSTANTS
  Processes,    \* the Owner and command lines
  Ids,          \* profiles
  Bases,        \* addresses
  MaxSecrets,   \* bound: keys entered
  MaxPublished, \* bound: publications of the file
  MaxKills      \* bound: processes killed

VARIABLES
  file,     \* keys.json: each profile, or Gone
  stamp,    \* modification time and size of the file
  keysLock, \* the holder of keys.json.lock, or Nobody
  cache,    \* KeyStore.cache of each process
  job,      \* what each process is doing
  sent,     \* the last key sent out: sealed for which address, to which address
  secrets,  \* how many keys were entered
  truth,    \* what the file would be if every change were one atomic step
  kills

\* What the constants have to be.
KeyAssumption ==
  /\ "nobody" \notin Processes /\ Ids # {}
  /\ MaxSecrets \in Nat /\ MaxPublished \in Nat /\ MaxKills \in Nat

keyVars == <<file, stamp, keysLock, cache, job, sent, secrets, truth, kills>>

Nobody == "nobody"
NotSent == [source |-> "", sealed |-> "", to |-> ""]
NoCheck == [base |-> "", secret |-> 0]
NoKey == [source |-> "", secret |-> 0, bound |-> ""]
Gone == [base |-> "", key |-> NoKey, check |-> NoCheck]
NoJob == [op |-> "idle", at |-> "idle", id |-> CHOOSE i \in Ids : TRUE, base |-> "", source |-> "",
         secret |-> 0, seen |-> [i \in Ids |-> Gone], check |-> NoCheck]
NoCache == [valid |-> FALSE, stamp |-> 0, profiles |-> [i \in Ids |-> Gone]]

Key == [source : {"", "saved", "env"}, secret : 0..MaxSecrets, bound : Bases \union {""}]
Profile == [base : Bases \union {""}, key : Key,
            check : [base : Bases \union {""}, secret : 0..MaxSecrets]]

KeyTypeOK ==
  /\ file \in [Ids -> Profile] /\ truth \in [Ids -> Profile]
  /\ stamp \in 0..MaxPublished /\ keysLock \in Processes \union {Nobody}
  /\ \A p \in Processes : cache[p].stamp <= stamp /\ job[p].op \in {"idle", "add", "update", "remove", "probe"}

KeyInit ==
  /\ file = [i \in Ids |-> Gone] /\ truth = file
  /\ stamp = 0 /\ keysLock = Nobody
  /\ cache = [p \in Processes |-> NoCache] /\ job = [p \in Processes |-> NoJob]
  /\ sent = NotSent /\ secrets = 0 /\ kills = 0

-----------------------------------------------------------------------------
(* KeyStore.load: the cache while the file has the same time and size.        *)
View(p) == IF cache[p].valid /\ cache[p].stamp = stamp THEN cache[p].profiles ELSE file
Loaded(p) == cache' = [cache EXCEPT ![p] = [valid |-> TRUE, stamp |-> stamp, profiles |-> View(p)]]

(* prepareKey: an entered key is sealed for the profile's address; a variable *)
(* of the environment needs no seal and follows the address.                  *)
Sealed(j) == IF j.source = "" THEN NoKey ELSE [source |-> j.source, secret |-> j.secret, bound |-> j.base]

(* KeyStore.Update: a key that is not replaced keeps its seal; a check is     *)
(* kept only with its address and its key.                                    *)
Updated(old, j) ==
  LET key == IF j.source # "" THEN Sealed(j)
             ELSE IF old.key.source = "env" THEN [old.key EXCEPT !.bound = j.base]
             ELSE old.key
  IN [base |-> j.base, key |-> key,
      check |-> IF j.base = old.base /\ key = old.key THEN old.check ELSE NoCheck]

(* The edit of a job on a copy of the file; it fails on a profile that is not *)
(* there, or, for Add, one that is.                                           *)
Fits(f, j) == (j.op = "add") = (f[j.id] = Gone)
Edit(f, j) ==
  IF ~Fits(f, j) THEN f
  ELSE [f EXCEPT ![j.id] =
          CASE j.op = "add" -> [base |-> j.base, key |-> Sealed(j), check |-> NoCheck]
            [] j.op = "update" -> Updated(f[j.id], j)
            [] j.op = "remove" -> Gone
            [] j.op = "probe" -> [f[j.id] EXCEPT !.check = j.check]]

-----------------------------------------------------------------------------
(* KeyStore.Add: a new profile with the key that was entered.                 *)
Add(p, i, b, source) ==
  /\ job[p].op = "idle" /\ source # ""
  /\ source = "saved" => secrets < MaxSecrets
  /\ secrets' = IF source = "saved" THEN secrets + 1 ELSE secrets
  /\ job' = [job EXCEPT ![p] = [NoJob EXCEPT !.op = "add", !.at = "lock", !.id = i, !.base = b,
               !.source = source, !.secret = IF source = "saved" THEN secrets + 1 ELSE 0]]
  /\ UNCHANGED <<file, stamp, keysLock, cache, sent, truth, kills>>

(* updateKey and keyEdit: the profile is read first; an address that is not   *)
(* given is the one read, a key that is not entered is kept.                  *)
Update(p, i, b, source) ==
  /\ job[p].op = "idle" /\ View(p)[i] # Gone
  /\ source = "saved" => secrets < MaxSecrets
  /\ secrets' = IF source = "saved" THEN secrets + 1 ELSE secrets
  /\ job' = [job EXCEPT ![p] = [NoJob EXCEPT !.op = "update", !.at = "lock", !.id = i,
               !.base = IF b = "" THEN View(p)[i].base ELSE b,
               !.source = source, !.secret = IF source = "saved" THEN secrets + 1 ELSE 0]]
  /\ Loaded(p)
  /\ UNCHANGED <<file, stamp, keysLock, sent, truth, kills>>

(* KeyStore.Remove, after Find.                                               *)
Remove(p, i) ==
  /\ job[p].op = "idle" /\ View(p)[i] # Gone
  /\ job' = [job EXCEPT ![p] = [NoJob EXCEPT !.op = "remove", !.at = "lock", !.id = i]]
  /\ Loaded(p)
  /\ UNCHANGED <<file, stamp, keysLock, sent, secrets, truth, kills>>

-----------------------------------------------------------------------------
(* KeyStore.Resolve and the request that follows it: keyedModelClient for a   *)
(* model call, ProbeModelsForProtocol for a connection test.  The seal must   *)
(* name the profile's address.                                                *)
Resolvable(pr) == pr.key.source = "env" \/ (pr.key.source = "saved" /\ pr.key.bound = pr.base)

Sends(pr) == sent' = [source |-> pr.key.source, sealed |-> pr.key.bound, to |-> pr.base]

Call(p, i) ==
  /\ job[p].op = "idle" /\ View(p)[i] # Gone /\ Resolvable(View(p)[i])
  /\ Sends(View(p)[i]) /\ Loaded(p)
  /\ UNCHANGED <<file, stamp, keysLock, job, secrets, truth, kills>>

(* keyProbe and ControlProbeKey: resolve, ask the provider, then record the   *)
(* result under the profile's id.                                             *)
Probe(p, i) ==
  /\ job[p].op = "idle" /\ View(p)[i] # Gone /\ Resolvable(View(p)[i])
  /\ Sends(View(p)[i]) /\ Loaded(p)
  /\ job' = [job EXCEPT ![p] = [NoJob EXCEPT !.op = "probe", !.at = "lock", !.id = i,
               !.check = [base |-> View(p)[i].base, secret |-> View(p)[i].key.secret]]]
  /\ UNCHANGED <<file, stamp, keysLock, secrets, truth, kills>>

-----------------------------------------------------------------------------
(* KeyStore.modify                                                            *)

LockAndReadAlone(p) ==
  /\ job[p].at = "lock"
  /\ keysLock' = p /\ job' = [job EXCEPT ![p] = [@ EXCEPT !.at = "edit", !.seen = file]]
  /\ UNCHANGED <<file, stamp, cache, sent, secrets, truth, kills>>

(* The file lock, then a fresh copy of the file.                              *)
LockAndRead(p) ==
  /\ job[p].at = "lock" /\ keysLock = Nobody
  /\ keysLock' = p /\ job' = [job EXCEPT ![p] = [@ EXCEPT !.at = "edit", !.seen = file]]
  /\ UNCHANGED <<file, stamp, cache, sent, secrets, truth, kills>>

(* acquireKeysLock gives up: ErrKeysBusy.                                     *)
KeysBusy(p) ==
  /\ job[p].at = "lock" /\ keysLock # Nobody
  /\ job' = [job EXCEPT ![p] = NoJob]
  /\ UNCHANGED <<file, stamp, keysLock, cache, sent, secrets, truth, kills>>

(* The edit fails: nothing is published.                                      *)
Refused(p) ==
  /\ job[p].at = "edit" /\ ~Fits(job[p].seen, job[p])
  /\ keysLock' = Nobody /\ job' = [job EXCEPT ![p] = NoJob]
  /\ UNCHANGED <<file, stamp, cache, sent, secrets, truth, kills>>

(* publishKeysFile: the cache is dropped, a staged file is renamed over the   *)
(* old one.                                                                   *)
PublishKeys(p) ==
  /\ job[p].at = "edit" /\ Fits(job[p].seen, job[p]) /\ stamp < MaxPublished
  /\ file' = Edit(job[p].seen, job[p]) /\ stamp' = stamp + 1
  /\ truth' = Edit(truth, job[p])
  /\ cache' = [cache EXCEPT ![p] = NoCache]
  /\ job' = [job EXCEPT ![p] = [@ EXCEPT !.at = "published", !.seen = Edit(job[p].seen, job[p])]]
  /\ UNCHANGED <<keysLock, sent, secrets, kills>>

(* The staged file cannot be written or renamed.                              *)
PublishKeysFails(p) ==
  /\ job[p].at = "edit" /\ Fits(job[p].seen, job[p])
  /\ cache' = [cache EXCEPT ![p] = NoCache]
  /\ keysLock' = Nobody /\ job' = [job EXCEPT ![p] = NoJob]
  /\ UNCHANGED <<file, stamp, sent, secrets, truth, kills>>

(* Still under the lock: the cache is what was published, under the time and  *)
(* the size the file has now.                                                 *)
Recache(p) ==
  /\ job[p].at = "published"
  /\ cache' = [cache EXCEPT ![p] = [valid |-> TRUE, stamp |-> stamp, profiles |-> job[p].seen]]
  /\ keysLock' = Nobody /\ job' = [job EXCEPT ![p] = NoJob]
  /\ UNCHANGED <<file, stamp, sent, secrets, truth, kills>>

(* The process is killed; the system releases its file lock.                  *)
Kill(p) ==
  /\ job[p].op # "idle" /\ kills < MaxKills /\ kills' = kills + 1
  /\ job' = [job EXCEPT ![p] = NoJob] /\ cache' = [cache EXCEPT ![p] = NoCache]
  /\ keysLock' = IF keysLock = p THEN Nobody ELSE keysLock
  /\ UNCHANGED <<file, stamp, sent, secrets, truth>>

-----------------------------------------------------------------------------
KeyNext == \E p \in Processes :
  \/ \E i \in Ids, b \in Bases, s \in {"saved", "env"} : Add(p, i, b, s)
  \/ \E i \in Ids, b \in Bases \union {""}, s \in {"", "saved", "env"} : Update(p, i, b, s)
  \/ \E i \in Ids : Remove(p, i) \/ Call(p, i) \/ Probe(p, i)
  \/ LockAndRead(p) \/ KeysBusy(p) \/ Refused(p)
  \/ PublishKeys(p) \/ PublishKeysFails(p) \/ Recache(p) \/ Kill(p)

KeySpec == KeyInit /\ [][KeyNext]_keyVars

-----------------------------------------------------------------------------
(* The changes of several processes are one after the other: none is lost and *)
(* none brings back what another has removed (keys.go modify).                *)
Serialized == file = truth

(* A cache that says it has the file's time and size has the file's content,  *)
(* whoever published it (keys.go load, modify).                               *)
CacheHonest == \A p \in Processes : cache[p].valid /\ cache[p].stamp = stamp => cache[p].profiles = file

(* A saved key goes to the address it was entered for and to no other, over   *)
(* every order of edits, stale reads and calls (keys.go Resolve, Update).     *)
KeyAtItsAddress == sent.source = "saved" => sent.to = sent.sealed

(* The file of keys is one store for all processes, and a key in it goes to   *)
(* its own address only (keys.go).                                            *)
KeysHonest == KeyTypeOK /\ Serialized /\ CacheHonest /\ KeyAtItsAddress
=============================================================================
