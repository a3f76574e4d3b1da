---------------------------- MODULE PublicSessions ----------------------------
(***************************************************************************)
(* The public Web entrance: administrator sessions, sign-in under load,    *)
(* the locks after failed sign-ins, and the requests served for a session. *)
(*                                                                         *)
(* publicweb.Auth keeps everything under one mutex, but the slow or        *)
(* external parts run outside it: a sign-in reads the policy and the       *)
(* credential, hashes the password without the mutex and then comes back;  *)
(* Refresh reads the credential file before it locks.  The policy changes  *)
(* under all of them, and so does the file (the local password command).   *)
(*                                                                         *)
(* Time is abstract: a lock, a failure window or a session's idle time     *)
(* ends in a step of its own.                                              *)
(***************************************************************************)
EXTENDS Integers, Sequences, FiniteSets, SequencesExt, FiniteSetsExt

CONSTANTS Sources,        \* addresses a request comes from
          Logins,         \* sign-in attempts; a successful one names its session
          Refreshers,     \* the ticker and the handlers that call Refresh
          Ticker,         \* the one that runs every half second
          Requests,       \* requests served for sessions
          Policies,       \* the public_web settings the Owner may save
          Start,          \* the one it started with
          FailureLimit, BlacklistAfter, GlobalLimit,
          HashSlots,      \* password hashes computed at once
          ReadSlots,      \* transfers a session may hold
          PerSource,      \* challenges a source may hold
          CookieCheck,    \* policy: a sign-in spends a challenge
          Binding,        \* policy: a session belongs to the source it began at
          MaxSources,     \* addresses a session may be seen from
          MaxGeneration   \* bound: password changes

VARIABLES file,        \* the credential's generation on disk
          cred,        \* Auth.credential
          policy,      \* the live configuration
          origin,      \* Auth.origin
          running,     \* Auth.ctx is alive
          sessions,    \* Auth.sessions, by last activity
          failures,    \* Auth.failures
          global,      \* Auth.global
          challenges,  \* Auth.challenges: how many a source holds
          logins, refreshers, requests,
          tries        \* failures of a source since its window or lock ended
vars == <<file, cred, policy, origin, running, sessions, failures, global,
          challenges, logins, refreshers, requests, tries>>

NoFailures == [count |-> 0, locks |-> 0, locked |-> FALSE, black |-> FALSE]
NoLogin == [pc |-> "none"]
NoRefresh == [pc |-> "none"]
NoRequest == [pc |-> "none"]
TypeOK ==
  /\ file \in 1..MaxGeneration /\ cred \in 1..MaxGeneration
  /\ policy \in Policies /\ origin \in {p.origin : p \in Policies}
  /\ running \in BOOLEAN
  /\ sessions \in Seq([id : Logins, source : Sources, gen : 1..MaxGeneration,
                       sources : SUBSET Sources, idle : BOOLEAN])
  /\ failures \in [Sources -> [count : Nat, locks : Nat,
                               locked : BOOLEAN, black : BOOLEAN]]
  /\ global \in [count : Nat, paused : BOOLEAN]
  /\ challenges \in [Sources -> 0..PerSource]
  /\ DOMAIN logins = Logins /\ DOMAIN refreshers = Refreshers
  /\ DOMAIN requests = Requests /\ tries \in [Sources -> Nat]

Init ==
  /\ file = 1 /\ cred = 1
  /\ policy = Start /\ origin = Start.origin /\ running = TRUE
  /\ sessions = <<>>
  /\ failures = [s \in Sources |-> NoFailures]
  /\ global = [count |-> 0, paused |-> FALSE]
  /\ challenges = [s \in Sources |-> 0]
  /\ logins = [l \in Logins |-> NoLogin]
  /\ refreshers = [f \in Refreshers |-> NoRefresh]
  /\ requests = [r \in Requests |-> NoRequest]
  /\ tries = [s \in Sources |-> 0]
-----------------------------------------------------------------------------
Live == {sessions[i].id : i \in DOMAIN sessions}
SessionOf(id) == CHOOSE s \in ToSet(sessions) : s.id = id
Without(id) == SelectSeq(sessions, LAMBDA s : s.id # id)

\* Its context is cancelled when it leaves the table or the entrance closes.
Ended(id) == id \notin Live \/ ~running

\* Auth.Allowed: a lock stops sign-ins, a blacklisting stops sessions too.
Allowed(s, authenticated) ==
  /\ policy.enabled /\ s \in policy.allowed
  /\ ~failures[s].black
  /\ authenticated \/ ~failures[s].locked

\* The least recently active sessions make room.
Evicted(seq, room) ==
  IF Len(seq) <= room THEN seq ELSE SubSeq(seq, Len(seq) - room + 1, Len(seq))

Hashing == {l \in Logins : logins[l].pc = "hash"}
-----------------------------------------------------------------------------
(* The sign-in page: a one-time challenge bound to the source. *)
Challenge(s) ==
  /\ running /\ policy.origin = Start.origin /\ Allowed(s, FALSE)
  /\ CookieCheck /\ challenges[s] < PerSource
  /\ challenges' = [challenges EXCEPT ![s] = @ + 1]
  /\ UNCHANGED <<file, cred, policy, origin, running, sessions, failures,
                 global, logins, refreshers, requests, tries>>

(* Login up to the hash: the checks, the challenge, the credential as     *)
(* cached, and a hash slot.  Without a slot the challenge is still spent. *)
LoginStart(l) == \E s \in Sources, password \in 0..file :
  /\ running /\ policy.origin = Start.origin
  /\ logins[l].pc = "none" /\ l \notin Live
  /\ \A r \in Requests : requests[r] # NoRequest => requests[r].session # l
  /\ Allowed(s, FALSE)
  /\ ~global.paused
  /\ CookieCheck => challenges[s] > 0
  /\ challenges' = [challenges EXCEPT ![s] = IF CookieCheck THEN @ - 1 ELSE @]
  /\ logins' = IF Cardinality(Hashing) < HashSlots
               THEN [logins EXCEPT ![l] = [pc |-> "hash", source |-> s,
                                           gen |-> cred, password |-> password]]
               ELSE logins
  /\ UNCHANGED <<file, cred, policy, origin, running, sessions, failures,
                 global, refreshers, requests, tries>>

LimitReached(count) == count >= FailureLimit

(* failureLocked. *)
Failed(s) ==
  LET count == failures[s].count + 1
      lock == LimitReached(count) /\ ~failures[s].locked
      locks == IF lock THEN Min({failures[s].locks + 1, BlacklistAfter}) ELSE failures[s].locks
      pause == global.count + 1 >= GlobalLimit
  IN /\ failures' = [failures EXCEPT ![s] =
          [count |-> IF lock THEN 0 ELSE count,
           locks |-> locks,
           locked |-> @.locked \/ lock,
           black |-> @.black \/ (lock /\ locks >= BlacklistAfter)]]
     /\ global' = [count |-> IF pause THEN 0 ELSE global.count + 1,
                   paused |-> global.paused \/ pause]
     /\ tries' = [tries EXCEPT ![s] = @ + 1]

(* The hash of a wrong password: counted under the mutex. *)
LoginFails(l) ==
  /\ logins[l].pc = "hash" /\ logins[l].password # logins[l].gen
  /\ Failed(logins[l].source)
  /\ logins' = [logins EXCEPT ![l] = NoLogin]
  /\ UNCHANGED <<file, cred, policy, origin, running, sessions, challenges,
                 refreshers, requests>>

\* Mutant of StillWelcome: the policy and the locks, not the credential.
WelcomeAsBefore(c) == Allowed(c.source, FALSE) /\ ~global.paused

\* The live policy, the credential and the locks, read again after the hash.
StillWelcome(c) ==
  /\ Allowed(c.source, FALSE)
  /\ c.gen = cred
  /\ ~global.paused

(* The hash of the right password: the session, evicting the least active. *)
Login(l) ==
  /\ logins[l].pc = "hash" /\ logins[l].password = logins[l].gen
  /\ logins' = [logins EXCEPT ![l] = NoLogin]
  /\ IF StillWelcome(logins[l])
     THEN sessions' = Append(Evicted(sessions, policy.max - 1),
                        [id |-> l, source |-> logins[l].source, gen |-> logins[l].gen,
                         sources |-> {logins[l].source}, idle |-> FALSE])
     ELSE UNCHANGED sessions
  /\ UNCHANGED <<file, cred, policy, origin, running, failures, global,
                 challenges, refreshers, requests, tries>>

(* The browser went away during the hash: no failure, no session. *)
LoginGone(l) ==
  /\ logins[l].pc = "hash"
  /\ logins' = [logins EXCEPT ![l] = NoLogin]
  /\ UNCHANGED <<file, cred, policy, origin, running, sessions, failures,
                 global, challenges, refreshers, requests, tries>>
-----------------------------------------------------------------------------
(* Refresh, every half second and after a password change: the policy and  *)
(* the credential file are read first; 0 is a file that cannot be read.    *)
RefreshRead(f) == \E c \in {file, 0} :
  /\ refreshers[f].pc = IF f = Ticker THEN "none" ELSE "due"
  /\ f = Ticker => running
  /\ refreshers' = [refreshers EXCEPT ![f] = [pc |-> "read", gen |-> c, policy |-> policy]]
  /\ UNCHANGED <<file, cred, policy, origin, running, sessions, failures,
                 global, challenges, logins, requests, tries>>

\* Mutant of Kept: only the source it signed in from is looked at.
KeptBySignIn(p, s) == ~s.idle /\ s.source \in p.allowed /\ ~failures[s.source].black

\* Sessions the refreshed policy, time or a blacklisting does not end.
Kept(p, s) ==
  /\ ~s.idle
  /\ \A a \in s.sources : a \in p.allowed /\ ~failures[a].black

\* A credential, an origin or a switch that changed ends every session.
Revoked(c, p) == c # cred \/ ~p.enabled \/ p.origin # origin

RefreshApply(f) ==
  /\ refreshers[f].pc = "read"
  /\ LET c == refreshers[f].gen
         p == refreshers[f].policy
     IN /\ sessions' = IF Revoked(c, p) THEN <<>>
                       ELSE Evicted(SelectSeq(sessions, LAMBDA s : Kept(p, s)), p.max)
        /\ cred' = IF c = 0 THEN cred ELSE c
        /\ origin' = p.origin
        /\ running' = (running /\ p.enabled)
  /\ refreshers' = [refreshers EXCEPT ![f] = NoRefresh]
  /\ UNCHANGED <<file, policy, failures, global, challenges, logins, requests, tries>>

(* The entrance closes with its socket; the ticker's last act ends all sessions. *)
Close ==
  /\ running
  /\ running' = FALSE /\ sessions' = <<>>
  /\ UNCHANGED <<file, cred, policy, origin, failures, global, challenges,
                 logins, refreshers, requests, tries>>

(* The settings are saved through the control service. *)
SavePolicy(p) ==
  /\ p # policy
  /\ policy' = p
  /\ UNCHANGED <<file, cred, origin, running, sessions, failures, global,
                 challenges, logins, refreshers, requests, tries>>

\* The handler of a password request calls Refresh when the file is saved.
Due == [f \in Refreshers |->
          IF f # Ticker /\ refreshers[f].pc = "none" THEN [pc |-> "due"] ELSE refreshers[f]]

(* The password is set locally, by the command or through the local page:  *)
(* the file is replaced whole.                                             *)
SetPassword ==
  /\ file < MaxGeneration
  /\ file' = file + 1
  /\ refreshers' \in {refreshers, Due}
  /\ UNCHANGED <<cred, policy, origin, running, sessions, failures, global,
                 challenges, logins, requests, tries>>

(* The administrator changes it from a session: verified against the cache. *)
ChangePassword(r) ==
  /\ requests[r].pc = "found" /\ requests[r].kind = "write"
  /\ Cardinality(Hashing) < HashSlots
  /\ file < MaxGeneration
  /\ file' = file + 1
  /\ requests' = [requests EXCEPT ![r] = NoRequest]
  /\ refreshers' = Due
  /\ UNCHANGED <<cred, policy, origin, running, sessions, failures, global,
                 challenges, logins, tries>>

(* Local recovery forgets the failures. *)
ResetLocks ==
  /\ failures' = [s \in Sources |-> NoFailures]
  /\ global' = [count |-> 0, paused |-> FALSE]
  /\ tries' = [s \in Sources |-> 0]
  /\ UNCHANGED <<file, cred, policy, origin, running, sessions, challenges,
                 logins, refreshers, requests>>
-----------------------------------------------------------------------------
\* Idle too long, at another source than it is bound to, or seen at too many.
Dropped(l, s) ==
  \/ SessionOf(l).idle
  \/ Binding /\ SessionOf(l).source # s
  \/ Cardinality(SessionOf(l).sources \cup {s}) > MaxSources

(* Lookup: the session of a cookie, refused and ended when it is dropped.  *)
(* Requests without recognised activity do not touch it.                   *)
Enter(r) == \E l \in Live, s \in Sources, kind \in {"read", "write"}, touch \in BOOLEAN :
  /\ running /\ policy.origin = Start.origin
  /\ requests[r].pc = "none"
  /\ Allowed(s, TRUE)
  /\ IF Dropped(l, s)
     THEN sessions' = Without(l) /\ UNCHANGED requests
     ELSE LET seen == [SessionOf(l) EXCEPT !.sources = @ \cup {s}]
          IN /\ sessions' = IF touch THEN Append(Without(l), seen)
                            ELSE [i \in DOMAIN sessions |->
                                    IF sessions[i].id = l THEN seen ELSE sessions[i]]
             /\ requests' = [requests EXCEPT ![r] =
                              [pc |-> "found", session |-> l, kind |-> kind]]
  /\ UNCHANGED <<file, cred, policy, origin, running, failures, global,
                 challenges, logins, refreshers, tries>>

Transfers(l) == {r \in Requests : /\ requests[r].pc = "open"
                                  /\ requests[r].session = l /\ requests[r].kind = "read"}

(* The request is handed on; a transfer takes one of the session's slots. *)
Admit(r) ==
  /\ requests[r].pc = "found"
  /\ requests' = [requests EXCEPT ![r] =
       IF requests[r].kind = "read" /\ Cardinality(Transfers(requests[r].session)) >= ReadSlots
       THEN NoRequest ELSE [requests[r] EXCEPT !.pc = "open"]]
  /\ UNCHANGED <<file, cred, policy, origin, running, sessions, failures,
                 global, challenges, logins, refreshers, tries>>

(* The handler returns. *)
Served(r) ==
  /\ requests[r].pc = "open"
  /\ requests[r].kind = "write" \/ ~Ended(requests[r].session)
  /\ requests' = [requests EXCEPT ![r] = NoRequest]
  /\ UNCHANGED <<file, cred, policy, origin, running, sessions, failures,
                 global, challenges, logins, refreshers, tries>>

\* A reader ends with its session; an admitted change settles under the Owner.
EndsWithSession(r) == requests[r].kind = "read"

Interrupt(r) ==
  /\ requests[r].pc = "open" /\ EndsWithSession(r) /\ Ended(requests[r].session)
  /\ requests' = [requests EXCEPT ![r] =
       IF requests[r].kind = "write" THEN [requests[r] EXCEPT !.pc = "cut"] ELSE NoRequest]
  /\ UNCHANGED <<file, cred, policy, origin, running, sessions, failures,
                 global, challenges, logins, refreshers, tries>>

(* The user signs out. *)
Logout(l) ==
  /\ l \in Live
  /\ sessions' = Without(l)
  /\ UNCHANGED <<file, cred, policy, origin, running, failures, global,
                 challenges, logins, refreshers, requests, tries>>
-----------------------------------------------------------------------------
(* Time passes: a lock and a blacklisting end, a failure window ends, the  *)
(* pause ends, a session has been idle too long.                           *)
LockEnds(s) ==
  /\ failures[s].locked
  /\ failures' = [failures EXCEPT ![s].locked = FALSE]
  /\ tries' = [tries EXCEPT ![s] = 0]
  /\ UNCHANGED <<file, cred, policy, origin, running, sessions, global,
                 challenges, logins, refreshers, requests>>

BlackEnds(s) ==
  /\ failures[s].black
  /\ failures' = [failures EXCEPT ![s].black = FALSE]
  /\ UNCHANGED <<file, cred, policy, origin, running, sessions, global,
                 challenges, logins, refreshers, requests, tries>>

ChallengeEnds(s) ==
  /\ challenges[s] > 0
  /\ challenges' = [challenges EXCEPT ![s] = @ - 1]
  /\ UNCHANGED <<file, cred, policy, origin, running, sessions, failures,
                 global, logins, refreshers, requests, tries>>

WindowEnds(s) ==
  /\ failures[s].count > 0
  /\ failures' = [failures EXCEPT ![s].count = 0]
  /\ tries' = [tries EXCEPT ![s] = 0]
  /\ UNCHANGED <<file, cred, policy, origin, running, sessions, global,
                 challenges, logins, refreshers, requests>>

PauseEnds ==
  /\ global.paused
  /\ global' = [global EXCEPT !.paused = FALSE]
  /\ UNCHANGED <<file, cred, policy, origin, running, sessions, failures,
                 challenges, logins, refreshers, requests, tries>>

GoIdle(i) ==
  /\ ~sessions[i].idle
  /\ sessions' = [sessions EXCEPT ![i].idle = TRUE]
  /\ UNCHANGED <<file, cred, policy, origin, running, failures, global,
                 challenges, logins, refreshers, requests, tries>>

Next ==
  \/ \E s \in Sources : Challenge(s) \/ LockEnds(s) \/ BlackEnds(s) \/ WindowEnds(s)
                      \/ ChallengeEnds(s)
  \/ \E l \in Logins : LoginStart(l) \/ LoginFails(l) \/ Login(l) \/ LoginGone(l) \/ Logout(l)
  \/ \E f \in Refreshers : RefreshRead(f) \/ RefreshApply(f)
  \/ \E r \in Requests : Enter(r) \/ ChangePassword(r) \/ Admit(r) \/ Served(r) \/ Interrupt(r)
  \/ \E p \in Policies : SavePolicy(p)
  \/ \E i \in DOMAIN sessions : GoIdle(i)
  \/ Close \/ SetPassword \/ ResetLocks \/ PauseEnds

(* The ticker keeps running while the entrance does, a locked section ends, *)
(* and a cancelled context reaches the reader waiting on it.                *)
Fairness ==
  /\ \A f \in Refreshers : WF_vars(RefreshRead(f)) /\ WF_vars(RefreshApply(f))
  /\ \A r \in Requests : WF_vars(Admit(r)) /\ WF_vars(Interrupt(r))
Spec == Init /\ [][Next]_vars /\ Fairness
-----------------------------------------------------------------------------
(* Whatever a sign-in read before its hash, and whichever reading of the   *)
(* credential file reaches Auth last, every session in the table belongs   *)
(* to the credential Auth holds.                                           *)
SessionsOfCredential == \A i \in DOMAIN sessions : sessions[i].gen = cred

(* A source gets no more wrong passwords verified before it is locked than *)
(* the limit, and those already being hashed when the lock falls.          *)
GuessesBounded == \A s \in Sources : tries[s] <= FailureLimit + HashSlots - 1

(* A change the session had sent in when it was revoked is not cut off. *)
ChangesSettle == \A r \in Requests : requests[r].pc # "cut"

\* What ends a session: its credential was replaced, it has been idle, or an
\* address it was seen from is denied.
Outdated(l) ==
  /\ l \in Live
  /\ \/ SessionOf(l).gen # file \/ SessionOf(l).idle
     \/ \E s \in SessionOf(l).sources : s \notin policy.allowed \/ failures[s].black
=============================================================================
