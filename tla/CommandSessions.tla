-------------------------- MODULE CommandSessions --------------------------
(***************************************************************************)
(* Commands an Owner runs for a conversation: the commandSupervisor of     *)
(* internal/harness/command_sessions.go, its wait loop (command_wait.go),  *)
(* services and their extensions (command_service.go), the start-up        *)
(* recovery (command_recovery.go), the review of UNKNOWN records           *)
(* (command_review.go) and a foreground command (commands.go).             *)
(*                                                                         *)
(* A command has three lives that can come apart: the operating system's   *)
(* process, the Owner's memory of it (a reservation and, once started, an  *)
(* ownedCommand with its supervising goroutine), and the saved record.     *)
(* Its Attempt is durable before the process exists.                       *)
(*                                                                         *)
(* Revisions are left out: a record turns unknown once and is reviewed     *)
(* once, so the hash a review compares changes exactly with those two.     *)
(* Time is the age of a process; expires is the offset of its deadline     *)
(* from the start (wall clock text never enters the deadline).  A reason   *)
(* is one of stop (by the user or with the Owner), deadline (also of the   *)
(* readiness), process_exit and a failed save.                             *)
(***************************************************************************)
EXTENDS Naturals, FiniteSets

CONSTANTS
  Background, Services, Foreground,  \* disjoint sets of command ids
  OtherProfile,   \* the commands whose execution identity differs
  \* ReadyTimeout <= Duration <= MaxTotal < MaxAge
  Duration,       \* the first deadline of a command, in ticks
  ReadyTimeout,   \* ticks a service has to print its ready text
  MaxTotal,       \* MaxTotalSeconds of a service
  MaxAge,         \* bound: age at which the clock of a process saturates
  MaxCrashes      \* bound: Owner crashes

Commands == Background \cup Services \cup Foreground

VARIABLES
  owner,     \* "up", "closing" (supervisor closed), "down"
  crashes,
  attempt,   \* the durable Attempt: none, prepared, dispatched, finished, unknown
  shown,     \* the unknown records in the approved preview
  reserved,     \* the ids in reservations (each is in active as well)
  mem,       \* the ownedCommand of an id
  process,   \* none, alive, exited (not reaped), gone; tree included
  mine,      \* processes started by this Owner process
  saved      \* the saved CommandRecord

\* What the constants have to be.
CommandsAssumption ==
  /\ MaxAge \in Nat /\ MaxCrashes \in Nat /\ Duration \in 0..MaxAge /\ MaxTotal \in 0..MaxAge

commandVars == <<owner, crashes, attempt, shown, reserved, mem, process, mine, saved>>

Known == {"completed", "stopped", "timed_out"}
terminal(state) == state \in Known \cup {"unknown"}

NoMem == [phase |-> "none", state |-> "running", reason |-> "", expires |-> 0,
          age |-> 0, stopped |-> FALSE, cancelled |-> FALSE, ready |-> "no",
          why |-> ""]
NoRecord == [state |-> "absent", expires |-> 0, reviewed |-> FALSE]

Mode(c) == IF c \in Services THEN "service" ELSE "command"
Quota(mode) == IF mode = "service" THEN 2 ELSE 1
Owned(c) == mem[c].phase # "none"
Up == owner # "down"

CommandsInit ==
  /\ owner = "up" /\ crashes = 0
  /\ attempt = [c \in Commands |-> "none"]
  /\ shown = [c \in Commands |-> {}]
  /\ reserved = {}
  /\ mem = [c \in Commands |-> NoMem]
  /\ process = [c \in Commands |-> "none"]
  /\ mine = {}
  /\ saved = [c \in Commands |-> NoRecord]

----------------------------------------------------------------------------
(* Preparing a command: uncertain commands are shown or forbid it *)

\* liveUncertain: commands of this Owner whose end or start is not on record.
liveUncertain ==
  {c \in Commands : Owned(c) /\ \/ mem[c].state = "unknown"
                                \/ mem[c].reason = "startup_persistence_failed"}

Unreviewed == {c \in Commands : saved[c].state = "unknown" /\ ~saved[c].reviewed}

\* Prepare: refused while a live command is uncertain; otherwise the preview
\* lists every unreviewed UNKNOWN record.
Prepare(c) ==
  /\ Up /\ attempt[c] = "none"
  /\ liveUncertain = {}
  /\ attempt' = [attempt EXCEPT ![c] = "prepared"]
  /\ shown' = [shown EXCEPT ![c] = Unreviewed]
  /\ UNCHANGED <<owner, crashes, reserved, mem, process, mine, saved>>

\* review: the approved records must still be the unreviewed ones they were;
\* one that changed refuses the command before anything is reserved.
Review(c) ==
  /\ Up /\ attempt[c] = "prepared"
  /\ IF \E u \in shown[c] : saved[u].state # "unknown" \/ saved[u].reviewed
       THEN attempt' = [attempt EXCEPT ![c] = "finished"] /\ UNCHANGED saved
       ELSE /\ attempt' = [attempt EXCEPT ![c] = "dispatched"]
            /\ saved' = [u \in Commands |->
                 IF u \in shown[c] THEN [saved[u] EXCEPT !.reviewed = TRUE]
                                   ELSE saved[u]]
  /\ UNCHANGED <<owner, crashes, shown, reserved, mem, process, mine>>

----------------------------------------------------------------------------
(* Starting *)

SameProfile(c, d) == (c \in OtherProfile) = (d \in OtherProfile)

\* reserve: one profile for the whole group and a quota per mode.
Reserve(c) ==
  /\ Up /\ attempt[c] = "dispatched" /\ c \notin reserved /\ ~Owned(c)
  /\ owner # "closing"
  /\ \A d \in reserved : SameProfile(c, d)
  /\ Cardinality({d \in reserved : Mode(d) = Mode(c)}) < Quota(Mode(c))
  /\ reserved' = reserved \cup {c}
  /\ UNCHANGED <<owner, crashes, attempt, shown, mem, process, mine, saved>>

\* Every certain refusal: reserve refuses (also while a settings decision
\* holds the gate), or the start fails after the reservation, which it returns.
Refuse(c) ==
  /\ Up /\ attempt[c] = "dispatched" /\ ~Owned(c)
  /\ c \notin mine
  /\ attempt' = [attempt EXCEPT ![c] = "finished"]
  /\ reserved' = reserved \ {c}
  /\ UNCHANGED <<owner, crashes, shown, mem, process, mine, saved>>

\* launch: the process exists and is visible in active before it is saved.
Launch(c) ==
  /\ Up /\ c \in reserved \ Foreground /\ ~Owned(c) /\ c \notin mine
  /\ attempt[c] = "dispatched"
  /\ process' = [process EXCEPT ![c] = "alive"]
  /\ mine' = mine \cup {c}
  /\ mem' = [mem EXCEPT ![c] = [NoMem EXCEPT !.phase = "new", !.expires = Duration]]
  /\ UNCHANGED <<owner, crashes, attempt, shown, reserved, saved>>

Running(c) == [state |-> "running", expires |-> Duration, reviewed |-> FALSE]

\* The startup projection is saved from the copy launch made, whatever has
\* happened to the record since; only then the command is supervised.
SaveStart(c) ==
  /\ Up /\ mem[c].phase = "new"
  /\ saved' = [saved EXCEPT ![c] = Running(c)]
  /\ mem' = [mem EXCEPT ![c] = [@ EXCEPT !.phase = "watch"]]
  /\ UNCHANGED <<owner, crashes, attempt, shown, reserved, process, mine>>

\* A failed save cancels the command and leaves its Attempt unknown.
SaveStartFails(c) ==
  /\ Up /\ mem[c].phase = "new"
  /\ mem' = [mem EXCEPT ![c] =
       [@ EXCEPT !.phase = "watch", !.reason = "startup_persistence_failed",
                 !.cancelled = TRUE]]
  /\ attempt' = [attempt EXCEPT ![c] = "unknown"]
  /\ UNCHANGED <<owner, crashes, shown, reserved, process, mine, saved>>

\* The Run records the tool result of a started command.
FinishAttempt(c) ==
  /\ Up /\ attempt[c] = "dispatched" /\ saved[c] # NoRecord
  /\ c \notin Foreground
  /\ attempt' = [attempt EXCEPT ![c] = "finished"]
  /\ UNCHANGED <<owner, crashes, shown, reserved, mem, process, mine, saved>>

----------------------------------------------------------------------------
(* The process and the wait loop *)

Exit(c) ==
  /\ process[c] = "alive"
  /\ process' = [process EXCEPT ![c] = "exited"]
  /\ UNCHANGED <<owner, crashes, attempt, shown, reserved, mem, mine, saved>>

\* A service prints its ready text; the tail closes the ready channel.
PrintReady(c) ==
  /\ c \in Services /\ process[c] = "alive"
  /\ mem[c].phase \in {"new", "watch"} /\ mem[c].ready = "no"
  /\ mem' = [mem EXCEPT ![c] = [@ EXCEPT !.ready = "printed"]]
  /\ UNCHANGED <<owner, crashes, attempt, shown, reserved, process, mine, saved>>

\* Ages count while the wait loop can read them.
Ages(c) == mem[c].phase \in {"new", "watch"} /\ mem[c].age < MaxAge

Tick ==
  /\ Up /\ \E c \in Commands : Ages(c)
  /\ mem' = [c \in Commands |->
       IF Ages(c) THEN [mem[c] EXCEPT !.age = @ + 1] ELSE mem[c]]
  /\ UNCHANGED <<owner, crashes, attempt, shown, reserved, process, mine, saved>>

\* waitCommand returns, and nothing reads its clock, readiness or cancellation
\* any more; a deadline or a readiness timeout marks the record, a
\* record already stopping keeps its reason.
Marked(m, reason) ==
  IF m.state = "running" THEN [m EXCEPT !.state = "stopping", !.reason = reason]
                         ELSE m

Returned(c, m, why) ==
  /\ Up /\ mem[c].phase = "watch"
  /\ mem' = [mem EXCEPT ![c] = [m EXCEPT !.phase = "returned", !.why = why,
                                !.age = 0, !.ready = "no", !.cancelled = FALSE]]
  /\ UNCHANGED <<owner, crashes, attempt, shown, reserved, process, mine, saved>>

WaitExited(c) ==
  /\ process[c] \in {"exited", "gone"}
  /\ Returned(c, mem[c], "process_exit")

WaitCancelled(c) ==
  /\ mem[c].cancelled
  /\ Returned(c, mem[c], "stop")

WaitExpiresOnce(c) ==
  /\ mem[c].age >= mem[c].expires /\ mem[c].expires = Duration
  /\ Returned(c, Marked(mem[c], "deadline"), "deadline")

\* The expiry timer is rearmed when an extension moved the deadline.
WaitExpires(c) ==
  /\ mem[c].age >= mem[c].expires
  /\ Returned(c, Marked(mem[c], "deadline"), "deadline")

WaitReadyTimeout(c) ==
  /\ c \in Services /\ mem[c].age >= ReadyTimeout
  /\ mem[c].ready = "no"
  /\ Returned(c, Marked(mem[c], "deadline"), "deadline")

\* Readiness is saved under the record's lock; a failed save cancels.
WaitReady(c) ==
  /\ Up /\ mem[c].phase = "watch" /\ mem[c].ready = "printed"
  /\ \/ /\ mem[c].state = "running"
        /\ mem' = [mem EXCEPT ![c] = [@ EXCEPT !.ready = "yes"]]
        /\ saved' = [saved EXCEPT ![c] =
             [state |-> "running", expires |-> mem[c].expires, reviewed |-> FALSE]]
     \/ /\ mem[c].state = "running"
        /\ mem' = [mem EXCEPT ![c] = [@ EXCEPT !.ready = "yes", !.cancelled = TRUE,
                                       !.reason = "save_failed"]]
        /\ UNCHANGED saved
     \/ /\ mem[c].state # "running"
        /\ mem' = [mem EXCEPT ![c] = [@ EXCEPT !.ready = "yes"]]
        /\ UNCHANGED saved
  /\ UNCHANGED <<owner, crashes, attempt, shown, reserved, process, mine>>

\* stop: the first request marks the record and cancels the wait.
Stopped(m, reason) ==
  IF ~terminal(m.state) /\ ~m.stopped
    THEN [m EXCEPT !.stopped = TRUE, !.state = "stopping", !.reason = reason,
                   !.cancelled = TRUE]
    ELSE m

Stop(c) ==
  /\ Up /\ Owned(c) /\ ~mem[c].stopped /\ ~terminal(mem[c].state)
  /\ mem' = [mem EXCEPT ![c] = Stopped(@, "stop")]
  /\ UNCHANGED <<owner, crashes, attempt, shown, reserved, process, mine, saved>>

\* extend: a running service whose deadline has not passed, to a later expiry
\* within the original maximum; saved first, then applied.
Extend(c, target) ==
  /\ Up /\ c \in Services /\ Owned(c) /\ mem[c].state = "running"
  /\ mem[c].age < mem[c].expires
  /\ target > mem[c].expires /\ target <= MaxTotal
  /\ saved' = [saved EXCEPT ![c] =
       [state |-> "running", expires |-> target, reviewed |-> FALSE]]
  /\ mem' = [mem EXCEPT ![c] = [@ EXCEPT !.expires = target]]
  /\ UNCHANGED <<owner, crashes, attempt, shown, reserved, process, mine>>

----------------------------------------------------------------------------
(* supervise: from the returned wait to the released reservation *)

\* The reason is fixed here; a later stop changes the record's reason only.
BeginEnd(c) ==
  /\ Up /\ mem[c].phase = "returned"
  /\ LET why == IF mem[c].reason # "" THEN mem[c].reason ELSE mem[c].why
     IN mem' = [mem EXCEPT ![c] = [@ EXCEPT !.phase = "ending", !.state = "stopping",
                                            !.reason = why, !.why = why]]
  /\ UNCHANGED <<owner, crashes, attempt, shown, reserved, process, mine, saved>>

EndState(why) ==
  CASE why = "process_exit" -> "completed"
    [] why = "deadline" -> "timed_out"
    [] OTHER -> "stopped"

CleanupAssumed(c) ==
  /\ Up /\ mem[c].phase = "ending"
  /\ \E left \in {process[c], "gone"} :
       /\ process' = [process EXCEPT ![c] = left]
       /\ mem' = [mem EXCEPT ![c] = [@ EXCEPT !.phase = "ended",
                                              !.state = EndState(mem[c].why), !.why = ""]]
  /\ UNCHANGED <<owner, crashes, attempt, shown, reserved, mine, saved>>

\* Terminate, wait, Kill, WaitTree, drain, Close: either all of it confirmed and
\* the tree is gone, or something failed and nothing is known of the process.
Cleanup(c) ==
  /\ Up /\ mem[c].phase = "ending"
  /\ \E confirmed \in BOOLEAN, left \in {process[c], "gone"} :
       /\ confirmed => left = "gone"
       /\ process' = [process EXCEPT ![c] = left]
       /\ mem' = [mem EXCEPT ![c] =
            [@ EXCEPT !.phase = "ended",
                      !.state = IF confirmed THEN EndState(mem[c].why) ELSE "unknown",
                      !.why = ""]]
  /\ UNCHANGED <<owner, crashes, attempt, shown, reserved, mine, saved>>

\* The end is saved; only a known end that is on record frees the reservation.
SaveEnd(c) ==
  /\ Up /\ mem[c].phase = "ended"
  /\ saved' = [saved EXCEPT ![c] = [state |-> mem[c].state, expires |-> mem[c].expires,
                                    reviewed |-> FALSE]]
  /\ IF mem[c].state = "unknown"
       THEN mem' = [mem EXCEPT ![c] = [@ EXCEPT !.phase = "kept"]] /\ UNCHANGED reserved
       ELSE mem' = [mem EXCEPT ![c] = NoMem] /\ reserved' = reserved \ {c}
  /\ UNCHANGED <<owner, crashes, attempt, shown, process, mine>>

SaveEndFails(c) ==
  /\ Up /\ mem[c].phase = "ended"
  /\ mem' = [mem EXCEPT ![c] = [@ EXCEPT !.phase = "kept", !.state = "unknown",
                                         !.reason = "save_failed"]]
  /\ UNCHANGED <<owner, crashes, attempt, shown, reserved, process, mine, saved>>

----------------------------------------------------------------------------
(* A foreground command: the Run waits for it; no record of its own *)

Execute(c) ==
  /\ Up /\ c \in reserved \cap Foreground /\ c \notin mine
  /\ attempt[c] = "dispatched"
  /\ process' = [process EXCEPT ![c] = "alive"]
  /\ mine' = mine \cup {c}
  /\ UNCHANGED <<owner, crashes, attempt, shown, reserved, mem, saved>>

\* It completes, times out or is interrupted with its end confirmed, or it is
\* unknown and keeps its reservation until the Owner ends.
ExecuteEnds(c) ==
  /\ Up /\ c \in mine \cap Foreground /\ attempt[c] = "dispatched"
  /\ \/ /\ process' = [process EXCEPT ![c] = "gone"]
        /\ attempt' = [attempt EXCEPT ![c] = "finished"]
        /\ reserved' = reserved \ {c}
     \/ /\ \E left \in {process[c], "gone"} : process' = [process EXCEPT ![c] = left]
        /\ attempt' = [attempt EXCEPT ![c] = "unknown"]
        /\ UNCHANGED reserved
  /\ UNCHANGED <<owner, crashes, shown, mem, mine, saved>>

----------------------------------------------------------------------------
(* The Owner ends, dies and comes back *)

\* close: no new reservation, every started command is asked to stop at once.
Close ==
  /\ owner = "up"
  /\ owner' = "closing"
  /\ mem' = [c \in Commands |->
       IF Owned(c) THEN Stopped(mem[c], "stop") ELSE mem[c]]
  /\ UNCHANGED <<crashes, attempt, shown, reserved, process, mine, saved>>

\* The Owner process is gone: after its close, or by a crash at any point.  A
\* child may survive it; nothing in memory does.
OwnerGone(lost) ==
  /\ owner' = "down"
  /\ reserved' = {} /\ mine' = {}
  /\ mem' = [c \in Commands |-> NoMem]
  /\ \E left \in SUBSET {c \in Commands : process[c] \in {"alive", "exited"}} :
       process' = [c \in Commands |->
         IF process[c] = "none" THEN "none"
         ELSE IF c \in left THEN process[c] ELSE "gone"]
  /\ crashes' = crashes + lost
  /\ UNCHANGED <<attempt, shown, saved>>

\* The close returns when every started command is done or its 12 s are over.
CloseReturns == owner = "closing" /\ OwnerGone(0)

Crash == Up /\ crashes < MaxCrashes /\ OwnerGone(1)

Lost == [state |-> "unknown", expires |-> 0, reviewed |-> FALSE]

\* recoverMissingCommands: Attempts of a started or possibly started background
\* command that have no record; a refused one is finished without a command id.
recoverMissing ==
  {c \in Commands \ Foreground :
     attempt[c] \in {"dispatched", "unknown"} /\ saved[c] = NoRecord}

\* newCommandSupervisor: every record of a command that was not over is now
\* unknown; a save that fails ends the start with a part of them written.
Recover ==
  /\ owner = "down"
  /\ LET due == recoverMissing
                \cup {c \in Commands : saved[c].state = "running"}
     IN \E done \in SUBSET due :
          /\ saved' = [c \in Commands |-> IF c \in done THEN Lost ELSE saved[c]]
          /\ owner' = IF done = due THEN "up" ELSE "down"
          /\ attempt' = [c \in Commands |->
               IF done # due THEN attempt[c]
               ELSE CASE attempt[c] = "dispatched" -> "unknown"
                      [] attempt[c] = "prepared" -> "finished"
                      [] OTHER -> attempt[c]]
  /\ UNCHANGED <<crashes, shown, reserved, mem, process, mine>>

Supervise(c) ==
  \/ WaitExited(c) \/ WaitCancelled(c) \/ WaitExpires(c) \/ WaitReadyTimeout(c)
  \/ WaitReady(c) \/ BeginEnd(c) \/ Cleanup(c) \/ SaveEnd(c) \/ SaveEndFails(c)

CommandsNext ==
  \/ \E c \in Commands :
       \/ Prepare(c) \/ Review(c) \/ Reserve(c) \/ Refuse(c)
       \/ Launch(c) \/ SaveStart(c) \/ SaveStartFails(c) \/ FinishAttempt(c)
       \/ Exit(c) \/ PrintReady(c) \/ Stop(c)
       \/ \E target \in 1..MaxTotal : Extend(c, target)
       \/ Execute(c) \/ ExecuteEnds(c)
       \/ Supervise(c)
  \/ Tick \/ Close \/ CloseReturns \/ Crash \/ Recover

CommandsSpec == CommandsInit /\ [][CommandsNext]_commandVars

----------------------------------------------------------------------------
(* Properties *)

CommandsTypeOK ==
  /\ owner \in {"up", "closing", "down"} /\ crashes \in 0..MaxCrashes
  /\ attempt \in [Commands -> {"none", "prepared", "dispatched", "finished", "unknown"}]
  /\ shown \in [Commands -> SUBSET Commands]
  /\ reserved \subseteq Commands /\ mine \subseteq Commands
  /\ process \in [Commands -> {"none", "alive", "exited", "gone"}]
  /\ \A c \in Commands :
       /\ mem[c].phase \in {"none", "new", "watch", "returned", "ending", "ended", "kept"}
       /\ mem[c].state \in {"running", "stopping", "unknown"} \cup Known
       /\ mem[c].expires \in 0..MaxAge /\ mem[c].age \in 0..MaxAge
       /\ saved[c].state \in {"absent", "running", "unknown"} \cup Known

\* The processes of this Owner that are not known to be gone never exceed the
\* quota of their mode and share one execution profile, through failed saves
\* and uncertain cleanups (release only after a known, saved end).
QuotaHonest ==
  LET live == {c \in mine : process[c] \in {"alive", "exited"}} IN
  /\ \A mode \in {"command", "service"} :
       Cardinality({c \in live : Mode(c) = mode}) <= Quota(mode)
  /\ \A c, d \in live : SameProfile(c, d)

\* A record that says completed, stopped or timed_out is of a process tree that
\* is gone, also when the Owner died right after it was written.
KnownMeansGone == \A c \in Commands : saved[c].state \in Known => process[c] = "gone"

\* Once an Owner has started, no background process it or a predecessor may
\* have started is without a record or an owned command.
NothingLost ==
  Up => \A c \in Commands \ Foreground :
          process[c] # "none" => saved[c] # NoRecord \/ Owned(c)

\* A command that was approved with UNKNOWN records in its preview starts only
\* after exactly these are acknowledged.
AcknowledgedFirst ==
  \A c \in Commands : process[c] # "none" => \A u \in shown[c] : saved[u].reviewed

(* The Owner keeps account of the commands it started: in the quota until     *)
(* they are known to be gone, in a record or in hand, and acknowledged before *)
(* another start when their end is unknown (reserve, launch, supervise and    *)
(* recoverMissingCommands of command_sessions.go, execute of commands.go,     *)
(* review of command_review.go).                                              *)
CommandsKept == CommandsTypeOK /\ QuotaHonest /\ KnownMeansGone /\ NothingLost /\ AcknowledgedFirst
=============================================================================
