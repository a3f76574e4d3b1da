----------------------------- MODULE SpaceAccess -----------------------------
(***************************************************************************)
(* What a Run may still do after it started: one conversation of a channel *)
(* space, the permissions of the space and of the requester, the public    *)
(* ceiling, the Telegram grant with its revision, and the moving or        *)
(* deleting of the space, all changed while Runs are under way.            *)
(*                                                                         *)
(* A Run freezes its permission and the grant's revision when it is        *)
(* requested.  It is checked against the current ones before every         *)
(* dispatch; a command of a channel Run is started, a reply sent and the   *)
(* grant changed under telegramMu.  Permissions are ranks, 0 is "none".    *)
(* Space 0 is Local; a target bound again after its space was deleted gets *)
(* a new space.                                                            *)
(***************************************************************************)
EXTENDS Integers, FiniteSets, FiniteSetsExt

CONSTANTS Runs, Modes, MaxSpaces,
          MaxRevision     \* bound: changes of a grant

VARIABLES perm,      \* space/permission of the target's space
          person,    \* person/<id>
          ceiling,   \* public_web.max_permission
          space,     \* the target's space, 0 when it has none
          spaces,    \* spaces made so far
          chat,      \* the space the conversation is in
          grant,     \* telegram/access/<target>
          run, command,
          mu,        \* telegramMu: free, admin, or a Run
          reducer,   \* the permission saved and not yet enforced on commands
          revoked,   \* the grant changed since the Run was requested
          missed     \* a command was left running by a change of the grant that did not stop it

\* Permissions are ranks from 0 up; a Run is not the name of another holder of the mutex.
AccessAssumption ==
  /\ {"free", "admin"} \cap Runs = {}
  /\ \E n \in Modes : n \in Nat /\ Modes = 0..n
  /\ MaxSpaces \in Nat \ {0} /\ MaxRevision \in Nat \ {0}

accessVars ==
  <<perm, person, ceiling, space, spaces, chat, grant, run, command, mu, reducer, revoked, missed>>

NoGrant == [enabled |-> FALSE, rev |-> 0]
NoRun == [pc |-> "none", entry |-> "owner", space |-> 0, mode |-> 0, rev |-> 0]
Pcs == {"none", "received", "frozen", "running", "checked", "launch", "ending", "done", "sending",
        "over"}
AccessTypeOK ==
  /\ perm \in Modes /\ person \in Modes /\ ceiling \in Modes
  /\ space \in 0..MaxSpaces /\ spaces \in 0..MaxSpaces /\ chat \in 0..MaxSpaces
  /\ grant \in [enabled : BOOLEAN, rev : 0..MaxRevision]
  /\ run \in [Runs -> [pc : Pcs, entry : {"chat", "owner", "public"}, space : 0..MaxSpaces,
                       mode : Modes, rev : 0..MaxRevision]]
  /\ command \in [Runs -> {"none", "running", "stopping"}]
  /\ mu \in Runs \cup {"free", "admin"}
  /\ reducer \in {"idle", "space", "person", "public"}
  /\ revoked \in [Runs -> BOOLEAN] /\ missed \subseteq Runs

\* The space is bound, granted, and the conversation is its default one.
AccessInit ==
  /\ perm = Max(Modes) /\ person = Max(Modes) /\ ceiling = Max(Modes)
  /\ space = 1 /\ spaces = 1 /\ chat = 1
  /\ grant = [enabled |-> TRUE, rev |-> 1]
  /\ run = [r \in Runs |-> NoRun]
  /\ command = [r \in Runs |-> "none"]
  /\ mu = "free" /\ reducer = "idle"
  /\ revoked = [r \in Runs |-> FALSE] /\ missed = {}
-----------------------------------------------------------------------------
Active == {r \in Runs : run[r].pc \in {"running", "checked", "launch", "ending"}}
Busy == {r \in Runs : command[r] # "none"}

\* The permission of a space; Local keeps the highest.
SpacePermission(s) == IF s = 0 THEN Max(Modes) ELSE IF s = space THEN perm ELSE 0

\* What the Run would be given now.
Current(r) ==
  Min({SpacePermission(run[r].space)}
      \cup (IF run[r].entry = "chat" THEN {person} ELSE {})
      \cup (IF run[r].entry = "public" THEN {ceiling} ELSE {}))

Granted(r) == grant.enabled /\ space # 0 /\ grant.rev = run[r].rev

\* checkCurrentPermission: the grant and its revision for a channel requester,
\* the conversation still in the frozen space, the permission not reduced.
Valid(r) ==
  /\ run[r].entry = "chat" => Granted(r)
  /\ chat = run[r].space
  /\ run[r].mode <= Current(r)

\* The same before the Run has a conversation.
ValidAnywhere(r) == (run[r].entry = "chat" => Granted(r)) /\ run[r].mode <= Current(r)

Set(r, next) == run' = [run EXCEPT ![r] = next]
To(r, pc) == Set(r, [run[r] EXCEPT !.pc = pc])
-----------------------------------------------------------------------------
(* A message of the admitted person arrives, under telegramMu. *)
Receive(r) ==
  /\ run[r].pc = "none" /\ mu = "free"
  /\ grant.enabled /\ space # 0 /\ chat = space
  /\ Set(r, [NoRun EXCEPT !.pc = "received", !.entry = "chat", !.rev = grant.rev])
  /\ UNCHANGED <<perm, person, ceiling, space, spaces, chat, grant, command, mu, reducer, revoked, missed>>

(* The permission is resolved and frozen: the space's, lowered by the      *)
(* requester's or by the public ceiling.  bindChannel refuses a channel    *)
(* request whose conversation or grant is no longer the one it came with,  *)
(* and gives a local Run the revision its reply will need.                 *)
Frozen(r, entry, rev) ==
  LET n == [pc |-> "frozen", entry |-> entry, space |-> chat, rev |-> rev, mode |->
              Min({SpacePermission(chat)} \cup (IF entry = "chat" THEN {person} ELSE {})
                                          \cup (IF entry = "public" THEN {ceiling} ELSE {}))]
  IN Set(r, n)

Resolve(r) ==
  /\ \/ /\ run[r].pc = "received"
        /\ IF chat = space /\ Granted(r) THEN Frozen(r, "chat", run[r].rev) ELSE To(r, "over")
     \/ /\ run[r].pc = "none"
        /\ \E entry \in {"owner", "public"} :
             Frozen(r, entry, IF chat = space /\ grant.enabled THEN grant.rev ELSE 0)
  /\ UNCHANGED <<perm, person, ceiling, space, spaces, chat, grant, command, mu, reducer, revoked, missed>>

(* The Run is created, one at a time, under attachmentMu; the check before *)
(* it does not know the conversation.                                      *)
Create(r) ==
  /\ run[r].pc = "frozen"
  /\ IF ValidAnywhere(r) THEN Active = {} /\ To(r, "running") ELSE To(r, "over")
  /\ UNCHANGED <<perm, person, ceiling, space, spaces, chat, grant, command, mu, reducer, revoked, missed>>

(* Before a dispatch; a reduction ends the Run. *)
CheckRun(r) ==
  /\ run[r].pc = "running"
  /\ To(r, IF Valid(r) THEN "checked" ELSE "over")
  /\ UNCHANGED <<perm, person, ceiling, space, spaces, chat, grant, command, mu, reducer, revoked, missed>>

(* A model call or a tool that is no command. *)
DispatchCall(r) ==
  /\ run[r].pc = "checked"
  /\ To(r, "running")
  /\ UNCHANGED <<perm, person, ceiling, space, spaces, chat, grant, command, mu, reducer, revoked, missed>>

\* Mutant of Locks: the command is started without the mutex.
LocksNothing(r) == FALSE

\* lockTelegramDispatch applies to the Runs of a channel requester.
Locks(r) == run[r].entry = "chat"

(* A background command: under the mutex for a channel Run, checked again. *)
Launch(r) ==
  /\ run[r].pc = "checked" /\ run[r].mode > 0 /\ command[r] = "none"
  /\ Locks(r) => mu = "free"
  /\ IF Locks(r) /\ ~Granted(r) THEN To(r, "running") /\ UNCHANGED mu
     ELSE To(r, "launch") /\ mu' = IF Locks(r) THEN r ELSE mu
  /\ UNCHANGED <<perm, person, ceiling, space, spaces, chat, grant, command, reducer, revoked, missed>>

(* The process is started and its record saved, for a Run cancelled         *)
(* meanwhile too: the start runs under the supervisor's context.           *)
CommandStarted(r) ==
  /\ run[r].pc \in {"launch", "ending"}
  /\ command' = [command EXCEPT ![r] = "running"]
  /\ mu' = IF mu = r THEN "free" ELSE mu
  /\ To(r, IF run[r].pc = "launch" THEN "running" ELSE "over")
  /\ UNCHANGED <<perm, person, ceiling, space, spaces, chat, grant, reducer, revoked, missed>>

CommandExits(r) ==
  /\ command[r] # "none"
  /\ command' = [command EXCEPT ![r] = "none"]
  /\ UNCHANGED <<perm, person, ceiling, space, spaces, chat, grant, run, mu, reducer, revoked, missed>>

Finish(r) ==
  /\ run[r].pc = "running"
  /\ To(r, "done")
  /\ UNCHANGED <<perm, person, ceiling, space, spaces, chat, grant, command, mu, reducer, revoked, missed>>

(* Deliver, sendRunText: the reply goes out under the mutex, with the       *)
(* revision compared; a local Owner's Run needs no person.                  *)
Send(r) ==
  /\ run[r].pc = "done" /\ mu = "free"
  /\ IF run[r].rev > 0 /\ Granted(r) THEN To(r, "sending") /\ mu' = r
     ELSE To(r, "over") /\ UNCHANGED mu
  /\ UNCHANGED <<perm, person, ceiling, space, spaces, chat, grant, command, reducer, revoked, missed>>

Sent(r) ==
  /\ run[r].pc = "sending"
  /\ To(r, "over") /\ mu' = "free"
  /\ UNCHANGED <<perm, person, ceiling, space, spaces, chat, grant, command, reducer, revoked, missed>>
-----------------------------------------------------------------------------
(* A permission is saved; a lower one is then enforced on the commands. *)
SavePermission(kind, m) ==
  /\ reducer = "idle"
  /\ \/ kind = "space" /\ space # 0 /\ m # perm /\ perm' = m /\ UNCHANGED <<person, ceiling>>
        /\ reducer' = IF m < perm THEN kind ELSE "idle"
     \/ kind = "person" /\ m # person /\ person' = m /\ UNCHANGED <<perm, ceiling>>
        /\ reducer' = IF m < person THEN kind ELSE "idle"
     \/ kind = "public" /\ m # ceiling /\ ceiling' = m /\ UNCHANGED <<perm, person>>
        /\ reducer' = IF m < ceiling THEN kind ELSE "idle"
  /\ UNCHANGED <<space, spaces, chat, grant, run, command, mu, revoked, missed>>

\* stopPermissionCommands, stopPublicCommands: the commands on record.
Stopped(kind) ==
  [r \in Runs |->
     IF command[r] = "running"
        /\ \/ kind = "space" /\ space # 0 /\ run[r].space = space
           \/ kind = "person" /\ run[r].entry = "chat"
           \/ kind = "public" /\ run[r].entry = "public" /\ ceiling < run[r].mode
     THEN "stopping" ELSE command[r]]

StopCommands ==
  /\ reducer # "idle"
  /\ command' = Stopped(reducer)
  /\ reducer' = "idle"
  /\ UNCHANGED <<perm, person, ceiling, space, spaces, chat, grant, run, mu, revoked, missed>>

(* applyTelegramAccess: the grant is replaced under the mutex; a target     *)
(* without a space is bound to a new one, which permits nothing.            *)
ChangeGrant(enabled) ==
  /\ mu = "free" /\ grant.rev < MaxRevision
  /\ grant = NoGrant \/ grant.enabled # enabled
  /\ space = 0 => spaces < MaxSpaces
  /\ grant' = [enabled |-> enabled, rev |-> grant.rev + 1]
  /\ IF space = 0 THEN spaces' = spaces + 1 /\ space' = spaces + 1 /\ perm' = 0
     ELSE UNCHANGED <<space, spaces, perm>>
  /\ mu' = "admin"
  /\ revoked' = [r \in Runs |-> revoked[r] \/ run[r].pc \notin {"none", "received"}]
  /\ UNCHANGED <<person, ceiling, chat, run, command, reducer, missed>>

(* Still under the mutex: the conversations' Runs are cancelled and the    *)
(* space's commands stopped.  A command whose stop fails is only told in an *)
(* event and goes on.                                                      *)
GrantStops(unstopped) ==
  /\ mu = "admin"
  /\ unstopped \subseteq {r \in Runs : Stopped("space")[r] # command[r]}
  /\ run' = [r \in Runs |->
       IF r \notin Active \/ chat # space THEN run[r]
       ELSE [run[r] EXCEPT !.pc = IF @ \in {"launch", "ending"} THEN "ending" ELSE "over"]]
  /\ command' = [r \in Runs |-> IF r \in unstopped THEN command[r] ELSE Stopped("space")[r]]
  /\ missed' = missed \cup unstopped
  /\ mu' = "free"
  /\ UNCHANGED <<perm, person, ceiling, space, spaces, chat, grant, reducer, revoked>>

(* The answer to the commit is lost, or the conversations cannot be read:  *)
(* the new grant stands and no Run and no command hears of it.             *)
GrantAborted ==
  /\ mu = "admin"
  /\ missed' = missed \cup {r \in Runs : run[r].entry = "chat" /\ command[r] = "running"}
  /\ mu' = "free"
  /\ UNCHANGED <<perm, person, ceiling, space, spaces, chat, grant, run, command, reducer, revoked>>
-----------------------------------------------------------------------------
\* Nothing of the conversation is under way.
Quiet == Active = {} /\ Busy = {}

(* The conversation is moved between its space and Local. *)
Move(to) ==
  /\ to \in {0, space} /\ to # chat
  /\ Quiet
  /\ chat' = to
  /\ UNCHANGED <<perm, person, ceiling, space, spaces, grant, run, command, mu, reducer, revoked, missed>>

(* The space is deleted: its conversations return to Local, its permission *)
(* and the grant go.                                                       *)
DeleteSpace ==
  /\ space # 0
  /\ chat = space => Quiet
  /\ space' = 0 /\ perm' = 0 /\ grant' = NoGrant
  /\ chat' = IF chat = space THEN 0 ELSE chat
  /\ revoked' = [r \in Runs |-> revoked[r] \/ run[r].pc \notin {"none", "received"}]
  /\ UNCHANGED <<person, ceiling, spaces, run, command, mu, reducer, missed>>

AccessNext ==
  \/ \E r \in Runs : \/ Receive(r) \/ Resolve(r) \/ Create(r) \/ CheckRun(r) \/ DispatchCall(r)
                     \/ Launch(r) \/ CommandStarted(r) \/ CommandExits(r) \/ Finish(r)
                     \/ Send(r) \/ Sent(r)
  \/ \E kind \in {"space", "person", "public"}, m \in Modes : SavePermission(kind, m)
  \/ StopCommands \/ DeleteSpace \/ GrantAborted
  \/ \E unstopped \in SUBSET Runs : GrantStops(unstopped)
  \/ \E enabled \in BOOLEAN : ChangeGrant(enabled)
  \/ \E to \in 0..MaxSpaces : Move(to)

AccessSpec == AccessInit /\ [][AccessNext]_accessVars
-----------------------------------------------------------------------------
(* A channel Run whose grant changed never passes a check again, not even  *)
(* when the same access is granted again or the target gets a new space.   *)
RevokedKept ==
  \A r \in Runs : run[r].pc = "running" /\ run'[r].pc = "checked" /\ run[r].entry = "chat"
    => ~revoked[r]

(* No command of a channel Run goes on without a stop once its grant was   *)
(* changed: a start and a change are one after the other.  The exception   *)
(* is the command a change found running and failed to stop; none is       *)
(* started after the change.                                               *)
CommandsUnderGrant ==
  mu = "free" => \A r \in Runs :
    run[r].entry = "chat" /\ command[r] = "running" => Granted(r) \/ r \in missed

(* A Run about to dispatch, or with a command, works in the space its      *)
(* conversation is in.                                                     *)
RunInItsSpace ==
  \A r \in Runs : run[r].pc \in {"checked", "launch", "ending"} \/ command[r] # "none"
                    => run[r].space = chat

(* Once a reduction is enforced, no command with more than the permission  *)
(* that is left goes on without a stop (persistSpacePermission,            *)
(* stopPermissionCommands, launch).                                        *)
ReducedCommandsStop ==
  reducer = "idle" => \A r \in Runs : command[r] = "running" => run[r].mode <= Current(r)

(* However a start and a change of the grant fall together, a command of a *)
(* channel Run runs under the current grant, is stopped by the change, or  *)
(* is one the change itself failed to stop, never one started after it;    *)
(* and a Run dispatches in the space its conversation is in                *)
(* (lockTelegramDispatch, applyTelegramAccess, MoveConversation,           *)
(* checkCurrentPermission).                                                *)
UnderGrant == AccessTypeOK /\ CommandsUnderGrant /\ RunInItsSpace
=============================================================================
