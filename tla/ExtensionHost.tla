---------------------------- MODULE ExtensionHost ----------------------------
(* The extension host of the Owner (internal/harness/extensions.go): one      *)
(* process of an extension, shared by the hooks, tools and workflows of every *)
(* Run that uses it, started on demand, replaced when its settings change and *)
(* killed when a hook fails; and the model budget that the hooks of one Run   *)
(* share.                                                                     *)
(*                                                                            *)
(* The configuration is read before startMu is taken, and a process that a    *)
(* call was given may be gone before it is used.  A "hook" (context.prepare,  *)
(* operation.check) that fails closes the process; a "tool" (tool.call,       *)
(* workflow.run, turn.finished) does not.  What a request of the extension    *)
(* then does is in HostCalls, the connection in StdioClient.                  *)
EXTENDS Naturals, FiniteSets

CONSTANTS
  HookCalls,   \* bound: calls of the host to the extension
  HookRuns,    \* the Runs they serve
  Signatures,  \* settings, environment and version of the extension
  MaxStarts,   \* bound: processes started
  Requesters,  \* bound: model requests of the extension
  MaxCalls,    \* modelBudget: model calls in one Run
  MaxResumes   \* bound: Runs that go on after they were settled

VARIABLES
  config,      \* host.config, as the signature it gives
  closed,      \* host.closed
  startMu,     \* the call that holds startMu, or NoCaller
  proc,        \* the processes: signature and state
  client,      \* host.clients[id], 0 when there is none
  hook,        \* the calls
  usage,       \* host.usage: the counter of each Run, 0 when there is none
  spent,       \* the counters: model calls booked
  handler,     \* model requests of the extension
  turn,        \* the Runs: "live" or "settled"
  dispatched,  \* history: model calls of the current sitting of each Run
  resumes      \* how often each Run went on: the sitting it is in

processVars == <<config, closed, startMu, proc, client, hook, usage, spent, handler, turn,
                 dispatched, resumes>>
budget == <<usage, spent, handler, turn, dispatched, resumes>>

NoCaller == "none"
Procs == 1..MaxStarts
Counters == 1..(Cardinality(HookCalls) + Cardinality(Requesters))
IdleCall == [pc |-> "idle", kind |-> "hook", run |-> NoCaller, sig |-> NoCaller, proc |-> 0,
             counter |-> 0]
UnusedProcess == [sig |-> NoCaller, state |-> "unused"]

(* Finitely many calls and model requests, named apart from nobody.           *)
ProcessAssumption ==
  /\ IsFiniteSet(HookCalls) /\ IsFiniteSet(Requesters)
  /\ NoCaller \notin HookCalls /\ NoCaller \notin Signatures
  /\ MaxStarts \in Nat /\ MaxCalls \in Nat /\ MaxResumes \in Nat

ProcessTypeOK ==
  /\ config \in Signatures /\ closed \in BOOLEAN /\ startMu \in HookCalls \union {NoCaller}
  /\ \A p \in Procs : proc[p].state \in {"unused", "starting", "ready", "dead"}
  /\ client \in Procs \union {0}
  /\ \A c \in HookCalls : /\ hook[c].pc \in {"idle", "configured", "starting", "client", "open",
                                             "sent", "abandon", "done"}
                          /\ hook[c].proc \in Procs \union {0}
                          /\ hook[c].counter \in Counters \union {0}
  /\ usage \in [HookRuns -> Counters \union {0}] /\ spent \in [Counters -> 0..MaxCalls]
  /\ turn \in [HookRuns -> {"live", "settled"}] /\ resumes \in [HookRuns -> 0..MaxResumes]

ProcessInit ==
  /\ config \in Signatures /\ closed = FALSE /\ startMu = NoCaller
  /\ proc = [p \in Procs |-> UnusedProcess] /\ client = 0
  /\ hook = [c \in HookCalls |-> IdleCall]
  /\ usage = [r \in HookRuns |-> 0] /\ spent = [k \in Counters |-> 0]
  /\ handler = [h \in Requesters |-> [pc |-> "idle", call |-> NoCaller]]
  /\ turn = [r \in HookRuns |-> "live"] /\ dispatched = [r \in HookRuns |-> 0]
  /\ resumes = [r \in HookRuns |-> 0]

Alive(p) == p # 0 /\ proc[p].state \in {"starting", "ready"}
Dead(procs, p) == [q \in Procs |-> IF q = p THEN [procs[q] EXCEPT !.state = "dead"] ELSE procs[q]]
Stopped(p) == IF p = 0 THEN proc ELSE Dead(proc, p)
CallAt(c, p) == hook[c].pc = p
CallOver(c) == hook' = [hook EXCEPT ![c] = [IdleCall EXCEPT !.pc = "done"]]

-----------------------------------------------------------------------------
(* A call of the host                                                         *)

(* host.configuration and definitionFor.                                      *)
BeginCall(c, r, kind) ==
  /\ CallAt(c, "idle") /\ turn[r] = "live"
  /\ hook' = [hook EXCEPT ![c] = [IdleCall EXCEPT !.pc = "configured", !.kind = kind, !.run = r,
                                               !.sig = config]]
  /\ UNCHANGED <<config, closed, startMu, proc, client, budget>>

(* clientFor, with startMu: the running process when its signature fits.      *)
Reuse(c) ==
  /\ CallAt(c, "configured") /\ startMu = NoCaller /\ ~closed
  /\ client # 0 /\ proc[client].state = "ready" /\ proc[client].sig = hook[c].sig
  /\ hook' = [hook EXCEPT ![c] = [hook[c] EXCEPT !.pc = "client", !.proc = client]]
  /\ UNCHANGED <<config, closed, startMu, proc, client, budget>>

(* clientFor: otherwise the previous process is closed and another started,   *)
(* with startMu held until it has answered initialize.                        *)
Start(c) ==
  \E p \in Procs :
    /\ CallAt(c, "configured") /\ startMu = NoCaller /\ ~closed
    /\ ~(client # 0 /\ proc[client].state = "ready" /\ proc[client].sig = hook[c].sig)
    /\ proc[p] = UnusedProcess /\ \A q \in Procs : proc[q] = UnusedProcess => p <= q
    /\ client' = 0
    /\ proc' = [Stopped(client) EXCEPT ![p] = [sig |-> hook[c].sig, state |-> "starting"]]
    /\ startMu' = c
    /\ hook' = [hook EXCEPT ![c] = [hook[c] EXCEPT !.pc = "starting", !.proc = p]]
    /\ UNCHANGED <<config, closed, budget>>

(* initialize: the process answers with its identity and what it provides, or *)
(* it is closed again.                                                        *)
Initialize(c) ==
  /\ CallAt(c, "starting") /\ startMu' = NoCaller
  /\ \/ /\ proc[hook[c].proc].state = "starting"
        /\ proc' = [proc EXCEPT ![hook[c].proc].state = "ready"]
        /\ client' = hook[c].proc /\ hook' = [hook EXCEPT ![c].pc = "client"]
     \/ /\ proc' = Dead(proc, hook[c].proc)
        /\ CallOver(c) /\ UNCHANGED client
  /\ UNCHANGED <<config, closed, budget>>

(* definitionFor or clientFor fails before a process is touched: the host is  *)
(* closed, the extension is gone, its command is not found; or the process    *)
(* does not provide what is asked.                                            *)
Refuse(c) ==
  /\ \/ CallAt(c, "configured") /\ startMu = NoCaller
     \/ CallAt(c, "client")
  /\ CallOver(c) /\ UNCHANGED <<config, closed, startMu, proc, client, budget>>

Unheld == {k \in Counters : /\ \A r \in HookRuns : usage[r] # k
                            /\ \A d \in HookCalls : hook[d].counter # k
                            /\ \A h \in Requesters :
                                 handler[h].call # NoCaller => handler[h].counter # k}

(* beginInvocation: the hooks of a Run share the counter that the first of    *)
(* them made.                                                                 *)
UsageOf(c) ==
  IF usage[hook[c].run] # 0 THEN {usage[hook[c].run]}
  ELSE Unheld

OpenCall(c) ==
  /\ CallAt(c, "client") /\ ~closed
  /\ \E k \in UsageOf(c) :
       /\ \A j \in UsageOf(c) : k <= j
       /\ hook' = [hook EXCEPT ![c] = [hook[c] EXCEPT !.pc = "open", !.counter = k]]
       /\ spent' = IF usage[hook[c].run] = k THEN spent ELSE [spent EXCEPT ![k] = 0]
       /\ usage' = [usage EXCEPT ![hook[c].run] = k]
  /\ UNCHANGED <<config, closed, startMu, proc, client, handler, turn, dispatched, resumes>>

(* rpc.Call, on a process that may be gone.                                   *)
Send(c) ==
  /\ CallAt(c, "open")
  /\ hook' = [hook EXCEPT ![c].pc = IF Alive(hook[c].proc) THEN "sent" ELSE "abandon"]
  /\ UNCHANGED <<config, closed, startMu, proc, client, budget>>

(* The process answers, with a result or an error of its own: endInvocation.  *)
Answer(c) ==
  /\ CallAt(c, "sent") /\ Alive(hook[c].proc) /\ CallOver(c)
  /\ UNCHANGED <<config, closed, startMu, proc, client, budget>>

(* A timeout, a cancelled Run, or the end of the connection.                  *)
Interrupted(c) ==
  /\ CallAt(c, "sent") /\ hook' = [hook EXCEPT ![c].pc = "abandon"]
  /\ UNCHANGED <<config, closed, startMu, proc, client, budget>>

(* abandonExtensionCall closes the process under the other calls it serves; a *)
(* tool or a workflow reports an unknown outcome and leaves it.               *)
AbandonExtensionCall(c) ==
  /\ CallAt(c, "abandon") /\ CallOver(c)
  /\ proc' = IF hook[c].kind = "hook" THEN Dead(proc, hook[c].proc) ELSE proc
  /\ UNCHANGED <<config, closed, startMu, client, budget>>

-----------------------------------------------------------------------------
(* A model request of the extension: handleHostRequest, handleModelGenerate.  *)

(* invocation: the id is active and belongs to this extension.                *)
ModelRequest(h, c) ==
  /\ handler[h].pc = "idle" /\ hook[c].pc \in {"open", "sent", "abandon"} /\ ~closed
  /\ \E p \in Procs : Alive(p)
  /\ handler' = [handler EXCEPT ![h] = [pc |-> "admitted", call |-> c, run |-> hook[c].run,
                                        counter |-> hook[c].counter,
                                        sitting |-> resumes[hook[c].run]]]
  /\ UNCHANGED <<config, closed, startMu, proc, client, hook, usage, spent, turn, dispatched, resumes>>

(* reserve, then the call.                                                    *)
Reserve(h) ==
  /\ handler[h].pc = "admitted"
  /\ handler' = [handler EXCEPT ![h] = [pc |-> "done", call |-> NoCaller]]
  /\ IF spent[handler[h].counter] + 1 > MaxCalls
     THEN UNCHANGED <<spent, dispatched>>
     ELSE /\ spent' = [spent EXCEPT ![handler[h].counter] = @ + 1]
          /\ dispatched' = [dispatched EXCEPT ![handler[h].run] =
                              @ + (IF handler[h].sitting = resumes[handler[h].run] THEN 1 ELSE 0)]
  /\ UNCHANGED <<config, closed, startMu, proc, client, hook, usage, turn, resumes>>

(* finishExtensions: the Run is settled and its hooks are over; releaseRun    *)
(* drops its counter.  A request of an ended hook may still hold it.          *)
ReleaseRun(r) ==
  /\ turn[r] = "live" /\ \A c \in HookCalls : hook[c].run = r => hook[c].pc \in {"idle", "done"}
  /\ turn' = [turn EXCEPT ![r] = "settled"] /\ usage' = [usage EXCEPT ![r] = 0]
  /\ UNCHANGED <<config, closed, startMu, proc, client, hook, spent, handler, dispatched, resumes>>

(* A stopped Run goes on, under the same id.                                  *)
Resume(r) ==
  /\ turn[r] = "settled" /\ resumes[r] < MaxResumes
  /\ turn' = [turn EXCEPT ![r] = "live"] /\ resumes' = [resumes EXCEPT ![r] = @ + 1]
  /\ dispatched' = [dispatched EXCEPT ![r] = 0]
  /\ UNCHANGED <<config, closed, startMu, proc, client, hook, usage, spent, handler>>

-----------------------------------------------------------------------------
(* host.configure.                                                            *)
Configure(s) ==
  /\ s # config /\ config' = s
  /\ UNCHANGED <<closed, startMu, proc, client, hook, budget>>

(* restart, with startMu.                                                     *)
RestartProcess ==
  /\ startMu = NoCaller /\ client # 0
  /\ proc' = Dead(proc, client) /\ client' = 0
  /\ UNCHANGED <<config, closed, startMu, hook, budget>>

CloseUnlocked ==
  /\ ~closed /\ closed' = TRUE
  /\ proc' = Stopped(client) /\ client' = 0
  /\ usage' = [r \in HookRuns |-> 0]
  /\ UNCHANGED <<config, startMu, hook, spent, handler, turn, dispatched, resumes>>

(* close, with startMu: no process is being started and none will be.  The    *)
(* active invocations are cancelled and forgotten.                            *)
CloseHost ==
  /\ startMu = NoCaller /\ ~closed /\ closed' = TRUE
  /\ proc' = Stopped(client) /\ client' = 0
  /\ usage' = [r \in HookRuns |-> 0]
  /\ UNCHANGED <<config, startMu, hook, spent, handler, turn, dispatched, resumes>>

ProcessCrash(p) ==
  /\ Alive(p) /\ proc' = Dead(proc, p)
  /\ UNCHANGED <<config, closed, startMu, client, hook, budget>>

-----------------------------------------------------------------------------
(* One call, from its configuration on; every wait in it has a timeout.       *)
Serve(c) == \/ Reuse(c) \/ Start(c) \/ Initialize(c) \/ Refuse(c)
            \/ OpenCall(c) \/ Send(c) \/ Answer(c) \/ Interrupted(c) \/ AbandonExtensionCall(c)

ProcessNext ==
  \/ \E c \in HookCalls : \/ \E r \in HookRuns, k \in {"hook", "tool"} : BeginCall(c, r, k)
                          \/ Serve(c)
                          \/ \E h \in Requesters : ModelRequest(h, c)
  \/ \E h \in Requesters : Reserve(h)
  \/ \E r \in HookRuns : ReleaseRun(r) \/ Resume(r)
  \/ \E s \in Signatures : Configure(s)
  \/ \E p \in Procs : ProcessCrash(p)
  \/ RestartProcess \/ CloseHost

ProcessSpec == ProcessInit /\ [][ProcessNext]_processVars

-----------------------------------------------------------------------------
(* At most one process of the extension lives, and it is the registered one   *)
(* or the one that the holder of startMu is starting: a process that was      *)
(* replaced, restarted or abandoned is not left running                       *)
(* (extensions.go clientFor, restart).                                        *)
OneProcess ==
  \A p \in Procs : Alive(p) => \/ p = client
                               \/ startMu # NoCaller /\ hook[startMu].proc = p

(* After close nothing of the extension runs, though a start may have been    *)
(* under way (extensions.go close, clientFor).                                *)
ClosedMeansStopped == closed => \A p \in Procs : ~Alive(p)

(* A call is only ever sent to a process that was started with the settings,  *)
(* the environment and the version the call was prepared with, however the    *)
(* configuration changed meanwhile (extensions.go clientFor).                 *)
OwnSettings == \A c \in HookCalls : CallAt(c, "sent") => proc[hook[c].proc].sig = hook[c].sig

(* The hooks of one Run together, concurrent ones too, make no more model     *)
(* calls than the budget allows from the start of a sitting of the Run to its *)
(* end                                                                        *)
(* (extensions.go beginInvocation, reserve, releaseRun).                      *)
BudgetShared == \A r \in HookRuns : dispatched[r] <= MaxCalls

(* The process of an extension is owned: one lives, none after close, it has  *)
(* the settings of the calls it gets, and its hooks share one budget.         *)
ProcessOwned == ProcessTypeOK /\ OneProcess /\ ClosedMeansStopped /\ OwnSettings /\ BudgetShared
=============================================================================
