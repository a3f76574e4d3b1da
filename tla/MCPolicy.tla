------------------------------- MODULE MCPolicy -------------------------------
(***************************************************************************)
(* What a Run may do, where its calls go and when it may still start,       *)
(* checked in one run: the life of a control operation with crashes,        *)
(* foreign edits and failed writes ("life", and "secret" for a key), and    *)
(* every kind of request, applied and reverted in pairs ("kinds"); the file *)
(* of keys, shared by processes ("keys"); the models a Run is bound to      *)
(* while configuration and keys change ("routing"); the permissions of a    *)
(* channel space while its Runs are under way ("access"); and the server    *)
(* that admits executions until it ends ("server").  Keys, models,          *)
(* permissions and server stay where they start in the other parts, the     *)
(* variables of the operations are 0 there.                                 *)
(***************************************************************************)
EXTENDS OwnerServer, KeyStore, SpaceAccess, ModelRouting, Integers, Sequences

VARIABLES
  part,
  config, memory, baseline, external, op, journal, rev, code, payload, attempt, proposing,
  cleared, busy, restarts, edits, faults, applied, blurred

control == <<config, memory, baseline, external, op, journal, rev, code, payload, attempt,
             proposing, cleared, busy, restarts, edits, faults, applied, blurred>>
all == <<part, serverVars, keyVars, accessVars, control, routingVars>>

\* The instances satisfy what the proofs assume.
ASSUME Instances == KeyAssumption /\ AccessAssumption /\ RoutingAssumption

\* The stronger a model, the more context it takes.
StrengthOf == [a |-> 3, b |-> 4, c |-> 5]
CapacityOf == [a |-> 0, b |-> 1, c |-> 2]

Start ==
  [perm |-> "ask", sandbox |-> "read", net |-> "off", scope |-> "workspace", roots |-> {},
   blocked |-> {}, tools |-> [file |-> TRUE, command |-> FALSE, network |-> TRUE, memory |-> FALSE],
   commands |-> [on |-> FALSE, rules |-> 0], http |-> [on |-> TRUE, origins |-> {"o"}],
   workspace |-> "w1", models |-> {"a", "b"}, default |-> "a", selection |-> "auto",
   auto |-> [on |-> TRUE, models |-> {"b"}], collab |-> [on |-> TRUE, models |-> {}],
   providers |-> [k \in {"k1"} |-> TRUE],
   policy |-> [f \in {"server", "attachments", "public_web", "channels", "memory",
                      "prompt", "limits"} |-> 0],
   skill |-> [on |-> FALSE, trusted |-> FALSE],
   ext |-> [on |-> FALSE, required |-> FALSE, trusted |-> FALSE, settings |-> 0],
   mcp |-> [on |-> TRUE, hint |-> FALSE, hidden |-> 0, command |-> 0],
   key |-> [url |-> 0, secret |-> "old"]]

LifeRequests ==
  {[kind |-> "set_permission", mode |-> "full"], [kind |-> "set_mcp_profile", command |-> 1]}

KeyRequests == {[kind |-> "set_key", url |-> 1, secret |-> "new"]}

KindRequests ==
  LifeRequests \union KeyRequests
  \union {[kind |-> "set_permission", mode |-> "ask"],
          [kind |-> "set_sandbox", mode |-> "host"],
          [kind |-> "set_network", mode |-> "on"],
          [kind |-> "set_file_scope", scope |-> "roots", roots |-> {"r"}, blocked |-> {"b"}],
          [kind |-> "set_profile", mode |-> "full", net |-> "on", scope |-> "workspace",
           roots |-> {}, blocked |-> {"b"}],
          [kind |-> "set_tool", tool |-> "file", on |-> FALSE],
          [kind |-> "set_tool", tool |-> "network", on |-> FALSE],
          [kind |-> "set_tool", tool |-> "command", on |-> TRUE],
          [kind |-> "set_tool", tool |-> "memory", on |-> TRUE],
          [kind |-> "set_commands", policy |-> [on |-> TRUE, rules |-> 1]],
          [kind |-> "set_workspace", dir |-> "w2"],
          [kind |-> "set_default", id |-> "b"],
          [kind |-> "set_model", id |-> "b", default |-> FALSE],
          [kind |-> "set_model", id |-> "b", default |-> TRUE],
          [kind |-> "remove_model", id |-> "a", new |-> "b"],
          [kind |-> "remove_model", id |-> "b", new |-> "none"],
          [kind |-> "set_auto", auto |-> [on |-> TRUE, models |-> {"a", "b"}], selection |-> "keep"],
          [kind |-> "set_auto", auto |-> [on |-> FALSE, models |-> {}], selection |-> "a"],
          [kind |-> "set_http", policy |-> [on |-> FALSE, origins |-> {}]],
          [kind |-> "set_collab", policy |-> [on |-> TRUE, models |-> {"a"}]],
          [kind |-> "set_skill", on |-> TRUE, trusted |-> TRUE],
          [kind |-> "set_extension", on |-> TRUE, required |-> TRUE, trusted |-> TRUE, settings |-> 1],
          [kind |-> "set_mcp", on |-> FALSE, hint |-> TRUE, hidden |-> 1]}
  \union {[kind |-> "set_provider", id |-> k, on |-> k = "k2"] : k \in {"k1", "k2"}}
  \union {[kind |-> "set_policy", field |-> f, to |-> 1] : f \in {"channels", "limits"}}

Life == INSTANCE ControlOperations
          WITH Ops <- {"p", "q"}, Attempts <- {"t1"}, Requests <- LifeRequests, MaxTries <- 1,
               MaxRestarts <- 1, MaxEdits <- 1, MaxFaults <- 1

Secret == INSTANCE ControlOperations
            WITH Ops <- {"p"}, Attempts <- {"t1"}, Requests <- KeyRequests, MaxTries <- 1,
                 MaxRestarts <- 1, MaxEdits <- 1, MaxFaults <- 1

Catalogue == INSTANCE ControlOperations
               WITH Ops <- {"p", "q"}, Attempts <- {}, Requests <- KindRequests, MaxTries <- 1,
                    MaxRestarts <- 0, MaxEdits <- 0, MaxFaults <- 0

\* The parts that do not move hold nothing.
NoControl ==
  /\ config = 0 /\ memory = 0 /\ baseline = 0 /\ external = 0 /\ op = 0 /\ journal = 0 /\ rev = 0
  /\ code = 0 /\ payload = 0 /\ attempt = 0 /\ proposing = 0 /\ cleared = 0 /\ busy = 0
  /\ restarts = 0 /\ edits = 0 /\ faults = 0 /\ applied = 0 /\ blurred = 0

MCInit ==
  /\ ServerInit /\ KeyInit /\ AccessInit /\ RoutingInit
  /\ \/ part = "life" /\ Life!Init
     \/ part = "secret" /\ Secret!Init
     \/ part = "kinds" /\ Catalogue!Init
     \/ part \in {"routing", "keys", "access", "server"} /\ NoControl

MCNext ==
  \/ part = "life" /\ Life!Next /\ UNCHANGED <<part, serverVars, keyVars, accessVars, routingVars>>
  \/ part = "secret" /\ Secret!Next /\ UNCHANGED <<part, serverVars, keyVars, accessVars, routingVars>>
  \/ part = "kinds" /\ Catalogue!Next /\ UNCHANGED <<part, serverVars, keyVars, accessVars, routingVars>>
  \/ part = "routing" /\ RoutingNext /\ UNCHANGED <<part, serverVars, keyVars, accessVars, control>>
  \/ part = "keys" /\ KeyNext /\ UNCHANGED <<part, serverVars, accessVars, control, routingVars>>
  \/ part = "access" /\ AccessNext /\ UNCHANGED <<part, serverVars, keyVars, control, routingVars>>
  \/ part = "server" /\ ServerNext /\ UNCHANGED <<part, keyVars, accessVars, control, routingVars>>

MCSpec == MCInit /\ [][MCNext]_all

\* Every decision is recorded as what was done, in the journal and in the answer the Run
\* gets (control.go decideControlChange, loadJournal; taskservice.go).
DecisionsHonest == /\ part = "life" => Life!DecisionsHonest
                   /\ part = "secret" => Secret!DecisionsHonest
                   /\ part = "kinds" => Catalogue!DecisionsHonest

\* What the user decided stands: a change is applied to the value its preview showed and
\* reverted to what its snapshot says of the one before (control.go), a model chosen by
\* hand is changed by hand only (routing.go prepareAuto, SwitchModel), and a channel Run
\* whose grant changed passes no check any more, whatever is granted later
\* (checkTelegramRun).
DecisionsStand ==
  [][/\ part = "life" => Life!DecisionsKept
     /\ part = "secret" => Secret!DecisionsKept
     /\ part = "kinds" => Catalogue!DecisionsKept
     /\ ManualKept
     /\ RevokedKept]_all
=============================================================================
