---------------------------- MODULE ConfigControl ----------------------------
(* What a control operation on the configuration does: the edit of every kind *)
(* (applyConfigControl), the resource whose revision guards it                *)
(* (configControlResource), the snapshot taken of that resource for the       *)
(* preview and the revert (configResourceValue) and the way a revert puts the *)
(* snapshot back (setConfigResource). A configuration is a record of the      *)
(* fields those functions tell apart; one skill, one extension, one MCP       *)
(* server and one Key profile stand for the maps of them. A request is a      *)
(* record with its kind and the decoded arguments.                            *)
EXTENDS Integers, FiniteSets

CONSTANT Models      \* the identifiers a model profile can have

None == "none"

(* The settings with a resource of their own: the edit, the snapshot and the  *)
(* revert concern the same single field.                                      *)
PolicyFields == {"server", "attachments", "public_web", "channels", "memory", "prompt", "limits"}

(* Key profiles switched on or off by name; a name may be absent.             *)
Providers == UNION {[S -> BOOLEAN] : S \in SUBSET {"k1", "k2"}}

Tools == [file : BOOLEAN, command : BOOLEAN, network : BOOLEAN, memory : BOOLEAN]

Configs ==
  [perm : {"ask", "full"}, sandbox : {"read", "host"}, net : {"off", "on"},
   scope : {"workspace", "roots"}, roots : SUBSET {"r"}, blocked : SUBSET {"b"},
   tools : Tools, commands : [on : BOOLEAN, rules : 0..1],
   http : [on : BOOLEAN, origins : SUBSET {"o"}],
   workspace : {"w1", "w2"},
   models : SUBSET Models, default : Models \union {None},
   selection : Models \union {None, "auto"},
   auto : [on : BOOLEAN, models : SUBSET Models],
   collab : [on : BOOLEAN, models : SUBSET Models],
   policy : [PolicyFields -> 0..1], providers : Providers,
   skill : [on : BOOLEAN, trusted : BOOLEAN],
   ext : [on : BOOLEAN, required : BOOLEAN, trusted : BOOLEAN, settings : 0..1],
   mcp : [on : BOOLEAN, hint : BOOLEAN, hidden : 0..1, command : 0..1],
   key : [url : 0..1, secret : {"old", "new"}]]

-----------------------------------------------------------------------------
(* Config.Validate and the checks of configureRuntimePolicy that relate two   *)
(* fields. The bounds of single values are left out.                          *)
Valid(c) ==
  /\ c.models = {} => c.default = None /\ c.selection = None /\ ~c.auto.on
  /\ c.models # {} => c.default \in c.models
  /\ c.selection \in c.models \union {None, "auto"}
  /\ c.selection = "auto" => c.auto.on
  /\ c.auto.models \subseteq c.models
  /\ c.collab.models \subseteq c.models
  /\ c.scope = "roots" => c.roots # {}

(* validatePlatformNetwork on Linux.                                          *)
PlatformAllows(c, r) ==
  r.kind \in {"set_network", "set_profile", "set_sandbox", "set_permission"}
    => (c.net = "on" => c.perm = "full" \/ c.sandbox = "host")

(* effectiveBuiltinToolSettings: an all-zero record is the safe default, and  *)
(* the policies of commands and HTTP opt in by themselves.                    *)
EffectiveTools(c) ==
  IF \A t \in DOMAIN c.tools : ~c.tools[t]
    THEN [file |-> TRUE, command |-> c.commands.on, network |-> c.http.on, memory |-> TRUE]
    ELSE [c.tools EXCEPT !.command = @ \/ c.commands.on, !.network = @ \/ c.http.on]

-----------------------------------------------------------------------------
(* The edits, one operator per kind.                                          *)

SetPermission(c, r) == [c EXCEPT !.perm = r.mode]

SetSandbox(c, r) == [c EXCEPT !.sandbox = r.mode]

SetNetwork(c, r) == [c EXCEPT !.net = r.mode]

SetFileScope(c, r) == [c EXCEPT !.scope = r.scope, !.roots = r.roots, !.blocked = r.blocked]

SetExecutionProfile(c, r) ==
  [SetFileScope(c, r) EXCEPT !.perm = r.mode, !.net = r.net]

(* Turning the network tool off also empties the list of origins.             *)
SetTool(c, r) ==
  LET tools == [EffectiveTools(c) EXCEPT ![r.tool] = r.on]
  IN  [c EXCEPT !.tools = tools,
                !.commands.on = IF r.tool = "command" THEN r.on ELSE @,
                !.http = IF r.tool # "network" THEN @
                         ELSE [on |-> r.on, origins |-> IF r.on THEN @.origins ELSE {}]]

SetCommandPolicy(c, r) ==
  LET next == [c EXCEPT !.commands = r.policy]
  IN  [next EXCEPT !.tools = [EffectiveTools(next) EXCEPT !.command = r.policy.on]]

SetWorkspace(c, r) == [c EXCEPT !.workspace = r.dir]

SetDefaultModel(c, r) == [c EXCEPT !.default = r.id, !.selection = r.id]

(* The first model becomes the default without being asked to.                *)
ApplyModel(c, r) ==
  LET next == [c EXCEPT !.models = @ \union {r.id}]
  IN  IF r.default \/ c.default = None
        THEN [next EXCEPT !.default = r.id, !.selection = r.id]
        ELSE next

(* RemoveModels: the references go with the model. An explicit list that      *)
(* becomes empty would mean every model, so its user is turned off instead.   *)
RemoveModels(c, r) ==
  LET left == c.models \ {r.id}
      emptied(pool) == pool # {} /\ pool \ {r.id} = {}
      auto == [on |-> c.auto.on /\ ~emptied(c.auto.models) /\ left # {},
               models |-> c.auto.models \ {r.id}]
      collab == [on |-> c.collab.on /\ ~emptied(c.collab.models),
                 models |-> c.collab.models \ {r.id}]
      default == IF left = {} THEN None
                 ELSE IF c.default = r.id THEN r.new ELSE c.default
      moved == c.selection = r.id \/ (c.selection = "auto" /\ ~auto.on)
      selection == IF left = {} THEN None
                   ELSE IF ~moved THEN c.selection
                   ELSE IF r.new # None THEN r.new ELSE default
  IN  [c EXCEPT !.models = left, !.auto = auto, !.collab = collab,
                !.default = default, !.selection = selection]

SetAutoPolicy(c, r) ==
  [c EXCEPT !.auto = r.auto, !.selection = IF r.selection = "keep" THEN @ ELSE r.selection]

SetHTTPPolicy(c, r) == [c EXCEPT !.http = r.policy]

SetCollaboration(c, r) == [c EXCEPT !.collab = r.policy]

SetPolicy(c, r) == [c EXCEPT !.policy[r.field] = r.to]

SetProvider(c, r) ==
  [c EXCEPT !.providers = [k \in DOMAIN @ \union {r.id} |-> IF k = r.id THEN r.on ELSE @[k]]]

SetSkillPolicy(c, r) == [c EXCEPT !.skill = [on |-> r.on, trusted |-> r.trusted]]

SetExtensionPolicy(c, r) ==
  [c EXCEPT !.ext = [on |-> r.on, required |-> r.required,
                     trusted |-> r.trusted, settings |-> r.settings]]

SetMCPPolicy(c, r) == [c EXCEPT !.mcp.on = r.on, !.mcp.hint = r.hint, !.mcp.hidden = r.hidden]

(* The payload of an MCP profile is a field of the request here; where it is  *)
(* kept is the concern of ControlOperations.                                  *)
SetMCPProfile(c, r) == [c EXCEPT !.mcp = [on |-> TRUE, hint |-> FALSE, hidden |-> 0, command |-> r.command]]

(* KeyStore.Update: an empty secret keeps the stored one.                     *)
SetKeyProfile(c, r) ==
  [c EXCEPT !.key.url = r.url, !.key.secret = IF r.secret = None THEN @ ELSE r.secret]

Apply(c, r) ==
  CASE r.kind = "set_permission"  -> SetPermission(c, r)
    [] r.kind = "set_profile"     -> SetExecutionProfile(c, r)
    [] r.kind = "set_sandbox"     -> SetSandbox(c, r)
    [] r.kind = "set_network"     -> SetNetwork(c, r)
    [] r.kind = "set_file_scope"  -> SetFileScope(c, r)
    [] r.kind = "set_tool"        -> SetTool(c, r)
    [] r.kind = "set_commands"    -> SetCommandPolicy(c, r)
    [] r.kind = "set_workspace"   -> SetWorkspace(c, r)
    [] r.kind = "set_default"     -> SetDefaultModel(c, r)
    [] r.kind = "set_model"       -> ApplyModel(c, r)
    [] r.kind = "remove_model"    -> RemoveModels(c, r)
    [] r.kind = "set_auto"        -> SetAutoPolicy(c, r)
    [] r.kind = "set_http"        -> SetHTTPPolicy(c, r)
    [] r.kind = "set_collab"      -> SetCollaboration(c, r)
    [] r.kind = "set_policy"      -> SetPolicy(c, r)
    [] r.kind = "set_provider"    -> SetProvider(c, r)
    [] r.kind = "set_skill"       -> SetSkillPolicy(c, r)
    [] r.kind = "set_extension"   -> SetExtensionPolicy(c, r)
    [] r.kind = "set_mcp"         -> SetMCPPolicy(c, r)
    [] r.kind = "set_mcp_profile" -> SetMCPProfile(c, r)
    [] r.kind = "set_key"         -> SetKeyProfile(c, r)

(* The refusals of the edits themselves, before the common validation.        *)
Applicable(c, r) ==
  /\ r.kind = "set_default" => r.id \in c.models
  /\ r.kind = "remove_model" =>
       /\ r.id \in c.models
       /\ r.new # None => r.new \in c.models \ {r.id}
       /\ c.default = r.id /\ c.models # {r.id} => r.new # None
  /\ LET next == Apply(c, r) IN Valid(next) /\ PlatformAllows(next, r)

-----------------------------------------------------------------------------
(* configControlResource: the resource whose revision guards a request.       *)
ResourceOf(r) ==
  CASE r.kind \in {"set_default", "remove_model"} -> "models"
    [] r.kind = "set_model" -> IF r.default THEN "models" ELSE "model"
    [] r.kind \in {"set_mcp", "set_mcp_profile"} -> "mcp"
    [] r.kind = "set_policy" -> r.field
    [] OTHER -> r.kind

(* configResourceValue: what the preview shows and a revert puts back. The    *)
(* value of a model's own resource is whether the profile exists.             *)
ValueOf(c, resource, r) ==
  CASE resource = "set_permission" -> c.perm
    [] resource = "set_profile"    -> <<c.perm, c.scope, c.roots, c.blocked, c.net>>
    [] resource = "set_sandbox"    -> c.sandbox
    [] resource = "set_network"    -> c.net
    [] resource = "set_file_scope" -> <<c.scope, c.roots, c.blocked>>
    [] resource = "set_tool"       -> EffectiveTools(c)
    [] resource = "set_commands"   -> c.commands
    [] resource = "set_workspace"  -> c.workspace
    [] resource = "models"         -> <<c.models, c.default, c.selection, c.auto, c.collab>>
    [] resource = "model"          -> r.id \in c.models
    [] resource = "set_auto"       -> <<c.auto, c.selection>>
    [] resource = "set_http"       -> c.http
    [] resource = "set_collab"     -> c.collab
    [] resource = "set_provider"   -> c.providers
    [] resource = "set_skill"      -> c.skill
    [] resource = "set_extension"  -> <<c.ext.on, c.ext.required, c.ext.trusted>>
    [] resource = "mcp"            -> <<c.mcp.on, c.mcp.hint, c.mcp.hidden>>
    [] resource = "set_key"        -> c.key.url
    [] OTHER                       -> c.policy[resource]

(* json.Unmarshal into a value that is there: an empty list is left out of    *)
(* the snapshot (omitempty) and the list that is there stays, and the names   *)
(* of a map are added to those that are there. Only a map that was nil is     *)
(* written as null, and put back.                                             *)
ListDecoded(now, v) == IF v = {} THEN now ELSE v

MapDecoded(now, v) ==
  IF DOMAIN v = {} THEN v
  ELSE [k \in DOMAIN now \union DOMAIN v |-> IF k \in DOMAIN v THEN v[k] ELSE now[k]]

(* setConfigResource. There is none for Key and MCP profiles: their           *)
(* operations have the revert class none. The HTTP policy, Collaboration, the *)
(* channel connections (0 is none) and the providers are decoded into the     *)
(* configuration in place, the other resources replaced.                      *)
Restored(c, resource, r, v) ==
  CASE resource = "set_permission" -> [c EXCEPT !.perm = v]
    [] resource = "set_profile"    -> [c EXCEPT !.perm = v[1], !.scope = v[2], !.roots = v[3],
                                                !.blocked = v[4], !.net = v[5]]
    [] resource = "set_sandbox"    -> [c EXCEPT !.sandbox = v]
    [] resource = "set_network"    -> [c EXCEPT !.net = v]
    [] resource = "set_file_scope" -> [c EXCEPT !.scope = v[1], !.roots = v[2], !.blocked = v[3]]
    [] resource = "set_tool"       -> [c EXCEPT !.tools = v, !.commands.on = v.command,
                                                !.http.on = v.network]
    [] resource = "set_commands"   -> [c EXCEPT !.commands = v]
    [] resource = "set_workspace"  -> [c EXCEPT !.workspace = v]
    [] resource = "models"         -> [c EXCEPT !.models = v[1], !.default = v[2],
                                                !.selection = v[3], !.auto = v[4], !.collab = v[5]]
    [] resource = "model"          -> [c EXCEPT !.models = IF v THEN @ \union {r.id} ELSE @ \ {r.id}]
    [] resource = "set_auto"       -> [c EXCEPT !.auto = v[1], !.selection = v[2]]
    [] resource = "set_http"       -> [c EXCEPT !.http.on = v.on,
                                                !.http.origins = ListDecoded(@, v.origins)]
    [] resource = "set_collab"     -> [c EXCEPT !.collab.on = v.on,
                                                !.collab.models = ListDecoded(@, v.models)]
    [] resource = "set_provider"   -> [c EXCEPT !.providers = MapDecoded(@, v)]
    [] resource = "channels"       -> [c EXCEPT !.policy.channels = IF v = 0 THEN @ ELSE v]
    [] resource = "set_skill"      -> [c EXCEPT !.skill = v]
    [] resource = "set_extension"  -> [c EXCEPT !.ext.on = v[1], !.ext.required = v[2], !.ext.trusted = v[3]]
    [] resource = "mcp"            -> [c EXCEPT !.mcp.on = v[1], !.mcp.hint = v[2], !.mcp.hidden = v[3]]
    [] OTHER                       -> [c EXCEPT !.policy[resource] = v]

(* The models Auto may route to.                                              *)
AutoPool(c) == IF ~c.auto.on THEN {} ELSE IF c.auto.models = {} THEN c.models ELSE c.auto.models

CollaborationPool(c) ==
  IF ~c.collab.on THEN {} ELSE IF c.collab.models = {} THEN c.models ELSE c.collab.models
=============================================================================
