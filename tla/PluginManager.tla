----------------------------- MODULE PluginManager -----------------------------
(***************************************************************************)
(* An official plugin enabled and disabled at run time in several            *)
(* applications (src/core/plugins/PluginManager.ts): whether the process has  *)
(* it, in which applications it is provisioned, the rows of _plugin_settings,  *)
(* and its hooks on the event buses.  A call awaits the plugin's asynchronous   *)
(* parts; an application may be created, deleted or restored from a snapshot   *)
(* meanwhile; a collection of the plugin may be refused, and its register may    *)
(* throw.  The plugin registers one hook, and the embedding program does not   *)
(* itself use() it.                                                         *)
(***************************************************************************)
EXTENDS Naturals

CONSTANTS
  Call,          \* requests to the two configuration routes
  Scope,         \* slugs of applications
  DefaultScope,
  MaxLeftHooks   \* bound: hooks left by a use() that failed

ASSUME PluginAssumption == DefaultScope \in Scope /\ MaxLeftHooks \in Nat

VARIABLES
  plugins,       \* the process has the plugin
  enabledIn,     \* _enabled in the settings of the application
  scopeHooks,    \* hooks of the plugin on the bus of the application
  scopedPlugins, \* applications with an entry in scopedPlugins
  provisioned,   \* provisionedScopes
  scopes,        \* applications that exist
  call,          \* call[c] = [pc, scope]
  left,          \* history: hooks on the default bus of a use() that failed
  failed,        \* history: since the start, something did not attach its hook
  drifted        \* history: since the start, settings were restored from a snapshot

pluginVars == <<plugins, enabledIn, scopeHooks, scopedPlugins, provisioned, scopes, call, left,
                failed, drifted>>

NoCall == [pc |-> "idle", scope |-> DefaultScope]
Busy(c) == call[c] # NoCall
Others == Scope \ {DefaultScope}

PluginInit ==
  /\ plugins = FALSE /\ scopes = Scope
  /\ enabledIn = [a \in Scope |-> FALSE] /\ scopeHooks = [a \in Scope |-> 0]
  /\ scopedPlugins = {} /\ provisioned = {} /\ call = [c \in Call |-> NoCall]
  /\ left = 0 /\ failed = FALSE /\ drifted = FALSE

-----------------------------------------------------------------------------
AlreadyProvisioned(a) == a \in provisioned

\* What provisionPluginForScope may do: nothing for a marked application; throw
\* at a collection, with the mark set; or wire an application that is not the
\* default one, where every error of factory and register is caught.
Outcomes(a) ==
  IF AlreadyProvisioned(a) THEN {[done |-> TRUE, entry |-> {}, hook |-> {}]}
  ELSE {[done |-> FALSE, entry |-> {}, hook |-> {}]}
       \cup {o \in [done : {TRUE}, entry : SUBSET {a}, hook : SUBSET {a}] :
               /\ o.hook \subseteq o.entry
               /\ a = DefaultScope => o.entry = {}}

Wired(o) == [a \in Scope |-> IF a \in o.hook THEN scopeHooks[a] + 1 ELSE scopeHooks[a]]

ProvisionPluginForScope(a, o) ==
  /\ o \in Outcomes(a)
  /\ provisioned' = provisioned \cup {a}
  /\ scopedPlugins' = scopedPlugins \cup o.entry

Unattached(a, o) == ~o.done \/ (~AlreadyProvisioned(a) /\ a # DefaultScope /\ o.hook = {})

BeginCall(c, a, pc) == call' = [call EXCEPT ![c] = [pc |-> pc, scope |-> a]]

\* enableOfficialPlugin of a plugin the process has.
EnableOfficialPlugin(c, a) ==
  /\ plugins /\ ~Busy(c) /\ a \in scopes
  /\ \E o \in Outcomes(a) :
       /\ ProvisionPluginForScope(a, o)
       /\ scopeHooks' = Wired(o)
       /\ failed' = (failed \/ Unattached(a, o))
       /\ enabledIn' = [enabledIn EXCEPT ![a] = @ \/ o.done]
  /\ UNCHANGED <<plugins, scopes, call, left, drifted>>

\* enableOfficialPlugin of a plugin the process does not have, up to
\* ensureInitialized: use() provisions the application and registers the plugin
\* on the default bus.  A register that throws makes use() throw, and leaves the
\* hook it may have added; an asynchronous one that fails leaves the plugin.
UseOfficialPlugin(c, a) ==
  /\ ~plugins /\ ~Busy(c) /\ a \in scopes
  /\ \E o \in Outcomes(a), registers \in BOOLEAN, hook \in 0..1 :
       /\ ProvisionPluginForScope(a, o)
       /\ ~o.done => ~registers /\ hook = 0
       /\ left' = IF registers THEN left ELSE left + hook
       /\ left' <= MaxLeftHooks
       /\ scopeHooks' = [Wired(o) EXCEPT ![DefaultScope] = @ + hook]
       /\ failed' = (failed \/ Unattached(a, o) \/ ~registers \/ hook = 0)
       /\ plugins' = registers
       /\ IF registers THEN BeginCall(c, a, "enabling") ELSE UNCHANGED call
  /\ UNCHANGED <<enabledIn, scopes, drifted>>

\* The rest; the settings of an application deleted meanwhile cannot be written.
EnableEnds(c) ==
  /\ call[c].pc \in {"enabling", "orphaned"}
  /\ enabledIn' = IF call[c].pc = "orphaned" THEN enabledIn
                  ELSE [enabledIn EXCEPT ![call[c].scope] = TRUE]
  /\ call' = [call EXCEPT ![c] = NoCall]
  /\ UNCHANGED <<plugins, scopeHooks, scopedPlugins, provisioned, scopes, left, failed, drifted>>

\* isPluginEnabledInAnyApp, but a.
EnabledElsewhere(a) == \E b \in scopes \ {a} : enabledIn[b]

Detached_Kept(a) == scopeHooks
\* Hooks after removeScopedHooks: the default bus keeps its own.
Detached(a) == IF a = DefaultScope THEN scopeHooks ELSE [scopeHooks EXCEPT ![a] = 0]

\* disableOfficialPlugin, up to onDestroy when no other application has the
\* plugin enabled, to its end otherwise.
DisableOfficialPlugin(c, a) ==
  /\ ~Busy(c) /\ a \in scopes
  /\ enabledIn' = [enabledIn EXCEPT ![a] = FALSE]
  /\ scopeHooks' = Detached(a)
  /\ scopedPlugins' = scopedPlugins \ {a} /\ provisioned' = provisioned \ {a}
  /\ IF plugins /\ ~EnabledElsewhere(a) THEN BeginCall(c, a, "destroying") ELSE UNCHANGED call
  /\ UNCHANGED <<plugins, scopes, left, failed, drifted>>

DisableEnds(c) ==
  /\ call[c].pc = "destroying"
  /\ plugins' = FALSE /\ left' = 0
  /\ scopeHooks' = [scopeHooks EXCEPT ![DefaultScope] = 0]
  /\ call' = [call EXCEPT ![c] = NoCall]
  /\ UNCHANGED <<enabledIn, scopedPlugins, provisioned, scopes, failed, drifted>>

-----------------------------------------------------------------------------
\* An application is deleted: disposeScope takes its hooks away, and the plugin
\* stays.  One of the same slug may be created.
DeleteScope(a) ==
  /\ a \in scopes \cap Others
  /\ scopes' = scopes \ {a}
  /\ enabledIn' = [enabledIn EXCEPT ![a] = FALSE]
  /\ scopeHooks' = Detached(a)
  /\ scopedPlugins' = scopedPlugins \ {a} /\ provisioned' = provisioned \ {a}
  /\ call' = [c \in Call |-> IF call[c] = [pc |-> "enabling", scope |-> a]
                             THEN [call[c] EXCEPT !.pc = "orphaned"] ELSE call[c]]
  /\ UNCHANGED <<plugins, left, failed, drifted>>

CreateScope(a) ==
  /\ a \in Others \ scopes
  /\ scopes' = scopes \cup {a}
  /\ UNCHANGED <<plugins, enabledIn, scopeHooks, scopedPlugins, provisioned, call, left, failed,
                 drifted>>

\* A snapshot brings back other settings; nothing is provisioned by them.
RestoreSettings(a) ==
  /\ a \in scopes
  /\ enabledIn' = [enabledIn EXCEPT ![a] = ~@]
  /\ drifted' = TRUE
  /\ UNCHANGED <<plugins, scopeHooks, scopedPlugins, provisioned, scopes, call, left, failed>>

\* updatePluginConfig provisions an application that is enabled and has no entry.
UpdatePluginConfig(a) ==
  /\ plugins /\ a \in scopes \cap Others
  /\ enabledIn[a] /\ a \notin scopedPlugins
  /\ \E o \in Outcomes(a) :
       /\ ProvisionPluginForScope(a, o)
       /\ scopeHooks' = Wired(o)
       /\ failed' = (failed \/ Unattached(a, o))
  /\ UNCHANGED <<plugins, enabledIn, scopes, call, left, drifted>>

\* loadAutoEnabledPlugins, in a new process: the errors of each application are
\* caught, and the next enabled one tries again to use() the plugin.
Restart ==
  LET on == {a \in scopes : enabledIn[a]} IN
  /\ provisioned' = on
  /\ scopedPlugins' \in SUBSET (on \ {DefaultScope})
  /\ plugins' \in (IF on = {} THEN {FALSE} ELSE BOOLEAN)
  /\ left' \in (IF on = {} \/ (plugins' /\ \E a \in on : on = {a}) THEN {0} ELSE 0..MaxLeftHooks)
  /\ \E attached \in SUBSET scopedPlugins', hook \in 0..1 :
       /\ ~plugins' => hook = 0
       /\ scopeHooks' = [a \in Scope |-> IF a = DefaultScope THEN left' + hook
                                         ELSE IF a \in attached THEN 1 ELSE 0]
       /\ failed' = (on # {} /\ (attached # on \ {DefaultScope} \/ hook = 0 \/ left' > 0))
  /\ call' = [c \in Call |-> NoCall]
  /\ drifted' = FALSE
  /\ UNCHANGED <<enabledIn, scopes>>

PluginNext ==
  \/ \E c \in Call, a \in Scope : \/ EnableOfficialPlugin(c, a) \/ UseOfficialPlugin(c, a)
                                 \/ DisableOfficialPlugin(c, a)
  \/ \E c \in Call : EnableEnds(c) \/ DisableEnds(c)
  \/ \E a \in Scope : DeleteScope(a) \/ CreateScope(a) \/ RestoreSettings(a)
                      \/ UpdatePluginConfig(a)
  \/ Restart

PluginSpec == PluginInit /\ [][PluginNext]_pluginVars

-----------------------------------------------------------------------------
PluginTypeOK ==
  /\ scopedPlugins \subseteq Scope /\ provisioned \subseteq Scope /\ scopes \subseteq Scope
  /\ left \in 0..MaxLeftHooks
  /\ \A a \in Scope : scopeHooks[a] \in 0..MaxLeftHooks + 1

(* A plugin is never attached twice to one bus, in whatever order and however  *)
(* concurrently it is enabled, disabled and provisioned, and whichever of these  *)
(* steps fail: its handler would run twice for each event.  What is excused is   *)
(* a hook on the default bus left by a register that threw in use(): its guard   *)
(* (L313) lets it run again as soon as a later use() succeeds.                 *)
AttachedOnce ==
  \A a \in Scope : scopeHooks[a] <= IF a = DefaultScope THEN left + 1 ELSE 1

(* openwiki/plugins-templates-and-client-sdk.md:67: plugins "can be enabled or   *)
(* disabled per app at runtime".  Once no call is in progress, and if nothing    *)
(* failed and no settings were restored since the start, a plugin that is       *)
(* enabled in an application is there and has its hook.  The code breaks this:   *)
(* a disable that runs while the initialisation of an enable is awaited removes   *)
(* the plugin, and the enable then writes _enabled; so does an enable that runs  *)
(* during onDestroy.                                                        *)
EnabledIsAttached ==
  ~failed /\ ~drifted /\ (\A c \in Call : ~Busy(c))
  => \A a \in scopes : enabledIn[a] => plugins /\ scopeHooks[a] = 1

(* openwiki/plugins-templates-and-client-sdk.md:50: disabling a plugin cleanly  *)
(* detaches all its listeners.  The default application keeps the hook of a    *)
(* plugin that another application has enabled.                              *)
DisabledIsDetached ==
  [][\A c \in Call, a \in Scope :
       enabledIn[a] /\ DisableOfficialPlugin(c, a) /\ ~Busy(c)' => scopeHooks'[a] = 0]_pluginVars
=============================================================================
