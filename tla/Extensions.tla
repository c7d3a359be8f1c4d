------------------------------ MODULE Extensions ------------------------------
(***************************************************************************)
(* The extensions of the gateway and the tools they bring:                 *)
(* ExtensionLifecycleManager, PluginHostAdapter, GatewayToolRegistry and   *)
(* PluginRuntimeStateService, driven by GatewayHost's start, its deferred  *)
(* reload of the catalog and its stop.                                     *)
(*                                                                         *)
(* A tool has an entry in the list, which says whether it may be called    *)
(* and from which source it comes, and an executor, kept in maps of their  *)
(* own.  Extensions, the host and the skills write the list; only          *)
(* extensions and the host write executors.  The catalog is read twice in  *)
(* one start or reload, for the list and for the lifecycle, and people may *)
(* edit it in between.  Labels, categories, the history of calls, the      *)
(* counters of the two services and the versions of the surfaces are left  *)
(* out.                                                                    *)
(***************************************************************************)
EXTENDS Naturals, Sequences, FiniteSets, SequencesExt

CONSTANTS
    ExtIds, Tools,
    Catalogs,       \* what extensions.catalog.json and its manifests may say
    Adapted,        \* extensions with an adapter of their own
    Resolved,       \* <<extension, tool>> for which some adapter makes an executor
    OpsTools,       \* the extension that EnsureOpsToolsRuntimeRegistered falls back to
    OpsToolIds,     \* its tools, weather.lookup and email.schedule
    ServiceTools,   \* tools the host registers with its services and at every reload
    FinalTools,     \* tools the host registers once, when its start ends
    SkillSets       \* <<tools of manifests on disk, tools of catalog entries>> of the skills

\* An entry of a catalog with its manifest; refused: an invalid tool id in it, or an
\* executable that is missing or out of bounds.
Entries == [id : ExtIds, enabled : BOOLEAN, readable : BOOLEAN, refused : BOOLEAN,
            tools : Seq([id : Tools, on : BOOLEAN])]

ASSUME ExtensionsAssumption ==
    /\ Catalogs # {} /\ Catalogs \subseteq Seq(Entries)
    /\ \A q \in Catalogs : \A i, j \in DOMAIN q : q[i].id = q[j].id => i = j
    /\ OpsTools \in Adapted /\ Adapted \subseteq ExtIds
    /\ OpsToolIds \cup ServiceTools \cup FinalTools \subseteq Tools
    /\ {OpsTools} \X OpsToolIds \subseteq Resolved
    /\ SkillSets \subseteq (SUBSET Tools) \X (SUBSET Tools)
    /\ {"none", "host", "fallback"} \cap ExtIds = {}

VARIABLES
    onDisk,    \* the catalog on disk
    host,      \* where start, reload and stop are
    list,      \* m_tools: the source of each entry and whether it is enabled
    executor,  \* m_runtimeExecutors and m_runtimeExecutorsV2: whose each one is
    loaded,    \* g_loadedExtensions
    manifests, \* m_extensions
    state,     \* m_states
    active,    \* m_state.activeRegistry is set (to m_extensions)
    surface    \* httpRoute and channel: do they show m_extensions, and are they pinned

vars == <<onDisk, host, list, executor, loaded, manifests, state, active, surface>>

Unlisted == [source |-> "none", on |-> FALSE]
Listing(source, on) == [source |-> source, on |-> on]
HostSurfaces == {"http", "channel"}
States == {"none", "loaded", "active", "deactivated", "failed"}

\* Where the enabled tools of a manifest are.
OnAt(m) == {i \in DOMAIN m.tools : m.tools[i].on}
OnIds(m) == {m.tools[i].id : i \in OnAt(m)}
OnInAll(q) == UNION {OnIds(q[i]) : i \in DOMAIN q}

Init ==
    /\ onDisk \in Catalogs
    /\ host = "off"
    /\ list = [t \in Tools |-> Unlisted]
    /\ executor = [t \in Tools |-> "none"]
    /\ loaded = {}
    /\ manifests = <<>>
    /\ state = [x \in ExtIds |-> "none"]
    /\ active = FALSE
    /\ surface = [f \in HostSurfaces |-> [shows |-> FALSE, pinned |-> FALSE]]

-----------------------------------------------------------------------------
(* The registry, as a record that the steps of a start pass on.             *)

Registry == [list |-> list, executor |-> executor, loaded |-> loaded, state |-> state,
             claimed |-> {}]

Becomes(r) ==
    /\ list' = r.list /\ executor' = r.executor
    /\ loaded' = r.loaded /\ state' = r.state

RegisterRuntimeTools(r, ids, source, owner) ==
    [r EXCEPT !.list = [t \in Tools |-> IF t \in ids THEN Listing(source, TRUE) ELSE @[t]],
              !.executor = [t \in Tools |-> IF t \in ids THEN owner ELSE @[t]]]

\* Fault: the executor stays behind.
UnlistOnly(r, ids) ==
    [r EXCEPT !.list = [t \in Tools |-> IF t \in ids THEN Unlisted ELSE @[t]]]

UnregisterRuntimeTools(r, ids) ==
    [r EXCEPT !.list = [t \in Tools |-> IF t \in ids THEN Unlisted ELSE @[t]],
              !.executor = [t \in Tools |-> IF t \in ids THEN "none" ELSE @[t]]]

\* Every tool of an enabled extension whose manifest can be read; the last entry stays.
LoadExtensionToolsFromCatalog(r) ==
    [r EXCEPT !.list =
        FoldLeft(LAMBDA l, m :
                     IF m.enabled /\ m.readable
                     THEN FoldLeft(LAMBDA k, t : [k EXCEPT ![t.id] = Listing("extension", t.on)],
                                   l, m.tools)
                     ELSE l,
                 @, onDisk)]

\* A manifest on disk takes over whatever is listed under its tool.
LoadSkillToolsFromDirectory(r, ids) ==
    [r EXCEPT !.list = [t \in Tools |-> IF t \in ids THEN Listing("skill", TRUE) ELSE @[t]]]

\* With the previous skill entries gone, manifests first, then catalog entries where
\* nothing is listed.
SyncSkillToolsManifestFirst(r, disk, catalog) ==
    LET kept == [t \in Tools |-> IF r.list[t].source = "skill" THEN Unlisted ELSE r.list[t]]
    IN  [r EXCEPT !.list = [t \in Tools |->
            IF t \in disk \/ (t \in catalog /\ kept[t] = Unlisted) THEN Listing("skill", TRUE)
            ELSE kept[t]]]

-----------------------------------------------------------------------------
(* ExtensionLifecycleManager.                                               *)

Readable(m) == IF m.readable THEN m ELSE [m EXCEPT !.tools = <<>>]

LoadCatalog == manifests' = [i \in DOMAIN onDisk |-> Readable(onDisk[i])]

StateAfterLoad(q) ==
    [x \in ExtIds |->
        IF \E i \in DOMAIN q : q[i].id = x
        THEN IF \A i \in DOMAIN q : q[i].id = x => q[i].readable THEN "loaded" ELSE "failed"
        ELSE "none"]

Fails(r, m) == [r EXCEPT !.state[m.id] = "failed"]

\* An extension may not bring a tool that an earlier one has.
Taken(r, m) == OnIds(m) \cap r.claimed # {}

Unresolved(m) == {i \in OnAt(m) : <<m.id, m.tools[i].id>> \notin Resolved}

Part(m) == {m.tools[i].id : i \in {j \in OnAt(m) : \A k \in Unresolved(m) : j < k}}

\* The tools in front of the first one without an executor are unregistered again.
\* Fault: only the runtime is unloaded.
KeepPart(r, m, part) == [r EXCEPT !.loaded = @ \ {m.id}]

Rollback(r, m, part) ==
    [UnregisterRuntimeTools(r, part) EXCEPT !.loaded = @ \ {m.id}]

Activate(r, m) ==
    IF ~m.enabled THEN [r EXCEPT !.state[m.id] = "deactivated"]
    ELSE IF r.state[m.id] = "failed" THEN r
    ELSE IF Taken(r, m) \/ m.refused THEN Fails(r, m)
    ELSE IF OnIds(m) = {} THEN [r EXCEPT !.state[m.id] = "active"]
    ELSE IF m.id \notin Adapted THEN Fails(r, m)
    ELSE LET done == [RegisterRuntimeTools(r, Part(m), "extension", m.id)
                         EXCEPT !.loaded = @ \cup {m.id}]
         IN  IF Unresolved(m) = {}
             THEN [done EXCEPT !.claimed = @ \cup OnIds(m), !.state[m.id] = "active"]
             ELSE Fails(Rollback(done, m, Part(m)), m)

\* after[n]: once the first n entries had their turn.
ActivateAll(r) ==
    LET after[n \in 0..Len(onDisk)] ==
            IF n = 0 THEN [r EXCEPT !.state = StateAfterLoad(onDisk), !.claimed = {}]
            ELSE Activate(after[n - 1], Readable(onDisk[n]))
    IN  after[Len(onDisk)]

\* The tools of every manifest, also of extensions that failed or are disabled.
DeactivateAll(r) ==
    [UnregisterRuntimeTools(r, OnInAll(manifests))
        EXCEPT !.loaded = @ \ {manifests[i].id : i \in {j \in DOMAIN manifests :
                                                         OnIds(manifests[j]) # {}}},
               !.state = [x \in ExtIds |->
                   IF \E i \in DOMAIN manifests : manifests[i].id = x THEN "deactivated" ELSE @[x]]]

\* EnsureOpsToolsRuntimeRegistered: a fallback, unless both tools are listed as enabled.
EnsureOpsTools(r) ==
    IF \A t \in OpsToolIds : r.list[t].on THEN r
    ELSE [RegisterRuntimeTools(r, OpsToolIds, "host", "fallback") EXCEPT !.loaded = @ \cup {OpsTools}]

EnsureServiceTools(r) == RegisterRuntimeTools(r, ServiceTools, "host", "host")

-----------------------------------------------------------------------------
(* PluginRuntimeStateService.                                               *)

Synced(s, shows) ==
    [f \in HostSurfaces |-> IF s[f].pinned THEN s[f] ELSE [s[f] EXCEPT !.shows = shows]]

ActivateRuntimeRegistry ==
    /\ active' = TRUE
    /\ surface' = [f \in HostSurfaces |-> [shows |-> TRUE, pinned |-> TRUE]]

\* Fault: the registry is cleared first, when the surfaces are still pinned.
ReleaseLate(s) == [f \in HostSurfaces |-> [Synced(s, FALSE)[f] EXCEPT !.pinned = FALSE]]

\* The pins are released, then the registry is cleared and the surfaces follow.
Released(s) == Synced([f \in HostSurfaces |-> [shows |-> active, pinned |-> FALSE]], FALSE)

DeactivateRuntimeRegistry ==
    /\ active' = FALSE
    /\ surface' = Released(surface)

-----------------------------------------------------------------------------
(* GatewayHost.                                                             *)

EditCatalog ==
    /\ \E q \in Catalogs : onDisk' = q
    /\ UNCHANGED <<host, list, executor, loaded, manifests, state, active, surface>>

\* StartLocalRuntimeDispatchOnly, in the local modes.
StartEarlyRuntime ==
    /\ host = "off"
    /\ host' = "early"
    /\ \E skills \in SkillSets : Becomes(LoadSkillToolsFromDirectory(
           EnsureServiceTools(EnsureOpsTools(Registry)), skills[1]))
    /\ UNCHANGED <<onDisk, manifests, active, surface>>

\* StartRuntimeServices up to the first reading of the catalog and the skills.
StartList ==
    /\ host \in {"off", "early"}
    /\ host' = "listed"
    /\ \E skills \in SkillSets : Becomes(LoadSkillToolsFromDirectory(
           LoadExtensionToolsFromCatalog(Registry), skills[1]))
    /\ UNCHANGED <<onDisk, manifests, active, surface>>

\* The rest of StartRuntimeServices, and FinalizeRuntimeInitialization.
StartActivate ==
    /\ host = "listed"
    /\ host' = "up"
    /\ LoadCatalog
    /\ Becomes(RegisterRuntimeTools(
           EnsureServiceTools(EnsureOpsTools(ActivateAll(Registry))), FinalTools, "host", "host"))
    /\ ActivateRuntimeRegistry
    /\ UNCHANGED onDisk

\* PerformDeferredExtensionCatalogReload..., up to the first reading of the catalog.
ReloadList ==
    /\ host = "up"
    /\ host' = "relisted"
    /\ Becomes(LoadExtensionToolsFromCatalog(DeactivateAll(Registry)))
    /\ DeactivateRuntimeRegistry
    /\ UNCHANGED <<onDisk, manifests>>

ReloadActivate ==
    /\ host = "relisted"
    /\ host' = "up"
    /\ LoadCatalog
    /\ Becomes(EnsureServiceTools(EnsureOpsTools(ActivateAll(Registry))))
    /\ ActivateRuntimeRegistry
    /\ UNCHANGED onDisk

SetSkillsCatalogState ==
    /\ host \in {"early", "up", "stopped"}
    /\ \E skills \in SkillSets :
           Becomes(SyncSkillToolsManifestFirst(Registry, skills[1], skills[2]))
    /\ UNCHANGED <<onDisk, host, manifests, active, surface>>

\* The owned cleanups in reverse order: the runtimes go first, their executors later.
NotifyPluginGlobalStopPrelude ==
    /\ host \in {"early", "up"}
    /\ host' = "prelude"
    /\ loaded' = {}
    /\ UNCHANGED <<onDisk, list, executor, manifests, state, active, surface>>

Stop ==
    /\ host \in {"prelude", "stopped"}
    /\ host' = "stopped"
    /\ Becomes(DeactivateAll(Registry))
    /\ DeactivateRuntimeRegistry
    /\ UNCHANGED <<onDisk, manifests>>

Next ==
    \/ EditCatalog
    \/ StartEarlyRuntime \/ StartList \/ StartActivate
    \/ ReloadList \/ ReloadActivate
    \/ SetSkillsCatalogState
    \/ NotifyPluginGlobalStopPrelude \/ Stop

Spec == Init /\ [][Next]_vars

-----------------------------------------------------------------------------
(* Properties.                                                             *)

\* In the catalogs as they are shipped, and in what people add to them as long as they name
\* their tools apart: no extension brings a tool that the host registers over whatever is
\* there, or one that a manifest of a skill on disk takes over.
DifferentTools ==
    \A q \in Catalogs :
        OnInAll(q) \cap (ServiceTools \cup FinalTools \cup UNION {s[1] : s \in SkillSets}) = {}

Manifest(x) == CHOOSE m \in {manifests[i] : i \in DOMAIN manifests} : m.id = x

\* An extension that is active can be called: while the gateway is up, each of its enabled
\* tools is listed as enabled and has an executor, its own or the fallback's, and its
\* runtime is loaded; whatever other extensions failed, and whatever skills were published
\* or catalogs loaded in between (ExtensionLifecycleManager.cpp:613-676).
ActiveRuns ==
    host = "up" =>
        \A x \in ExtIds : state[x] = "active" =>
            /\ \A t \in OnIds(Manifest(x)) : list[t].on /\ executor[t] \in {x, "fallback"}
            /\ OnIds(Manifest(x)) # {} => x \in loaded

\* No tool is run for an extension that is not active, be it failed half way, disabled or
\* gone from the catalog, between two reloads or after any number of them (cpp:643-672,
\* GatewayHost.cpp:1936-1958).
RunsOnlyActive ==
    host = "up" =>
        \A t \in Tools : LET x == executor[t] IN
            x \in ExtIds => state[x] = "active" /\ t \in OnIds(Manifest(x))

\* While the gateway is up, what is active can be called, and what can be called is active.
CallableMeansActive == ActiveRuns /\ RunsOnlyActive

\* A stop leaves no extension loaded, no surface on the old registry, and of the executors
\* none of a tool that an extension has enabled, the fallback's included
\* (GatewayHost.cpp:779-798, PluginRuntimeStateService.cpp:185-193).
StopLeavesNothing ==
    host = "stopped" =>
        /\ loaded = {} /\ ~active
        /\ \A f \in HostSurfaces : ~surface[f].shows /\ ~surface[f].pinned
        /\ \A t \in Tools : executor[t] \in ExtIds \cup {"fallback"} => t \notin OnInAll(manifests)
=============================================================================

