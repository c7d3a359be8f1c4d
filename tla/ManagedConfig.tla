--------------------------- MODULE ManagedConfig ---------------------------
(***************************************************************************)
(* blazeclaw.conf and the configuration in force.                          *)
(*                                                                         *)
(* The file is written by people (an editor), by the Settings dialog, by   *)
(* the dialogs that move the DeepSeek key to the credential store, and by  *)
(* ExitInstance; it is read at start and, once the gateway is up, by       *)
(* GatewayManagedConfigReloader on the gateway pump thread, which hands    *)
(* what it reads to ServiceManager::ApplyManagedRuntimeConfigDiff.  Nothing *)
(* orders these: a dialog truncates the file before it writes it, and the  *)
(* reloader hashes the file in one read and loads it in another.           *)
(*                                                                         *)
(* A configuration keeps the four entries on which the code branches: the  *)
(* chat provider, the DeepSeek key with the authentication profiles        *)
(* (secret), the authentication generation, and the section of the local   *)
(* model (the model it names, or Disabled).                                *)
(***************************************************************************)
EXTENDS Naturals

CONSTANTS
    Secrets,       \* values of the key and profiles other than none
    Models,        \* local models a configuration can name
    Eligible,      \* those whose rollout stage the enabled channels admit
    StartupLoad,   \* localModelStartupLoadEnabled, from the environment
    EditorTexts,   \* what people save in the file
    MaxGeneration, MaxEdits, MaxDialogs, MaxStarts,   \* bounds of the model
    NoSecret, Disabled, Empty, Absent, Unread, NoRuntime

Providers == {"local", "deepseek"}

Configs == [provider : Providers, secret : Secrets \cup {NoSecret},
            generation : 0..MaxGeneration, local : Models \cup {Disabled}]

\* The file: absent, truncated, or with entries.
Texts == Configs \cup {Empty, Absent}

ASSUME ConstantsAssumption ==
    /\ Eligible \subseteq Models
    /\ StartupLoad \in BOOLEAN
    /\ EditorTexts \subseteq Texts
    /\ MaxGeneration \in Nat /\ MaxEdits \in Nat /\ MaxDialogs \in Nat /\ MaxStarts \in Nat
    /\ NoSecret \notin Secrets
    /\ Disabled \notin Models
    /\ {Empty, Absent, Unread} \cap Configs = {}
    /\ Empty # Absent /\ Unread \notin {Empty, Absent}
    /\ NoRuntime \notin [model : Models \cup {Disabled}, ready : BOOLEAN]

VARIABLES
    file,          \* blazeclaw.conf
    phase,         \* the application: down, booting, up, exiting
    active,        \* m_activeConfig
    generation,    \* authSessionGenerationCurrent
    chatProvider,  \* m_activeChatProvider
    runtime,       \* m_localModelRuntime with the ready flag of its snapshot
    activation,    \* m_localModelActivationEnabled
    lastHash,      \* m_lastContentHash (a hash stands for the text it is of)
    pumpPc, seen,  \* Pump between its two reads, and currentHash
    judged,        \* ghost: the text the reloader loaded last
    uiPc, task, lines,   \* the UI thread: where it is, in which handler, the lines it holds
    edits, dialogs, starts

serviceVars == <<active, generation, chatProvider, runtime, activation>>
reloadVars == <<lastHash, pumpPc, seen, judged>>
uiVars == <<uiPc, task, lines>>
budgetVars == <<edits, dialogs, starts>>
vars == <<file, phase, serviceVars, reloadVars, uiVars, budgetVars>>

\* What a parse leaves where a file says nothing.
Defaults == [provider |-> "local", secret |-> NoSecret, generation |-> 0, local |-> Disabled]

Parse(text) == IF text \in Configs THEN text ELSE Defaults

\* Fault: a file that cannot be opened has the hash of one.
HashOfNothing(text) == text

\* std::optional of a content hash: none for a file that cannot be opened.
Hash(text) == IF text = Absent THEN Unread ELSE text

Runtimes == [model : Models \cup {Disabled}, ready : BOOLEAN]

Init ==
    /\ file \in EditorTexts
    /\ phase = "down"
    /\ active = Defaults /\ generation = 0 /\ chatProvider = "local"
    /\ runtime = NoRuntime /\ activation = FALSE
    /\ lastHash = Unread /\ pumpPc = "idle" /\ seen = Unread /\ judged = Unread
    /\ uiPc = "idle" /\ task = "none" /\ lines = Defaults
    /\ edits = 0 /\ dialogs = 0 /\ starts = 0
-----------------------------------------------------------------------------
(***************************************************************************)
(* Start.                                                                  *)
(***************************************************************************)

\* InitInstance loads the file, or keeps the defaults, and ApplyConfigurePolicies takes it over.
BootLoad ==
    /\ phase = "down" /\ starts < MaxStarts
    /\ phase' = "booting" /\ starts' = starts + 1
    /\ active' = Parse(file)
    /\ chatProvider' = Parse(file).provider
    /\ generation' = 0 /\ runtime' = NoRuntime /\ activation' = FALSE
    /\ lastHash' = Unread /\ judged' = Unread
    /\ UNCHANGED <<file, pumpPc, seen, uiVars, edits, dialogs>>

\* LoadModel, tried only for an enabled and eligible section: it may fail.
MayLoad(config) == config.local \in Eligible /\ StartupLoad

\* The rest of Start: the local model, its contract, the generation, and last the reloader,
\* which takes the hash of the file as it is by then.
BootStart ==
    /\ phase = "booting"
    /\ \E ready, contract \in BOOLEAN :
          /\ ready => MayLoad(active)
          /\ runtime' = [model |-> active.local, ready |-> ready]
          /\ activation' = (ready /\ contract)
    /\ generation' = active.generation
    /\ lastHash' = Hash(file)
    /\ phase' = "up"
    /\ UNCHANGED <<file, active, chatProvider, pumpPc, seen, judged, uiVars, budgetVars>>
-----------------------------------------------------------------------------
(***************************************************************************)
(* The reloader, on the gateway pump thread.                               *)
(***************************************************************************)

\* Pump hashes the file and goes on only if it can be opened and is not the text judged last.
PumpHash ==
    /\ phase = "up" /\ pumpPc = "idle"
    /\ Hash(file) \notin {Unread, lastHash}
    /\ seen' = Hash(file) /\ pumpPc' = "load"
    /\ UNCHANGED <<file, phase, serviceVars, lastHash, judged, uiVars, budgetVars>>

\* Every way out of Pump past the load remembers the hash taken before it.
PumpEnds ==
    /\ lastHash' = seen
    /\ pumpPc' = "idle" /\ seen' = Unread
    /\ UNCHANGED <<file, phase, uiVars, budgetVars>>

\* The file could be hashed and cannot be opened any more.
PumpLoadFails ==
    /\ pumpPc = "load" /\ file = Absent
    /\ PumpEnds
    /\ UNCHANGED <<serviceVars, judged>>

\* HasAuthSensitiveConfigChanges.
AuthSensitive(current, next) ==
    current.provider # next.provider \/ current.secret # next.secret

\* Fault: the guard compares with the generation of the last text applied.
GenerationAdmitsStale(next) == AuthSensitive(active, next) => next.generation > active.generation

\* EvaluateAuthSessionGenerationGuard.
GenerationAdmits(next) == AuthSensitive(active, next) => next.generation > generation

\* Fault: a pump that rejects does not remember the text.
PumpRejectsForgets ==
    /\ pumpPc = "load" /\ file # Absent
    /\ ~GenerationAdmits(Parse(file))
    /\ judged' = file
    /\ pumpPc' = "idle" /\ seen' = Unread
    /\ UNCHANGED <<file, phase, lastHash, uiVars, budgetVars, serviceVars>>

PumpRejects ==
    /\ pumpPc = "load" /\ file # Absent
    /\ ~GenerationAdmits(Parse(file))
    /\ judged' = file
    /\ PumpEnds
    /\ UNCHANGED serviceVars

\* Fault: the new runtime is made for the section that was in force.
NewRuntimeOfOldSection(next, ready) ==
    IF next.local \in Eligible THEN [model |-> active.local, ready |-> ready] ELSE NoRuntime

\* CoordinateLocalModelReload: the old runtime has been moved out, a new one is made only for
\* a section that is enabled and eligible.
NewRuntime(next, ready) ==
    IF next.local \in Eligible THEN [model |-> next.local, ready |-> ready] ELSE NoRuntime

\* Fault: a local model that does not come up is not replaced by the one before.
NeverFallsBack(next, ready) == FALSE

\* The new section does not come up, and the old one was in service.
FallsBack(next, ready) == next.local # Disabled /\ ~ready /\ activation

\* ApplyManagedRuntimeApplyPlan.
PumpApplies ==
    /\ pumpPc = "load" /\ file # Absent
    /\ GenerationAdmits(Parse(file))
    /\ \E next \in {Parse(file)}, ready \in BOOLEAN :
          /\ ready => MayLoad(next)
          /\ IF FallsBack(next, ready)
             THEN /\ active' = [next EXCEPT !.local = active.local]
                  /\ UNCHANGED <<runtime, activation>>
             ELSE /\ active' = next
                  /\ runtime' = NewRuntime(next, ready)
                  /\ activation' = ready
          /\ generation' = IF AuthSensitive(active, next) THEN next.generation ELSE generation
          /\ chatProvider' = next.provider
    /\ judged' = file
    /\ PumpEnds

Pump == PumpHash \/ PumpLoadFails \/ PumpRejects \/ PumpApplies
-----------------------------------------------------------------------------
(***************************************************************************)
(* The UI thread.                                                          *)
(***************************************************************************)

Enter(handler) ==
    /\ phase = "up" /\ uiPc = "idle" /\ dialogs < MaxDialogs
    /\ dialogs' = dialogs + 1
    /\ task' = handler

\* Fault: the dialog sets the provider without the guard.
SetActiveChatProviderUnguarded(provider) == chatProvider' = provider

\* SetActiveChatProvider: a change of provider is refused.  (The model it sets and the
\* counters of refusals are left out.)
SetActiveChatProvider(provider) ==
    chatProvider' = IF provider # chatProvider THEN chatProvider ELSE provider

\* CSettingsDialog::OnOK reads the file, then sets the provider chosen and puts it in the lines.
SettingsRead ==
    /\ Enter("settings")
    /\ lines' = Parse(file) /\ uiPc' = "choose"
    /\ UNCHANGED <<file, phase, serviceVars, reloadVars, edits, starts>>

SettingsChoose ==
    /\ uiPc = "choose"
    /\ \E provider \in Providers :
          /\ SetActiveChatProvider(provider)
          /\ lines' = [lines EXCEPT !.provider = provider]
    /\ uiPc' = "truncate"
    /\ UNCHANGED <<file, phase, active, generation, runtime, activation, reloadVars, task,
                   budgetVars>>

\* Configure DeepSeek, and the API key dialog, drop the line of the key from the file, if any.
KeyStored(handler) ==
    /\ Enter(handler)
    /\ lines' = [Parse(file) EXCEPT !.secret = NoSecret]
    /\ uiPc' = IF Parse(file).secret # NoSecret THEN "truncate"
               ELSE IF handler = "configure" THEN "activate" ELSE "idle"
    /\ UNCHANGED <<file, phase, serviceVars, reloadVars, edits, starts>>

\* The stream opens and truncates the file; or it does not open and nothing is written.
Truncate ==
    /\ uiPc = "truncate"
    /\ \E opens \in BOOLEAN :
          IF opens
          THEN file' = Empty /\ uiPc' = "write"
          ELSE UNCHANGED file /\ uiPc' = "written"
    /\ UNCHANGED <<phase, serviceVars, reloadVars, task, lines, budgetVars>>

Write ==
    /\ uiPc = "write"
    /\ file' = lines /\ uiPc' = "written"
    /\ UNCHANGED <<phase, serviceVars, reloadVars, task, lines, budgetVars>>

\* What a handler does after its write: Configure DeepSeek activates, ExitInstance stops.
Written ==
    /\ uiPc = "written"
    /\ uiPc' = IF task = "configure" THEN "activate" ELSE "idle"
    /\ phase' = IF task = "exit" THEN "down" ELSE phase
    /\ UNCHANGED <<file, serviceVars, reloadVars, task, lines, budgetVars>>

\* OnUiParityConfigureDeepSeek: SetActiveChatProvider("deepseek", "deepseek-chat").
Activate ==
    /\ uiPc = "activate"
    /\ SetActiveChatProvider("deepseek")
    /\ uiPc' = "idle"
    /\ UNCHANGED <<file, phase, active, generation, runtime, activation, reloadVars, task, lines,
                   budgetVars>>

\* ExitInstance stops the pump thread, which finishes the pump it is in, ...
ExitBegin ==
    /\ phase = "up" /\ uiPc = "idle"
    /\ phase' = "exiting" /\ task' = "exit"
    /\ UNCHANGED <<file, serviceVars, reloadVars, uiPc, lines, budgetVars>>

\* ... and PersistActiveChatConnection puts the provider in use in the file.
ExitPersist ==
    /\ phase = "exiting" /\ uiPc = "idle" /\ pumpPc = "idle"
    /\ lines' = [Parse(file) EXCEPT !.provider = chatProvider]
    /\ uiPc' = "truncate"
    /\ UNCHANGED <<file, phase, serviceVars, reloadVars, task, budgetVars>>

Dialogs ==
    \/ SettingsRead \/ SettingsChoose
    \/ KeyStored("configure") \/ KeyStored("store")
    \/ Truncate \/ Write \/ Written \/ Activate
    \/ ExitBegin \/ ExitPersist
-----------------------------------------------------------------------------
\* People save the file at any time.
Edit ==
    /\ edits < MaxEdits /\ edits' = edits + 1
    /\ file' \in EditorTexts \ {file}
    /\ UNCHANGED <<phase, serviceVars, reloadVars, uiVars, dialogs, starts>>

\* The process dies wherever it is; the file stays as it is.
Crash ==
    /\ phase # "down"
    /\ phase' = "down"
    /\ pumpPc' = "idle" /\ seen' = Unread /\ uiPc' = "idle"
    /\ UNCHANGED <<file, serviceVars, lastHash, judged, task, lines, budgetVars>>

Next == BootLoad \/ BootStart \/ Pump \/ Dialogs \/ Edit \/ Crash

Spec == Init /\ [][Next]_vars

\* The pump thread runs every 16 ms, and the UI thread finishes the handler it is in.
Fairness ==
    /\ WF_vars(Pump)
    /\ WF_vars(SettingsChoose \/ Truncate \/ Write \/ Written \/ Activate \/ ExitPersist)

LiveSpec == Spec /\ Fairness
-----------------------------------------------------------------------------
(***************************************************************************)
(* Properties.                                                             *)
(***************************************************************************)

\* What can have been hashed or loaded: nothing yet, or a text, never a file that is not there.
Readable == (Texts \ {Absent}) \cup {Unread}

UiPlaces == {"idle", "choose", "truncate", "write", "written", "activate"}

\* Every variable keeps its type, and the budgets their bounds.
TypeOK ==
    /\ file \in Texts
    /\ phase \in {"down", "booting", "up", "exiting"}
    /\ active \in Configs /\ generation \in 0..MaxGeneration /\ chatProvider \in Providers
    /\ runtime \in Runtimes \cup {NoRuntime} /\ activation \in BOOLEAN
    /\ lastHash \in Readable /\ seen \in Readable /\ judged \in Readable
    /\ pumpPc \in {"idle", "load"}
    /\ uiPc \in UiPlaces /\ task \in {"none", "settings", "configure", "store", "exit"}
    /\ lines \in Configs
    /\ edits \in 0..MaxEdits /\ dialogs \in 0..MaxDialogs /\ starts \in 0..MaxStarts

\* What chat.send reads, "the local model is in service" (ServiceManager.cpp:2792), is true only
\* of a loaded model that is the one, and eligible, that the configuration in force names: after
\* a reload that failed half way too, when section, runtime and flag go back together (3367-3377).
ActivationMeansReady ==
    activation =>
        /\ active.local \in Eligible
        /\ runtime = [model |-> active.local, ready |-> TRUE]

\* The provider chat.send uses is that of the configuration in force: no dialog gets around the
\* reload (ServiceManager.cpp:3854-3862).
ProviderFollowsConfig == phase # "down" => chatProvider = active.provider

Running == phase \in {"up", "exiting"}

\* While the program runs, provider and secrets change only together with a growth of the
\* generation, which never goes back: no text that was in force once is taken again by a late or
\* repeated read of the file (ManagedRuntimeConfigDiffCoordinator.h:31-51).
GenerationGuard ==
    [][Running /\ phase' # "booting" =>
          /\ AuthSensitive(active, active') => generation' > generation
          /\ generation' >= generation]_vars

\* A reload takes a local model out of service only if the file disables it: one that fails to
\* load, or is not eligible, leaves the one in service where it is (ServiceManager.cpp:3367-3377).
KeepsServing ==
    [][Running /\ phase' # "booting" /\ activation /\ ~activation' => active'.local = Disabled]_vars

\* A text that was saved while the gateway is up and stays is loaded and judged, whatever was
\* being judged when it was saved (GatewayManagedConfigReloader.cpp:86-130).
EditsNoticed ==
    \A text \in EditorTexts \ {Absent} :
        phase = "up" /\ pumpPc = "idle" /\ file = text /\ lastHash # text
            ~> phase # "up" \/ file # text \/ (judged = text /\ lastHash = text)

\* "Activate provider/model for chat pipeline at app runtime level" (MainFrame.cpp:1226), after
\* which the log says "Active provider set to deepseek-chat." (1231).
ConfigureActivates == [][uiPc = "activate" /\ uiPc' = "idle" /\ phase' = "up" =>
                            chatProvider' = "deepseek"]_vars
=============================================================================
