------------------------ MODULE ManagedConfigProofs ------------------------
(***************************************************************************)
(* Proofs about ManagedConfig, for any texts, secrets and local models.    *)
(***************************************************************************)
EXTENDS ManagedConfig, TLAPS

\* What a file says is a configuration.
LEMMA ParseType == ASSUME NEW text PROVE Parse(text) \in Configs
  BY ConstantsAssumption DEF Parse, Defaults, Configs, Providers

\* The hash of a file that can be opened.
LEMMA HashType == ASSUME NEW text \in Texts PROVE Hash(text) \in Readable
  BY DEF Hash, Readable

\* Replacing one entry of a configuration leaves a configuration.
LEMMA ExceptType ==
    ASSUME NEW c \in Configs
    PROVE  /\ \A p \in Providers : [c EXCEPT !.provider = p] \in Configs
           /\ [c EXCEPT !.secret = NoSecret] \in Configs
           /\ \A l \in Models \cup {Disabled} : [c EXCEPT !.local = l] \in Configs
  BY DEF Configs

\* The type of the variables of each part, to prove TypeOK by parts.
ServiceType ==
    /\ active \in Configs /\ generation \in 0..MaxGeneration /\ chatProvider \in Providers
    /\ runtime \in Runtimes \cup {NoRuntime} /\ activation \in BOOLEAN
ReloadType ==
    /\ lastHash \in Readable /\ seen \in Readable /\ judged \in Readable
    /\ pumpPc \in {"idle", "load"}
UiType ==
    /\ uiPc \in UiPlaces /\ task \in {"none", "settings", "configure", "store", "exit"}
    /\ lines \in Configs
RestType ==
    /\ file \in Texts
    /\ phase \in {"down", "booting", "up", "exiting"}
    /\ edits \in 0..MaxEdits /\ dialogs \in 0..MaxDialogs /\ starts \in 0..MaxStarts

\* The type invariant, part by part.
LEMMA TypeParts == TypeOK <=> ServiceType /\ ReloadType /\ UiType /\ RestType
  BY DEF TypeOK, ServiceType, ReloadType, UiType, RestType

\* The types hold at the start, ...
LEMMA TypeInit == Init => TypeOK
<1> SUFFICES ASSUME Init PROVE TypeOK
  OBVIOUS
<1>1. Defaults \in Configs
  BY ConstantsAssumption DEF Defaults, Configs, Providers
<1>2. ServiceType
  <2>1. /\ active \in Configs /\ chatProvider \in Providers
        /\ runtime \in Runtimes \cup {NoRuntime} /\ activation \in BOOLEAN
    BY <1>1 DEF Init, Providers
  <2>2. generation \in 0..MaxGeneration
    BY ConstantsAssumption DEF Init
  <2> QED BY <2>1, <2>2 DEF ServiceType
<1>3. ReloadType /\ UiType
  BY <1>1 DEF Init, ReloadType, UiType, UiPlaces, Readable
<1>4. RestType
  BY ConstantsAssumption DEF Init, RestType
<1> QED BY <1>2, <1>3, <1>4, TypeParts

\* ... and every step keeps them.
LEMMA TypeStep == TypeOK /\ [Next]_vars => TypeOK'
<1> SUFFICES ASSUME TypeOK, [Next]_vars PROVE TypeOK'
  OBVIOUS
<1>1. ServiceType /\ ReloadType /\ UiType /\ RestType
  BY TypeParts
<1>2. ServiceType' /\ ReloadType' /\ UiType' /\ RestType' => TypeOK'
  BY DEF TypeOK, ServiceType, ReloadType, UiType, RestType
<1>3. Parse(file) \in Configs /\ Parse(file).provider \in Providers
      /\ Parse(file).generation \in 0..MaxGeneration
      /\ Parse(file).local \in Models \cup {Disabled}
  BY ParseType DEF Configs
<1>4. active.local \in Models \cup {Disabled} /\ active.generation \in 0..MaxGeneration
  BY <1>1 DEF ServiceType, Configs
<1>5. Eligible \subseteq Models /\ MaxGeneration \in Nat /\ EditorTexts \subseteq Texts
  BY ConstantsAssumption
<1>6. ASSUME BootLoad PROVE TypeOK'
  <2>1. ServiceType'
    <3>1. /\ active' \in Configs /\ chatProvider' \in Providers
          /\ runtime' \in Runtimes \cup {NoRuntime} /\ activation' \in BOOLEAN
      BY <1>3, <1>6 DEF BootLoad
    <3>2. generation' \in 0..MaxGeneration
      BY <1>5, <1>6 DEF BootLoad
    <3> QED BY <3>1, <3>2 DEF ServiceType
  <2>3. ReloadType' /\ UiType'
    BY <1>1, <1>6 DEF BootLoad, ReloadType, UiType, uiVars, Readable
  <2>2. RestType'
    BY <1>1, <1>6, ConstantsAssumption DEF BootLoad, RestType, uiVars
  <2> QED BY <1>2, <2>1, <2>2, <2>3
<1>7. ASSUME BootStart PROVE TypeOK'
  <2>1. ServiceType' /\ ReloadType'
    BY <1>1, <1>4, <1>7, HashType
    DEF BootStart, ServiceType, ReloadType, RestType, Runtimes
  <2>2. UiType' /\ RestType'
    BY <1>1, <1>7 DEF BootStart, UiType, RestType, uiVars, budgetVars
  <2> QED BY <1>2, <2>1, <2>2
<1>8. ASSUME PumpHash PROVE TypeOK'
  <2>1. ServiceType' /\ UiType' /\ RestType'
    BY <1>1, <1>8 DEF PumpHash, ServiceType, UiType, RestType, serviceVars, uiVars, budgetVars
  <2>2. ReloadType'
    BY <1>1, <1>8, HashType DEF PumpHash, ReloadType, RestType
  <2> QED BY <1>2, <2>1, <2>2
<1>9. ASSUME PumpEnds, judged' \in Readable
      PROVE  ReloadType' /\ UiType' /\ RestType'
  <2>1. ReloadType'
    BY <1>1, <1>9 DEF PumpEnds, ReloadType, Readable
  <2>2. UiType' /\ RestType'
    BY <1>1, <1>9 DEF PumpEnds, UiType, RestType, uiVars, budgetVars
  <2> QED BY <2>1, <2>2
<1>10. ASSUME PumpLoadFails \/ PumpRejects PROVE TypeOK'
  <2>1. ServiceType'
    BY <1>1, <1>10 DEF PumpLoadFails, PumpRejects, ServiceType, serviceVars
  <2>2. PumpEnds /\ judged' \in Readable
    BY <1>1, <1>10 DEF PumpLoadFails, PumpRejects, ReloadType, RestType, Readable
  <2> QED BY <1>2, <1>9, <2>1, <2>2
<1>11. ASSUME PumpApplies PROVE TypeOK'
  <2>1. PumpEnds /\ judged' \in Readable
    BY <1>1, <1>11 DEF PumpApplies, RestType, Readable
  <2>2. PICK ready \in BOOLEAN :
           /\ IF FallsBack(Parse(file), ready)
              THEN /\ active' = [Parse(file) EXCEPT !.local = active.local]
                   /\ UNCHANGED <<runtime, activation>>
              ELSE /\ active' = Parse(file)
                   /\ runtime' = NewRuntime(Parse(file), ready)
                   /\ activation' = ready
           /\ generation' = IF AuthSensitive(active, Parse(file)) THEN Parse(file).generation
                            ELSE generation
           /\ chatProvider' = Parse(file).provider
    BY <1>11 DEF PumpApplies
  <2>3. NewRuntime(Parse(file), ready) \in Runtimes \cup {NoRuntime}
    BY <1>3 DEF NewRuntime, Runtimes
  <2>4. active' \in Configs
    BY <1>3, <1>4, <2>2, ExceptType
  <2>5. runtime' \in Runtimes \cup {NoRuntime} /\ activation' \in BOOLEAN
    BY <1>1, <2>2, <2>3 DEF ServiceType
  <2>6. generation' \in 0..MaxGeneration /\ chatProvider' \in Providers
    BY <1>1, <1>3, <2>2 DEF ServiceType
  <2> QED BY <1>2, <1>9, <2>1, <2>4, <2>5, <2>6 DEF ServiceType
<1>12. ASSUME Dialogs PROVE TypeOK'
  <2>1. ServiceType'
    BY <1>1, <1>12
    DEF Dialogs, SettingsRead, SettingsChoose, KeyStored, Truncate, Write, Written, Activate,
        ExitBegin, ExitPersist, SetActiveChatProvider, ServiceType, serviceVars
  <2>2. ReloadType'
    BY <1>1, <1>12
    DEF Dialogs, SettingsRead, SettingsChoose, KeyStored, Truncate, Write, Written, Activate,
        ExitBegin, ExitPersist, ReloadType, reloadVars
  <2>3. lines' \in Configs
    BY <1>1, <1>3, <1>12, ExceptType
    DEF Dialogs, SettingsRead, SettingsChoose, KeyStored, Truncate, Write, Written, Activate,
        ExitBegin, ExitPersist, UiType, ServiceType, reloadVars, uiVars
  <2>4. uiPc' \in UiPlaces /\ task' \in {"none", "settings", "configure", "store", "exit"}
    BY <1>1, <1>12
    DEF Dialogs, SettingsRead, SettingsChoose, KeyStored, Truncate, Write, Written, Activate,
        ExitBegin, ExitPersist, Enter, UiType, UiPlaces
  <2>5. file' \in Texts /\ phase' \in {"down", "booting", "up", "exiting"}
    BY <1>1, <1>12
    DEF Dialogs, SettingsRead, SettingsChoose, KeyStored, Truncate, Write, Written, Activate,
        ExitBegin, ExitPersist, UiType, RestType, Texts
  <2>6. edits' \in 0..MaxEdits /\ dialogs' \in 0..MaxDialogs /\ starts' \in 0..MaxStarts
    BY <1>1, <1>12, ConstantsAssumption
    DEF Dialogs, SettingsRead, SettingsChoose, KeyStored, Truncate, Write, Written, Activate,
        ExitBegin, ExitPersist, Enter, RestType, budgetVars
  <2> QED BY <1>2, <2>1, <2>2, <2>3, <2>4, <2>5, <2>6 DEF UiType, RestType
<1>13. ASSUME Edit PROVE TypeOK'
  <2>1. RestType'
    BY <1>1, <1>5, <1>13, ConstantsAssumption DEF Edit, RestType
  <2> QED BY <1>1, <1>2, <1>13, <2>1
          DEF Edit, ServiceType, ReloadType, UiType, serviceVars, reloadVars, uiVars
<1>14. ASSUME Crash PROVE TypeOK'
  BY <1>1, <1>2, <1>14
  DEF Crash, ServiceType, ReloadType, UiType, RestType, serviceVars, budgetVars, UiPlaces, Readable
<1>15. CASE UNCHANGED vars
  BY <1>1, <1>2, <1>15
  DEF vars, ServiceType, ReloadType, UiType, RestType, serviceVars, reloadVars, uiVars, budgetVars
<1> QED BY <1>6, <1>7, <1>8, <1>10, <1>11, <1>12, <1>13, <1>14, <1>15 DEF Next, Pump

\* Every variable keeps its type: in particular no text, torn or absent, leaves in force anything
\* but a configuration (ConfigLoader.cpp:440-450).
THEOREM TypeCorrect == Spec => []TypeOK
<1> QED BY TypeInit, TypeStep, PTL DEF Spec
-----------------------------------------------------------------------------
(***************************************************************************)
(* What the reload takes over.  Boot and the reloader are the only steps   *)
(* that change the configuration in force, the generation, the local model *)
(* or the provider: the dialogs and the writers of the file do not.        *)
(***************************************************************************)

ServiceUnchanged == UNCHANGED serviceVars

\* SetActiveChatProvider never changes the provider, and the rest of a dialog only the file.
LEMMA DialogsKeepService == ASSUME Dialogs PROVE ServiceUnchanged
  BY DEF Dialogs, SettingsRead, SettingsChoose, KeyStored, Truncate, Write, Written, Activate,
         ExitBegin, ExitPersist, SetActiveChatProvider, ServiceUnchanged, serviceVars

\* Every step boots, applies a text, or leaves what is in force alone.
LEMMA ServiceSteps ==
    ASSUME [Next]_vars
    PROVE  BootLoad \/ BootStart \/ PumpApplies \/ ServiceUnchanged
  BY DialogsKeepService
  DEF Next, Pump, PumpHash, PumpLoadFails, PumpRejects, Edit, Crash, vars, ServiceUnchanged

\* What an applied text changes, with and without the fallback.
LEMMA Applied ==
    ASSUME PumpApplies
    PROVE  \E ready \in BOOLEAN :
              /\ ready => MayLoad(Parse(file))
              /\ GenerationAdmits(Parse(file))
              /\ IF FallsBack(Parse(file), ready)
                 THEN /\ active' = [Parse(file) EXCEPT !.local = active.local]
                      /\ UNCHANGED <<runtime, activation>>
                 ELSE /\ active' = Parse(file)
                      /\ runtime' = NewRuntime(Parse(file), ready)
                      /\ activation' = ready
              /\ generation' = IF AuthSensitive(active, Parse(file)) THEN Parse(file).generation
                               ELSE generation
              /\ chatProvider' = Parse(file).provider
  BY DEF PumpApplies

\* The provider, secret and section of a configuration with another section.
LEMMA ExceptLocal ==
    ASSUME NEW c \in Configs, NEW l
    PROVE  /\ [c EXCEPT !.local = l].provider = c.provider
           /\ [c EXCEPT !.local = l].secret = c.secret
           /\ [c EXCEPT !.local = l].local = l
  BY DEF Configs

\* With or without the fallback, provider and secret are those of the text.
LEMMA AppliedSensitive ==
    ASSUME PumpApplies
    PROVE  active'.provider = Parse(file).provider /\ active'.secret = Parse(file).secret
<1> DEFINE fallback == [Parse(file) EXCEPT !.local = active.local]
<1>1. active' = fallback \/ active' = Parse(file)
  BY Applied
<1>2. fallback.provider = Parse(file).provider /\ fallback.secret = Parse(file).secret
  BY ParseType, ExceptLocal
<1> HIDE DEF fallback
<1> QED BY <1>1, <1>2

\* Nothing is in service before the start, ...
LEMMA ActivationInit == Init => ActivationMeansReady
  BY DEF Init, ActivationMeansReady

\* ... and boot, reload and fallback put section, runtime and flag together.
LEMMA ActivationStep == TypeOK /\ ActivationMeansReady /\ [Next]_vars => ActivationMeansReady'
<1> SUFFICES ASSUME TypeOK, ActivationMeansReady, [Next]_vars PROVE ActivationMeansReady'
  OBVIOUS
<1>1. CASE BootLoad
  BY <1>1 DEF BootLoad, ActivationMeansReady
<1>2. CASE BootStart
  <2>1. PICK ready \in BOOLEAN, contract \in BOOLEAN :
           /\ ready => MayLoad(active)
           /\ runtime' = [model |-> active.local, ready |-> ready]
           /\ activation' = (ready /\ contract)
    BY <1>2 DEF BootStart
  <2>2. active' = active
    BY <1>2 DEF BootStart
  <2>3. CASE ready = FALSE
    BY <2>1, <2>3 DEF ActivationMeansReady
  <2>4. CASE ready = TRUE
    BY <2>1, <2>2, <2>4 DEF ActivationMeansReady, MayLoad
  <2> QED BY <2>3, <2>4
<1>3. CASE PumpApplies
  <2>1. PICK ready \in BOOLEAN :
              /\ ready => MayLoad(Parse(file))
              /\ IF FallsBack(Parse(file), ready)
                 THEN /\ active' = [Parse(file) EXCEPT !.local = active.local]
                      /\ UNCHANGED <<runtime, activation>>
                 ELSE /\ active' = Parse(file)
                      /\ runtime' = NewRuntime(Parse(file), ready)
                      /\ activation' = ready
    BY <1>3, Applied
  <2>2. CASE FallsBack(Parse(file), ready)
    <3>2. [Parse(file) EXCEPT !.local = active.local].local = active.local
      BY ParseType, ExceptLocal
    <3>1. active'.local = active.local
      BY <2>1, <2>2, <3>2
    <3> QED BY <2>1, <2>2, <3>1 DEF ActivationMeansReady
  <2>3. CASE ~FallsBack(Parse(file), ready) /\ ready = TRUE
    BY <2>1, <2>3 DEF ActivationMeansReady, MayLoad, NewRuntime
  <2>4. CASE ~FallsBack(Parse(file), ready) /\ ready = FALSE
    BY <2>1, <2>4 DEF ActivationMeansReady
  <2> QED BY <2>2, <2>3, <2>4
<1>4. CASE ServiceUnchanged
  BY <1>4 DEF ServiceUnchanged, serviceVars, ActivationMeansReady
<1> QED BY <1>1, <1>2, <1>3, <1>4, ServiceSteps

\* "In service" is said only of a loaded, eligible model that the configuration in force names,
\* whatever a reload was doing when its model failed to load (ServiceManager.cpp:3367-3377).
THEOREM ActivationCorrect == Spec => []ActivationMeansReady
<1> QED BY TypeInit, TypeStep, ActivationInit, ActivationStep, PTL DEF Spec

\* No dialog gives chat.send a provider that the configuration in force does not name
\* (ServiceManager.cpp:3854-3862).
THEOREM ProviderCorrect == Spec => []ProviderFollowsConfig
<1>1. Init => ProviderFollowsConfig
  BY DEF Init, ProviderFollowsConfig
<1>2. TypeOK /\ ProviderFollowsConfig /\ [Next]_vars => ProviderFollowsConfig'
  <2> SUFFICES ASSUME ProviderFollowsConfig, [Next]_vars PROVE ProviderFollowsConfig'
    OBVIOUS
  <2>1. CASE BootLoad
    BY <2>1 DEF BootLoad, ProviderFollowsConfig
  <2>2. CASE BootStart
    BY <2>2 DEF BootStart, ProviderFollowsConfig
  <2>3. CASE PumpApplies
    BY <2>3, Applied, AppliedSensitive DEF ProviderFollowsConfig
  <2>4. CASE ServiceUnchanged
    <3>1. ~BootLoad => (phase = "down" => phase' = "down")
      BY DEF Next, BootStart, Pump, PumpHash, PumpLoadFails, PumpRejects, PumpApplies, PumpEnds,
             Dialogs, SettingsRead, SettingsChoose, KeyStored, Enter, Truncate, Write, Written,
             Activate, ExitBegin, ExitPersist, Edit, Crash, vars
    <3> QED BY <2>1, <2>4, <3>1 DEF ServiceUnchanged, serviceVars, ProviderFollowsConfig
  <2> QED BY <2>1, <2>2, <2>3, <2>4, ServiceSteps
<1> QED BY <1>1, <1>2, TypeInit, TypeStep, PTL DEF Spec

\* Provider and secrets change only with a growth of the generation, and the generation never goes
\* back, however the reads of the file and its writers interleave
\* (ManagedRuntimeConfigDiffCoordinator.h:31-51).
THEOREM GenerationCorrect == Spec => GenerationGuard
<1>1. TypeOK /\ [Next]_vars =>
        [Running /\ phase' # "booting" =>
            /\ AuthSensitive(active, active') => generation' > generation
            /\ generation' >= generation]_vars
  <2> SUFFICES ASSUME TypeOK, [Next]_vars, Running, phase' # "booting"
               PROVE  /\ AuthSensitive(active, active') => generation' > generation
                      /\ generation' >= generation
    OBVIOUS
  <2>1. generation \in Nat /\ Parse(file).generation \in Nat
    BY ParseType, ConstantsAssumption DEF TypeOK, Configs
  <2>2. ~BootLoad /\ ~BootStart
    BY DEF BootLoad, BootStart, Running
  <2>3. CASE PumpApplies
    <3>1. AuthSensitive(active, active') <=> AuthSensitive(active, Parse(file))
      BY <2>3, AppliedSensitive DEF AuthSensitive
    <3>2. /\ GenerationAdmits(Parse(file))
          /\ generation' = IF AuthSensitive(active, Parse(file)) THEN Parse(file).generation
                           ELSE generation
      BY <2>3, Applied
    <3> QED BY <2>1, <3>1, <3>2 DEF GenerationAdmits
  <2>4. CASE ServiceUnchanged
    BY <2>1, <2>4 DEF ServiceUnchanged, serviceVars, AuthSensitive
  <2> QED BY <2>2, <2>3, <2>4, ServiceSteps
<1> QED BY <1>1, TypeInit, TypeStep, PTL DEF Spec, GenerationGuard

\* A local model in service is given up only for a text that disables it
\* (ServiceManager.cpp:3367-3377).
THEOREM ServiceKept == Spec => KeepsServing
<1>1. TypeOK /\ [Next]_vars =>
        [Running /\ phase' # "booting" /\ activation /\ ~activation'
            => active'.local = Disabled]_vars
  <2> SUFFICES ASSUME [Next]_vars, Running, activation, ~activation'
               PROVE  active'.local = Disabled
    OBVIOUS
  <2>1. ~BootLoad /\ ~BootStart
    BY DEF BootLoad, BootStart, Running
  <2>2. CASE PumpApplies
    BY <2>2, Applied DEF FallsBack
  <2>3. CASE ServiceUnchanged
    BY <2>3 DEF ServiceUnchanged, serviceVars
  <2> QED BY <2>1, <2>2, <2>3, ServiceSteps
<1> QED BY <1>1, TypeInit, TypeStep, PTL DEF Spec, KeepsServing
=============================================================================
