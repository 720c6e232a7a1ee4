--------------------------- MODULE SettingsProofs ----------------------------
(***************************************************************************)
(* Proofs about Settings for any rows, any values and any games: the       *)
(* running game is given the values the menu shows, and the file holds     *)
(* what the program shows; and for a history of any length, it lists the   *)
(* games by their last start.                                              *)
(***************************************************************************)
EXTENDS Settings, SequenceTheorems, WellFoundedInduction, TLAPS

(* What the argument needs of the types.  A row of the core always stores  *)
(* one of its values or nothing, never the empty text.                     *)
CoreStored == CoreValues \cup {None}

Typed(m) ==
    /\ m \in [Keys -> Values]
    /\ \A k \in CoreToggles : m[k] \in CoreStored
    /\ \A k \in Keys : LoadDefaults[k] # None => m[k] # None

OptionsTyped ==
    /\ Typed(options)
    /\ settingsFile \in {None, Old, Cut} \/ Typed(settingsFile)
    /\ pushing \subseteq Keys
    /\ coreOptions \in [CoreKeys -> Values]
    /\ \A k \in CoreToggles : coreOptions[k] \in CoreStored \cup {""}
    /\ toRead \subseteq CoreToggles
    /\ told \in [CoreToggles -> CoreValues \cup {OVERRIDE_MENU_TIME}]

(* The three links of the chain from the menu to the game.  A row without  *)
(* a value has never been sent, or was sent as the empty text; once the    *)
(* user interface knows of the game the core has what the menu shows,      *)
(* except what is still being sent; and what the core has is what it runs  *)
(* with, except what it has still to read.                                 *)
NothingIsDefault ==
    \A k \in CoreToggles \ (unpushed \cup byCore) :
        options[k] = None => k \in pushing \/ Resolve(coreOptions[k]) = CoreDefault

CoreIsTold ==
    started => \A k \in CoreToggles \ (unpushed \cup byCore) :
        k \in pushing \/ Resolve(coreOptions[k]) = GetOption(k, CoreDefault)

CoreHasRead ==
    loaded => \A k \in CoreToggles \ {MenuTime} :
        changed \/ k \in toRead \/ told[k] = Resolve(coreOptions[k])

SettingsInv == OptionsTyped /\ NothingIsDefault /\ CoreIsTold /\ CoreHasRead /\ DiskHoldsSettings
-----------------------------------------------------------------------------
LEMMA KeysApart ==
    /\ \A k \in CoreToggles : k \in Keys /\ k \in CoreKeys /\ k \in ToggleKeys
                              /\ k # VSync /\ k # Limit /\ k # Diag /\ k # Alpha
    /\ CoreKeys \subseteq Keys /\ ToggleKeys \subseteq Keys
    /\ \A sec \in Sections : sec \subseteq Keys
  BY ConstantsAssumption DEF Keys, CoreKeys, ToggleKeys, FrontendKeys, Sections

LEMMA StoredIsSomething == \A v \in StoredValues : v # None /\ v \in Values
  BY ConstantsAssumption DEF Values

LEMMA DefaultsTyped ==
    /\ Typed(LoadDefaults)
    /\ \A k \in CoreToggles : LoadDefaults[k] = None
  <1>1. "On" \in StoredValues /\ "off" \in StoredValues /\ "70" \in StoredValues
    BY DEF StoredValues
  <1>2. \A k \in Keys : LoadDefaults[k] \in Values
    BY <1>1, StoredIsSomething DEF LoadDefaults, Values
  <1>3. \A k \in CoreToggles : LoadDefaults[k] = None
    BY KeysApart DEF LoadDefaults
  <1>4. LoadDefaults \in [Keys -> Values]
    BY <1>2 DEF LoadDefaults
  <1>5. QED
    BY <1>3, <1>4, KeysApart DEF Typed, CoreStored

(* A file that this program wrote is read back as it was.                  *)
LEMMA FileReadBack ==
    ASSUME Typed(settingsFile), settingsFile \notin {None, Old, Cut}
    PROVE  ReadSettings(settingsFile) = settingsFile
  <1>1. \A k \in Keys : settingsFile[k] = None => LoadDefaults[k] = None
    BY DEF Typed
  <1>2. ReadSettings(settingsFile) =
            [k \in Keys |-> IF settingsFile[k] # None THEN settingsFile[k] ELSE LoadDefaults[k]]
    BY DEF ReadSettings
  <1>3. \A k \in Keys : ReadSettings(settingsFile)[k] = settingsFile[k]
    BY <1>1, <1>2
  <1>4. QED
    BY <1>2, <1>3 DEF Typed

LEMMA MapsAreNoMarks == ASSUME NEW m, Typed(m) PROVE m \notin {None, Old, Cut}
  BY ConstantsAssumption DEF Typed

(* Writing the settings leaves a file that holds them, or a dead program.  *)
LEMMA SaveKeepsDisk ==
    ASSUME NEW image, Typed(image), Save(image), options' = image
    PROVE  /\ settingsFile' \in {None, Old, Cut} \/ Typed(settingsFile')
           /\ DiskHoldsSettings'
  BY DEF Save, DiskHoldsSettings

LEMMA ResolveLemma ==
    /\ Resolve(None) = CoreDefault /\ Resolve("") = CoreDefault
    /\ \A v \in CoreValues : Resolve(v) = v /\ v # None
  BY ConstantsAssumption, StoredIsSomething DEF Resolve, StoredValues

LEMMA SettingsInvInit == Init => SettingsInv
  <1> SUFFICES ASSUME Init PROVE SettingsInv
    OBVIOUS
  <1>1. OptionsTyped
    BY DefaultsTyped, ConstantsAssumption, KeysApart DEF Init, OptionsTyped, CoreStored, Values
  <1>2. NothingIsDefault
    BY ResolveLemma, KeysApart DEF Init, NothingIsDefault
  <1>3. CoreIsTold /\ CoreHasRead /\ DiskHoldsSettings
    BY DEF Init, CoreIsTold, CoreHasRead, DiskHoldsSettings
  <1>4. QED
    BY <1>1, <1>2, <1>3 DEF SettingsInv
-----------------------------------------------------------------------------
(***************************************************************************)
(* The handlers of the menu.  Each finds nothing left to send (UIFree) and *)
(* leaves what the core has and what the game does as it is.               *)
(***************************************************************************)
UILeaves == UNCHANGED <<coreOptions, byCore, changed, coreVars>>

(* A handler of the menu keeps the invariant when it writes the settings   *)
(* it made, and for each row of the core that is not sent now either leaves *)
(* the value or erases it, without forgetting a row it never sent.         *)
LEMMA HandlerStep ==
    ASSUME SettingsInv, UIFree, UILeaves,
           Typed(options'), Save(options'), pushing' \subseteq Keys, started' = started,
           \A k \in CoreToggles \ unpushed' :
               \/ k \in pushing'
               \/ k \notin unpushed /\ options'[k] = options[k]
    PROVE  SettingsInv'
  <1>1. OptionsTyped'
    BY SaveKeepsDisk DEF SettingsInv, OptionsTyped, UILeaves, coreVars
  <1>2. NothingIsDefault'
    BY DEF SettingsInv, NothingIsDefault, UILeaves, UIFree, Resolve
  <1>3. CoreIsTold'
    BY DEF SettingsInv, CoreIsTold, UILeaves, UIFree, GetOption, Resolve
  <1>4. CoreHasRead'
    BY DEF SettingsInv, CoreHasRead, UILeaves, coreVars, Resolve
  <1>5. DiskHoldsSettings'
    BY SaveKeepsDisk
  <1>6. QED
    BY <1>1, <1>2, <1>3, <1>4, <1>5 DEF SettingsInv

LEMMA ToggleStep ==
    ASSUME SettingsInv, NEW k \in FrontendRows \cup CoreToggles, NEW v \in RowValues(k), Toggle(k, v)
    PROVE  SettingsInv'
  <1>1. k \in Keys
    BY KeysApart, ConstantsAssumption DEF Keys
  <1>2. v \in StoredValues
    BY ConstantsAssumption, KeysApart DEF RowValues, StoredValues, FrontendKeys
  <1>3. k \in CoreToggles => v \in CoreValues
    BY KeysApart DEF RowValues
  <1>4. /\ UIFree /\ options' = [options EXCEPT ![k] = v] /\ Save(options')
        /\ pushing' = {k} /\ unpushed' = unpushed \ {k} /\ started' = started /\ UILeaves
    BY Zenon DEF Toggle, UILeaves
  <1>5. Typed(options')
    <2>1. options' \in [Keys -> Values]
      BY <1>2, <1>4, StoredIsSomething DEF SettingsInv, OptionsTyped, Typed
    <2>2. \A c \in CoreToggles : options'[c] \in CoreStored
      BY <1>3, <1>4, KeysApart DEF SettingsInv, OptionsTyped, Typed, CoreStored
    <2>3. \A c \in Keys : LoadDefaults[c] # None => options'[c] # None
      BY <1>2, <1>4, StoredIsSomething DEF SettingsInv, OptionsTyped, Typed
    <2>4. QED
      BY <2>1, <2>2, <2>3 DEF Typed
  <1>6. \A c \in CoreToggles \ unpushed' :
            c \in pushing' \/ (c \notin unpushed /\ options'[c] = options[c])
    BY <1>4, KeysApart DEF SettingsInv, OptionsTyped, Typed
  <1>7. QED
    BY <1>1, <1>4, <1>5, <1>6, HandlerStep

LEMMA ResetSectionStep ==
    ASSUME SettingsInv, NEW sec \in Sections, ResetSectionDefaults(sec)
    PROVE  SettingsInv'
  <1>1. sec \subseteq Keys
    BY KeysApart
  <1>2. \A k \in Keys : /\ GetDefaultForOption(k) \in Values
                        /\ k \in CoreToggles => GetDefaultForOption(k) \in CoreStored
                        /\ LoadDefaults[k] # None => GetDefaultForOption(k) # None
    <2>1. "On" \in StoredValues /\ "off" \in StoredValues /\ "70" \in StoredValues
          /\ CoreDefault \in StoredValues
      BY ConstantsAssumption DEF StoredValues
    <2>2. \A k \in CoreToggles : GetDefaultForOption(k) = CoreDefault
      BY KeysApart, Zenon DEF GetDefaultForOption
    <2>3. VSync # Limit /\ VSync # Alpha /\ VSync # Diag /\ Limit # Alpha /\ Limit # Diag
          /\ Alpha # Diag
      BY DEF VSync, Limit, Alpha, Diag
    <2>4. /\ GetDefaultForOption(VSync) = "On" /\ GetDefaultForOption(Limit) = "off"
          /\ GetDefaultForOption(Alpha) = "70" /\ GetDefaultForOption(Diag) = None
      BY <2>3, Zenon DEF GetDefaultForOption
    <2>5. LoadDefaults[Diag] = None
      <3>1. Diag \in Keys
        BY DEF Keys, FrontendKeys
      <3>2. QED
        BY <2>3, <3>1, Zenon DEF LoadDefaults
    <2>6. \A k \in Keys : k \in CoreToggles \cup {VSync, Limit, Alpha, Diag}
      BY DEF Keys, FrontendKeys, CoreKeys
    <2>7. QED
      BY <2>1, <2>2, <2>4, <2>5, <2>6, KeysApart, StoredIsSomething, DefaultsTyped,
         ConstantsAssumption DEF CoreStored, Values
  <1>3. Typed(options')
    <2>1. /\ options' \in [Keys -> Values]
          /\ \A k \in Keys : options'[k] = IF k \in sec THEN GetDefaultForOption(k) ELSE options[k]
      BY <1>2 DEF ResetSectionDefaults, SettingsInv, OptionsTyped, Typed
    <2>2. QED
      BY <1>2, <2>1, KeysApart DEF SettingsInv, OptionsTyped, Typed
  <1>4. \A k \in CoreToggles \ unpushed' :
            k \in pushing' \/ (k \notin unpushed /\ options'[k] = options[k])
    BY KeysApart DEF ResetSectionDefaults
  <1>5. QED
    BY <1>1, <1>3, <1>4, HandlerStep DEF ResetSectionDefaults, UILeaves

LEMMA ResetAllStep ==
    ASSUME SettingsInv, ResetToDefaults
    PROVE  SettingsInv'
  <1>1. \A k \in CoreToggles \ unpushed' : k \notin unpushed /\ options'[k] = options[k]
    BY DefaultsTyped DEF ResetToDefaults
  <1>2. QED
    BY <1>1, HandlerStep, DefaultsTyped DEF ResetToDefaults, UILeaves, UIFree

LEMMA ReloadStep ==
    ASSUME SettingsInv, ReloadSettings
    PROVE  SettingsInv'
  <1>1. \A k \in CoreToggles \ unpushed' : k \notin unpushed /\ options'[k] = options[k]
    BY DefaultsTyped DEF ReloadSettings
  <1>2. pushing' \subseteq Keys
    BY KeysApart DEF ReloadSettings
  <1>3. QED
    BY <1>1, <1>2, HandlerStep, DefaultsTyped DEF ReloadSettings, UILeaves

LEMMA SaveCurrentStep ==
    ASSUME SettingsInv, SaveCurrentSettings
    PROVE  SettingsInv'
  BY HandlerStep, KeysApart DEF SaveCurrentSettings, UILeaves, SettingsInv, OptionsTyped
-----------------------------------------------------------------------------
(* The other steps: a start, what is sent, what the game reads.            *)

LEMMA StartStep ==
    ASSUME SettingsInv, Start
    PROVE  SettingsInv'
  <1>1. CASE settingsFile \in {None, Old}
    <2>1. Save(LoadDefaults) /\ options' = LoadDefaults
      BY <1>1 DEF Start, ReadSettings
    <2>2. DiskHoldsSettings' /\ Typed(options')
          /\ (settingsFile' \in {None, Old, Cut} \/ Typed(settingsFile'))
      BY <2>1, DefaultsTyped, SaveKeepsDisk
    <2>3. QED
      BY <2>2, ConstantsAssumption, KeysApart, ResolveLemma
         DEF Start, SettingsInv, OptionsTyped, NothingIsDefault, CoreIsTold, CoreHasRead,
             CoreStored, Values
  <1>2. CASE settingsFile \notin {None, Old}
    <2>1. settingsFile' = settingsFile /\ options' = ReadSettings(settingsFile)
      BY <1>2 DEF Start
    <2>2. /\ settingsFile = Cut => options' = LoadDefaults
          /\ settingsFile # Cut => options' = settingsFile
      BY <1>2, <2>1, FileReadBack DEF ReadSettings, SettingsInv, OptionsTyped
    <2>3. DiskHoldsSettings' /\ Typed(options')
          /\ (settingsFile' \in {None, Old, Cut} \/ Typed(settingsFile'))
      BY <1>2, <2>1, <2>2, DefaultsTyped DEF DiskHoldsSettings, SettingsInv, OptionsTyped
    <2>4. QED
      BY <2>3, ConstantsAssumption, KeysApart, ResolveLemma
         DEF Start, SettingsInv, OptionsTyped, NothingIsDefault, CoreIsTold, CoreHasRead,
             CoreStored, Values
  <1>3. QED
    BY <1>1, <1>2

LEMMA SetOptionValueStep ==
    ASSUME SettingsInv, NEW k \in Keys, SetOptionValue(k)
    PROVE  SettingsInv'
  <1>1. coreOptions' = [c \in CoreKeys |-> IF c = k THEN GetOption(k, "") ELSE coreOptions[c]]
        /\ changed' = TRUE /\ pushing' = pushing \ {k} /\ byCore' = byCore \ {k}
        /\ UNCHANGED <<running, uiVars, coreVars, started, unpushed>>
    BY DEF SetOptionValue
  <1>2. GetOption(k, "") \in Values
    BY StoredIsSomething DEF GetOption, SettingsInv, OptionsTyped, Typed, StoredValues
  <1>3. k \in CoreToggles =>
            /\ GetOption(k, "") \in CoreStored \cup {""}
            /\ Resolve(GetOption(k, "")) = GetOption(k, CoreDefault)
            /\ options[k] = None => Resolve(GetOption(k, "")) = CoreDefault
    BY ResolveLemma DEF GetOption, SettingsInv, OptionsTyped, Typed, CoreStored
  <1>4. OptionsTyped'
    BY <1>1, <1>2, <1>3, KeysApart DEF SettingsInv, OptionsTyped, uiVars, coreVars
  <1>5. NothingIsDefault'
    BY <1>1, <1>3, KeysApart DEF SettingsInv, NothingIsDefault, uiVars, Resolve
  <1>6. CoreIsTold'
    BY <1>1, <1>3, KeysApart DEF SettingsInv, CoreIsTold, uiVars, Resolve, GetOption
  <1>7. CoreHasRead' /\ DiskHoldsSettings'
    BY <1>1 DEF SettingsInv, CoreHasRead, DiskHoldsSettings, uiVars
  <1>8. QED
    BY <1>4, <1>5, <1>6, <1>7 DEF SettingsInv

LEMMA GameStartedStep ==
    ASSUME SettingsInv, NEW g \in Games, GameStarted(g)
    PROVE  SettingsInv'
  <1>1. /\ pushing = {} /\ started' = TRUE /\ pushing' = {k \in CoreKeys : options[k] # None}
        /\ UNCHANGED <<options, settingsFile, coreOptions, byCore, changed, coreVars, unpushed>>
    BY DEF GameStarted, UIFree
  <1>2. running
    BY DEF GameStarted, UIFree
  <1>3. OptionsTyped'
    BY <1>1, KeysApart DEF SettingsInv, OptionsTyped, coreVars
  <1>4. NothingIsDefault'
    BY <1>1 DEF SettingsInv, NothingIsDefault, Resolve
  <1>5. CoreIsTold'
    BY <1>1, KeysApart DEF SettingsInv, NothingIsDefault, CoreIsTold, GetOption, Resolve
  <1>6. CoreHasRead' /\ DiskHoldsSettings'
    BY <1>1, <1>2 DEF SettingsInv, CoreHasRead, DiskHoldsSettings, coreVars, Resolve
  <1>7. QED
    BY <1>3, <1>4, <1>5, <1>6 DEF SettingsInv

LEMMA GetVariableStep ==
    ASSUME SettingsInv, NEW k \in CoreToggles, GetVariable(k)
    PROVE  SettingsInv'
  <1>1. Resolve(coreOptions[k]) \in CoreValues
    BY ConstantsAssumption DEF Resolve, SettingsInv, OptionsTyped, CoreStored
  <1>2. /\ told' = [told EXCEPT ![k] = IF k = MenuTime THEN OVERRIDE_MENU_TIME
                                       ELSE Resolve(coreOptions[k])]
        /\ toRead' = toRead \ {k}
        /\ UNCHANGED <<running, uiVars, pushing, coreOptions, byCore, changed, loaded,
                       started, unpushed>>
    BY DEF GetVariable
  <1>3. OptionsTyped'
    BY <1>1, <1>2 DEF SettingsInv, OptionsTyped, uiVars
  <1>4. NothingIsDefault' /\ CoreIsTold' /\ DiskHoldsSettings'
    BY <1>2 DEF SettingsInv, NothingIsDefault, CoreIsTold, DiskHoldsSettings, uiVars, Resolve,
                GetOption
  <1>5. CoreHasRead'
    BY <1>2 DEF SettingsInv, OptionsTyped, CoreHasRead, Resolve
  <1>6. QED
    BY <1>3, <1>4, <1>5 DEF SettingsInv

(* What the core sets itself is no longer what the menu sent, and is still *)
(* to be read.                                                             *)
LEMMA SetVariableStep ==
    ASSUME SettingsInv, NEW k \in CoreToggles, NEW v \in CoreValues, SetVariable(k, v)
    PROVE  SettingsInv'
  <1>. DEFINE w == IF v = CoreDefault THEN "" ELSE v
  <1>1. w \in Values /\ w \in CoreStored \cup {""}
    BY StoredIsSomething DEF StoredValues, CoreStored
  <1>2. /\ coreOptions' = [coreOptions EXCEPT ![k] = w] /\ changed' = TRUE
        /\ byCore' = byCore \cup {k}
        /\ UNCHANGED <<running, uiVars, pushing, coreVars, started, unpushed>>
    BY DEF SetVariable
  <1> HIDE DEF w
  <1>3. OptionsTyped'
    BY <1>1, <1>2, KeysApart DEF SettingsInv, OptionsTyped, uiVars, coreVars
  <1>4. NothingIsDefault' /\ CoreIsTold'
    BY <1>2, KeysApart
       DEF SettingsInv, OptionsTyped, NothingIsDefault, CoreIsTold, uiVars, Resolve, GetOption
  <1>5. CoreHasRead' /\ DiskHoldsSettings'
    BY <1>2 DEF SettingsInv, CoreHasRead, DiskHoldsSettings, uiVars
  <1>6. QED
    BY <1>3, <1>4, <1>5 DEF SettingsInv

LEMMA GameStep ==
    ASSUME SettingsInv, LoadGame \/ PollOptions \/ UnloadGame
    PROVE  SettingsInv'
  <1>1. UNCHANGED <<running, uiVars, pushing, told, unpushed>>
    BY DEF LoadGame, PollOptions, UnloadGame
  <1>2. OptionsTyped'
    BY <1>1, ConstantsAssumption, KeysApart
       DEF LoadGame, PollOptions, UnloadGame, SettingsInv, OptionsTyped, uiVars, CoreStored, Values
  <1>3. NothingIsDefault' /\ DiskHoldsSettings'
    BY <1>1, ResolveLemma, KeysApart
       DEF LoadGame, PollOptions, UnloadGame, SettingsInv, NothingIsDefault, DiskHoldsSettings,
           uiVars, Resolve
  <1>4. CoreIsTold'
    BY <1>1 DEF LoadGame, PollOptions, UnloadGame, SettingsInv, CoreIsTold, uiVars, Resolve, GetOption
  <1>5. CoreHasRead'
    BY <1>1 DEF LoadGame, PollOptions, UnloadGame, SettingsInv, CoreHasRead, uiVars, Resolve
  <1>6. QED
    BY <1>2, <1>3, <1>4, <1>5 DEF SettingsInv

LEMMA QuietStep ==
    ASSUME SettingsInv, ClearHistory \/ Stop \/ UNCHANGED vars
    PROVE  SettingsInv'
  <1>1. UNCHANGED <<options, settingsFile, pushing, coreOptions, byCore, changed, coreVars,
                    started, unpushed>>
        /\ (running' => running)
    BY DEF ClearHistory, Stop, UIFree, uiVars, vars, coreVars
  <1>2. QED
    BY <1>1 DEF SettingsInv, OptionsTyped, NothingIsDefault, CoreIsTold, CoreHasRead,
                DiskHoldsSettings, coreVars, Resolve, GetOption

LEMMA SettingsInvStep == SettingsInv /\ [Next]_vars => SettingsInv'
  <1> SUFFICES ASSUME SettingsInv, [Next]_vars PROVE SettingsInv'
    OBVIOUS
  <1>1. CASE Start
    BY <1>1, StartStep
  <1>2. ASSUME NEW k \in FrontendRows \cup CoreToggles, NEW v \in RowValues(k), Toggle(k, v)
        PROVE  SettingsInv'
    BY <1>2, ToggleStep
  <1>3. ASSUME NEW sec \in Sections, ResetSectionDefaults(sec) PROVE SettingsInv'
    BY <1>3, ResetSectionStep
  <1>4. CASE ResetToDefaults \/ ReloadSettings \/ SaveCurrentSettings
    BY <1>4, ResetAllStep, ReloadStep, SaveCurrentStep
  <1>5. ASSUME NEW k \in Keys, SetOptionValue(k) PROVE SettingsInv'
    BY <1>5, SetOptionValueStep
  <1>6. ASSUME NEW g \in Games, GameStarted(g) PROVE SettingsInv'
    BY <1>6, GameStartedStep
  <1>7. CASE LoadGame \/ PollOptions \/ UnloadGame
    BY <1>7, GameStep
  <1>8. ASSUME NEW k \in CoreToggles, GetVariable(k) PROVE SettingsInv'
    BY <1>8, GetVariableStep
  <1>9. ASSUME NEW k \in CoreToggles, NEW v \in CoreValues, SetVariable(k, v) PROVE SettingsInv'
    BY <1>9, SetVariableStep
  <1>10. CASE ClearHistory \/ Stop \/ UNCHANGED vars
    BY <1>10, QuietStep
  <1>11. QED
    BY <1>1, <1>2, <1>3, <1>4, <1>5, <1>6, <1>7, <1>8, <1>9, <1>10 DEF Next

LEMMA SettingsInvariant == Spec => []SettingsInv
  BY SettingsInvInit, SettingsInvStep, PTL DEF Spec
-----------------------------------------------------------------------------
(* A game that has read everything was last given the values the menu      *)
(* shows, for any rows and values, whatever the order of toggles, resets,  *)
(* loads, readings and the core's own settings; up to what is erased       *)
(* untold, changed by the core since, or "Start Menu".                     *)
THEOREM GameGivenSettings == Spec => []CoreGivenSettings
  <1>1. SettingsInv => CoreGivenSettings
    BY DEF SettingsInv, CoreIsTold, CoreHasRead, CoreGivenSettings, Settled
  <1>2. QED
    BY <1>1, SettingsInvariant, PTL

(* The file holds the settings of the running program, whenever it died    *)
(* before and in whatever write.                                           *)
THEOREM FileHoldsSettings == Spec => []DiskHoldsSettings
  <1>1. SettingsInv => DiskHoldsSettings
    BY DEF SettingsInv
  <1>2. QED
    BY <1>1, SettingsInvariant, PTL
-----------------------------------------------------------------------------
(***************************************************************************)
(* The history.  A list holds each game once; taking a game to its front   *)
(* moves the games before it one place back.                               *)
(***************************************************************************)
Once(list) == \A i, j \in 1 .. Len(list) : list[i] = list[j] => i = j

(* The game stands at j, behind the end if it is not in the list. *)
StandsAt(list, g, j) ==
    /\ j \in 1 .. Len(list) + 1
    /\ \A i \in 1 .. Len(list) : list[i] = g <=> i = j

(* What is left of the first n entries without the one at j. *)
Left(list, j, n) ==
    IF n < j THEN [k \in 1 .. n |-> list[k]]
    ELSE [k \in 1 .. n - 1 |-> IF k < j THEN list[k] ELSE list[k + 1]]

Newest(list) ==
    SubSeq(list, 1, IF Len(list) > MaxHistory THEN MaxHistory ELSE Len(list))

LEMMA SomeHistory == MaxHistory \in Nat /\ MaxHistory > 0
  <1>1. MaxHistory \in Nat \ {0}
    BY HistoryAssumption, Zenon
  <1> QED
    BY <1>1

LEMMA LeastOf ==
    ASSUME NEW T \in SUBSET Nat, T # {} PROVE \E m \in T : \A n \in T : m <= n
  <1>1. PICK m \in T : \A n \in T : <<n, m>> \notin OpToRel(<, Nat)
    BY WFMin, NatLessThanWellFounded
  <1>2. \A n \in T : ~ (n < m)
    BY <1>1 DEF OpToRel
  <1> QED
    BY <1>2

LEMMA GameStands ==
    ASSUME NEW list \in Seq(Games), Once(list), NEW g
    PROVE  \E j \in 1 .. Len(list) + 1 : StandsAt(list, g, j)
  <1>1. CASE \E j \in 1 .. Len(list) : list[j] = g
    BY <1>1 DEF Once, StandsAt
  <1>2. CASE \A j \in 1 .. Len(list) : list[j] # g
    BY <1>2 DEF StandsAt
  <1> QED
    BY <1>1, <1>2

(* What is left is a list of games, and grows by one entry after another.  *)
LEMMA LeftGrows ==
    ASSUME NEW list \in Seq(Games), NEW g, NEW j, StandsAt(list, g, j), NEW n \in 1 .. Len(list)
    PROVE  /\ Left(list, j, 0) = <<>>
           /\ Left(list, j, n - 1) \in Seq(Games) /\ Left(list, j, n) \in Seq(Games)
           /\ Left(list, j, n) = IF list[n] = g THEN Left(list, j, n - 1)
                                 ELSE Append(Left(list, j, n - 1), list[n])
  <1>1. j \in Nat /\ j > 0 /\ n \in Nat /\ n > 0 /\ Len(list) \in Nat
        /\ \A k \in 1 .. Len(list) : list[k] \in Games
    BY DEF StandsAt
  <1>2. Left(list, j, 0) = <<>>
    BY <1>1 DEF Left
  <1>3. \A m \in 0 .. Len(list) : /\ Left(list, j, m) \in Seq(Games)
                                  /\ Len(Left(list, j, m)) = IF m < j THEN m ELSE m - 1
    <2> SUFFICES ASSUME NEW m \in 0 .. Len(list)
                 PROVE  /\ Left(list, j, m) \in Seq(Games)
                        /\ Len(Left(list, j, m)) = IF m < j THEN m ELSE m - 1
      OBVIOUS
    <2>1. CASE m < j
      <3>1. Left(list, j, m) \in [1 .. m -> Games] /\ m \in Nat
        BY <1>1, <2>1 DEF Left
      <3> QED
        BY <2>1, <3>1
    <2>2. CASE ~ (m < j)
      <3>1. Left(list, j, m) \in [1 .. m - 1 -> Games] /\ m - 1 \in Nat
        BY <1>1, <2>2 DEF Left
      <3> QED
        BY <2>2, <3>1
    <2> QED
      BY <2>1, <2>2
  <1>4. n - 1 \in 0 .. Len(list) /\ n \in 0 .. Len(list)
    BY <1>1
  <1>5. CASE list[n] = g
    <2>1. n = j
      BY <1>5 DEF StandsAt
    <2>2. Left(list, j, n) = Left(list, j, n - 1)
      BY <1>1, <2>1 DEF Left
    <2> QED
      BY <1>2, <1>3, <1>4, <1>5, <2>2
  <1>6. CASE list[n] # g
    <2>1. n # j
      BY <1>6 DEF StandsAt
    <2> DEFINE s == Left(list, j, n - 1)
               t == Append(s, list[n])
               u == Left(list, j, n)
    <2>2. s \in Seq(Games) /\ u \in Seq(Games) /\ list[n] \in Games
          /\ Len(s) = (IF n < j THEN n - 1 ELSE n - 2)
          /\ Len(u) = (IF n < j THEN n ELSE n - 1)
      <3>1. s \in Seq(Games) /\ u \in Seq(Games) /\ list[n] \in Games
        BY <1>1, <1>3, <1>4
      <3>2. Len(s) = (IF n - 1 < j THEN n - 1 ELSE n - 1 - 1)
        BY <1>3, <1>4
      <3>3. Len(u) = (IF n < j THEN n ELSE n - 1)
        BY <1>3, <1>4
      <3>4. (n - 1 < j <=> n < j) /\ n - 1 - 1 = n - 2
        BY <1>1, <2>1
      <3> QED
        BY <3>1, <3>2, <3>3, <3>4
    <2>3. \A k \in 1 .. Len(s) : s[k] = IF k < j THEN list[k] ELSE list[k + 1]
      BY <1>1, <2>1, <2>2 DEF Left
    <2>4. \A k \in 1 .. Len(u) : u[k] = IF k < j THEN list[k] ELSE list[k + 1]
      BY <1>1, <2>1, <2>2 DEF Left
    <2> HIDE DEF s, u
    <2>5. /\ t \in Seq(Games) /\ Len(t) = Len(s) + 1
          /\ (\A k \in 1 .. Len(s) : t[k] = s[k]) /\ t[Len(s) + 1] = list[n]
      BY <2>2, AppendProperties
    <2>6. Len(s) \in Nat /\ Len(u) = Len(s) + 1
      BY <1>1, <2>1, <2>2
    <2> HIDE DEF t
    <2>7. ASSUME NEW k \in 1 .. Len(t) PROVE t[k] = u[k]
      <3>1. CASE k \in 1 .. Len(s)
        BY <2>3, <2>4, <2>5, <2>6, <3>1
      <3>2. CASE k = Len(s) + 1
        <4>1. u[k] = IF k < j THEN list[k] ELSE list[k + 1]
          BY <2>4, <2>6, <3>2
        <4>2. u[k] = list[n]
          BY <1>1, <2>1, <2>2, <3>2, <4>1
        <4> QED
          BY <2>5, <3>2, <4>2
      <3> QED
        BY <2>5, <2>6, <3>1, <3>2
    <2>8. t = u
      BY <2>2, <2>5, <2>6, <2>7, SeqEqual
    <2> QED
      BY <1>2, <1>6, <2>2, <2>8 DEF s, t, u
  <1> QED
    BY <1>5, <1>6

(* So that is what the scan of remove_if leaves. *)
LEMMA WithoutIs ==
    ASSUME NEW list \in Seq(Games), NEW g, NEW j, StandsAt(list, g, j)
    PROVE  /\ Without(list, g) = Left(list, j, Len(list))
           /\ Without(list, g) \in Seq(Games)
           /\ Len(Without(list, g)) = IF j <= Len(list) THEN Len(list) - 1 ELSE Len(list)
           /\ \A k \in 1 .. Len(Without(list, g)) :
                  Without(list, g)[k] = IF k < j THEN list[k] ELSE list[k + 1]
  <1> DEFINE D == 0 .. Len(list)
             Scan(W) == [n \in D |-> IF n = 0 THEN <<>>
                                     ELSE IF list[n] = g THEN W[n - 1]
                                     ELSE Append(W[n - 1], list[n])]
             R == CHOOSE W : W = Scan(W)
             L == [n \in D |-> Left(list, j, n)]
  <1>0. Len(list) \in Nat /\ j \in Nat /\ j > 0 /\ j <= Len(list) + 1
    BY DEF StandsAt
  <1>1. Without(list, g) = R[Len(list)]
    BY DEF Without
  <1>2. L = Scan(L)
    <2>1. ASSUME NEW n \in D
          PROVE  L[n] = IF n = 0 THEN <<>> ELSE IF list[n] = g THEN L[n - 1]
                        ELSE Append(L[n - 1], list[n])
      <3>1. CASE n = 0
        <4>1. Left(list, j, 0) = <<>>
          BY <1>0 DEF Left
        <4> QED
          BY <3>1, <4>1
      <3>2. CASE n # 0
        <4>1. n \in 1 .. Len(list) /\ n - 1 \in D
          BY <1>0, <3>2
        <4> QED
          BY <3>2, <4>1, LeftGrows
      <3> QED
        BY <3>1, <3>2
    <2> QED
      BY <2>1
  <1>3. R = Scan(R)
    BY <1>2
  <1> HIDE DEF R
  <1>4. R[Len(list)] = L[Len(list)]
    <2> DEFINE Bad == {n \in D : R[n] # L[n]}
    <2> SUFFICES ASSUME Bad # {} PROVE FALSE
      BY <1>0
    <2>1. PICK m \in Bad : \A n \in Bad : m <= n
      <3>1. Bad \in SUBSET Nat
        BY <1>0
      <3> QED
        BY <3>1, LeastOf
    <2>2. m # 0
      BY <1>2, <1>3, <2>1
    <2>3. m - 1 \in D /\ m - 1 \notin Bad
      BY <1>0, <2>1, <2>2
    <2>4. R[m - 1] = L[m - 1]
      BY <2>3
    <2>5. /\ R[m] = Scan(R)[m] /\ L[m] = Scan(L)[m] /\ m \in D
      BY <1>2, <1>3, <2>1
    <2> QED
      BY <2>1, <2>2, <2>4, <2>5
  <1>5. Without(list, g) = Left(list, j, Len(list))
    BY <1>0, <1>1, <1>4
  <1>6. CASE Len(list) < j
    <2>1. Left(list, j, Len(list)) = [k \in 1 .. Len(list) |-> list[k]]
      BY <1>6 DEF Left
    <2>2. Left(list, j, Len(list)) \in [1 .. Len(list) -> Games]
      BY <2>1
    <2>3. Without(list, g) \in Seq(Games) /\ Len(Without(list, g)) = Len(list)
      BY <1>0, <1>5, <2>2
    <2>4. \A k \in 1 .. Len(list) : Without(list, g)[k] = list[k] /\ k < j
      BY <1>0, <1>5, <1>6, <2>1
    <2> QED
      BY <1>0, <1>5, <1>6, <2>3, <2>4
  <1>7. CASE ~ (Len(list) < j)
    <2>1. Left(list, j, Len(list)) =
             [k \in 1 .. Len(list) - 1 |-> IF k < j THEN list[k] ELSE list[k + 1]]
      BY <1>7 DEF Left
    <2>2. Left(list, j, Len(list)) \in [1 .. Len(list) - 1 -> Games] /\ Len(list) - 1 \in Nat
      BY <1>0, <1>7, <2>1
    <2>3. Without(list, g) \in Seq(Games) /\ Len(Without(list, g)) = Len(list) - 1
      BY <1>5, <2>2
    <2>4. \A k \in 1 .. Len(list) - 1 :
              Without(list, g)[k] = IF k < j THEN list[k] ELSE list[k + 1]
      BY <1>5, <2>1
    <2> QED
      BY <1>0, <1>5, <1>7, <2>3, <2>4
  <1> QED
    BY <1>6, <1>7

LEMMA PutInFront ==
    ASSUME NEW list \in Seq(Games), NEW g \in Games, NEW j, StandsAt(list, g, j)
    PROVE  LET s == <<g>> \o Without(list, g)
           IN  /\ s \in Seq(Games)
               /\ Len(s) = IF j <= Len(list) THEN Len(list) ELSE j
               /\ \A k \in 1 .. Len(s) :
                      s[k] = IF k = 1 THEN g ELSE IF k <= j THEN list[k - 1] ELSE list[k]
  <1> DEFINE w == Without(list, g)
             s == <<g>> \o w
  <1>0. Len(list) \in Nat /\ j \in Nat /\ j > 0 /\ j <= Len(list) + 1
    BY DEF StandsAt
  <1>1. /\ w \in Seq(Games) /\ Len(w) = (IF j <= Len(list) THEN Len(list) - 1 ELSE Len(list))
        /\ \A k \in 1 .. Len(w) : w[k] = IF k < j THEN list[k] ELSE list[k + 1]
    BY WithoutIs
  <1> HIDE DEF w
  <1>2. <<g>> \in Seq(Games) /\ Len(<<g>>) = 1 /\ <<g>>[1] = g
    OBVIOUS
  <1>3. /\ s \in Seq(Games) /\ Len(s) = 1 + Len(w)
        /\ \A k \in 1 .. 1 + Len(w) : s[k] = IF k <= 1 THEN <<g>>[k] ELSE w[k - 1]
    BY <1>1, <1>2, ConcatProperties
  <1>4. Len(s) = IF j <= Len(list) THEN Len(list) ELSE j
    BY <1>0, <1>1, <1>3
  <1>5. ASSUME NEW k \in 1 .. Len(s)
        PROVE  s[k] = IF k = 1 THEN g ELSE IF k <= j THEN list[k - 1] ELSE list[k]
    <2>0. Len(w) \in Nat
      BY <1>1
    <2>1. CASE k = 1
      <3>1. k \in 1 .. 1 + Len(w)
        BY <1>3
      <3> QED
        BY <1>2, <1>3, <2>1, <3>1
    <2>2. CASE k # 1
      <3>1. k \in Nat /\ k > 1 /\ k <= 1 + Len(w)
        BY <1>3, <2>0, <2>2
      <3>2. s[k] = w[k - 1] /\ k - 1 \in 1 .. Len(w)
        BY <1>3, <2>0, <3>1
      <3>3. s[k] = IF k - 1 < j THEN list[k - 1] ELSE list[k - 1 + 1]
        BY <1>1, <3>2
      <3>4. k - 1 + 1 = k /\ (k - 1 < j <=> k <= j)
        BY <1>0, <3>1
      <3> QED
        BY <2>2, <3>3, <3>4
    <2> QED
      BY <2>1, <2>2
  <1> HIDE DEF s
  <1>6. /\ s \in Seq(Games)
        /\ Len(s) = IF j <= Len(list) THEN Len(list) ELSE j
        /\ \A k \in 1 .. Len(s) :
               s[k] = IF k = 1 THEN g ELSE IF k <= j THEN list[k - 1] ELSE list[k]
    BY <1>3, <1>4, <1>5
  <1> QED
    BY <1>6 DEF s, w

(* The list that lost its end beyond MaxHistory is extended to the same    *)
(* newest games as the whole list, because each game is in it once.        *)
LEMMA NewestTypes ==
    ASSUME NEW list \in Seq(Games)
    PROVE  /\ Newest(list) \in Seq(Games)
           /\ Len(Newest(list)) = IF Len(list) > MaxHistory THEN MaxHistory ELSE Len(list)
           /\ \A k \in 1 .. Len(Newest(list)) : Newest(list)[k] = list[k]
           /\ Len(list) <= MaxHistory => Newest(list) = list
  <1> DEFINE m == IF Len(list) > MaxHistory THEN MaxHistory ELSE Len(list)
  <1>1. Len(list) \in Nat /\ m \in Nat /\ m <= Len(list)
    BY SomeHistory
  <1>2. \A i \in 1 .. Len(list) : list[i] \in Games
    BY ElementOfSeq
  <1>3. \A i \in 1 .. m : list[i] \in Games
    BY <1>1, <1>2
  <1> HIDE DEF m
  <1>4. /\ SubSeq(list, 1, m) \in Seq(Games)
        /\ Len(SubSeq(list, 1, m)) = IF 1 <= m THEN m - 1 + 1 ELSE 0
        /\ \A i \in 1 .. m - 1 + 1 : SubSeq(list, 1, m)[i] = list[1 + i - 1]
    BY <1>1, <1>3, SubSeqProperties
  <1>5. Newest(list) = SubSeq(list, 1, m)
    BY DEF Newest, m
  <1>6. Len(Newest(list)) = m
    BY <1>1, <1>4, <1>5
  <1>7. \A k \in 1 .. m : Newest(list)[k] = list[k]
    BY <1>1, <1>4, <1>5
  <1>8. Len(list) <= MaxHistory => Newest(list) = list
    <2> SUFFICES ASSUME Len(list) <= MaxHistory PROVE Newest(list) = list
      OBVIOUS
    <2>1. m = Len(list)
      BY <1>1, SomeHistory DEF m
    <2> QED
      BY <1>4, <1>5, <1>6, <1>7, <2>1, SeqEqual
  <1> QED
    BY <1>4, <1>5, <1>6, <1>7, <1>8 DEF m

LEMMA AddedTwice ==
    ASSUME NEW list \in Seq(Games), Once(list), NEW g \in Games
    PROVE  /\ <<g>> \o Without(list, g) \in Seq(Games)
           /\ Once(<<g>> \o Without(list, g))
           /\ AddToHistoryList(list, g) = Newest(<<g>> \o Without(list, g))
           /\ AddToHistoryList(Newest(list), g) = Newest(<<g>> \o Without(list, g))
  <1> DEFINE short == Newest(list)
             s == <<g>> \o Without(list, g)
             t == <<g>> \o Without(short, g)
             Moved(l, j, k) == IF k = 1 THEN g ELSE IF k <= j THEN l[k - 1] ELSE l[k]
  <1>0. Len(list) \in Nat /\ MaxHistory \in Nat /\ MaxHistory > 0
    BY SomeHistory
  <1>1. /\ short \in Seq(Games)
        /\ Len(short) = IF Len(list) > MaxHistory THEN MaxHistory ELSE Len(list)
        /\ \A k \in 1 .. Len(short) : short[k] = list[k]
    BY NewestTypes
  <1> HIDE DEF short
  <1>2. Len(short) \in Nat /\ Len(short) <= Len(list) /\ Len(short) <= MaxHistory
    BY <1>0, <1>1
  <1>3. Once(short)
    BY <1>1, <1>2 DEF Once
  <1>4. PICK j \in 1 .. Len(list) + 1 : StandsAt(list, g, j)
    BY GameStands
  <1> DEFINE i == IF j <= Len(short) THEN j ELSE Len(short) + 1
  <1>5. StandsAt(short, g, i)
    <2>1. i \in 1 .. Len(short) + 1
      BY <1>2, <1>4
    <2>2. ASSUME NEW k \in 1 .. Len(short) PROVE short[k] = g <=> k = i
      <3>1. k \in 1 .. Len(list) /\ short[k] = list[k]
        BY <1>1, <1>2
      <3>2. list[k] = g <=> k = j
        BY <1>4, <3>1 DEF StandsAt
      <3>3. k = i <=> k = j
        BY <1>0, <1>2, <1>4
      <3> QED
        BY <3>1, <3>2, <3>3
    <2> QED
      BY <2>1, <2>2 DEF StandsAt
  <1>6. /\ s \in Seq(Games)
        /\ Len(s) = IF j <= Len(list) THEN Len(list) ELSE j
        /\ \A k \in 1 .. Len(s) : s[k] = Moved(list, j, k)
    BY <1>4, PutInFront
  <1>7. /\ t \in Seq(Games)
        /\ Len(t) = IF i <= Len(short) THEN Len(short) ELSE i
        /\ \A k \in 1 .. Len(t) : t[k] = Moved(short, i, k)
    <2> HIDE DEF i
    <2> QED
      BY <1>1, <1>5, PutInFront
  <1>8. /\ Newest(s) \in Seq(Games)
        /\ Len(Newest(s)) = IF Len(s) > MaxHistory THEN MaxHistory ELSE Len(s)
        /\ \A k \in 1 .. Len(Newest(s)) : Newest(s)[k] = s[k]
    BY <1>6, NewestTypes
  <1>9. /\ Newest(t) \in Seq(Games)
        /\ Len(Newest(t)) = IF Len(t) > MaxHistory THEN MaxHistory ELSE Len(t)
        /\ \A k \in 1 .. Len(Newest(t)) : Newest(t)[k] = t[k]
    BY <1>7, NewestTypes
  <1>10. AddToHistoryList(list, g) = Newest(s) /\ AddToHistoryList(short, g) = Newest(t)
    BY DEF AddToHistoryList, Newest
  <1> HIDE DEF s, t
  <1>11. Newest(t) = Newest(s)
    <2>1. Len(Newest(t)) = Len(Newest(s))
      BY <1>0, <1>1, <1>2, <1>4, <1>6, <1>7, <1>8, <1>9
    <2>2. Len(s) \in Nat /\ Len(t) \in Nat /\ Len(Newest(s)) <= Len(s) /\ Len(Newest(t)) <= Len(t)
          /\ Len(Newest(s)) <= MaxHistory /\ Len(Newest(s)) \in Nat
      BY <1>0, <1>6, <1>7, <1>8, <1>9
    <2>3. ASSUME NEW k \in 1 .. Len(Newest(s)) PROVE Newest(t)[k] = Newest(s)[k]
      <3>1. k \in 1 .. Len(s) /\ k \in 1 .. Len(t) /\ k \in Nat /\ k > 0 /\ k <= MaxHistory
        <4>1. \A m, n, o, h \in Nat : k \in 1 .. m /\ m <= n /\ m <= o /\ m <= h =>
                  k \in 1 .. n /\ k \in 1 .. o /\ k \in Nat /\ k > 0 /\ k <= h
          OBVIOUS
        <4> QED
          BY <1>0, <2>1, <2>2, <4>1
      <3>2. Newest(s)[k] = Moved(list, j, k) /\ Newest(t)[k] = Moved(short, i, k)
        <4>1. Newest(s)[k] = s[k] /\ Newest(t)[k] = t[k]
          BY <1>8, <1>9, <2>1
        <4>2. s[k] = Moved(list, j, k) /\ t[k] = Moved(short, i, k)
          <5> HIDE DEF i, Moved
          <5> QED
            BY <1>6, <1>7, <3>1
        <4> QED
          BY <4>1, <4>2
      <3>3. CASE k = 1
        BY <3>2, <3>3
      <3>4. CASE k # 1
        <4>1. CASE j <= Len(short)
          <5>1. i = j
            BY <4>1
          <5>2. k <= j => k - 1 \in 1 .. Len(short)
            BY <1>2, <1>4, <3>1, <3>4, <4>1
          <5>3. ~ (k <= j) => k \in 1 .. Len(short)
            BY <1>2, <1>4, <1>7, <3>1, <4>1, <5>1
          <5> QED
            BY <1>1, <3>2, <3>4, <5>1, <5>2, <5>3
        <4>2. CASE ~ (j <= Len(short))
          <5>1. i = Len(short) + 1
            BY <4>2
          <5>2. Len(t) = Len(short) + 1
            BY <1>2, <1>7, <5>1
          <5>3. k <= i /\ k - 1 \in 1 .. Len(short)
            BY <1>2, <3>1, <3>4, <5>1, <5>2
          <5>4. k <= j
            BY <1>2, <1>4, <4>2, <5>1, <5>3, <3>1
          <5> QED
            BY <1>1, <3>2, <3>4, <5>3, <5>4
        <4> QED
          BY <4>1, <4>2
      <3> QED
        BY <3>3, <3>4
    <2> QED
      BY <1>8, <1>9, <2>1, <2>3, SeqEqual
  <1>12. Once(s)
    <2> SUFFICES ASSUME NEW a \in 1 .. Len(s), NEW b \in 1 .. Len(s), s[a] = s[b]
                 PROVE  a = b
      BY DEF Once
    <2> DEFINE Index(k) == IF k = 1 THEN j ELSE IF k <= j THEN k - 1 ELSE k
    <2>1. ASSUME NEW k \in 1 .. Len(s)
          PROVE  /\ Index(k) = j <=> k = 1
                 /\ Index(k) # j => Index(k) \in 1 .. Len(list) /\ list[Index(k)] # g
                                    /\ s[k] = list[Index(k)]
      <3>1. k \in Nat /\ k > 0 /\ j \in Nat /\ j > 0 /\ j <= Len(list) + 1
        BY <1>4
      <3>2. Index(k) = j <=> k = 1
        BY <3>1
      <3>3. k # 1 => Index(k) \in 1 .. Len(list)
        BY <1>0, <1>6, <3>1
      <3>4. k # 1 => s[k] = list[Index(k)]
        BY <1>6
      <3>5. k # 1 => list[Index(k)] # g
        <4> SUFFICES ASSUME k # 1 PROVE list[Index(k)] # g
          OBVIOUS
        <4> HIDE DEF Index
        <4> QED
          BY <1>4, <3>2, <3>3 DEF StandsAt
      <3> QED
        BY <3>2, <3>3, <3>4, <3>5
    <2>2. s[1] = g /\ 1 \in 1 .. Len(s)
      <3>1. 1 \in 1 .. Len(s)
        BY <1>0, <1>4, <1>6
      <3> QED
        BY <1>6, <3>1
    <2>3. CASE a = 1 \/ b = 1
      <3> HIDE DEF Index
      <3> QED
        BY <2>1, <2>2, <2>3
    <2>4. CASE a # 1 /\ b # 1
      <3>1. Index(a) = Index(b)
        <4> HIDE DEF Index
        <4>1. /\ Index(a) \in 1 .. Len(list) /\ s[a] = list[Index(a)]
              /\ Index(b) \in 1 .. Len(list) /\ s[b] = list[Index(b)]
          BY <2>1, <2>4
        <4> QED
          BY <4>1 DEF Once
      <3>2. a \in Nat /\ b \in Nat /\ j \in Nat
        BY <1>4
      <3>3. Index(a) # j /\ Index(b) # j
        <4> HIDE DEF Index
        <4> QED
          BY <2>1, <2>4
      <3> QED
        BY <2>4, <3>1, <3>2, <3>3
    <2> QED
      BY <2>3, <2>4
  <1> QED
    BY <1>6, <1>10, <1>11, <1>12 DEF s, short
-----------------------------------------------------------------------------
(* What every step keeps of the lists: each game once in the program, in   *)
(* the file and in the order of the starts.                                *)
HistoryOf(l) == IsHistory(l) /\ Once(l)

HistoryInv ==
    /\ HistoryOf(history) /\ (historyFile \in {None, Cut} \/ HistoryOf(historyFile))
    /\ recency \in Seq(Games) /\ Once(recency)
    /\ running => history = Newest(recency)

(* The types the argument about the options does without. *)
RestTyped ==
    /\ running \in BOOLEAN /\ vsync \in BOOLEAN /\ changed \in BOOLEAN
    /\ loaded \in BOOLEAN /\ started \in BOOLEAN /\ limit \in {0, 60}
    /\ unpushed \subseteq CoreToggles /\ byCore \subseteq CoreToggles

LEMMA EmptyHistory == <<>> \in Seq(Games) /\ HistoryOf(<<>>) /\ Newest(<<>>) = <<>>
  <1>1. <<>> \in Seq(Games) /\ Len(<<>>) = 0 /\ 0 <= MaxHistory
    BY SomeHistory
  <1>2. Newest(<<>>) = <<>>
    BY <1>1, NewestTypes
  <1>3. 1 .. Len(<<>>) = {}
    BY <1>1
  <1> QED
    BY <1>1, <1>2, <1>3 DEF HistoryOf, IsHistory, Once

LEMMA HistoryStep ==
    ASSUME HistoryInv, Next PROVE HistoryInv'
  <1>1. CASE Start
    <2>1. /\ ~ running /\ recency' = history' /\ historyFile' = historyFile
          /\ history' = IF historyFile \in {None, Cut} THEN <<>> ELSE historyFile
      BY <1>1 DEF Start
    <2>2. HistoryOf(history')
      BY <2>1, EmptyHistory DEF HistoryInv
    <2>3. history' \in Seq(Games) /\ Len(history') <= MaxHistory /\ Once(history')
      BY <2>2 DEF HistoryOf, IsHistory
    <2>4. Newest(history') = history'
      BY <2>3, NewestTypes
    <2>5. HistoryOf(history)' /\ Once(recency)' /\ Newest(recency)' = history'
      BY <2>1, <2>2, <2>3, <2>4 DEF HistoryOf, IsHistory, Once, Newest
    <2>6. (historyFile \in {None, Cut} \/ HistoryOf(historyFile))'
      BY <2>1 DEF HistoryInv, HistoryOf, IsHistory, Once
    <2> QED
      BY <2>1, <2>3, <2>5, <2>6 DEF HistoryInv
  <1>2. ASSUME NEW g \in Games, GameStarted(g) PROVE HistoryInv'
    <2> DEFINE s == <<g>> \o Without(recency, g)
    <2>1. /\ running /\ history' = AddToHistoryList(history, g) /\ recency' = s
          /\ historyFile' = history' \/ historyFile' = Cut
      BY <1>2 DEF GameStarted, UIFree, SaveHistory
    <2>2. history = Newest(recency) /\ recency \in Seq(Games) /\ Once(recency)
      BY <2>1 DEF HistoryInv
    <2>3. s \in Seq(Games) /\ Once(s) /\ history' = Newest(s)
      BY <2>1, <2>2, AddedTwice
    <2> HIDE DEF s
    <2>4. /\ Newest(s) \in Seq(Games) /\ Len(Newest(s)) \in Nat
          /\ Len(Newest(s)) <= MaxHistory /\ Len(Newest(s)) <= Len(s)
          /\ \A k \in 1 .. Len(Newest(s)) : Newest(s)[k] = s[k]
      <3>1. Len(s) \in Nat
        BY <2>3
      <3>2. /\ Newest(s) \in Seq(Games)
            /\ Len(Newest(s)) = IF Len(s) > MaxHistory THEN MaxHistory ELSE Len(s)
            /\ \A k \in 1 .. Len(Newest(s)) : Newest(s)[k] = s[k]
        BY <2>3, NewestTypes
      <3> QED
        BY <3>1, <3>2, SomeHistory
    <2>5. HistoryOf(Newest(s))
      BY <2>3, <2>4 DEF HistoryOf, IsHistory, Once
    <2>6. HistoryOf(history)'
      BY <2>3, <2>5 DEF HistoryOf, IsHistory, Once
    <2>7. (historyFile \in {None, Cut} \/ HistoryOf(historyFile))'
      BY <2>1, <2>6 DEF HistoryOf, IsHistory, Once
    <2>8. recency' \in Seq(Games) /\ Once(recency)' /\ history' = Newest(recency)'
      BY <2>1, <2>3 DEF Once, Newest
    <2> QED
      BY <2>6, <2>7, <2>8 DEF HistoryInv
  <1>3. CASE ClearHistory
    <2>1. /\ history' = <<>> /\ recency' = <<>>
          /\ historyFile' = history' \/ historyFile' = Cut
      BY <1>3 DEF ClearHistory, SaveHistory
    <2>2. HistoryOf(history)'
      BY <2>1, EmptyHistory DEF HistoryOf, IsHistory, Once
    <2>3. (historyFile \in {None, Cut} \/ HistoryOf(historyFile))'
      BY <2>1, <2>2 DEF HistoryOf, IsHistory, Once
    <2>4. recency' \in Seq(Games) /\ Once(recency)' /\ history' = Newest(recency)'
      BY <2>1, EmptyHistory DEF HistoryOf, IsHistory, Once, Newest
    <2> QED
      BY <2>2, <2>3, <2>4 DEF HistoryInv
  <1>4. ASSUME UNCHANGED <<history, historyFile, recency>>, running' => running
        PROVE  HistoryInv'
    BY <1>4 DEF HistoryInv, HistoryOf, IsHistory, Once, Newest
  <1>5. ASSUME NEW k \in FrontendRows \cup CoreToggles, NEW v \in RowValues(k), Toggle(k, v)
        PROVE  HistoryInv'
    <2>1. running /\ UNCHANGED <<history, historyFile, recency>>
      BY <1>5 DEF Toggle, UIFree
    <2> QED
      BY <1>4, <2>1
  <1>6. ASSUME NEW sec \in Sections, ResetSectionDefaults(sec) PROVE HistoryInv'
    <2>1. running /\ UNCHANGED <<history, historyFile, recency>>
      BY <1>6 DEF ResetSectionDefaults, UIFree
    <2> QED
      BY <1>4, <2>1
  <1>7. CASE ResetToDefaults \/ ReloadSettings \/ SaveCurrentSettings
    <2>1. running /\ UNCHANGED <<history, historyFile, recency>>
      BY <1>7 DEF ResetToDefaults, ReloadSettings, SaveCurrentSettings, UIFree
    <2> QED
      BY <1>4, <2>1
  <1>8. CASE \/ LoadGame \/ PollOptions \/ UnloadGame \/ Stop
             \/ \E k \in Keys : SetOptionValue(k)
             \/ \E k \in CoreToggles : GetVariable(k) \/ \E v \in CoreValues : SetVariable(k, v)
    <2>1. running /\ UNCHANGED <<history, historyFile, recency>>
      BY <1>8 DEF LoadGame, PollOptions, UnloadGame, Stop, SetOptionValue, GetVariable, SetVariable,
                    uiVars, coreVars
    <2> QED
      BY <1>4, <2>1
  <1> QED
    BY <1>1, <1>2, <1>3, <1>5, <1>6, <1>7, <1>8 DEF Next

LEMMA FrontTyped ==
    ASSUME NEW opts, ApplyVSync(opts) \/ ApplyLimit(opts), limit \in {0, 60}
    PROVE  vsync' \in BOOLEAN /\ limit' \in {0, 60}
  BY DEF ApplyVSync, ApplyLimit, AtoI

LEMMA RestStep ==
    ASSUME RestTyped, Next PROVE RestTyped'
  <1>1. CASE Start
    BY <1>1 DEF Start, Save, AtoI, RestTyped
  <1>2. ASSUME NEW k \in FrontendRows \cup CoreToggles, NEW v \in RowValues(k), Toggle(k, v)
        PROVE  RestTyped'
    <2>1. vsync' \in BOOLEAN /\ limit' \in {0, 60}
      <3>1. ApplyVSync(options') \/ ApplyLimit(options') \/ UNCHANGED frontVars
        BY <1>2 DEF Toggle
      <3> QED
        BY <3>1, FrontTyped DEF RestTyped, frontVars
    <2>2. running' \in BOOLEAN
      BY <1>2 DEF Toggle, Save
    <2>3. unpushed' \subseteq unpushed /\ UNCHANGED <<byCore, changed, loaded, started>>
      BY <1>2 DEF Toggle, coreVars
    <2> QED
      BY <2>1, <2>2, <2>3 DEF RestTyped
  <1>3. ASSUME NEW sec \in Sections, ResetSectionDefaults(sec) PROVE RestTyped'
    BY <1>3 DEF ResetSectionDefaults, Save, coreVars, frontVars, RestTyped
  <1>4. CASE ResetToDefaults \/ SaveCurrentSettings
    BY <1>4 DEF ResetToDefaults, SaveCurrentSettings, Save, coreVars, frontVars, RestTyped
  <1>5. CASE ReloadSettings
    <2>1. vsync' \in BOOLEAN /\ limit' \in {0, 60}
      BY <1>5, FrontTyped DEF ReloadSettings, RestTyped
    <2>2. running' \in BOOLEAN
      BY <1>5 DEF ReloadSettings, Save
    <2>3. unpushed' \subseteq CoreToggles /\ UNCHANGED <<byCore, changed, loaded, started>>
      BY <1>5 DEF ReloadSettings, coreVars, RestTyped
    <2> QED
      BY <2>1, <2>2, <2>3 DEF RestTyped
  <1>6. CASE \/ \E k \in Keys : SetOptionValue(k)
             \/ \E k \in CoreToggles : GetVariable(k) \/ \E v \in CoreValues : SetVariable(k, v)
    BY <1>6 DEF SetOptionValue, GetVariable, SetVariable, uiVars, coreVars, frontVars, RestTyped
  <1>7. CASE (\E g \in Games : GameStarted(g)) \/ ClearHistory
    BY <1>7 DEF GameStarted, ClearHistory, SaveHistory, coreVars, frontVars, RestTyped
  <1>8. CASE LoadGame \/ PollOptions \/ UnloadGame \/ Stop
    BY <1>8 DEF LoadGame, PollOptions, UnloadGame, Stop, uiVars, coreVars, frontVars, RestTyped
  <1> QED
    BY <1>1, <1>2, <1>3, <1>4, <1>5, <1>6, <1>7, <1>8 DEF Next

(* Whatever is started, cleared, cut short or restarted, and for any       *)
(* length of the history: it lists the games by their last start, each     *)
(* once.                                                                   *)
THEOREM HistoryInOrder == Spec => []HistorySound
  <1>1. Init => HistoryInv /\ RestTyped
    BY EmptyHistory DEF Init, HistoryInv, RestTyped, HistoryOf
  <1>2. HistoryInv /\ RestTyped /\ [Next]_vars => (HistoryInv /\ RestTyped)'
    <2>1. ASSUME HistoryInv, RestTyped, UNCHANGED vars PROVE (HistoryInv /\ RestTyped)'
      BY <2>1 DEF vars, HistoryInv, RestTyped, HistoryOf, IsHistory, Once, Newest
    <2> QED
      BY <2>1, HistoryStep, RestStep
  <1>3. SettingsInv /\ HistoryInv /\ RestTyped => HistorySound
    <2> SUFFICES ASSUME SettingsInv, HistoryInv, RestTyped PROVE HistorySound
      OBVIOUS
    <2>1. HistoryIsRecency
      BY DEF HistoryInv, HistoryIsRecency, Newest
    <2>2. IsHistory(history) /\ (historyFile \in {None, Cut} \/ IsHistory(historyFile))
      BY DEF HistoryInv, HistoryOf
    <2>3. IsOptions(options) /\ (settingsFile \in {None, Old, Cut} \/ IsOptions(settingsFile))
      BY DEF SettingsInv, OptionsTyped, Typed, IsOptions
    <2>4. /\ pushing \subseteq Keys /\ coreOptions \in [CoreKeys -> Values]
          /\ toRead \subseteq CoreToggles
          /\ told \in [CoreToggles -> CoreValues \cup {OVERRIDE_MENU_TIME}]
      BY DEF SettingsInv, OptionsTyped
    <2> QED
      BY <2>1, <2>2, <2>3, <2>4 DEF RestTyped, TypeOK, HistorySound
  <1> QED
    BY <1>1, <1>2, <1>3, SettingsInvariant, PTL DEF Spec
=============================================================================
