------------------------------ MODULE Settings ------------------------------
(***************************************************************************)
(* The stored settings of the application, the recent games, and the way   *)
(* an option travels from the menu to the running game:                    *)
(*                                                                         *)
(*   menu row --SetOption--> s_coreOptions --Save--> settings file         *)
(*            --SetOptionValue--> s_optionValues + s_optionValuesChanged   *)
(*                                      |                                  *)
(*   emulation thread: retro_run asks GET_VARIABLE_UPDATE, and if the flag *)
(*   was set check_variables asks GET_VARIABLE for one option after the    *)
(*   other.                                                                *)
(*                                      ^                                  *)
(*   DOSBox thread: the settings of the core's own on-screen display write *)
(*   the same map with SET_VARIABLE.                                       *)
(*                                                                         *)
(* What the core makes of a value it was given is its own affair: it       *)
(* refuses one that the game's configuration fixes, and keeps one that     *)
(* needs a restart until then.                                             *)
(*                                                                         *)
(* The user-interface thread runs the menu and may be stopped between two  *)
(* pushes; the emulation thread may be stopped between two readings.  The  *)
(* program can die while it writes a file: a file is truncated first and   *)
(* then written in place.                                                  *)
(***************************************************************************)
EXTENDS GameHistory, TLC

CONSTANTS
    FrontendRows,   \* the frontend's own rows the user touches
    CoreToggles,    \* options with a row in the menu that the core always asks for
    CoreValues,     \* the values of those rows
    CoreDefault,    \* the value the core takes when it is told none
    Games,          \* paths of games
    None,           \* no value, no file
    Old,            \* a settings file of another version
    Cut             \* a file that was truncated and never written

VSync   == "frontend_vsync"
Limit   == "frontend_framelimit"
Diag    == "frontend_diag"
Alpha   == "dosbox_pure_menu_transparency"   \* stored, with no row in the menu

\* "Start Menu", which has a row, and the one answer the core gets for it.
MenuTime           == "dosbox_pure_menu_time"
OVERRIDE_MENU_TIME == "-1"

FrontendKeys == {VSync, Limit, Diag}
CoreKeys     == CoreToggles \cup {Alpha}
ToggleKeys   == FrontendKeys \cup CoreToggles
Keys         == FrontendKeys \cup CoreKeys

\* The sections of the settings: a section's rows are reset together.
Sections == {FrontendKeys, CoreToggles}

\* The values a row can store.  The frame limiter stores what it displays.
RowValues(k) == CASE k = VSync -> {"Off", "On"}
                  [] k = Limit -> {"Off", "60 Hz"}
                  [] k = Diag  -> {"On"}
                  [] OTHER     -> CoreValues

StoredValues == {"Off", "On", "off", "60 Hz", "70", ""} \cup CoreValues
Values       == StoredValues \cup {None}

ASSUME ConstantsAssumption ==
    /\ FrontendRows \subseteq FrontendKeys
    /\ CoreToggles \cap (FrontendKeys \cup {Alpha}) = {}
    /\ CoreDefault \in CoreValues /\ "" \notin CoreValues
    /\ None \notin StoredValues
    /\ {None, Old, Cut} \cap [Keys -> Values] = {}
    /\ Old # Cut /\ Old # None /\ Cut # None

VARIABLES
    running,        \* the program runs
    options,        \* s_coreOptions: key -> value, None for no entry
    settingsFile,   \* None, Old, Cut, or a map like options
    history,        \* s_history: the games, the latest first
    historyFile,    \* None, Cut or a list like history
    vsync,          \* the swap chain waits for the display
    limit,          \* m_frameLimitFps
    pushing,        \* keys the user-interface thread still has to push
    coreOptions,    \* s_optionValues, for the keys the core asks for
    changed,        \* s_optionValuesChanged
    loaded,         \* a game is loaded
    started,        \* ... and the user interface has taken note
    toRead,         \* keys check_variables still has to ask for
    told,           \* the value the core was given last
    recency,        \* ghost: games by their last start, since the last clear
    unpushed,       \* ghost: keys whose stored value was never sent on
    byCore          \* ghost: keys the core has set itself since they were sent

uiVars     == <<options, settingsFile, history, historyFile, recency>>
coreVars   == <<loaded, toRead, told>>
frontVars  == <<vsync, limit>>
vars == <<running, options, settingsFile, history, historyFile, vsync, limit,
          pushing, coreOptions, changed, loaded, started, toRead, told,
          recency, unpushed, byCore>>
-----------------------------------------------------------------------------
(* SettingsManager *)

LoadDefaults == [k \in Keys |-> CASE k = VSync -> "On"
                                  [] k = Limit -> "off"
                                  [] k = Alpha -> "70"
                                  [] OTHER     -> None]

GetDefaultForOption(k) == CASE k = VSync -> "On"
                            [] k = Limit -> "off"
                            [] k = Alpha -> "70"
                            [] k = Diag  -> None
                            [] OTHER     -> CoreDefault

GetOption(k, default) == IF options[k] # None THEN options[k] ELSE default

\* What a start finds: the defaults, overridden by each entry of a file that
\* can be parsed.
ReadSettings(file) ==
    IF file \in {None, Old, Cut} THEN LoadDefaults
    ELSE [k \in Keys |-> IF file[k] # None THEN file[k] ELSE LoadDefaults[k]]

\* Mutant of Save: the file is not written.
SaveForgotten(image) ==
    /\ settingsFile' = IF settingsFile = None THEN image ELSE settingsFile
    /\ running' = TRUE

\* Save: truncate, then write.  The program may die between the two.
Save(image) ==
    \/ settingsFile' = image /\ running' = TRUE
    \/ settingsFile' = Cut /\ running' = FALSE

SaveHistory(list) ==
    \/ historyFile' = list /\ running' = TRUE
    \/ historyFile' = Cut /\ running' = FALSE

-----------------------------------------------------------------------------
(* Reading a value the way atoi and the comparisons of the frontend do. *)

AtoI(v) == IF v = "60 Hz" THEN 60 ELSE 0

\* onOptionChanged("frontend_vsync"): the limiter is compared with "60", "70".
ApplyVSync(opts) ==
    /\ vsync' = (opts[VSync] = "On" /\ opts[Limit] \notin {"60", "70"})
    /\ UNCHANGED limit

\* onOptionChanged("frontend_framelimit").
ApplyLimit(opts) ==
    /\ limit' = AtoI(opts[Limit])
    /\ vsync' = (limit' = 0 /\ opts[VSync] = "On")
-----------------------------------------------------------------------------
Init ==
    /\ running = FALSE
    /\ options = LoadDefaults
    /\ settingsFile \in {None, Old}
    /\ history = <<>> /\ historyFile = None
    /\ vsync = FALSE /\ limit = 0
    /\ pushing = {}
    /\ coreOptions = [k \in CoreKeys |-> None] /\ changed = FALSE
    /\ loaded = FALSE /\ started = FALSE
    /\ toRead = {}
    /\ told = [k \in CoreToggles |-> CoreDefault]
    /\ recency = <<>> /\ unpushed = {} /\ byCore = {}

\* The constructor: SettingsManager::Initialize, then the frontend-only options.
\* A file that cannot be parsed is left as it is.
Start ==
    /\ ~running
    /\ options' = ReadSettings(settingsFile)
    /\ IF settingsFile \in {None, Old}
       THEN Save(LoadDefaults)
       ELSE running' = TRUE /\ UNCHANGED settingsFile
    /\ history' = IF historyFile \in {None, Cut} THEN <<>> ELSE historyFile
    /\ recency' = history'
    /\ limit' = AtoI(options'[Limit])
    /\ vsync' = (options'[VSync] \in {"", "On"} /\ limit' = 0)
    /\ pushing' = {} /\ unpushed' = {} /\ byCore' = {}
    /\ coreOptions' = [k \in CoreKeys |-> None] /\ changed' = FALSE
    /\ loaded' = FALSE /\ started' = FALSE
    /\ toRead' = {}
    /\ told' = [k \in CoreToggles |-> CoreDefault]
    /\ UNCHANGED historyFile

\* The user-interface thread is between two handlers.
UIFree == running /\ pushing = {}

\* A row of the settings takes another value.
Toggle(k, v) ==
    /\ UIFree
    /\ options' = [options EXCEPT ![k] = v]
    /\ Save(options')
    /\ pushing' = {k}
    /\ CASE k = VSync -> ApplyVSync(options')
         [] k = Limit -> ApplyLimit(options')
         [] OTHER     -> UNCHANGED frontVars
    /\ unpushed' = unpushed \ {k}
    /\ UNCHANGED <<history, historyFile, coreOptions, byCore, changed, coreVars, started, recency>>

\* "Reset to Defaults" of a section, confirmed.  The frontend is not told.
ResetSectionDefaults(sec) ==
    /\ UIFree
    /\ options' = [k \in Keys |-> IF k \in sec THEN GetDefaultForOption(k) ELSE options[k]]
    /\ Save(options')
    /\ pushing' = sec
    /\ unpushed' = unpushed \ sec
    /\ UNCHANGED <<history, historyFile, frontVars, coreOptions, byCore, changed, coreVars,
                   started, recency>>

\* "Reset All Settings", confirmed: nothing is sent to the core.
ResetToDefaults ==
    /\ UIFree
    /\ options' = LoadDefaults
    /\ Save(options')
    /\ unpushed' = unpushed \cup {k \in CoreToggles : options[k] # None}
    /\ UNCHANGED <<history, historyFile, frontVars, pushing, coreOptions, byCore, changed,
                   coreVars, started, recency>>

\* "Reload Settings", confirmed: only the keys that still have a value are sent.
ReloadSettings ==
    /\ UIFree
    /\ options' = LoadDefaults
    /\ Save(options')
    /\ pushing' = {k \in CoreKeys : options'[k] # None}
    /\ ApplyVSync(options')
    /\ unpushed' = unpushed \cup {k \in CoreToggles : options[k] # None}
    /\ UNCHANGED <<history, historyFile, coreOptions, byCore, changed, coreVars, started, recency>>

\* Leaving a section: every row of every section is sent, an empty value for
\* the rows without one, and the file is written.
SaveCurrentSettings ==
    /\ UIFree
    /\ Save(options)
    /\ pushing' = ToggleKeys
    /\ unpushed' = {}
    /\ UNCHANGED <<options, history, historyFile, frontVars, coreOptions, byCore, changed,
                   coreVars, started, recency>>

\* Mutant of SetOptionValue: an empty value is taken for nothing to send.
SetOptionValueNonEmpty(k) ==
    /\ running /\ k \in pushing
    /\ coreOptions' = [c \in CoreKeys |-> IF c = k /\ options[k] # None THEN options[k]
                                          ELSE coreOptions[c]]
    /\ changed' = TRUE
    /\ pushing' = pushing \ {k}
    /\ byCore' = byCore \ {k}
    /\ UNCHANGED <<running, uiVars, frontVars, coreVars, started, unpushed>>

\* RetroCore::SetOptionValue, one key at a time.  The frontend's own keys are
\* sent too: nobody asks for them, but they raise the flag.
SetOptionValue(k) ==
    /\ running /\ k \in pushing
    /\ coreOptions' = [c \in CoreKeys |-> IF c = k THEN GetOption(k, "") ELSE coreOptions[c]]
    /\ changed' = TRUE
    /\ pushing' = pushing \ {k}
    /\ byCore' = byCore \ {k}
    /\ UNCHANGED <<running, uiVars, frontVars, coreVars, started, unpushed>>

\* The user interface learns that game g runs: it sends every stored option of
\* the core, and then adds g to the history.
GameStarted(g) ==
    /\ UIFree /\ loaded /\ ~started
    /\ started' = TRUE
    /\ pushing' = {k \in CoreKeys : options[k] # None}
    /\ history' = AddToHistoryList(history, g)
    /\ SaveHistory(history')
    /\ recency' = <<g>> \o Without(recency, g)
    /\ UNCHANGED <<options, settingsFile, frontVars, coreOptions, byCore, changed, coreVars, unpushed>>

\* "Clear History", confirmed.
ClearHistory ==
    /\ UIFree
    /\ history' = <<>>
    /\ SaveHistory(history')
    /\ recency' = <<>>
    /\ UNCHANGED <<options, settingsFile, frontVars, pushing, coreOptions, byCore, changed,
                   coreVars, started, unpushed>>
-----------------------------------------------------------------------------
(* The emulation thread *)

\* retro_load_game asks for every option.
LoadGame ==
    /\ running /\ ~loaded
    /\ loaded' = TRUE
    /\ toRead' = CoreToggles
    /\ UNCHANGED <<running, uiVars, frontVars, pushing, coreOptions, byCore, changed, started,
                   told, unpushed>>

\* retro_run: GET_VARIABLE_UPDATE returns the flag and clears it; check_variables
\* follows when it was set.
PollOptions ==
    /\ running /\ loaded /\ toRead = {}
    /\ changed
    /\ changed' = FALSE
    /\ toRead' = CoreToggles
    /\ UNCHANGED <<running, uiVars, frontVars, pushing, coreOptions, byCore, loaded, started,
                   told, unpushed>>

\* DBP_Option::Get: an entry that is missing or empty means the default.
Resolve(v) == IF v \in {None, ""} THEN CoreDefault ELSE v

\* "Start Menu" has its answer, whatever was stored or sent.
GetVariable(k) ==
    /\ running /\ k \in toRead
    /\ told' = [told EXCEPT ![k] = IF k = MenuTime THEN OVERRIDE_MENU_TIME
                                  ELSE Resolve(coreOptions[k])]
    /\ toRead' = toRead \ {k}
    /\ UNCHANGED <<running, uiVars, frontVars, pushing, coreOptions, byCore, changed,
                   loaded, started, unpushed>>

\* A choice in the settings of the core's on-screen display, on the DOSBox
\* thread; the default is written as no value.  The menu does not hear of it.
SetVariable(k, v) ==
    /\ running /\ loaded
    /\ coreOptions' = [coreOptions EXCEPT ![k] = IF v = CoreDefault THEN "" ELSE v]
    /\ changed' = TRUE
    /\ byCore' = byCore \cup {k}
    /\ UNCHANGED <<running, uiVars, frontVars, pushing, coreVars, started, unpushed>>

\* UnloadGameInternal forgets what the menu sent.
UnloadGame ==
    /\ running /\ loaded /\ toRead = {}
    /\ loaded' = FALSE /\ started' = FALSE
    /\ coreOptions' = [k \in CoreKeys |-> None] /\ changed' = FALSE
    /\ byCore' = {}
    /\ UNCHANGED <<running, uiVars, frontVars, pushing, toRead, told, unpushed>>

\* The program ends or dies outside a write.
Stop ==
    /\ running
    /\ running' = FALSE
    /\ UNCHANGED <<uiVars, frontVars, pushing, coreOptions, byCore, changed, coreVars, started, unpushed>>

Next ==
    \/ Start \/ Stop
    \/ \E k \in FrontendRows \cup CoreToggles : \E v \in RowValues(k) : Toggle(k, v)
    \/ \E sec \in Sections : ResetSectionDefaults(sec)
    \/ ResetToDefaults \/ ReloadSettings \/ SaveCurrentSettings
    \/ \E k \in Keys : SetOptionValue(k)
    \/ \E g \in Games : GameStarted(g)
    \/ ClearHistory
    \/ LoadGame \/ PollOptions \/ UnloadGame
    \/ \E k \in CoreToggles : GetVariable(k) \/ \E v \in CoreValues : SetVariable(k, v)

Spec == Init /\ [][Next]_vars
-----------------------------------------------------------------------------
(* Properties *)

IsOptions(m) == m \in [Keys -> Values]
IsHistory(l) == /\ l \in Seq(Games) /\ Len(l) <= MaxHistory

\* Every variable has its type.
TypeOK ==
    /\ running \in BOOLEAN /\ vsync \in BOOLEAN /\ changed \in BOOLEAN
    /\ loaded \in BOOLEAN /\ started \in BOOLEAN
    /\ limit \in {0, 60}
    /\ IsOptions(options)
    /\ settingsFile \in {None, Old, Cut} \/ IsOptions(settingsFile)
    /\ IsHistory(history)
    /\ historyFile \in {None, Cut} \/ IsHistory(historyFile)
    /\ pushing \subseteq Keys /\ unpushed \subseteq CoreToggles
    /\ byCore \subseteq CoreToggles
    /\ coreOptions \in [CoreKeys -> Values]
    /\ toRead \subseteq CoreToggles
    /\ told \in [CoreToggles -> CoreValues \cup {OVERRIDE_MENU_TIME}]

\* The emulation thread has read everything that was sent for this game.
Settled == running /\ loaded /\ started /\ pushing = {} /\ ~changed /\ toRead = {}

\* A game that has caught up was last given the values the menu shows,
\* whatever was toggled or reset while it was reading and before it was
\* loaded, and whatever the core's own settings wrote into the same map before
\* the menu sent its value again (RetroCore.cpp:645-653, 762-821).  Excepted
\* are the rows "Reset All" and "Reload" erase without telling the core, those
\* the core has changed since, and "Start Menu".
CoreGivenSettings ==
    Settled => \A k \in CoreToggles \ (unpushed \cup byCore \cup {MenuTime}) :
                   told[k] = GetOption(k, CoreDefault)


\* The settings file always holds the settings of the running program, so that
\* the next start finds them, except for a file that an earlier death cut short
\* and that nothing has written since: the program then runs on the defaults.
DiskHoldsSettings ==
    running => \/ settingsFile = options
               \/ settingsFile = Cut /\ options = LoadDefaults

\* The history lists the games last started, the latest first and each once,
\* across restarts: what is missing is only what was beyond its length.
HistoryIsRecency ==
    running => history = SubSeq(recency, 1, IF Len(recency) > MaxHistory THEN MaxHistory
                                                                       ELSE Len(recency))

\* The list of games: within its length, and in the order of their starts.
HistorySound == TypeOK /\ HistoryIsRecency

\* The games are interchangeable.
GameSymmetry == Permutations(Games)
=============================================================================
