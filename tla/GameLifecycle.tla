--------------------------- MODULE GameLifecycle ---------------------------
(***************************************************************************)
(* The life of a game between the two threads: the UI thread (App::Run,    *)
(* dosbox_uwpMain) asks for a load, shows the loading screen and polls;    *)
(* the emulation thread (RetroCore::EmulationThreadMain) takes commands    *)
(* from a queue, runs frames and unloads a game that asked to shut down.   *)
(* They meet in the command queue and in two polled flags, the result of   *)
(* a load and the unload event.                                            *)
(***************************************************************************)
EXTENDS Naturals, Sequences

CONSTANT MaxLoads     \* bound on the games the user selects

ASSUME LoadAssumption == MaxLoads \in Nat

None == 0
Loads == 1 .. MaxLoads
NoResult == "none"

VARIABLES
    \* UI thread
    uiPc,           \* where App::Run is
    visible,        \* m_windowVisible
    windowClosed,   \* m_windowClosed
    requested,      \* how many games the user has selected
    pending,        \* m_pendingLoad
    loadState,      \* m_loadState
    loadingActive,  \* m_loadingActive: the loading screen covers the window
    lastRequested,  \* m_lastRequestedOrigPath
    menu,           \* FrontendMenu is visible
    history,        \* the games of the history
    \* emulation thread
    emuPc,          \* where EmulationThreadMain is
    batch,          \* the commands of this round of ProcessCommands
    \* between them
    cmdQueue,       \* s_cmdQueue: the games to load
    loaded,         \* s_loaded, and which game
    loadResult,     \* s_loadResult
    unloadEvent,    \* s_emuUnloaded
    paused,         \* s_paused
    stopRequested,  \* s_stopRequested
    options,        \* s_optionValues holds the saved options
    \* history variables
    finished,       \* the loads whose result was stored
    good,           \* those of them that succeeded
    fromHistory,    \* the last selection was from the history
    crossed         \* a load began, or a game ended, before an earlier
                    \* load was handled

app == <<visible, windowClosed>>
ui == <<requested, pending, loadState, loadingActive, lastRequested, menu, history>>
emu == <<emuPc, batch>>
shared == <<cmdQueue, loaded, loadResult, unloadEvent, paused, stopRequested, options>>
ghosts == <<finished, good, fromHistory, crossed>>
vars == <<uiPc, app, ui, emu, shared, ghosts>>

Init ==
    /\ uiPc = "events" /\ visible = TRUE /\ windowClosed = FALSE
    /\ requested = 0 /\ pending = None /\ loadState = "idle" /\ loadingActive = FALSE
    /\ lastRequested = None /\ menu = TRUE /\ history = {}
    /\ emuPc = "loop" /\ batch = <<>>
    /\ cmdQueue = <<>> /\ loaded = None /\ loadResult = NoResult /\ unloadEvent = FALSE
    /\ paused = FALSE /\ stopRequested = FALSE /\ options = FALSE
    /\ finished = {} /\ good = {} /\ fromHistory = FALSE /\ crossed = FALSE

(* The emulation thread holds s_cmdMutex between looking and sleeping. *)
CmdMutexFree == emuPc # "falling asleep"
Notify == emuPc' = IF emuPc = "asleep" THEN "idle" ELSE emuPc

(***************************************************************************)
(* UI thread: the events of the window                                     *)
(***************************************************************************)
QueueLoadRom ==
    /\ requested' = requested + 1 /\ pending' = requested + 1
    /\ loadState' = "booting" /\ loadingActive' = TRUE

(* A file is chosen in the browser: the menu behind it stays, and takes    *)
(* input under the loading screen too.                                     *)
SelectFile ==
    /\ uiPc = "events" /\ menu /\ requested < MaxLoads
    /\ QueueLoadRom
    /\ fromHistory' = FALSE
    /\ UNCHANGED <<uiPc, app, lastRequested, menu, history, emu, shared, finished, good,
                   crossed>>

(* An entry of the history is chosen: the menu is hidden at once. The      *)
(* entries may be those of an earlier run of the app.                      *)
SelectFromHistory ==
    /\ uiPc = "events" /\ menu /\ requested < MaxLoads
    /\ QueueLoadRom
    /\ menu' = FALSE
    /\ fromHistory' = TRUE
    /\ UNCHANGED <<uiPc, app, lastRequested, history, emu, shared, finished, good,
                   crossed>>

ChangeVisibility ==
    /\ uiPc = "events"
    /\ visible' = ~visible
    /\ UNCHANGED <<uiPc, windowClosed, ui, emu, shared, ghosts>>

SuspendOrResume ==
    /\ uiPc = "events"
    /\ paused' = ~paused
    /\ UNCHANGED <<uiPc, app, ui, emu, cmdQueue, loaded, loadResult, unloadEvent,
                   stopRequested, options, ghosts>>

(* OnWindowClosed: Shutdown sets the flag outside s_cmdMutex, notifies and *)
(* joins.                                                                  *)
CloseWindow ==
    /\ uiPc = "events" /\ ~windowClosed
    /\ stopRequested' = TRUE /\ uiPc' = "notify"
    /\ UNCHANGED <<app, ui, emu, cmdQueue, loaded, loadResult, unloadEvent, paused,
                   options, ghosts>>

ShutdownNotify ==
    /\ uiPc = "notify"
    /\ Notify /\ uiPc' = "join"
    /\ UNCHANGED <<app, ui, batch, shared, ghosts>>

(* The round of App::Run that closed the window is run to its end. *)
ShutdownJoin ==
    /\ uiPc = "join" /\ emuPc = "done"
    /\ windowClosed' = TRUE /\ uiPc' = IF visible THEN "update" ELSE "end"
    /\ UNCHANGED <<visible, ui, emu, shared, ghosts>>

(***************************************************************************)
(* UI thread: one round of App::Run                                        *)
(***************************************************************************)
BeginRound ==
    /\ uiPc = "events" /\ visible
    /\ uiPc' = "update"
    /\ UNCHANGED <<app, ui, emu, shared, ghosts>>

(* Update puts the loading screen back for a load that still waits, then   *)
(* asks whether the emulation thread unloaded a game.                      *)
Reactivate == pending # None /\ ~loadingActive

NoUnload ==
    /\ uiPc = "update" /\ ~unloadEvent
    /\ loadState' = IF Reactivate THEN "booting" ELSE loadState
    /\ loadingActive' = (loadingActive \/ Reactivate)
    /\ uiPc' = "result"
    /\ UNCHANGED <<app, requested, pending, lastRequested, menu, history, emu, shared,
                   ghosts>>

HandleUnload ==
    /\ uiPc = "update" /\ unloadEvent
    /\ unloadEvent' = FALSE
    /\ loadState' = "idle" /\ menu' = TRUE
    /\ loadingActive' = (loadingActive \/ Reactivate)
    /\ crossed' = (crossed \/ loadState = "booting" \/ pending # None)
    /\ uiPc' = "result"
    /\ UNCHANGED <<app, requested, pending, lastRequested, history, emu, cmdQueue, loaded,
                   loadResult, paused, stopRequested, options, finished, good, fromHistory>>

(* A result is asked for only while a load is booting. *)
NoLoadResult ==
    /\ uiPc = "result" /\ (loadState # "booting" \/ loadResult = NoResult)
    /\ uiPc' = "pending"
    /\ UNCHANGED <<app, ui, emu, shared, ghosts>>

LoadSucceeded ==
    /\ uiPc = "result" /\ loadState = "booting" /\ loadResult = "ok"
    /\ loadResult' = NoResult
    /\ menu' = FALSE /\ options' = TRUE
    /\ history' = history \cup {lastRequested}
    /\ loadState' = "done" /\ loadingActive' = FALSE
    /\ uiPc' = "pending"
    /\ UNCHANGED <<app, requested, pending, lastRequested, emu, cmdQueue, loaded,
                   unloadEvent, paused, stopRequested, ghosts>>

LoadFailed ==
    /\ uiPc = "result" /\ loadState = "booting" /\ loadResult = "failed"
    /\ loadResult' = NoResult
    /\ loadState' = "failed" /\ loadingActive' = FALSE
    /\ uiPc' = "pending"
    /\ UNCHANGED <<app, requested, pending, lastRequested, menu, history, emu, cmdQueue,
                   loaded, unloadEvent, paused, stopRequested, options, ghosts>>

EndRound == uiPc' = IF windowClosed THEN "end" ELSE "events"

NothingDue ==
    /\ uiPc = "pending"
    /\ EndRound
    /\ UNCHANGED <<app, ui, emu, shared, ghosts>>

(* Two seconds after the loading screen was last put up, *)
LoadDue ==
    /\ uiPc = "pending" /\ pending # None
    /\ uiPc' = "load"
    /\ UNCHANGED <<app, ui, emu, shared, ghosts>>

(* Mutant of LoadRom: the queue is a stack. *)
LoadOnTop ==
    /\ uiPc = "load" /\ CmdMutexFree
    /\ lastRequested' = pending
    /\ cmdQueue' = <<pending>> \o cmdQueue /\ Notify
    /\ pending' = None /\ loadState' = "booting"
    /\ EndRound
    /\ UNCHANGED <<app, requested, loadingActive, menu, history, batch, loaded, loadResult,
                   unloadEvent, paused, stopRequested, options, ghosts>>

(* the game is queued. *)
LoadRom ==
    /\ uiPc = "load" /\ CmdMutexFree
    /\ lastRequested' = pending
    /\ cmdQueue' = Append(cmdQueue, pending) /\ Notify
    /\ pending' = None /\ loadState' = "booting"
    /\ crossed' = (crossed \/ loadResult # NoResult \/ lastRequested \notin finished \cup {None})
    /\ EndRound
    /\ UNCHANGED <<app, requested, loadingActive, menu, history, batch, loaded, loadResult,
                   unloadEvent, paused, stopRequested, options, finished, good, fromHistory>>

(***************************************************************************)
(* Emulation thread                                                        *)
(***************************************************************************)
TakeCommands ==
    /\ emuPc = "loop"
    /\ batch' = cmdQueue /\ cmdQueue' = <<>>
    /\ emuPc' = IF cmdQueue = <<>> THEN "round" ELSE "batch"
    /\ UNCHANGED <<uiPc, app, ui, loaded, loadResult, unloadEvent, paused, stopRequested,
                   options, ghosts>>

(* LoadGameInternal: a game that is loaded is not unloaded first. *)
LoadGame ==
    /\ emuPc = "batch" /\ batch # <<>>
    /\ \/ loaded' = Head(batch) /\ emuPc' = "load ok"
       \/ loaded' = loaded /\ emuPc' = "load failed"
    /\ UNCHANGED <<uiPc, app, ui, batch, cmdQueue, loadResult, unloadEvent, paused,
                   stopRequested, options, ghosts>>

(* Mutant of StoreResult: every load succeeds. *)
FailureIgnored ==
    /\ emuPc \in {"load ok", "load failed"}
    /\ loadResult' = "ok"
    /\ finished' = finished \cup {Head(batch)}
    /\ good' = IF emuPc = "load ok" THEN good \cup {Head(batch)} ELSE good
    /\ batch' = Tail(batch) /\ emuPc' = "batch"
    /\ UNCHANGED <<uiPc, app, ui, cmdQueue, loaded, unloadEvent, paused, stopRequested,
                   options, fromHistory, crossed>>

StoreResult ==
    /\ emuPc \in {"load ok", "load failed"}
    /\ loadResult' = IF emuPc = "load ok" THEN "ok" ELSE "failed"
    /\ finished' = finished \cup {Head(batch)}
    /\ good' = IF emuPc = "load ok" THEN good \cup {Head(batch)} ELSE good
    /\ batch' = Tail(batch) /\ emuPc' = "batch"
    /\ UNCHANGED <<uiPc, app, ui, cmdQueue, loaded, unloadEvent, paused, stopRequested,
                   options, fromHistory, crossed>>

(* The loop after its commands: a game runs a frame, unless it is paused;  *)
(* without a game and without commands the thread goes idle.               *)
AfterCommands ==
    /\ emuPc \in {"round", "batch"} /\ batch = <<>>
    /\ emuPc' = CASE stopRequested -> "exit"
                  [] ~stopRequested /\ loaded # None /\ ~paused -> "frame"
                  [] ~stopRequested /\ loaded # None /\ paused -> "loop"
                  [] ~stopRequested /\ loaded = None ->
                         IF emuPc = "round" THEN "idle" ELSE "loop"
    /\ UNCHANGED <<uiPc, app, ui, batch, shared, ghosts>>

RunFrame ==
    /\ emuPc = "frame"
    /\ emuPc' \in {"loop", "unload"}   \* unload: the core asked to SHUTDOWN
    /\ UNCHANGED <<uiPc, app, ui, batch, shared, ghosts>>

UnloadGame ==
    /\ emuPc = "unload"
    /\ loaded' = None /\ options' = FALSE /\ emuPc' = "unloaded"
    /\ UNCHANGED <<uiPc, app, ui, batch, cmdQueue, loadResult, unloadEvent, paused,
                   stopRequested, ghosts>>

(* Mutant of RaiseUnloadEvent: the UI is not told. *)
UnloadUntold ==
    /\ emuPc = "unloaded" /\ emuPc' = "loop"
    /\ UNCHANGED <<uiPc, app, ui, batch, shared, ghosts>>

RaiseUnloadEvent ==
    /\ emuPc = "unloaded"
    /\ unloadEvent' = TRUE /\ emuPc' = "loop"
    /\ UNCHANGED <<uiPc, app, ui, batch, cmdQueue, loaded, loadResult, paused,
                   stopRequested, options, ghosts>>

(* wait_for: the predicate is looked at under s_cmdMutex. *)
Idle ==
    /\ emuPc = "idle"
    /\ emuPc' = IF stopRequested \/ cmdQueue # <<>> THEN "loop" ELSE "falling asleep"
    /\ UNCHANGED <<uiPc, app, ui, batch, shared, ghosts>>

FallAsleep ==
    /\ emuPc = "falling asleep" /\ emuPc' = "asleep"
    /\ UNCHANGED <<uiPc, app, ui, batch, shared, ghosts>>

(* Mutant of WaitTimeout: the wait has no time limit. *)
WaitForever == emuPc = "asleep" /\ UNCHANGED vars

WaitTimeout ==
    /\ emuPc = "asleep" /\ emuPc' = "loop"
    /\ UNCHANGED <<uiPc, app, ui, batch, shared, ghosts>>

ExitThread ==
    /\ emuPc = "exit"
    /\ loaded' = None /\ options' = (options /\ loaded = None) /\ emuPc' = "done"
    /\ UNCHANGED <<uiPc, app, ui, batch, cmdQueue, loadResult, unloadEvent, paused,
                   stopRequested, ghosts>>

Finished == uiPc = "end" /\ UNCHANGED vars

-----------------------------------------------------------------------------
UserStep == SelectFile \/ SelectFromHistory \/ ChangeVisibility \/ SuspendOrResume
            \/ CloseWindow

UiStep == BeginRound \/ NoUnload \/ HandleUnload \/ NoLoadResult \/ LoadSucceeded
          \/ LoadFailed \/ NothingDue \/ LoadDue \/ LoadRom \/ ShutdownNotify \/ ShutdownJoin

EmuStep == TakeCommands \/ LoadGame \/ StoreResult \/ AfterCommands \/ RunFrame
           \/ UnloadGame \/ RaiseUnloadEvent \/ Idle \/ FallAsleep \/ WaitTimeout
           \/ ExitThread

Next == UserStep \/ UiStep \/ EmuStep \/ Finished

Spec == Init /\ [][Next]_vars

(* Both threads run, a load that waits becomes due (its two seconds pass,  *)
(* whatever number of rounds that takes), and s_cmdMutex, held only for    *)
(* moments, is obtained.                                                   *)
FairSpec ==
    Spec /\ WF_vars(UiStep) /\ WF_vars(EmuStep) /\ SF_vars(LoadDue) /\ SF_vars(LoadRom)

-----------------------------------------------------------------------------
Results == {NoResult, "ok", "failed"}

TypeOK ==
    /\ uiPc \in {"events", "update", "result", "pending", "load", "notify", "join",
             "end"}
    /\ visible \in BOOLEAN /\ windowClosed \in BOOLEAN
    /\ requested \in 0 .. MaxLoads /\ pending \in 0 .. MaxLoads
    /\ loadState \in {"idle", "booting", "done", "failed"} /\ loadingActive \in BOOLEAN
    /\ lastRequested \in 0 .. MaxLoads /\ menu \in BOOLEAN
    /\ history \subseteq Loads
    /\ emuPc \in {"loop", "round", "batch", "load ok", "load failed", "frame", "unload",
                  "unloaded", "idle", "falling asleep", "asleep", "exit", "done"}
    /\ batch \in Seq(Loads) /\ cmdQueue \in Seq(Loads)
    /\ loaded \in 0 .. MaxLoads /\ loadResult \in Results
    /\ unloadEvent \in BOOLEAN /\ paused \in BOOLEAN /\ stopRequested \in BOOLEAN
    /\ options \in BOOLEAN
    /\ finished \subseteq Loads /\ good \subseteq finished
    /\ fromHistory \in BOOLEAN /\ crossed \in BOOLEAN

(* A load or an unload that the UI has still to handle. *)
UnderWay == \/ pending # None \/ cmdQueue # <<>> \/ batch # <<>>
            \/ loadResult # NoResult \/ unloadEvent \/ emuPc = "unloaded"

(* The app always has a face: without a game and with nothing under way,   *)
(* the menu is there, unless a load was crossed, or one that was chosen    *)
(* from the history failed.                                                *)
AppShell ==
    \/ loaded # None \/ UnderWay \/ emuPc = "done" \/ menu \/ crossed
    \/ loadState = "failed" /\ fromHistory

(* docs/ARCHITECTURE.md, FrontendMenu: the menu "stays available as the    *)
(* app shell when no game is loaded". Also when no load crossed another, a *)
(* failed load from the history leaves neither.                            *)
MenuWithoutGame ==
    loaded # None \/ UnderWay \/ emuPc = "done" \/ menu \/ crossed

(* Loads are performed in the order they were asked for: the game loaded   *)
(* is never older than one that was loaded before it.                      *)
LastRequestWins == loaded # None => \A g \in good : g <= loaded

(* The window is closed only when the emulation thread is gone: no call of *)
(* the core follows.                                                       *)
ClosedQuietly == windowClosed => emuPc = "done" /\ loaded = None

(* Unless a load or the end of a game crossed an earlier load, the history *)
(* holds only games that were loaded,                                      *)
HistoryUncrossed == crossed \/ history \subseteq good

(* and a game whose load was handled runs with the options the user saved. *)
OptionsApplied ==
    loaded # None /\ loadState = "done" => options \/ crossed

(* What the user meets: a menu or a game, the game with its options, and a *)
(* window that closes on a quiet program.                                  *)
ShellSound == TypeOK /\ AppShell /\ OptionsApplied /\ ClosedQuietly

(* The loading screen goes away, unless a load was crossed.                *)
LoadingEnds ==
    loadingActive ~> ~loadingActive \/ crossed \/ ~visible \/ windowClosed

(* Closing the window returns, whatever the emulation thread was doing.    *)
ShutdownReturns == uiPc = "notify" ~> windowClosed

(* So what the user asks for comes to an end, a load or the closing.       *)
RequestsEnd == LoadingEnds /\ ShutdownReturns

(* dosbox_uwpMain.cpp, ProcessPendingLoad: "Loading screen stays up until  *)
(* the emulation thread reports success/failure."                          *)
LoadingScreenEnds == loadingActive ~> ~loadingActive \/ ~visible \/ windowClosed

(* dosbox_uwpMain.cpp, LoadRom: "Keep requested paths so the async         *)
(* load-success handler can update history".                               *)
HistoryLoaded == history \subseteq good
=============================================================================
