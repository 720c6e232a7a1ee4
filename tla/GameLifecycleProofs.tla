------------------------- MODULE GameLifecycleProofs -------------------------
(***************************************************************************)
(* Proofs about GameLifecycle for any number of selected games: the game    *)
(* that runs is never older than one loaded before it, the application has  *)
(* a face and the game its options, and the history names loaded games.     *)
(***************************************************************************)
EXTENDS GameLifecycle, TLAPS

(* The types, in three parts that different steps disturb. *)
FlagsTyped ==
    /\ visible \in BOOLEAN /\ windowClosed \in BOOLEAN /\ loadingActive \in BOOLEAN
    /\ menu \in BOOLEAN /\ unloadEvent \in BOOLEAN /\ paused \in BOOLEAN
    /\ stopRequested \in BOOLEAN /\ options \in BOOLEAN
    /\ fromHistory \in BOOLEAN /\ crossed \in BOOLEAN

StatesTyped ==
    /\ uiPc \in {"events", "update", "result", "pending", "load", "notify", "join",
             "end"}
    /\ loadState \in {"idle", "booting", "done", "failed"}
    /\ emuPc \in {"loop", "round", "batch", "load ok", "load failed", "frame", "unload",
                  "unloaded", "idle", "falling asleep", "asleep", "exit", "done"}
    /\ loadResult \in Results

GamesTyped ==
    /\ requested \in 0 .. MaxLoads /\ pending \in 0 .. MaxLoads
    /\ lastRequested \in 0 .. MaxLoads /\ loaded \in 0 .. MaxLoads
    /\ batch \in Seq(Loads) /\ cmdQueue \in Seq(Loads)
    /\ history \subseteq Loads /\ finished \subseteq Loads /\ good \subseteq finished

(* Where the two threads are: a load that is due is there, and so is the   *)
(* command that is being carried out; what was sent was asked for.         *)
Places ==
    /\ uiPc = "load" => pending # None
    /\ lastRequested = None => batch = <<>> /\ cmdQueue = <<>> /\ loadResult = NoResult
    /\ emuPc \notin {"batch", "load ok", "load failed"} => batch = <<>>
    /\ emuPc \in {"load ok", "load failed"} => batch # <<>>
    /\ emuPc = "load ok" => loaded = Head(batch)

TypeInv == FlagsTyped /\ StatesTyped /\ GamesTyped /\ Places

(* Every game that was sent to the emulation thread was selected before    *)
(* the one that waits, and the games are carried out in that order.        *)
Sent(g) == g <= requested /\ (pending # None => g < pending)

Increasing(s) == \A i, j \in 1 .. Len(s) : i < j => s[i] < s[j]

AllSent ==
    /\ pending \in {None, requested}
    /\ \A i \in 1 .. Len(batch) : Sent(batch[i])
    /\ \A i \in 1 .. Len(cmdQueue) : Sent(cmdQueue[i])
    /\ \A g \in finished : Sent(g)

InOrder ==
    /\ Increasing(batch) /\ Increasing(cmdQueue)
    /\ \A i \in 1 .. Len(batch), j \in 1 .. Len(cmdQueue) : batch[i] < cmdQueue[j]
    /\ \A g \in finished, i \in 1 .. Len(batch) : g < batch[i]
    /\ \A g \in finished, i \in 1 .. Len(cmdQueue) : g < cmdQueue[i]

OrderInv == AllSent /\ InOrder /\ LastRequestWins

(* As long as nothing was crossed one load at most is on its way, the one  *)
(* that was asked for last, and the user interface waits for its result.   *)
OnItsWay == batch # <<>> \/ cmdQueue # <<>>

OneLoad ==
    /\ OnItsWay =>
         /\ \/ batch = <<lastRequested>> /\ cmdQueue = <<>>
            \/ batch = <<>> /\ cmdQueue = <<lastRequested>>
         /\ lastRequested \notin finished
         /\ loadResult = NoResult /\ loadState = "booting"
    /\ loadResult # NoResult => loadState = "booting"
    /\ loadResult = "ok" => lastRequested \in good

(* The user interface has a game, or will hear that it ended. *)
Alive == loaded # None \/ unloadEvent \/ emuPc \in {"unloaded", "done"}

ShellInv ==
    crossed \/
      /\ OneLoad
      /\ loadResult = "ok" => Alive
      /\ ~menu => Alive \/ fromHistory
      /\ ~menu /\ fromHistory => UnderWay \/ Alive \/ loadState = "failed"
      /\ loaded # None /\ loadState = "done" => options
      /\ history \subseteq good

(* The thread that is gone has no game. *)
QuietInv == (emuPc = "done" => loaded = None) /\ ClosedQuietly

IInv == TypeInv /\ OrderInv /\ ShellInv /\ QuietInv
-----------------------------------------------------------------------------
(* A command that is taken leaves shorter, ordered commands. *)
LEMMA TailOrdered ==
    ASSUME NEW s \in Seq(Loads), s # <<>>, Increasing(s)
    PROVE  /\ Head(s) = s[1] /\ 1 \in 1 .. Len(s) /\ s[1] \in Loads
           /\ Tail(s) \in Seq(Loads) /\ Len(Tail(s)) = Len(s) - 1
           /\ \A i \in 1 .. Len(Tail(s)) :
                 Tail(s)[i] = s[i + 1] /\ i + 1 \in 1 .. Len(s) /\ s[1] < s[i + 1]
           /\ Increasing(Tail(s))
  <1>1. /\ Len(s) \in Nat /\ Len(s) # 0 /\ Head(s) = s[1]
        /\ Tail(s) \in Seq(Loads) /\ Len(Tail(s)) = Len(s) - 1
        /\ \A i \in 1 .. Len(Tail(s)) : Tail(s)[i] = s[i + 1]
    OBVIOUS
  <1>2. \A i \in 1 .. Len(s) : s[i] \in Loads
    OBVIOUS
  <1>3. \A i \in 1 .. Len(Tail(s)) : i + 1 \in 1 .. Len(s) /\ s[1] < s[i + 1]
    BY <1>1 DEF Increasing
  <1>4. Increasing(Tail(s))
    BY <1>1, <1>3 DEF Increasing
  <1> QED
    BY <1>1, <1>2, <1>3, <1>4

LEMMA AppendOrdered ==
    ASSUME NEW s \in Seq(Loads), Increasing(s), NEW g \in Loads,
           \A i \in 1 .. Len(s) : s[i] < g
    PROVE  /\ Append(s, g) \in Seq(Loads) /\ Len(Append(s, g)) = Len(s) + 1
           /\ \A i \in 1 .. Len(s) : Append(s, g)[i] = s[i]
           /\ Append(s, g)[Len(s) + 1] = g
           /\ Increasing(Append(s, g))
  <1>1. /\ Append(s, g) \in Seq(Loads) /\ Len(Append(s, g)) = Len(s) + 1
        /\ \A i \in 1 .. Len(s) : Append(s, g)[i] = s[i]
        /\ Append(s, g)[Len(s) + 1] = g /\ Len(s) \in Nat
    OBVIOUS
  <1>2. Increasing(Append(s, g))
    BY <1>1 DEF Increasing
  <1> QED
    BY <1>1, <1>2
-----------------------------------------------------------------------------
(* Types *)
(* The steps that leave the games and what is said of them alone. *)
OtherStep ==
    \/ ChangeVisibility \/ SuspendOrResume \/ CloseWindow \/ BeginRound \/ NoLoadResult
    \/ NothingDue \/ LoadDue \/ ShutdownNotify \/ ShutdownJoin \/ AfterCommands \/ RunFrame
    \/ Idle \/ FallAsleep \/ WaitTimeout \/ UNCHANGED vars

LEMMA OtherSteps ==
    ASSUME OtherStep
    PROVE  /\ UNCHANGED <<requested, pending, loadState, lastRequested, menu, history, batch,
                          cmdQueue, loaded, loadResult, unloadEvent, options, finished, good,
                          fromHistory, crossed>>
           /\ emuPc \in {"unloaded", "done"} <=> emuPc' \in {"unloaded", "done"}
           /\ emuPc = "unloaded" <=> emuPc' = "unloaded"
           /\ emuPc' \in {"load ok", "load failed"} => emuPc' = emuPc
           /\ emuPc' \notin {"batch", "load ok", "load failed"}
                => batch = <<>> \/ emuPc \notin {"batch", "load ok", "load failed"}
           /\ uiPc' = "load" => pending # None \/ uiPc = "load"
  BY DEF OtherStep, ChangeVisibility, SuspendOrResume, CloseWindow, BeginRound, NoLoadResult,
         NothingDue, LoadDue, EndRound, ShutdownNotify, ShutdownJoin, Notify, AfterCommands,
         RunFrame, Idle, FallAsleep, WaitTimeout, vars, app, ui, emu, shared, ghosts

LEMMA Steps ==
    ASSUME [Next]_vars
    PROVE  \/ OtherStep
           \/ SelectFile \/ SelectFromHistory \/ NoUnload \/ HandleUnload \/ LoadSucceeded
           \/ LoadFailed \/ LoadRom \/ TakeCommands \/ LoadGame \/ StoreResult \/ UnloadGame
           \/ RaiseUnloadEvent \/ ExitThread
  BY DEF Next, UserStep, UiStep, EmuStep, Finished, OtherStep

LEMMA FlagsKept == ASSUME FlagsTyped, [Next]_vars PROVE FlagsTyped'
  <1> USE DEF FlagsTyped, app, ui, emu, shared, ghosts
  <1>1. ASSUME UserStep PROVE FlagsTyped'
    <2>1. ASSUME SelectFile \/ SelectFromHistory PROVE FlagsTyped'
      BY <2>1 DEF SelectFile, SelectFromHistory, QueueLoadRom
    <2>2. ASSUME ChangeVisibility PROVE FlagsTyped'
      BY <2>2 DEF ChangeVisibility
    <2>3. ASSUME SuspendOrResume PROVE FlagsTyped'
      BY <2>3 DEF SuspendOrResume
    <2>4. ASSUME CloseWindow PROVE FlagsTyped'
      BY <2>4 DEF CloseWindow
    <2> QED
      BY <1>1, <2>1, <2>2, <2>3, <2>4 DEF UserStep
  <1>2. ASSUME UiStep PROVE FlagsTyped'
    <2>1. ASSUME BeginRound \/ NoLoadResult \/ NothingDue \/ LoadDue PROVE FlagsTyped'
      BY <2>1 DEF BeginRound, NoLoadResult, NothingDue, LoadDue
    <2>2. ASSUME NoUnload \/ HandleUnload PROVE FlagsTyped'
      BY <2>2 DEF NoUnload, HandleUnload, Reactivate
    <2>3. ASSUME LoadSucceeded \/ LoadFailed PROVE FlagsTyped'
      BY <2>3 DEF LoadSucceeded, LoadFailed
    <2>4. ASSUME LoadRom PROVE FlagsTyped'
      BY <2>4 DEF LoadRom
    <2>5. ASSUME ShutdownNotify \/ ShutdownJoin PROVE FlagsTyped'
      BY <2>5 DEF ShutdownNotify, ShutdownJoin
    <2> QED
      BY <1>2, <2>1, <2>2, <2>3, <2>4, <2>5 DEF UiStep
  <1>3. ASSUME EmuStep PROVE FlagsTyped'
    <2>1. ASSUME \/ TakeCommands \/ LoadGame \/ StoreResult \/ AfterCommands
                 \/ RunFrame \/ Idle \/ FallAsleep \/ WaitTimeout
          PROVE  FlagsTyped'
      <3>1. UNCHANGED <<app, loadingActive, menu, unloadEvent, paused, stopRequested, options,
                        fromHistory, crossed>>
        BY <2>1 DEF TakeCommands, LoadGame, StoreResult, AfterCommands, RunFrame, Idle,
                    FallAsleep, WaitTimeout
      <3> QED
        BY <3>1
    <2>3. ASSUME UnloadGame \/ RaiseUnloadEvent PROVE FlagsTyped'
      BY <2>3 DEF UnloadGame, RaiseUnloadEvent
    <2>4. ASSUME ExitThread PROVE FlagsTyped'
      BY <2>4 DEF ExitThread
    <2> QED
      BY <1>3, <2>1, <2>3, <2>4 DEF EmuStep
  <1>4. ASSUME UNCHANGED vars PROVE FlagsTyped'
    BY <1>4 DEF vars
  <1> QED
    BY <1>1, <1>2, <1>3, <1>4 DEF Next, Finished

LEMMA StatesKept == ASSUME StatesTyped, [Next]_vars PROVE StatesTyped'
  BY DEF StatesTyped, Results, Next, vars, UserStep, UiStep, EmuStep, Finished,
         SelectFile, SelectFromHistory, QueueLoadRom, ChangeVisibility, SuspendOrResume,
         CloseWindow, BeginRound, NoUnload, HandleUnload, NoLoadResult,
         LoadSucceeded, LoadFailed, NothingDue, LoadDue, LoadRom, EndRound, Notify,
         ShutdownNotify, ShutdownJoin,
         TakeCommands, LoadGame, StoreResult, AfterCommands, RunFrame, UnloadGame,
         RaiseUnloadEvent, Idle, FallAsleep, WaitTimeout, ExitThread,
         app, ui, emu, shared, ghosts

(* A game that was asked for is one of the games. *)
LEMMA AskedFor ==
    ASSUME TypeInv, batch # <<>> \/ cmdQueue # <<>> \/ loadResult # NoResult
    PROVE  lastRequested \in Loads
  <1>1. lastRequested # None /\ lastRequested \in 0 .. MaxLoads
    BY DEF TypeInv, Places, GamesTyped
  <1> QED
    BY <1>1, LoadAssumption DEF None, Loads

LEMMA DueIsGame ==
    ASSUME TypeInv, LoadRom PROVE pending \in Loads
  <1>1. pending # None /\ pending \in 0 .. MaxLoads
    BY DEF TypeInv, Places, GamesTyped, LoadRom
  <1> QED
    BY <1>1, LoadAssumption DEF None, Loads

LEMMA GamesKept == ASSUME TypeInv, [Next]_vars PROVE GamesTyped'
  <1> USE DEF app, ui, emu, shared, ghosts
  <1>1. CASE SelectFile \/ SelectFromHistory
    BY <1>1, LoadAssumption
       DEF SelectFile, SelectFromHistory, QueueLoadRom, TypeInv, GamesTyped
  <1>2. CASE LoadSucceeded
    <2>1. lastRequested \in Loads
      BY <1>2, AskedFor DEF LoadSucceeded, NoResult
    <2> QED
      BY <1>2, <2>1 DEF LoadSucceeded, TypeInv, GamesTyped
  <1>3. CASE LoadRom
    <2>1. pending \in Loads /\ pending \in 0 .. MaxLoads
      BY <1>3, DueIsGame DEF TypeInv, GamesTyped
    <2>2. Append(cmdQueue, pending) \in Seq(Loads)
      BY <2>1 DEF TypeInv, GamesTyped
    <2>3. None \in 0 .. MaxLoads
      BY LoadAssumption DEF None
    <2> QED
      BY <1>3, <2>1, <2>2, <2>3 DEF LoadRom, TypeInv, GamesTyped
  <1>4. CASE TakeCommands
    BY <1>4 DEF TakeCommands, TypeInv, GamesTyped
  <1>5. CASE LoadGame
    <2>1. batch # <<>> /\ batch \in Seq(Loads)
      BY <1>5 DEF LoadGame, TypeInv, GamesTyped
    <2>2. Head(batch) \in Loads
      BY <2>1
    <2>3. Head(batch) \in 0 .. MaxLoads
      BY <2>2, LoadAssumption DEF Loads
    <2> QED
      BY <1>5, <2>3 DEF LoadGame, TypeInv, GamesTyped
  <1>6. CASE StoreResult
    <2>1. batch # <<>>
      BY <1>6 DEF StoreResult, TypeInv, Places
    <2>2. Head(batch) \in Loads /\ Tail(batch) \in Seq(Loads)
      BY <2>1 DEF TypeInv, GamesTyped
    <2> QED
      BY <1>6, <2>2 DEF StoreResult, TypeInv, GamesTyped
  <1>7. CASE UnloadGame \/ ExitThread
    <2>1. None \in 0 .. MaxLoads
      BY LoadAssumption DEF None
    <2> QED
      BY <1>7, <2>1 DEF UnloadGame, ExitThread, TypeInv, GamesTyped
  <1>8. CASE NoUnload \/ HandleUnload \/ LoadFailed \/ RaiseUnloadEvent
    BY <1>8 DEF NoUnload, HandleUnload, LoadFailed, RaiseUnloadEvent, TypeInv, GamesTyped
  <1>9. CASE OtherStep
    BY <1>9, OtherSteps DEF TypeInv, GamesTyped
  <1> QED
    BY <1>1, <1>2, <1>3, <1>4, <1>5, <1>6, <1>7, <1>8, <1>9, Steps

LEMMA PlacesKept == ASSUME TypeInv, [Next]_vars PROVE Places'
  <1> USE DEF app, ui, emu, shared, ghosts
  <1>1. CASE SelectFile \/ SelectFromHistory
    BY <1>1 DEF SelectFile, SelectFromHistory, QueueLoadRom, TypeInv, Places
  <1>2. CASE NoUnload \/ HandleUnload
    BY <1>2 DEF NoUnload, HandleUnload, TypeInv, Places
  <1>3. CASE LoadSucceeded \/ LoadFailed
    BY <1>3 DEF LoadSucceeded, LoadFailed, TypeInv, Places
  <1>4. CASE LoadRom
    <2>1. pending # None /\ uiPc' # "load"
      BY <1>4 DEF LoadRom, EndRound, TypeInv, Places
    <2>2. /\ emuPc' \in {"batch", "load ok", "load failed"} => emuPc' = emuPc
          /\ emuPc \in {"batch", "load ok", "load failed"} => emuPc' = emuPc
      BY <1>4 DEF LoadRom, Notify
    <2> QED
      BY <1>4, <2>1, <2>2 DEF LoadRom, TypeInv, Places
  <1>5. CASE TakeCommands
    BY <1>5 DEF TakeCommands, TypeInv, Places
  <1>6. CASE LoadGame
    <2>1. lastRequested # None /\ batch # <<>>
      BY <1>6 DEF LoadGame, TypeInv, Places
    <2> QED
      BY <1>6, <2>1 DEF LoadGame, TypeInv, Places
  <1>7. CASE StoreResult
    <2>1. lastRequested # None
      BY <1>7 DEF StoreResult, TypeInv, Places
    <2> QED
      BY <1>7, <2>1 DEF StoreResult, TypeInv, Places
  <1>8. CASE UnloadGame \/ RaiseUnloadEvent \/ ExitThread
    BY <1>8 DEF UnloadGame, RaiseUnloadEvent, ExitThread, TypeInv, Places
  <1>9. CASE OtherStep
    BY <1>9, OtherSteps DEF TypeInv, Places
  <1> QED
    BY <1>1, <1>2, <1>3, <1>4, <1>5, <1>6, <1>7, <1>8, <1>9, Steps

LEMMA TypeKept == TypeInv /\ [Next]_vars => TypeInv'
  BY FlagsKept, StatesKept, GamesKept, PlacesKept DEF TypeInv
-----------------------------------------------------------------------------
(* Order: by induction over the commands on their way *)
LEMMA OrderTypes ==
    ASSUME TypeInv
    PROVE  /\ requested \in Nat /\ pending \in Nat /\ loaded \in Nat
           /\ batch \in Seq(Loads) /\ cmdQueue \in Seq(Loads)
           /\ finished \subseteq Nat /\ good \subseteq finished /\ Loads \subseteq Nat
           /\ \A i \in 1 .. Len(batch) : batch[i] \in Nat
           /\ \A i \in 1 .. Len(cmdQueue) : cmdQueue[i] \in Nat
           /\ Len(batch) \in Nat /\ Len(cmdQueue) \in Nat
  <1>1. Loads \subseteq Nat
    BY LoadAssumption DEF Loads
  <1>2. GamesTyped
    BY DEF TypeInv
  <1>3. requested \in Nat /\ pending \in Nat /\ loaded \in Nat
    BY <1>2, LoadAssumption DEF GamesTyped
  <1>4. batch \in Seq(Loads) /\ cmdQueue \in Seq(Loads)
        /\ finished \subseteq Nat /\ good \subseteq finished
    BY <1>1, <1>2 DEF GamesTyped
  <1>5. \A i \in 1 .. Len(batch) : batch[i] \in Nat
    <2>1. \A i \in 1 .. Len(batch) : batch[i] \in Loads
      BY <1>4
    <2> QED
      BY <1>1, <2>1
  <1>6. \A i \in 1 .. Len(cmdQueue) : cmdQueue[i] \in Nat
    <2>1. \A i \in 1 .. Len(cmdQueue) : cmdQueue[i] \in Loads
      BY <1>4
    <2> QED
      BY <1>1, <2>1
  <1>7. Len(batch) \in Nat /\ Len(cmdQueue) \in Nat
    BY <1>4
  <1> QED
    BY <1>1, <1>3, <1>4, <1>5, <1>6, <1>7

LEMMA SelectOrder ==
    ASSUME TypeInv, OrderInv, SelectFile \/ SelectFromHistory PROVE OrderInv'
  <1>1. /\ requested' = requested + 1 /\ pending' = requested + 1
        /\ UNCHANGED <<batch, cmdQueue, finished, good, loaded>>
    BY DEF SelectFile, SelectFromHistory, QueueLoadRom, emu, shared
  <1>2. \A g \in Nat : Sent(g) => Sent(g)'
    BY <1>1, OrderTypes DEF Sent
  <1>3. AllSent'
    BY <1>1, <1>2, OrderTypes DEF AllSent, OrderInv
  <1>4. InOrder' /\ LastRequestWins'
    BY <1>1 DEF OrderInv, InOrder, Increasing, LastRequestWins
  <1> QED
    BY <1>3, <1>4 DEF OrderInv

LEMMA LoadRomOrder ==
    ASSUME TypeInv, OrderInv, LoadRom PROVE OrderInv'
  <1>1. /\ pending \in Loads /\ pending = requested /\ pending # None
        /\ pending' = None /\ requested' = requested
        /\ cmdQueue' = Append(cmdQueue, pending)
        /\ UNCHANGED <<batch, finished, good, loaded>>
    BY DueIsGame DEF LoadRom, OrderInv, AllSent, TypeInv, Places
  <1>2. (\A g \in Nat : Sent(g) => Sent(g)' /\ g < pending)
    BY <1>1, OrderTypes DEF Sent
  <1>3. pending <= requested' /\ pending' = None
    BY <1>1, OrderTypes
  <1>4. \A i \in 1 .. Len(cmdQueue) : cmdQueue[i] < pending
    BY <1>2, OrderTypes DEF OrderInv, AllSent
  <1>5. /\ Len(cmdQueue') = Len(cmdQueue) + 1
        /\ \A i \in 1 .. Len(cmdQueue) : cmdQueue'[i] = cmdQueue[i]
        /\ cmdQueue'[Len(cmdQueue) + 1] = pending
        /\ Increasing(cmdQueue')
    BY <1>1, <1>4, OrderTypes, AppendOrdered DEF OrderInv, InOrder, Increasing
  <1>6. \A i \in 1 .. Len(cmdQueue') :
           (i \in 1 .. Len(cmdQueue) /\ cmdQueue'[i] = cmdQueue[i]) \/ cmdQueue'[i] = pending
    BY <1>5, OrderTypes
  <1>7. AllSent'
    <2>1. \A i \in 1 .. Len(batch) : Sent(batch[i])'
      BY <1>1, <1>2, OrderTypes DEF OrderInv, AllSent
    <2>2. \A g \in finished : Sent(g)'
      BY <1>1, <1>2, OrderTypes DEF OrderInv, AllSent
    <2>3. \A i \in 1 .. Len(cmdQueue') : Sent(cmdQueue[i])' 
      <3> SUFFICES ASSUME NEW i \in 1 .. Len(cmdQueue') PROVE Sent(cmdQueue[i])'
        OBVIOUS
      <3>1. CASE i \in 1 .. Len(cmdQueue) /\ cmdQueue'[i] = cmdQueue[i]
        BY <1>2, <3>1, OrderTypes DEF OrderInv, AllSent, Sent
      <3>2. CASE cmdQueue'[i] = pending
        BY <1>3, <3>2 DEF Sent
      <3> QED
        BY <1>6, <3>1, <3>2
    <2> QED
      BY <1>1, <2>1, <2>2, <2>3 DEF AllSent
  <1>8. InOrder'
    <2>1. \A i \in 1 .. Len(batch) : batch[i] < pending
      BY <1>2, OrderTypes DEF OrderInv, AllSent
    <2>2. \A g \in finished : g < pending
      BY <1>2, OrderTypes DEF OrderInv, AllSent
    <2>3. \A i \in 1 .. Len(batch), j \in 1 .. Len(cmdQueue') : batch[i] < cmdQueue'[j]
      BY <1>6, <2>1 DEF OrderInv, InOrder
    <2>4. \A g \in finished, i \in 1 .. Len(cmdQueue') : g < cmdQueue'[i]
      BY <1>6, <2>2 DEF OrderInv, InOrder
    <2>5. Increasing(batch) /\ \A g \in finished, i \in 1 .. Len(batch) : g < batch[i]
      BY DEF OrderInv, InOrder
    <2> QED
      BY <1>1, <1>5, <2>3, <2>4, <2>5 DEF InOrder, Increasing
  <1> QED
    BY <1>1, <1>7, <1>8 DEF OrderInv, LastRequestWins

LEMMA StoreOrder ==
    ASSUME TypeInv, OrderInv, StoreResult PROVE OrderInv'
  <1>1. /\ batch # <<>> /\ batch' = Tail(batch) /\ finished' = finished \cup {Head(batch)}
        /\ good' \in {good, good \cup {Head(batch)}}
        /\ good' # good => loaded = Head(batch)
        /\ UNCHANGED <<requested, pending, cmdQueue, loaded>>
    BY DEF StoreResult, TypeInv, Places, ui, shared
  <1>2. /\ Head(batch) = batch[1] /\ 1 \in 1 .. Len(batch) /\ batch[1] \in Nat
        /\ Len(Tail(batch)) = Len(batch) - 1
        /\ \A i \in 1 .. Len(Tail(batch)) :
             Tail(batch)[i] = batch[i + 1] /\ i + 1 \in 1 .. Len(batch) /\ batch[1] < batch[i + 1]
        /\ Increasing(Tail(batch))
    BY <1>1, OrderTypes, TailOrdered DEF OrderInv, InOrder
  <1>3. AllSent'
    BY <1>1, <1>2 DEF OrderInv, AllSent, Sent
  <1>4. InOrder'
    <2>1. \A i \in 1 .. Len(Tail(batch)), j \in 1 .. Len(cmdQueue) : Tail(batch)[i] < cmdQueue[j]
      BY <1>2 DEF OrderInv, InOrder
    <2>2. \A g \in finished', i \in 1 .. Len(Tail(batch)) : g < Tail(batch)[i]
      BY <1>1, <1>2 DEF OrderInv, InOrder
    <2>3. \A g \in finished', i \in 1 .. Len(cmdQueue) : g < cmdQueue[i]
      BY <1>1, <1>2 DEF OrderInv, InOrder
    <2> QED
      BY <1>1, <1>2, <2>1, <2>2, <2>3 DEF InOrder, OrderInv, Increasing
  <1>5. LastRequestWins'
    <2>1. CASE good' = good
      BY <1>1, <2>1 DEF OrderInv, LastRequestWins
    <2>2. CASE good' # good
      <3>1. loaded = batch[1] /\ good' = good \cup {batch[1]}
        BY <1>1, <1>2, <2>2
      <3> QED
        BY <1>1, <1>2, <3>1, OrderTypes DEF OrderInv, InOrder, LastRequestWins
    <2> QED
      BY <2>1, <2>2
  <1> QED
    BY <1>3, <1>4, <1>5 DEF OrderInv

LEMMA OrderKept == ASSUME TypeInv, OrderInv, [Next]_vars PROVE OrderInv'
  <1> USE DEF app, ui, emu, shared, ghosts
  <1>1. CASE TakeCommands
    <2>1. /\ batch' = cmdQueue /\ cmdQueue' = <<>>
          /\ UNCHANGED <<requested, pending, finished, good, loaded>>
      BY <1>1 DEF TakeCommands
    <2>2. Len(cmdQueue') = 0 /\ 1 .. 0 = {}
      BY <2>1
    <2> QED
      BY <2>1, <2>2 DEF OrderInv, AllSent, InOrder, Increasing, LastRequestWins, Sent
  <1>2. CASE LoadGame
    <2>1. /\ batch # <<>> /\ loaded' \in {Head(batch), loaded}
          /\ UNCHANGED <<requested, pending, batch, cmdQueue, finished, good>>
      BY <1>2 DEF LoadGame
    <2>2. Head(batch) = batch[1] /\ 1 \in 1 .. Len(batch) /\ batch[1] \in Nat
      BY <2>1, OrderTypes
    <2>3. \A g \in good : g <= batch[1]
      BY <2>2, OrderTypes DEF OrderInv, InOrder
    <2>4. LastRequestWins'
      BY <2>1, <2>2, <2>3 DEF OrderInv, LastRequestWins
    <2> QED
      BY <2>1, <2>4 DEF OrderInv, AllSent, InOrder, Increasing, Sent
  <1>3. CASE UnloadGame \/ ExitThread
    BY <1>3 DEF UnloadGame, ExitThread, OrderInv, AllSent, InOrder, Increasing, LastRequestWins,
                Sent
  <1>4. CASE NoUnload \/ HandleUnload \/ LoadSucceeded \/ LoadFailed \/ RaiseUnloadEvent
    <2>1. UNCHANGED <<requested, pending, batch, cmdQueue, finished, good, loaded>>
      BY <1>4 DEF NoUnload, HandleUnload, LoadSucceeded, LoadFailed, RaiseUnloadEvent
    <2> QED
      BY <2>1 DEF OrderInv, AllSent, InOrder, Increasing, LastRequestWins, Sent
  <1>5. CASE OtherStep
    BY <1>5, OtherSteps DEF OrderInv, AllSent, InOrder, Increasing, LastRequestWins, Sent
  <1> QED
    BY <1>1, <1>2, <1>3, <1>4, <1>5, Steps, SelectOrder, LoadRomOrder, StoreOrder
-----------------------------------------------------------------------------
(* The application's face: one load at a time, unless one was crossed *)
LEMMA LoadRomShell ==
    ASSUME TypeInv, OrderInv, ShellInv, LoadRom PROVE ShellInv'
  <1>1. /\ lastRequested' = pending /\ cmdQueue' = Append(cmdQueue, pending)
        /\ loadState' = "booting" /\ pending \in Loads /\ pending # None
        /\ crossed' = (crossed \/ loadResult # NoResult \/ lastRequested \notin finished \cup {None})
        /\ UNCHANGED <<menu, history, batch, loaded, loadResult, unloadEvent, options, finished,
                       good, fromHistory>>
        /\ emuPc' = emuPc \/ (emuPc' = "idle" /\ emuPc = "asleep")
    BY DueIsGame DEF LoadRom, Notify, TypeInv, Places
  <1>. SUFFICES ASSUME ~ crossed, loadResult = NoResult, lastRequested \in finished \cup {None}
                PROVE  ShellInv'
    BY <1>1 DEF ShellInv
  <1>2. batch = <<>> /\ cmdQueue = <<>>
    BY DEF ShellInv, OneLoad, OnItsWay, TypeInv, Places
  <1>3. cmdQueue' = <<pending>>
    BY <1>1, <1>2
  <1>4. pending \notin finished
    <2>1. \A g \in finished : g < pending
      BY <1>1 DEF OrderInv, AllSent, Sent
    <2> QED
      BY <2>1, OrderTypes
  <1>5. OneLoad'
    BY <1>1, <1>2, <1>3, <1>4 DEF OneLoad, OnItsWay, NoResult
  <1>6. Alive' <=> Alive
    BY <1>1 DEF Alive
  <1>7. UnderWay'
    BY <1>3 DEF UnderWay
  <1> QED
    BY <1>1, <1>5, <1>6, <1>7 DEF ShellInv, NoResult

LEMMA StoreShell ==
    ASSUME TypeInv, OrderInv, ShellInv, StoreResult PROVE ShellInv'
  <1>1. /\ batch # <<>> /\ batch' = Tail(batch) /\ emuPc' = "batch"
        /\ finished' = finished \cup {Head(batch)}
        /\ \/ emuPc = "load ok" /\ loadResult' = "ok" /\ good' = good \cup {Head(batch)}
           \/ emuPc = "load failed" /\ loadResult' = "failed" /\ good' = good
        /\ UNCHANGED <<pending, loadState, lastRequested, menu, history, cmdQueue, loaded,
                       unloadEvent, options, fromHistory, crossed>>
    BY DEF StoreResult, TypeInv, Places, ui
  <1>. SUFFICES ASSUME ~ crossed PROVE ShellInv'
    BY <1>1 DEF ShellInv
  <1>2. /\ batch = <<lastRequested>> /\ cmdQueue = <<>> /\ loadState = "booting"
    BY <1>1 DEF ShellInv, OneLoad, OnItsWay
  <1>3. Head(batch) = lastRequested /\ Tail(batch) = <<>>
    BY <1>2
  <1>4. OneLoad'
    BY <1>1, <1>2, <1>3 DEF OneLoad, OnItsWay, NoResult
  <1>5. emuPc = "load ok" => loaded # None
    <2>1. lastRequested \in Loads
      BY <1>1, AskedFor
    <2>2. lastRequested # None
      BY <2>1, LoadAssumption DEF Loads, None
    <2> QED
      BY <1>3, <2>2 DEF TypeInv, Places
  <1>6. loadResult' = "ok" => Alive'
    BY <1>1, <1>5 DEF Alive
  <1>7. (Alive <=> Alive') /\ UnderWay'
    <2>1. loadResult' # NoResult
      BY <1>1 DEF NoResult
    <2>2. emuPc \notin {"unloaded", "done"} /\ emuPc' \notin {"unloaded", "done"}
      BY <1>1
    <2> QED
      BY <1>1, <2>1, <2>2 DEF UnderWay, Alive
  <1> QED
    BY <1>1, <1>2, <1>4, <1>6, <1>7 DEF ShellInv

LEMMA HandleShell ==
    ASSUME TypeInv, ShellInv, HandleUnload PROVE ShellInv'
  <1>1. /\ loadState' = "idle" /\ menu' = TRUE
        /\ crossed' = (crossed \/ loadState = "booting" \/ pending # None)
        /\ UNCHANGED <<lastRequested, history, batch, cmdQueue, loaded, loadResult, options,
                       finished, good, fromHistory>>
    BY DEF HandleUnload, emu
  <1>. SUFFICES ASSUME ~ crossed, loadState # "booting" PROVE ShellInv'
    BY <1>1 DEF ShellInv
  <1>2. ~ OnItsWay /\ loadResult = NoResult
    BY DEF ShellInv, OneLoad
  <1> QED
    BY <1>1, <1>2 DEF ShellInv, OneLoad, OnItsWay, NoResult

LEMMA ResultShell ==
    ASSUME TypeInv, ShellInv, LoadSucceeded \/ LoadFailed PROVE ShellInv'
  <1>1. /\ loadResult # NoResult /\ loadResult' = NoResult
        /\ UNCHANGED <<lastRequested, batch, cmdQueue, loaded, unloadEvent, emuPc, pending,
                       finished, good, fromHistory, crossed>>
    BY DEF LoadSucceeded, LoadFailed, NoResult, emu, ghosts
  <1>. SUFFICES ASSUME ~ crossed PROVE ShellInv'
    BY <1>1 DEF ShellInv
  <1>2. ~ OnItsWay
    BY <1>1 DEF ShellInv, OneLoad
  <1>3. OneLoad' /\ (Alive <=> Alive')
    BY <1>1, <1>2 DEF OneLoad, OnItsWay, Alive, NoResult
  <1>4. CASE LoadSucceeded
    <2>1. /\ loadResult = "ok" /\ menu' = FALSE /\ options' = TRUE
          /\ history' = history \cup {lastRequested}
      BY <1>4 DEF LoadSucceeded
    <2>2. Alive /\ lastRequested \in good
      BY <2>1 DEF ShellInv, OneLoad
    <2> QED
      BY <1>1, <1>3, <2>1, <2>2 DEF ShellInv, NoResult
  <1>5. CASE LoadFailed
    <2>1. loadState' = "failed" /\ UNCHANGED <<menu, options, history>>
      BY <1>5 DEF LoadFailed
    <2> QED
      BY <1>1, <1>3, <2>1 DEF ShellInv, NoResult
  <1> QED
    BY <1>4, <1>5

LEMMA SelectShell ==
    ASSUME TypeInv, ShellInv, SelectFile \/ SelectFromHistory PROVE ShellInv'
  <1>1. /\ pending' = requested + 1 /\ loadState' = "booting" /\ menu = TRUE
        /\ UNCHANGED <<lastRequested, history, batch, cmdQueue, loaded, loadResult, unloadEvent,
                       emuPc, options, finished, good, crossed>>
        /\ (menu' = TRUE \/ fromHistory' = TRUE)
    BY DEF SelectFile, SelectFromHistory, QueueLoadRom, emu, shared, TypeInv, FlagsTyped
  <1>2. UnderWay'
    BY <1>1, OrderTypes DEF UnderWay, None
  <1>3. (OneLoad => OneLoad') /\ (Alive <=> Alive')
    BY <1>1 DEF OneLoad, OnItsWay, Alive
  <1> QED
    BY <1>1, <1>2, <1>3 DEF ShellInv

LEMMA UnloadShell ==
    ASSUME TypeInv, ShellInv, UnloadGame \/ RaiseUnloadEvent \/ ExitThread PROVE ShellInv'
  <1>1. /\ Alive'
        /\ loaded' \in {None, loaded} /\ (loaded' # None => options' = options)
        /\ UNCHANGED <<pending, loadState, lastRequested, menu, history, batch, cmdQueue,
                       loadResult, finished, good, fromHistory, crossed>>
    BY DEF UnloadGame, RaiseUnloadEvent, ExitThread, Alive, ui, ghosts
  <1>2. OneLoad => OneLoad'
    BY <1>1 DEF OneLoad, OnItsWay
  <1> QED
    BY <1>1, <1>2 DEF ShellInv

LEMMA QueueShell ==
    ASSUME TypeInv, ShellInv, TakeCommands \/ LoadGame PROVE ShellInv'
  <1>1. /\ UNCHANGED <<pending, loadState, lastRequested, menu, history, loadResult,
                       unloadEvent, options, finished, good, fromHistory, crossed>>
        /\ emuPc \notin {"unloaded", "done"} /\ emuPc' \notin {"unloaded", "done"}
    BY DEF TakeCommands, LoadGame, ui, ghosts
  <1>. SUFFICES ASSUME ~ crossed PROVE ShellInv'
    BY <1>1 DEF ShellInv
  <1>2. CASE TakeCommands
    <2>1. batch = <<>> /\ batch' = cmdQueue /\ cmdQueue' = <<>> /\ loaded' = loaded
      BY <1>2 DEF TakeCommands, TypeInv, Places
    <2>2. OneLoad' /\ (Alive <=> Alive') /\ (UnderWay <=> UnderWay')
      BY <1>1, <2>1 DEF ShellInv, OneLoad, OnItsWay, Alive, UnderWay
    <2> QED
      BY <1>1, <2>1, <2>2 DEF ShellInv
  <1>3. CASE LoadGame
    <2>1. /\ batch # <<>> /\ UNCHANGED <<batch, cmdQueue>>
          /\ loaded' \in {Head(batch), loaded}
      BY <1>3 DEF LoadGame
    <2>2. loadState = "booting" /\ loadResult = NoResult
      BY <2>1 DEF ShellInv, OneLoad, OnItsWay
    <2>3. Head(batch) # None
      <3>1. Head(batch) \in Loads
        BY <2>1, OrderTypes
      <3> QED
        BY <3>1, LoadAssumption DEF Loads, None
    <2>4. OneLoad' /\ (Alive => Alive') /\ UnderWay'
      BY <1>1, <2>1, <2>3 DEF ShellInv, OneLoad, OnItsWay, Alive, UnderWay
    <2> QED
      BY <1>1, <2>2, <2>4 DEF ShellInv, NoResult
  <1> QED
    BY <1>2, <1>3

LEMMA ShellKept ==
    ASSUME TypeInv, OrderInv, ShellInv, [Next]_vars PROVE ShellInv'
  <1>1. CASE NoUnload
    <2>1. /\ loadState' = IF pending # None /\ ~ loadingActive THEN "booting" ELSE loadState
          /\ UNCHANGED <<pending, lastRequested, menu, history, emuPc, batch, cmdQueue, loaded,
                         loadResult, unloadEvent, options, finished, good, fromHistory, crossed>>
      BY <1>1 DEF NoUnload, Reactivate, emu, shared, ghosts
    <2>2. (OneLoad => OneLoad') /\ (Alive <=> Alive') /\ (UnderWay <=> UnderWay')
      BY <2>1 DEF OneLoad, OnItsWay, Alive, UnderWay
    <2>3. loadState' = loadState \/ (UnderWay' /\ loadState' = "booting")
      BY <2>1, <2>2 DEF UnderWay
    <2> QED
      BY <2>1, <2>2, <2>3 DEF ShellInv
  <1>2. CASE OtherStep
    <2>1. /\ UNCHANGED <<pending, loadState, lastRequested, menu, history, batch, cmdQueue,
                         loaded, loadResult, unloadEvent, options, finished, good,
                         fromHistory, crossed>>
          /\ emuPc \in {"unloaded", "done"} <=> emuPc' \in {"unloaded", "done"}
          /\ emuPc = "unloaded" <=> emuPc' = "unloaded"
      BY <1>2, OtherSteps
    <2>2. OneLoad => OneLoad'
      BY <2>1 DEF OneLoad, OnItsWay
    <2>3. Alive <=> Alive'
      BY <2>1 DEF Alive
    <2>4. UnderWay <=> UnderWay'
      BY <2>1 DEF UnderWay
    <2> QED
      BY <2>1, <2>2, <2>3, <2>4 DEF ShellInv
  <1> QED
    BY <1>1, <1>2, Steps, LoadRomShell, StoreShell, HandleShell, ResultShell, SelectShell,
       UnloadShell, QueueShell
-----------------------------------------------------------------------------
(* The closing *)
LEMMA QuietKept == ASSUME QuietInv, [Next]_vars PROVE QuietInv'
  <1> USE DEF app, ui, emu, shared, ghosts
  <1>1. CASE EmuStep
    <2>1. emuPc # "done" /\ windowClosed' = windowClosed
      BY <1>1 DEF EmuStep, TakeCommands, LoadGame, StoreResult, AfterCommands, RunFrame,
                  UnloadGame, RaiseUnloadEvent, Idle, FallAsleep, WaitTimeout, ExitThread
    <2>2. emuPc' = "done" => loaded' = None
      BY <1>1, <2>1 DEF EmuStep, TakeCommands, LoadGame, StoreResult, AfterCommands, RunFrame,
                  UnloadGame, RaiseUnloadEvent, Idle, FallAsleep, WaitTimeout, ExitThread
    <2> QED
      BY <2>1, <2>2 DEF QuietInv, ClosedQuietly
  <1>2. CASE ~ EmuStep
    <2>1. /\ loaded' = loaded
          /\ emuPc' = emuPc \/ (emuPc = "asleep" /\ emuPc' = "idle")
          /\ windowClosed' = windowClosed \/ emuPc = "done"
      BY <1>2 DEF Next, Finished, vars, UserStep, UiStep, SelectFile, SelectFromHistory,
             ChangeVisibility, SuspendOrResume, CloseWindow, BeginRound, NoUnload, HandleUnload,
             NoLoadResult, LoadSucceeded, LoadFailed, NothingDue, LoadDue, LoadRom, Notify,
             ShutdownNotify, ShutdownJoin
    <2> QED
      BY <2>1 DEF QuietInv, ClosedQuietly
  <1> QED
    BY <1>1, <1>2
-----------------------------------------------------------------------------
LEMMA InitIInv == Init => IInv
  <1> SUFFICES ASSUME Init PROVE IInv
    OBVIOUS
  <1>1. FlagsTyped /\ StatesTyped
    BY DEF Init, FlagsTyped, StatesTyped, Results, NoResult
  <1>2. GamesTyped
    BY LoadAssumption DEF Init, GamesTyped, None
  <1>3. Places
    BY DEF Init, Places
  <1>4. OrderInv
    <2>1. Len(batch) = 0 /\ Len(cmdQueue) = 0 /\ 1 .. 0 = {}
      BY DEF Init
    <2> QED
      BY <2>1 DEF Init, OrderInv, AllSent, InOrder, Increasing, LastRequestWins
  <1>5. ShellInv
    BY DEF Init, ShellInv, OneLoad, OnItsWay, NoResult
  <1>6. QuietInv
    BY DEF Init, QuietInv, ClosedQuietly
  <1> QED
    BY <1>1, <1>2, <1>3, <1>4, <1>5, <1>6 DEF IInv, TypeInv

(* The four parts hold in every behaviour, each by induction with the help *)
(* of those before it.                                                     *)
THEOREM Inductive == Spec => []IInv
  <1>1. IInv /\ [Next]_vars => IInv'
    BY TypeKept, OrderKept, ShellKept, QuietKept DEF IInv
  <1> QED
    BY InitIInv, <1>1, PTL DEF Spec

(* However loads, failures and unloads interleave, crossed or not, no game *)
(* runs that was asked for before another that was loaded.                 *)
THEOREM NewestRequestRuns == Spec => []LastRequestWins
  <1>1. IInv => LastRequestWins
    BY DEF IInv, OrderInv
  <1> QED
    BY <1>1, Inductive, PTL

(* Types, a menu or a game, the game with its options, a quiet closing.    *)
THEOREM ShellStaysSound == Spec => []ShellSound
  <1>1. IInv => ShellSound
    <2> SUFFICES ASSUME IInv PROVE ShellSound
      OBVIOUS
    <2>1. TypeOK
      BY DEF IInv, TypeInv, FlagsTyped, StatesTyped, GamesTyped, TypeOK
    <2>2. AppShell
      BY DEF IInv, ShellInv, Alive, UnderWay, AppShell
    <2>3. OptionsApplied
      BY DEF IInv, ShellInv, OptionsApplied
    <2>4. ClosedQuietly
      BY DEF IInv, QuietInv
    <2> QED
      BY <2>1, <2>2, <2>3, <2>4 DEF ShellSound
  <1> QED
    BY <1>1, Inductive, PTL

(* Unless a load or an unload was crossed, the history holds loaded games. *)
THEOREM HistoryHoldsLoaded == Spec => []HistoryUncrossed
  <1>1. IInv => HistoryUncrossed
    BY DEF IInv, ShellInv, HistoryUncrossed
  <1> QED
    BY <1>1, Inductive, PTL
=============================================================================
