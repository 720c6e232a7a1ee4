----------------------------- MODULE InputEvents -----------------------------
(***************************************************************************)
(* Keys on their way to the machine.  The UI thread gets them from the     *)
(* window and polls for lost ones (dosbox_uwpMain), and calls the core's   *)
(* keyboard_event; the emulation thread polls the gamepad's bindings and   *)
(* looks for keys that stick (retro_run); both write events into one ring, *)
(* without a lock (DBP_QueueEvent).  The DOSBox thread reads the ring      *)
(* (GFX_Events) and hands the events to the machine's keyboard, or to the  *)
(* on-screen display (OSD) while that is open.                             *)
(***************************************************************************)
EXTENDS Integers, FiniteSets, SequencesExt, FiniteSetsExt

CONSTANTS
    NumKeys,     \* keys of the machine
    Typed,       \* those the keyboard has
    PadKey,      \* the key a gamepad button is bound to, in the game and in the OSD
    ByScanCode,  \* keys that share the virtual key of key 1: the scan code tells them apart
    QueueSize,   \* DBP_EVENT_QUEUE_SIZE (256 in the code)
    MaxInputs,   \* bound on what the user does and the rounds leave to be seen
    MaxFull,     \* bound on how often the ring gets full
    RacedInputs, \* the two bounds once two calls have met
    RacedFull

ASSUME KeysAssumption ==
    /\ NumKeys \in Nat \ {0} /\ Typed \subseteq 1 .. NumKeys
    /\ PadKey \in 1 .. NumKeys /\ ByScanCode \subseteq 2 .. NumKeys
ASSUME QueueAssumption == QueueSize \in Nat /\ QueueSize >= 2
ASSUME BoundsAssumption ==
    /\ MaxInputs \in Nat /\ RacedInputs \in 0 .. MaxInputs
    /\ MaxFull \in Nat /\ RacedFull \in 0 .. MaxFull

Keys == 1 .. NumKeys
VirtualKey(k) == IF k \in ByScanCode THEN 1 ELSE k

Writers == {"ui", "emu"}
Slots == 0 .. QueueSize - 1
Nothing == [down |-> FALSE, key |-> 0]
Events == [down : BOOLEAN, key : Keys]

DBP_DOWN_BY_KEYBOARD == 128    \* the bits below it count (DBP_DOWN_COUNT_MASK)

VARIABLES
    \* the user and the frontend
    inputs,        \* how often the user did something
    held,          \* keys held down
    padHeld,       \* the gamepad button is held down
    activeVKey,    \* m_activeVKeyState
    keyboardState, \* s_keyboardState
    joypadState,   \* s_joypadState
    \* the core's bookkeeping
    keysDown,      \* dbp_keys_down: a count, and the flag DBP_DOWN_BY_KEYBOARD
    keysDownCount, \* dbp_keys_down_count
    \* the ring
    queue, writeCursor, readCursor,
    \* the two writers: where they are, their event, their cursors, and where
    \* they go on afterwards
    at, evt, cur, next, back,
    raced,         \* history variable: what both were at at once
    \* emulation thread
    lastval,       \* of the game's binding of the button
    osdLastval,    \* of the OSD's binding of the button
    toRelease,     \* the next key of DBP_ReleaseKeyEvents
    onlyPhysical,  \* its argument
    afterRelease,  \* where its caller goes on
    \* the OSD
    intercept, interceptNext, firstTime,
    \* DOSBox thread
    reader,        \* where GFX_Events is
    taken,         \* the event it has copied
    machine,       \* keys down in the machine
    \* history variable
    timesFull      \* how often the ring was full

user == <<inputs, held, padHeld>>
front == <<activeVKey, keyboardState, joypadState>>
downs == <<keysDown, keysDownCount>>
ring == <<queue, writeCursor, readCursor>>
writers == <<at, evt, cur, next, back, raced>>
emu == <<lastval, osdLastval, toRelease, onlyPhysical, afterRelease>>
osd == <<intercept, interceptNext, firstTime>>
dos == <<reader, taken, machine>>
vars == <<user, front, downs, ring, writers, emu, osd, dos, timesFull>>

Init ==
    /\ inputs = 0 /\ held = {} /\ padHeld = FALSE
    /\ activeVKey = {} /\ keyboardState = {} /\ joypadState = FALSE
    /\ keysDown = [k \in Keys |-> 0] /\ keysDownCount = 0
    /\ queue = [i \in Slots |-> Nothing] /\ writeCursor = 0 /\ readCursor = 0
    /\ at = [ui |-> "idle", emu |-> "binds"]
    /\ evt = [t \in Writers |-> Nothing]
    /\ cur = [t \in Writers |-> 0] /\ next = [t \in Writers |-> 0]
    /\ back = [t \in Writers |-> "idle"] /\ raced = {}
    /\ lastval = FALSE /\ osdLastval = FALSE /\ toRelease = 1 /\ onlyPhysical = FALSE
    /\ afterRelease = "binds"
    /\ intercept = FALSE /\ interceptNext = FALSE /\ firstTime = FALSE
    /\ reader = "look" /\ taken = Nothing /\ machine = {}
    /\ timesFull = 0

-----------------------------------------------------------------------------
(* DBP_QueueEvent, and the bookkeeping of its callers just before it.  No   *)
(* lock keeps the two writers apart, and what they did at once is noted:    *)
(* "call", both were in DBP_QueueEvent; "key", with events of one key;      *)
(* "ring", both had read the cursors and not yet moved the writer's on.     *)
AtRing == {"collapse", "write", "advance"}
Within == {"count", "cursors"} \cup AtRing
Races == {"call", "key", "ring"}
Other(t) == CHOOSE u \in Writers : u # t
MoreInputs == inputs < IF raced = {} THEN MaxInputs ELSE RacedInputs
MayFill == timesFull < IF raced = {} THEN MaxFull ELSE RacedFull

Count(k) == keysDown[k] % DBP_DOWN_BY_KEYBOARD
ByKeyboard(k) == keysDown[k] >= DBP_DOWN_BY_KEYBOARD

(* t goes on with DBP_QueueEvent for e, and then at b.                      *)
Queue(t, e, b) ==
    /\ raced' = raced \cup IF at[Other(t)] \notin Within THEN {}
                            ELSE IF evt[Other(t)].key = e.key THEN {"call", "key"} ELSE {"call"}
    /\ evt' = [evt EXCEPT ![t] = e] /\ back' = [back EXCEPT ![t] = b]
    /\ at' = [at EXCEPT ![t] = "count"]
    /\ UNCHANGED <<cur, next>>

Goto(t, l) == at' = [at EXCEPT ![t] = l] /\ UNCHANGED <<evt, cur, next, back, raced>>

(* The call is over, and its local variables gone.                          *)
Return(t) ==
    /\ at' = [at EXCEPT ![t] = back[t]] /\ evt' = [evt EXCEPT ![t] = Nothing]
    /\ cur' = [cur EXCEPT ![t] = 0] /\ next' = [next EXCEPT ![t] = 0]
    /\ back' = [back EXCEPT ![t] = "idle"] /\ UNCHANGED raced

(* dbp_keys_down_count becomes n, unless the other writer reads it now and  *)
(* writes it back later.                                                    *)
CountBecomes(t, n) ==
    \/ keysDownCount' = n
    \/ at[Other(t)] = "count" /\ keysDownCount' = keysDownCount

(* A key that is down already is pressed once more, or a key is released   *)
(* that something else still holds: no event.                              *)
CountPress(t) ==
    LET k == evt[t].key
        n == (keysDown[k] + 1) % 256
        first == n % DBP_DOWN_BY_KEYBOARD <= 1
    IN  /\ at[t] = "count" /\ evt[t].down
        /\ keysDown' = [keysDown EXCEPT ![k] = n]
        /\ IF first THEN Goto(t, "cursors") ELSE Return(t)
        /\ CountBecomes(t, IF first THEN keysDownCount + 1 ELSE keysDownCount)
        /\ UNCHANGED <<user, front, ring, emu, osd, dos, timesFull>>

CountRelease(t) ==
    LET k == evt[t].key
        last == Count(k) = 1
    IN  /\ at[t] = "count" /\ ~evt[t].down
        /\ keysDown' = [keysDown EXCEPT ![k] = IF Count(k) = 0 THEN @ ELSE @ - 1]
        /\ IF last THEN Goto(t, "cursors") ELSE Return(t)
        /\ CountBecomes(t, IF last THEN keysDownCount - 1 ELSE keysDownCount)
        /\ UNCHANGED <<user, front, ring, emu, osd, dos, timesFull>>

ReadCursors(t) ==
    LET n == (writeCursor + 1) % QueueSize
        full == n = readCursor
    IN  /\ at[t] = "cursors" /\ (full => MayFill)
        /\ cur' = [cur EXCEPT ![t] = writeCursor] /\ next' = [next EXCEPT ![t] = n]
        /\ at' = [at EXCEPT ![t] = IF full THEN "collapse" ELSE "write"]
        \* a full ring: the reader is stopped by making it look empty
        /\ writeCursor' = IF full THEN n ELSE writeCursor
        /\ timesFull' = IF full THEN timesFull + 1 ELSE timesFull
        /\ raced' = raced \cup IF at[Other(t)] \in AtRing THEN {"ring"} ELSE {}
        /\ UNCHANGED <<user, front, downs, queue, readCursor, evt, back, emu, osd, dos>>

(* Looking back from the newest event, the first that has the type of the  *)
(* new event or of an older one: it goes itself if it is like the new one,  *)
(* else the nearest of the older ones goes.  If there is none, the oldest   *)
(* goes: it is moved to the slot before (0).                                *)
Removed(pending, e) ==
    LET alike(i) == {j \in 1 .. i - 1 : pending[j].down = pending[i].down}
                    \cup {j \in {i} : pending[i].down = e.down}
        matched == {i \in 1 .. Len(pending) : alike(i) # {}}
    IN  IF matched = {} THEN 0 ELSE Max(alike(Max(matched)))

SlotOf(t, i) == (next[t] + i - 1) % QueueSize    \* of the i-th oldest event
FullRing(t) == [i \in 1 .. QueueSize - 1 |-> queue[SlotOf(t, i)]]

Collapse(t) ==
    LET gone == Removed(FullRing(t), evt[t])
    IN  /\ at[t] = "collapse"
        /\ queue' = [s \in Slots |->
                        IF \E i \in gone .. QueueSize - 2 : s = SlotOf(t, i)
                        THEN queue[(s + 1) % QueueSize] ELSE queue[s]]
        /\ next' = [next EXCEPT ![t] = cur[t]]
        /\ cur' = [cur EXCEPT ![t] = (@ + QueueSize - 1) % QueueSize]
        /\ at' = [at EXCEPT ![t] = "write"]
        /\ UNCHANGED <<user, front, downs, writeCursor, readCursor, evt, back, raced, emu,
                       osd, dos, timesFull>>

(* Mutant of WriteSlot: the event goes one slot too far.                    *)
WriteNext(t) ==
    /\ at[t] = "write"
    /\ queue' = [queue EXCEPT ![next[t]] = evt[t]]
    /\ Goto(t, "advance")
    /\ UNCHANGED <<user, front, downs, writeCursor, readCursor, emu, osd, dos, timesFull>>

WriteSlot(t) ==
    /\ at[t] = "write"
    /\ queue' = [queue EXCEPT ![cur[t]] = evt[t]]
    /\ Goto(t, "advance")
    /\ UNCHANGED <<user, front, downs, writeCursor, readCursor, emu, osd, dos, timesFull>>

AdvanceCursor(t) ==
    /\ at[t] = "advance"
    /\ writeCursor' = next[t]
    /\ Return(t)
    /\ UNCHANGED <<user, front, downs, queue, readCursor, emu, osd, dos, timesFull>>

QueueStep(t) == CountPress(t) \/ CountRelease(t) \/ ReadCursors(t)
                \/ Collapse(t) \/ WriteSlot(t) \/ AdvanceCursor(t)

-----------------------------------------------------------------------------
(* UI thread: the window's key events (OnKeyEvent), the polls of a round    *)
(* (PollKeyboard, the gamepad), and the core's keyboard_event.              *)
SetKeyState(k, down) ==
    /\ keyboardState' = IF down THEN keyboardState \cup {k} ELSE keyboardState \ {k}
    /\ evt' = [evt EXCEPT !["ui"] = [down |-> down, key |-> k]]
    /\ at' = [at EXCEPT !["ui"] = "key"]
    /\ UNCHANGED <<joypadState, cur, next, back, raced>>

Input == at["ui"] = "idle" /\ MoreInputs /\ inputs' = inputs + 1
CoreSide == <<downs, ring, emu, osd, dos, timesFull>>

KeyDownEvent(k) ==    \* again and again while the key is held
    /\ Input /\ held' = held \cup {k}
    /\ activeVKey' = activeVKey \cup {VirtualKey(k)}
    /\ SetKeyState(k, TRUE)
    /\ UNCHANGED <<padHeld, CoreSide>>

KeyUpEvent(k) ==
    /\ Input /\ k \in held /\ held' = held \ {k}
    /\ activeVKey' = activeVKey \ {VirtualKey(k)}
    /\ SetKeyState(k, FALSE)
    /\ UNCHANGED <<padHeld, CoreSide>>

(* Another window has the focus, or the frontend's menu takes the event.    *)
LoseKeyUp(k) ==
    /\ Input /\ k \in held /\ held' = held \ {k}
    /\ UNCHANGED <<padHeld, front, writers, CoreSide>>

PadChange ==
    /\ Input /\ padHeld' = ~padHeld
    /\ UNCHANGED <<held, front, writers, CoreSide>>

Lost(v) == v \in activeVKey /\ \A k \in held : VirtualKey(k) # v

(* Mutant of PollKey: the key is noted as up and nobody told.               *)
PollUntold(v) ==
    /\ at["ui"] = "idle" /\ Lost(v)
    /\ activeVKey' = activeVKey \ {v}
    /\ UNCHANGED <<user, keyboardState, joypadState, writers, CoreSide>>

PollKey(v) ==
    /\ at["ui"] = "idle" /\ Lost(v)
    /\ activeVKey' = activeVKey \ {v}
    /\ SetKeyState(v, FALSE)    \* without a scan code: the first key of that virtual key
    /\ UNCHANGED <<user, CoreSide>>

(* Every round lets go of all buttons and sets those that are held; that    *)
(* the emulation thread looks in between is bounded.                        *)
ClearPads ==
    /\ Input /\ joypadState /\ \A v \in Keys : ~Lost(v)
    /\ joypadState' = FALSE
    /\ Goto("ui", "pads")
    /\ UNCHANGED <<held, padHeld, activeVKey, keyboardState, CoreSide>>

SetPads ==
    /\ \/ at["ui"] = "pads"
       \/ at["ui"] = "idle" /\ joypadState # padHeld /\ \A v \in Keys : ~Lost(v)
    /\ joypadState' = padHeld
    /\ Goto("ui", "idle")
    /\ UNCHANGED <<user, activeVKey, keyboardState, CoreSide>>

(* Mutant of keyboard_event: a press is not marked as the keyboard's.       *)
EventUnmarked ==
    LET press == evt["ui"].down /\ keysDown[evt["ui"].key] = 0
    IN  /\ at["ui"] = "key"
        /\ IF press THEN Queue("ui", evt["ui"], "idle") ELSE Return("ui")
        /\ UNCHANGED <<user, front, downs, ring, emu, osd, dos, timesFull>>

keyboard_event ==
    LET k == evt["ui"].key
        press == evt["ui"].down /\ keysDown[k] = 0
        release == ~evt["ui"].down /\ ByKeyboard(k)
    IN  /\ at["ui"] = "key"
        /\ \/ /\ press \/ release
              /\ keysDown' = [keysDown EXCEPT ![k] = IF press THEN DBP_DOWN_BY_KEYBOARD ELSE 1]
              /\ Queue("ui", evt["ui"], "idle")
           \/ ~press /\ ~release /\ Return("ui") /\ UNCHANGED keysDown
        /\ UNCHANGED <<user, front, keysDownCount, ring, emu, osd, dos, timesFull>>

-----------------------------------------------------------------------------
(* Emulation thread: the part of retro_run that deals with the input.       *)
Update(val, lastvalue) ==    \* of the button's binding
    IF val # lastvalue THEN Queue("emu", [down |-> val, key |-> PadKey], "sticky")
                       ELSE Goto("emu", "sticky")

DBP_ReleaseKeyEvents(physical, after) ==
    /\ toRelease' = 1 /\ onlyPhysical' = physical /\ afterRelease' = after
    /\ Goto("emu", "release")

GameBindings ==
    /\ at["emu"] = "binds" /\ ~intercept
    /\ Update(joypadState, lastval) /\ lastval' = joypadState
    /\ UNCHANGED <<user, front, downs, ring, osdLastval, toRelease, onlyPhysical,
                   afterRelease, osd, dos, timesFull>>

OsdFirstTime ==
    /\ at["emu"] = "binds" /\ intercept /\ interceptNext /\ firstTime
    /\ firstTime' = FALSE /\ osdLastval' = joypadState
    /\ DBP_ReleaseKeyEvents(FALSE, "sticky")
    /\ UNCHANGED <<user, front, downs, ring, lastval, intercept, interceptNext, dos,
                   timesFull>>

OsdBindings ==
    /\ at["emu"] = "binds" /\ intercept /\ interceptNext /\ ~firstTime
    /\ Update(joypadState, osdLastval) /\ osdLastval' = joypadState
    /\ UNCHANGED <<user, front, downs, ring, lastval, toRelease, onlyPhysical,
                   afterRelease, osd, dos, timesFull>>

OsdClosing ==
    /\ at["emu"] = "binds" /\ intercept /\ ~interceptNext
    /\ lastval' = joypadState
    /\ DBP_ReleaseKeyEvents(FALSE, "closed")
    /\ UNCHANGED <<user, front, downs, ring, osdLastval, osd, dos, timesFull>>

OsdClosed ==
    /\ at["emu"] = "closed" /\ intercept' = interceptNext
    /\ Goto("emu", "binds")
    /\ UNCHANGED <<user, front, downs, ring, emu, interceptNext, firstTime, dos, timesFull>>

StickyKeys ==
    /\ at["emu"] = "sticky"
    /\ IF keysDownCount # 0
       THEN DBP_ReleaseKeyEvents(TRUE, "binds")
       ELSE Goto("emu", "binds") /\ UNCHANGED <<toRelease, onlyPhysical, afterRelease>>
    /\ UNCHANGED <<user, front, downs, ring, lastval, osdLastval, osd, dos, timesFull>>

(* Mutant of ReleaseKey: the key is cleared before the event is queued.     *)
ReleaseCleared ==
    LET k == toRelease
    IN  /\ at["emu"] = "release" /\ toRelease <= NumKeys /\ toRelease' = toRelease + 1
        /\ keysDown' = [keysDown EXCEPT ![k] = IF onlyPhysical THEN @ ELSE 0]
        /\ IF keysDown[k] = 0 \/ onlyPhysical
           THEN UNCHANGED writers
           ELSE Queue("emu", [down |-> FALSE, key |-> k], "release")
        /\ UNCHANGED <<user, front, keysDownCount, ring, lastval, osdLastval, onlyPhysical,
                       afterRelease, osd, dos, timesFull>>

ReleaseKey ==
    LET k == toRelease
        stays == \/ keysDown[k] = 0
                 \/ onlyPhysical /\ (~ByKeyboard(k) \/ k \in keyboardState)
    IN  /\ at["emu"] = "release" /\ toRelease <= NumKeys /\ toRelease' = toRelease + 1
        /\ \/ stays /\ UNCHANGED <<keysDown, writers>>
           \/ /\ ~stays /\ keysDown' = [keysDown EXCEPT ![k] = 1]
              /\ Queue("emu", [down |-> FALSE, key |-> k], "release")
        /\ UNCHANGED <<user, front, keysDownCount, ring, lastval, osdLastval, onlyPhysical,
                       afterRelease, osd, dos, timesFull>>

ReleaseDone ==
    /\ at["emu"] = "release" /\ toRelease > NumKeys
    /\ toRelease' = 1 /\ onlyPhysical' = FALSE /\ afterRelease' = "binds"
    /\ Goto("emu", afterRelease)
    /\ UNCHANGED <<user, front, downs, ring, lastval, osdLastval, osd, dos, timesFull>>

-----------------------------------------------------------------------------
(* DOSBox thread: GFX_Events, and the OSD being opened and closed.          *)
CopyEvent ==
    /\ reader = "look" /\ readCursor # writeCursor
    /\ taken' = queue[readCursor] /\ reader' = "take"
    /\ UNCHANGED <<user, front, downs, ring, writers, emu, osd, machine, timesFull>>

(* The OSD gets every event, the machine every release and, while the OSD   *)
(* is not there, every press.                                               *)
TakeEvent ==
    /\ reader = "take" /\ reader' = "look" /\ taken' = Nothing
    /\ readCursor' = (readCursor + 1) % QueueSize
    /\ machine' = IF ~taken.down THEN machine \ {taken.key}
                  ELSE IF interceptNext THEN machine ELSE machine \cup {taken.key}
    /\ UNCHANGED <<user, front, downs, queue, writeCursor, writers, emu, osd, timesFull>>

StartOSD ==
    /\ reader = "look" /\ ~interceptNext /\ MoreInputs /\ inputs' = inputs + 1
    /\ firstTime' = TRUE /\ intercept' = TRUE
    /\ reader' = "opening"
    /\ UNCHANGED <<held, padHeld, front, downs, ring, writers, emu, interceptNext, taken,
                   machine, timesFull>>

OSDStarted ==
    /\ reader = "opening" /\ reader' = "look"
    /\ interceptNext' = TRUE /\ machine' = {}
    /\ UNCHANGED <<user, front, downs, ring, writers, emu, intercept, firstTime, taken,
                   timesFull>>

CloseOSD ==
    /\ reader = "look" /\ interceptNext
    /\ interceptNext' = FALSE /\ machine' = {}
    /\ UNCHANGED <<user, front, downs, ring, writers, emu, intercept, firstTime, reader,
                   taken, timesFull>>

-----------------------------------------------------------------------------
UserStep == \/ \E k \in Typed : KeyDownEvent(k) \/ KeyUpEvent(k) \/ LoseKeyUp(k)
            \/ PadChange \/ ClearPads
UIStep == \/ \E v \in Keys : PollKey(v)
          \/ SetPads \/ keyboard_event \/ QueueStep("ui")
EmuStep == GameBindings \/ OsdFirstTime \/ OsdBindings \/ OsdClosing \/ OsdClosed
           \/ StickyKeys \/ ReleaseKey \/ ReleaseDone \/ QueueStep("emu")
OsdStep == StartOSD \/ OSDStarted \/ CloseOSD
Next == UserStep \/ UIStep \/ EmuStep \/ CopyEvent \/ TakeEvent \/ OsdStep

(* The threads run.  The user, a look of the emulation thread at a round's  *)
(* cleared buttons, and the OSD's opening and closing have no fairness.     *)
Fairness ==
    /\ WF_vars(UIStep)
    /\ WF_vars(EmuStep)
    /\ WF_vars(CopyEvent \/ TakeEvent \/ OSDStarted)

Spec == Init /\ [][Next]_vars /\ Fairness

-----------------------------------------------------------------------------
(* The types of the variables; the cursors stay in the ring.                *)
TypeOK ==
    /\ inputs \in 0 .. MaxInputs /\ held \subseteq Typed /\ padHeld \in BOOLEAN
    /\ activeVKey \subseteq Keys /\ keyboardState \subseteq Keys /\ joypadState \in BOOLEAN
    /\ keysDown \in [Keys -> 0 .. 255] /\ keysDownCount \in Int
    /\ queue \in [Slots -> Events \cup {Nothing}]
    /\ writeCursor \in Slots /\ readCursor \in Slots
    /\ at \in [Writers -> Within \cup {"idle", "key", "pads", "binds", "closed", "release",
                                         "sticky"}]
    /\ evt \in [Writers -> Events \cup {Nothing}]
    /\ cur \in [Writers -> Slots] /\ next \in [Writers -> Slots]
    /\ back \in [Writers -> {"idle", "sticky", "release"}] /\ raced \subseteq Races
    /\ lastval \in BOOLEAN /\ osdLastval \in BOOLEAN
    /\ toRelease \in 1 .. NumKeys + 1 /\ onlyPhysical \in BOOLEAN
    /\ afterRelease \in {"binds", "sticky", "closed"}
    /\ intercept \in BOOLEAN /\ interceptNext \in BOOLEAN /\ firstTime \in BOOLEAN
    /\ reader \in {"look", "take", "opening"} /\ taken \in Events \cup {Nothing}
    /\ machine \subseteq Keys /\ timesFull \in 0 .. MaxFull

NoCall == \A t \in Writers : at[t] \notin Within

Pending == [i \in 1 .. (writeCursor + QueueSize - readCursor) % QueueSize |->
              queue[(readCursor + i - 1) % QueueSize]]
Of(k) == {i \in DOMAIN Pending : Pending[i].key = k}

(* Is k down in the machine when it has taken all events of the ring?       *)
EndsDown(k) == IF Of(k) = {} THEN k \in machine ELSE Pending[Max(Of(k))].down

(* A key that stays down in the machine is one the core knows is down, so   *)
(* that an event that lets go of it is not thought a repetition: as long as *)
(* the ring was never full and the two writers were never at it, or in the  *)
(* call with the same key, at once, whatever the order in which the         *)
(* keyboard, the gamepad, the polls and the OSD press and release the key.  *)
NoStuckKey ==
    NoCall /\ timesFull = 0 /\ raced \subseteq {"call"} =>
        \A k \in Keys : EndsDown(k) => Count(k) > 0

(* DBP_QueueEvent's comment: "queue full, thread is probably busy           *)
(* (decompression?), try to collapse a duplicated event".  What is removed  *)
(* then makes no difference: what comes last for a key still does.          *)
CollapsesDuplicate ==
    \A t \in Writers : at[t] = "collapse" =>
        LET kept == RemoveAt(FullRing(t), Max({1, Removed(FullRing(t), evt[t])}))
            LastOf(k, s) == Max({0} \cup {i \in DOMAIN s : s[i].key = k})
        IN  \A k \in Keys \ {evt[t].key} :
                LastOf(k, FullRing(t)) > 0 =>
                    /\ LastOf(k, kept) > 0
                    /\ kept[LastOf(k, kept)] = FullRing(t)[LastOf(k, FullRing(t))]

(* A key that is down for the core has somebody who will let go of it: the  *)
(* keyboard (and so the search for sticky keys), the gamepad's binding, or  *)
(* the release of all keys that is under way; as long as the writers were   *)
(* never in DBP_QueueEvent with the same key at once, whatever they did to  *)
(* the ring.                                                                *)
KeysHaveOwner ==
    NoCall /\ "key" \notin raced => \A k \in Keys : Count(k) > 0 =>
                \/ ByKeyboard(k)
                \/ k = PadKey /\ (lastval \/ osdLastval)
                \/ at["emu"] = "release" /\ ~onlyPhysical /\ toRelease <= k

(* The keys of the core: all down for a reason.                             *)
KeysSound == TypeOK /\ KeysHaveOwner

(* Until it is full, or both writers are at it at once, the ring is a       *)
(* queue: a step leaves it alone, takes its oldest event, or adds one after *)
(* the newest.                                                              *)
RingIsQueue ==
    [][timesFull' = 0 /\ "ring" \notin raced' =>
          \/ Pending # <<>> /\ Pending' = Tail(Pending)
          \/ \E e \in Events : Pending' = Append(Pending, e)]_Pending

Wanted(k) == k \in held \/ (k = PadKey /\ padHeld)

(* A key that nobody holds any more is released in the machine in the end,  *)
(* even if its KeyUp never came, unless it is pressed again, the ring gets  *)
(* full or two calls meet: then even dbp_keys_down_count may be wrong, and  *)
(* nobody looks for the key.                                                *)
ReleasedInTheEnd ==
    \A k \in Keys :
        ~Wanted(k) ~> (k \notin machine \/ Wanted(k) \/ timesFull > 0 \/ raced # {})
=============================================================================
