-------------------------- MODULE InputEventsProofs --------------------------
(***************************************************************************)
(* Proofs about InputEvents for any number of keys, any ring and any       *)
(* binding of the pad: until two threads are in DBP_QueueEvent with the    *)
(* same key, what is down for the core has somebody who lets go of it;     *)
(* until the ring is full or two threads write it, it is a queue; and      *)
(* until any of that no key sticks.                                        *)
(***************************************************************************)
EXTENDS InputEvents, WellFoundedInduction, TLAPS

(* The types, in parts that different steps disturb. *)
UserTyped ==
    /\ inputs \in 0 .. MaxInputs /\ held \subseteq Typed /\ padHeld \in BOOLEAN
    /\ activeVKey \subseteq Keys /\ keyboardState \subseteq Keys /\ joypadState \in BOOLEAN
    /\ intercept \in BOOLEAN /\ interceptNext \in BOOLEAN /\ firstTime \in BOOLEAN

KeysTyped ==
    /\ keysDown \in [Keys -> 0 .. 255] /\ keysDownCount \in Int
    /\ lastval \in BOOLEAN /\ osdLastval \in BOOLEAN
    /\ toRelease \in 1 .. NumKeys + 1 /\ onlyPhysical \in BOOLEAN
    /\ afterRelease \in {"binds", "sticky", "closed"}

RingTyped ==
    /\ queue \in [Slots -> Events \cup {Nothing}]
    /\ writeCursor \in Slots /\ readCursor \in Slots
    /\ reader \in {"look", "take", "opening"} /\ taken \in Events \cup {Nothing}
    /\ machine \subseteq Keys /\ timesFull \in 0 .. MaxFull

WritersTyped ==
    /\ at \in [Writers -> Within \cup {"idle", "key", "pads", "binds", "closed", "release",
                                         "sticky"}]
    /\ evt \in [Writers -> Events \cup {Nothing}]
    /\ cur \in [Writers -> Slots] /\ next \in [Writers -> Slots]
    /\ back \in [Writers -> {"idle", "sticky", "release"}] /\ raced \subseteq Races

(* Who calls DBP_QueueEvent from where, and with what: the emulation       *)
(* thread presses no key but the pad's, when a binding has just noted it,  *)
(* and not while it releases all keys.                                     *)
Calling(t) == at[t] \in Within

Callers ==
    /\ at["ui"] \in {"idle", "key", "pads"} \cup Within
    /\ at["emu"] \in {"binds", "sticky", "release", "closed"} \cup Within
    /\ back["ui"] = "idle"
    /\ Calling("ui") \/ at["ui"] = "key" => evt["ui"] \in Events
    /\ Calling("emu") => back["emu"] \in {"sticky", "release"} /\ evt["emu"] \in Events
    /\ Calling("emu") /\ back["emu"] = "release" => ~evt["emu"].down
    /\ Calling("emu") /\ back["emu"] = "sticky" => evt["emu"].key = PadKey
    /\ Calling("emu") /\ evt["emu"].down => lastval \/ osdLastval

(* What is not noted has not happened: two calls for one key, two writers  *)
(* at the ring.                                                            *)
Apart ==
    /\ "key" \notin raced /\ Calling("ui") /\ Calling("emu") => evt["ui"].key # evt["emu"].key
    /\ "ring" \notin raced => at["ui"] \notin AtRing \/ at["emu"] \notin AtRing

Typing == UserTyped /\ KeysTyped /\ RingTyped /\ WritersTyped /\ Callers
-----------------------------------------------------------------------------
LEMMA OtherWriter == Other("ui") = "emu" /\ Other("emu") = "ui"
  BY DEF Other, Writers

(* What the assumptions say of the constants. *)
LEMMA ConstantTypes ==
    /\ NumKeys \in Nat /\ NumKeys > 0 /\ Typed \subseteq Keys /\ PadKey \in Keys
    /\ QueueSize \in Nat /\ QueueSize >= 2 /\ MaxInputs \in Nat /\ RacedInputs \in 0 .. MaxInputs
    /\ MaxFull \in Nat /\ RacedFull \in 0 .. MaxFull
  BY KeysAssumption, QueueAssumption, BoundsAssumption DEF Keys

(* A virtual key is a key. *)
LEMMA VirtualKeys == \A k \in Keys : VirtualKey(k) \in Keys
  BY ConstantTypes DEF VirtualKey, Keys

(* A cursor that goes around the ring stays in it. *)
LEMMA NextSlot ==
    \A s \in Slots : (s + 1) % QueueSize \in Slots /\ (s + QueueSize - 1) % QueueSize \in Slots
  BY ConstantTypes DEF Slots

(* The count in a byte: the flag apart. *)
LEMMA Bytes ==
    \A n \in 0 .. 255 : /\ (n + 1) % 256 \in 0 .. 255
                        /\ n % 128 \in 0 .. 127 /\ (n % 128 # 0 => n - 1 \in 0 .. 255)
  OBVIOUS

(* Whoever is in DBP_QueueEvent has an event. *)
LEMMA CallerEvent ==
    ASSUME Typing, NEW t \in Writers, Calling(t)
    PROVE  evt[t] \in Events /\ evt[t].key \in Keys /\ evt[t].down \in BOOLEAN
  BY DEF Typing, Callers, Writers, Events
-----------------------------------------------------------------------------
(* What the user, the frontend and the OSD keep has its type. *)
LEMMA UserTypedKept ==
    ASSUME Typing, Next PROVE UserTyped'
  <1> USE DEF Typing, user, front, osd
  <1>1. CASE UserStep
    <2> USE DEF Input, MoreInputs
    <2>1. CASE \E k \in Typed : KeyDownEvent(k) \/ KeyUpEvent(k) \/ LoseKeyUp(k)
      BY <2>1, ConstantTypes, VirtualKeys
         DEF KeyDownEvent, KeyUpEvent, LoseKeyUp, SetKeyState, CoreSide, UserTyped
    <2>2. CASE PadChange
      BY <2>2, ConstantTypes DEF PadChange, CoreSide, UserTyped
    <2>3. CASE ClearPads
      <3>1. inputs' \in 0 .. MaxInputs
        BY <2>3, ConstantTypes DEF ClearPads, UserTyped
      <3> QED
        BY <2>3, <3>1 DEF ClearPads, CoreSide, UserTyped
    <2> QED
      BY <1>1, <2>1, <2>2, <2>3 DEF UserStep
  <1>2. CASE UIStep
    BY <1>2 DEF UIStep, PollKey, SetKeyState, SetPads, keyboard_event, QueueStep, CountPress,
           CountRelease, ReadCursors, Collapse, WriteSlot, AdvanceCursor, CoreSide, UserTyped
  <1>3. CASE EmuStep
    <2>1. CASE QueueStep("emu")
      BY <2>1 DEF QueueStep, CountPress, CountRelease, ReadCursors, Collapse, WriteSlot,
             AdvanceCursor, UserTyped
    <2>2. CASE OsdFirstTime \/ OsdClosed
      BY <2>2 DEF OsdFirstTime, OsdClosed, UserTyped
    <2>3. CASE \/ GameBindings \/ OsdBindings \/ OsdClosing \/ StickyKeys \/ ReleaseKey
               \/ ReleaseDone
      BY <2>3 DEF GameBindings, OsdBindings, OsdClosing, StickyKeys, ReleaseKey, ReleaseDone,
             UserTyped
    <2> QED
      BY <1>3, <2>1, <2>2, <2>3 DEF EmuStep
  <1>4. CASE CopyEvent \/ TakeEvent \/ OSDStarted \/ CloseOSD
    BY <1>4 DEF CopyEvent, TakeEvent, OSDStarted, CloseOSD, UserTyped
  <1>5. CASE StartOSD
    <2>1. inputs' \in 0 .. MaxInputs
      BY <1>5, ConstantTypes DEF StartOSD, MoreInputs, UserTyped
    <2> QED
      BY <1>5, <2>1 DEF StartOSD, UserTyped
  <1> QED
    BY <1>1, <1>2, <1>3, <1>4, <1>5 DEF Next, OsdStep

(* The ring, its reader and the machine keep their types. *)
LEMMA RingTypedKept ==
    ASSUME Typing, Next PROVE RingTyped'
  <1> USE DEF Typing, ring, dos
  <1>1. ASSUME NEW t \in Writers, QueueStep(t) PROVE RingTyped'
    <2>1. CASE CountPress(t) \/ CountRelease(t)
      BY <2>1 DEF CountPress, CountRelease, RingTyped
    <2>2. CASE ReadCursors(t)
      BY <2>2, NextSlot, ConstantTypes DEF ReadCursors, MayFill, RingTyped
    <2>3. CASE Collapse(t)
      BY <2>3, NextSlot DEF Collapse, RingTyped
    <2>4. CASE WriteSlot(t)
      BY <2>4 DEF WriteSlot, WritersTyped, RingTyped
    <2>5. CASE AdvanceCursor(t)
      BY <2>5 DEF AdvanceCursor, WritersTyped, RingTyped
    <2> QED
      BY <1>1, <2>1, <2>2, <2>3, <2>4, <2>5 DEF QueueStep
  <1>2. CASE CopyEvent \/ TakeEvent \/ OsdStep
    BY <1>2, NextSlot DEF CopyEvent, TakeEvent, OsdStep, StartOSD, OSDStarted, CloseOSD,
           RingTyped, Events, Nothing
  <1>3. CASE UserStep \/ (\E v \in Keys : PollKey(v)) \/ SetPads
    BY <1>3 DEF UserStep, KeyDownEvent, KeyUpEvent, LoseKeyUp, PadChange, ClearPads, PollKey,
           SetPads, CoreSide, RingTyped
  <1>4. CASE keyboard_event
    BY <1>4 DEF keyboard_event, RingTyped
  <1>5. CASE \/ GameBindings \/ OsdFirstTime \/ OsdBindings \/ OsdClosing \/ OsdClosed
             \/ StickyKeys \/ ReleaseKey \/ ReleaseDone
    BY <1>5 DEF GameBindings, OsdFirstTime, OsdBindings, OsdClosing, OsdClosed, StickyKeys,
           ReleaseKey, ReleaseDone, RingTyped
  <1> QED
    BY <1>1, <1>2, <1>3, <1>4, <1>5 DEF Next, UIStep, EmuStep, Writers

(* So does the core's bookkeeping: the count and the flag stay in a byte. *)
LEMMA KeysTypedKept ==
    ASSUME Typing, Next PROVE KeysTyped'
  <1> USE DEF Typing, downs, emu
  <1>1. ASSUME NEW t \in Writers, QueueStep(t) PROVE KeysTyped'
    <2>1. CASE CountPress(t) \/ CountRelease(t)
      <3> DEFINE k == evt[t].key
      <3>1. k \in Keys
        BY <2>1, CallerEvent DEF CountPress, CountRelease, Calling, Within, AtRing
      <3>2. keysDown[k] \in 0 .. 255
        BY <3>1 DEF KeysTyped
      <3> HIDE DEF k
      <3>3. PICK n \in 0 .. 255 : keysDown' = [keysDown EXCEPT ![k] = n]
        <4>1. CASE CountPress(t)
          <5>1. keysDown' = [keysDown EXCEPT ![k] = (keysDown[k] + 1) % 256]
            BY <4>1 DEF CountPress, k
          <5>2. (keysDown[k] + 1) % 256 \in 0 .. 255
            BY <3>2, Bytes
          <5> QED
            BY <5>1, <5>2
        <4>2. CASE CountRelease(t) /\ Count(k) = 0
          <5>1. keysDown' = [keysDown EXCEPT ![k] = keysDown[k]]
            BY <4>2 DEF CountRelease, k
          <5> QED
            BY <3>2, <5>1
        <4>3. CASE CountRelease(t) /\ Count(k) # 0
          BY <4>3, <3>2, Bytes DEF CountRelease, Count, DBP_DOWN_BY_KEYBOARD, k
        <4> QED
          BY <2>1, <4>1, <4>2, <4>3
      <3>4. keysDownCount' \in Int
        BY <2>1 DEF CountPress, CountRelease, CountBecomes, KeysTyped
      <3>5. UNCHANGED emu
        BY <2>1 DEF CountPress, CountRelease
      <3> QED
        BY <3>3, <3>4, <3>5 DEF KeysTyped
    <2>2. CASE ReadCursors(t) \/ Collapse(t) \/ WriteSlot(t) \/ AdvanceCursor(t)
      BY <2>2 DEF ReadCursors, Collapse, WriteSlot, AdvanceCursor, KeysTyped
    <2> QED
      BY <1>1, <2>1, <2>2 DEF QueueStep
  <1>2. CASE keyboard_event
    <2>1. UNCHANGED <<keysDownCount, emu>>
      BY <1>2 DEF keyboard_event
    <2>2. \/ keysDown' = keysDown
          \/ \E n \in {1, 128} : keysDown' = [keysDown EXCEPT ![evt["ui"].key] = n]
      BY <1>2 DEF keyboard_event, DBP_DOWN_BY_KEYBOARD
    <2>3. keysDown' \in [Keys -> 0 .. 255]
      BY <2>2 DEF KeysTyped
    <2> QED
      BY <2>1, <2>3 DEF KeysTyped
  <1>3. CASE ReleaseKey
    <2>1. UNCHANGED <<keysDownCount, lastval, osdLastval, onlyPhysical, afterRelease>>
          /\ toRelease <= NumKeys /\ toRelease' = toRelease + 1
      BY <1>3 DEF ReleaseKey
    <2>2. keysDown' = keysDown \/ keysDown' = [keysDown EXCEPT ![toRelease] = 1]
      BY <1>3 DEF ReleaseKey
    <2>3. keysDown' \in [Keys -> 0 .. 255]
      BY <2>2 DEF KeysTyped
    <2>4. toRelease' \in 1 .. NumKeys + 1
      BY <2>1, ConstantTypes DEF KeysTyped
    <2> QED
      BY <2>1, <2>3, <2>4 DEF KeysTyped
  <1>4. CASE \/ GameBindings \/ OsdFirstTime \/ OsdBindings \/ OsdClosing \/ OsdClosed
             \/ StickyKeys \/ ReleaseDone
    <2>1. 1 \in 1 .. NumKeys + 1
      BY ConstantTypes
    <2>2. UNCHANGED <<keysDown, keysDownCount>>
      BY <1>4 DEF GameBindings, OsdFirstTime, OsdBindings, OsdClosing, OsdClosed, StickyKeys,
             ReleaseDone
    <2>3. lastval' \in BOOLEAN /\ osdLastval' \in BOOLEAN
      BY <1>4 DEF GameBindings, OsdFirstTime, OsdBindings, OsdClosing, OsdClosed, StickyKeys,
             ReleaseDone, UserTyped, KeysTyped
    <2>4. /\ toRelease' \in {toRelease, 1} /\ onlyPhysical' \in {onlyPhysical, TRUE, FALSE}
          /\ afterRelease' \in {afterRelease, "sticky", "closed", "binds"}
      BY <1>4 DEF GameBindings, OsdFirstTime, OsdBindings, OsdClosing, OsdClosed, StickyKeys,
             ReleaseDone, DBP_ReleaseKeyEvents
    <2> QED
      BY <2>1, <2>2, <2>3, <2>4 DEF KeysTyped
  <1>5. CASE UserStep \/ (\E v \in Keys : PollKey(v)) \/ SetPads
    <2>1. UNCHANGED <<keysDown, keysDownCount, emu>>
      BY <1>5 DEF UserStep, KeyDownEvent, KeyUpEvent, LoseKeyUp, PadChange, ClearPads, PollKey,
             SetPads, CoreSide
    <2> QED
      BY <2>1 DEF KeysTyped
  <1>6. CASE CopyEvent \/ TakeEvent \/ OsdStep
    BY <1>6 DEF CopyEvent, TakeEvent, OsdStep, StartOSD, OSDStarted, CloseOSD, KeysTyped
  <1> QED
    BY <1>1, <1>2, <1>3, <1>4, <1>5, <1>6 DEF Next, UIStep, EmuStep, Writers
-----------------------------------------------------------------------------
(* What two calls do at once is noted. *)
LEMMA QueueRaces ==
    ASSUME Typing, NEW t \in Writers, NEW e, NEW b, Queue(t, e, b)
    PROVE  /\ raced' \subseteq Races /\ raced \subseteq raced'
           /\ "key" \notin raced' => ~Calling(Other(t)) \/ evt[Other(t)].key # e.key
           /\ "ring" \in raced' => "ring" \in raced
  BY DEF Queue, Typing, WritersTyped, Calling, Races

(* A call begins. *)
LEMMA QueueKeeps ==
    ASSUME Typing, NEW t \in Writers, NEW e \in Events, NEW b, Queue(t, e, b),
           ~Calling(t), UNCHANGED <<lastval, osdLastval>>,
           \/ t = "ui" /\ b = "idle"
           \/ t = "emu" /\ b = "release" /\ ~e.down
    PROVE  WritersTyped' /\ Callers'
  <1>1. /\ evt' = [evt EXCEPT ![t] = e] /\ back' = [back EXCEPT ![t] = b]
        /\ at' = [at EXCEPT ![t] = "count"] /\ UNCHANGED <<cur, next>>
    BY DEF Queue
  <1>2. WritersTyped'
    BY <1>1, QueueRaces DEF Typing, WritersTyped, Within, AtRing
  <1>3. Callers'
    BY <1>1 DEF Typing, WritersTyped, Callers, Calling, Within, AtRing, Writers
  <1> QED
    BY <1>2, <1>3

(* The binding of the pad's button: the value is noted with the call. *)
LEMMA UpdateKeeps ==
    ASSUME Typing, NEW v \in BOOLEAN, NEW w \in BOOLEAN, Update(v, w),
           at["emu"] = "binds", v => (lastval' \/ osdLastval')
    PROVE  WritersTyped' /\ Callers'
  <1> DEFINE e == [down |-> v, key |-> PadKey]
  <1>1. CASE v # w
    <2>1. e \in Events /\ e.down = v /\ e.key = PadKey
      BY ConstantTypes DEF Events
    <2>2. Queue("emu", e, "sticky")
      BY <1>1 DEF Update
    <2> HIDE DEF e
    <2>3. /\ evt' = [evt EXCEPT !["emu"] = e] /\ back' = [back EXCEPT !["emu"] = "sticky"]
          /\ at' = [at EXCEPT !["emu"] = "count"] /\ UNCHANGED <<cur, next>>
      BY <2>2 DEF Queue
    <2>4. WritersTyped'
      BY <2>1, <2>2, <2>3, QueueRaces DEF Typing, WritersTyped, Within, AtRing, Writers
    <2>5. Callers'
      BY <2>1, <2>3 DEF Typing, WritersTyped, Callers, Calling, Within, AtRing, Writers
    <2> QED
      BY <2>4, <2>5
  <1>2. CASE v = w
    BY <1>2 DEF Update, Goto, Typing, WritersTyped, Callers, Calling, Within, AtRing, Writers
  <1> QED
    BY <1>1, <1>2

(* A call comes to its end, or is not made. *)
LEMMA ReturnKeeps ==
    ASSUME Typing, NEW t \in Writers, Return(t), UNCHANGED <<lastval, osdLastval>>,
           Calling(t) \/ (t = "ui" /\ at[t] = "key")
    PROVE  WritersTyped' /\ Callers'
  <1>1. back[t] \in {"idle", "sticky", "release"} /\ 0 \in Slots
    BY ConstantTypes DEF Typing, WritersTyped, Slots
  <1>2. WritersTyped'
    BY <1>1 DEF Return, Typing, WritersTyped, Within, AtRing
  <1>3. t = "ui" => /\ at'["ui"] = "idle" /\ back'["ui"] = "idle"
                    /\ UNCHANGED <<at["emu"], evt["emu"], back["emu"]>>
    BY DEF Return, Typing, WritersTyped, Callers, Writers
  <1>4. t = "emu" => /\ at'["emu"] \in {"sticky", "release"}
                     /\ UNCHANGED <<at["ui"], evt["ui"], back["ui"]>>
    BY DEF Return, Typing, WritersTyped, Callers, Writers, Calling, Within, AtRing
  <1>5. Callers'
    BY <1>3, <1>4 DEF Typing, Callers, Calling, Within, AtRing, Writers
  <1> QED
    BY <1>2, <1>5

(* The frontend has an event for the core. *)
LEMMA SetKeyStateKeeps ==
    ASSUME Typing, NEW k \in Keys, NEW down \in BOOLEAN, SetKeyState(k, down),
           at["ui"] = "idle", UNCHANGED <<lastval, osdLastval>>
    PROVE  WritersTyped' /\ Callers'
  <1> DEFINE e == [down |-> down, key |-> k]
  <1>1. /\ at' = [at EXCEPT !["ui"] = "key"] /\ evt' = [evt EXCEPT !["ui"] = e]
        /\ UNCHANGED <<cur, next, back, raced>>
    BY DEF SetKeyState
  <1>2. e \in Events
    BY DEF Events
  <1> HIDE DEF e
  <1>3. WritersTyped'
    BY <1>1, <1>2 DEF Typing, WritersTyped
  <1>4. Callers'
    BY <1>1, <1>2 DEF Typing, WritersTyped, Callers, Calling, Within, AtRing, Writers
  <1> QED
    BY <1>3, <1>4

(* Every step keeps the writers in their places. *)
LEMMA WritersKept ==
    ASSUME Typing, Next PROVE WritersTyped' /\ Callers'
  <1> USE DEF Typing, writers
  <1>1. ASSUME NEW t \in Writers, QueueStep(t) PROVE WritersTyped' /\ Callers'
    <2>1. CASE CountPress(t) \/ CountRelease(t) \/ AdvanceCursor(t)
      <3>1. Calling(t) /\ UNCHANGED emu /\ (Return(t) \/ Goto(t, "cursors"))
        BY <2>1 DEF CountPress, CountRelease, AdvanceCursor, Calling, Within, AtRing
      <3>2. CASE Goto(t, "cursors")
        BY <3>1, <3>2 DEF Goto, emu, WritersTyped, Callers, Calling, Within, AtRing, Writers
      <3> QED
        BY <3>1, <3>2, ReturnKeeps DEF emu
    <2>2. CASE ReadCursors(t)
      <3>1. raced' \subseteq Races
        BY <2>2 DEF ReadCursors, WritersTyped, Races
      <3>2. /\ UNCHANGED <<evt, back, emu>> /\ Calling(t)
            /\ \E l \in AtRing : at' = [at EXCEPT ![t] = l]
            /\ \E m \in Slots : cur' = [cur EXCEPT ![t] = m]
            /\ \E m \in Slots : next' = [next EXCEPT ![t] = m]
        BY <2>2, NextSlot DEF ReadCursors, RingTyped, Calling, Within, AtRing
      <3>3. WritersTyped'
        BY <3>1, <3>2 DEF WritersTyped, Within, AtRing
      <3>4. Callers'
        BY <3>2 DEF WritersTyped, Callers, Calling, emu, Within, AtRing, Writers
      <3> QED
        BY <3>3, <3>4
    <2>3. CASE Collapse(t)
      BY <2>3, NextSlot DEF Collapse, emu, WritersTyped, Callers, Calling, Within, AtRing, Writers
    <2>4. CASE WriteSlot(t)
      BY <2>4 DEF WriteSlot, Goto, emu, WritersTyped, Callers, Calling, Within, AtRing, Writers
    <2> QED
      BY <1>1, <2>1, <2>2, <2>3, <2>4 DEF QueueStep
  <1>2. CASE keyboard_event
    <2>1. at["ui"] = "key" /\ UNCHANGED emu /\ (Queue("ui", evt["ui"], "idle") \/ Return("ui"))
      BY <1>2 DEF keyboard_event
    <2>2. evt["ui"] \in Events /\ ~Calling("ui")
      BY <2>1 DEF Callers, Calling, Within, AtRing
    <2>3. CASE Queue("ui", evt["ui"], "idle")
      BY <2>1, <2>2, <2>3, QueueKeeps DEF emu, Writers
    <2>4. CASE Return("ui")
      BY <2>1, <2>4, ReturnKeeps DEF emu, Writers
    <2> QED
      BY <2>1, <2>3, <2>4
  <1>3. CASE ReleaseKey
    <2> DEFINE e == [down |-> FALSE, key |-> toRelease]
    <2>1. at["emu"] = "release" /\ toRelease <= NumKeys /\ UNCHANGED <<lastval, osdLastval>>
          /\ (UNCHANGED writers \/ Queue("emu", e, "release"))
      BY <1>3 DEF ReleaseKey
    <2>2. toRelease \in Keys
      BY <2>1, ConstantTypes DEF KeysTyped, Keys
    <2>3. e \in Events /\ ~e.down
      BY <2>2 DEF Events
    <2> HIDE DEF e
    <2>4. CASE UNCHANGED writers
      BY <2>1, <2>4 DEF WritersTyped, Callers, Calling, Within, AtRing
    <2>5. CASE Queue("emu", e, "release")
      BY <2>1, <2>3, <2>5, QueueKeeps DEF Calling, Within, AtRing, Writers
    <2> QED
      BY <2>1, <2>4, <2>5
  <1>4. CASE GameBindings
    BY <1>4, UpdateKeeps DEF GameBindings, UserTyped, KeysTyped
  <1>5. CASE OsdBindings
    BY <1>5, UpdateKeeps DEF OsdBindings, UserTyped, KeysTyped
  <1>6. CASE OsdFirstTime \/ OsdClosing \/ StickyKeys
    BY <1>6 DEF OsdFirstTime, OsdClosing, StickyKeys, DBP_ReleaseKeyEvents, Goto,
           WritersTyped, Callers, Calling, Within, AtRing, Writers
  <1>7. CASE OsdClosed \/ ReleaseDone
    BY <1>7 DEF OsdClosed, ReleaseDone, Goto, KeysTyped, WritersTyped, Callers, Calling, Within,
           AtRing, Writers
  <1>8. CASE UserStep
    <2>1. UNCHANGED emu
      BY <1>8 DEF UserStep, KeyDownEvent, KeyUpEvent, LoseKeyUp, PadChange, ClearPads, CoreSide
    <2>2. ASSUME NEW k \in Typed, KeyDownEvent(k) \/ KeyUpEvent(k)
          PROVE  WritersTyped' /\ Callers'
      <3>1. PICK down \in BOOLEAN : SetKeyState(k, down) /\ at["ui"] = "idle"
        BY <2>2 DEF KeyDownEvent, KeyUpEvent, Input
      <3> QED
        BY <2>1, <3>1, SetKeyStateKeeps, ConstantTypes DEF emu
    <2>3. ASSUME NEW k \in Typed, LoseKeyUp(k) PROVE WritersTyped' /\ Callers'
      BY <2>1, <2>3 DEF LoseKeyUp, emu, WritersTyped, Callers, Calling
    <2>4. CASE PadChange
      BY <2>1, <2>4 DEF PadChange, emu, WritersTyped, Callers, Calling
    <2>5. CASE ClearPads
      BY <2>1, <2>5 DEF ClearPads, Input, Goto, emu, WritersTyped, Callers, Calling, Within, AtRing,
             Writers
    <2> QED
      BY <1>8, <2>2, <2>3, <2>4, <2>5 DEF UserStep
  <1>9. CASE (\E v \in Keys : PollKey(v)) \/ SetPads
    <2>1. UNCHANGED emu
      BY <1>9 DEF PollKey, SetPads, CoreSide
    <2>2. ASSUME NEW v \in Keys, PollKey(v) PROVE WritersTyped' /\ Callers'
      BY <2>1, <2>2, SetKeyStateKeeps DEF PollKey, emu
    <2>3. CASE SetPads
      BY <2>1, <2>3 DEF SetPads, Goto, emu, WritersTyped, Callers, Calling, Within, AtRing, Writers
    <2> QED
      BY <1>9, <2>2, <2>3
  <1>10. CASE CopyEvent \/ TakeEvent \/ OsdStep
    BY <1>10 DEF CopyEvent, TakeEvent, OsdStep, StartOSD, OSDStarted, CloseOSD, emu,
           WritersTyped, Callers, Calling
  <1> QED
    BY <1>1, <1>2, <1>3, <1>4, <1>5, <1>6, <1>7, <1>8, <1>9, <1>10
       DEF Next, UIStep, EmuStep, Writers

(* A step in DBP_QueueEvent moves one writer on, and with the same event.  *)
LEMMA OneMoves ==
    ASSUME Typing, NEW t \in Writers, QueueStep(t)
    PROVE  /\ Calling(t) /\ at'[t] # "count" /\ (Calling(t)' => evt'[t] = evt[t])
           /\ at'[t] \in AtRing => at[t] \in AtRing \/ ReadCursors(t)
           /\ raced' = raced \/ ReadCursors(t)
           /\ \A u \in Writers : u # t => at'[u] = at[u] /\ evt'[u] = evt[u]
                                          /\ back'[u] = back[u]
  BY DEF QueueStep, CountPress, CountRelease, ReadCursors, Collapse, WriteSlot, AdvanceCursor,
         Goto, Return, Typing, WritersTyped, Calling, Within, AtRing

(* The other steps: nobody goes on at the ring, and who gets into the call *)
(* has called it.                                                          *)
LEMMA OneCalls ==
    ASSUME Typing, Next, \A t \in Writers : ~QueueStep(t)
    PROVE  /\ \A t \in Writers : at'[t] \in Within /\ at[t] \in Within => evt'[t] = evt[t]
           /\ \A t \in Writers : at'[t] \in AtRing => at[t] \in AtRing
           /\ \/ raced' = raced /\ \A t \in Writers : at'[t] \in Within => at[t] \in Within
              \/ \E t \in Writers, e \in Events : \E b : Queue(t, e, b)
  <1> USE DEF Typing
  <1>1. CASE keyboard_event
    <2>1. evt["ui"] \in Events /\ (Queue("ui", evt["ui"], "idle") \/ Return("ui"))
          /\ at["ui"] = "key"
      BY <1>1 DEF keyboard_event, Callers
    <2>2. CASE Queue("ui", evt["ui"], "idle")
      BY <2>1, <2>2 DEF Queue, WritersTyped, Within, AtRing, Writers
    <2>3. CASE Return("ui")
      BY <2>1, <2>3 DEF Return, WritersTyped, Callers, Within, AtRing, Writers
    <2> QED
      BY <2>1, <2>2, <2>3
  <1>2. CASE GameBindings \/ OsdBindings \/ ReleaseKey
    <2>1. PICK e, b : /\ at["emu"] \in {"binds", "release"} /\ e \in Events
                      /\ Queue("emu", e, b) \/ Goto("emu", "sticky") \/ UNCHANGED writers
      <3>1. CASE GameBindings
        <4>1. [down |-> joypadState, key |-> PadKey] \in Events
          BY ConstantTypes DEF UserTyped, Events
        <4> QED
          BY <3>1, <4>1 DEF GameBindings, Update
      <3>2. CASE OsdBindings
        <4>1. [down |-> joypadState, key |-> PadKey] \in Events
          BY ConstantTypes DEF UserTyped, Events
        <4> QED
          BY <3>2, <4>1 DEF OsdBindings, Update
      <3>3. CASE ReleaseKey
        <4>1. [down |-> FALSE, key |-> toRelease] \in Events
          BY <3>3, ConstantTypes DEF ReleaseKey, KeysTyped, Keys, Events
        <4> QED
          BY <3>3, <4>1 DEF ReleaseKey
      <3> QED
        BY <1>2, <3>1, <3>2, <3>3
    <2>2. CASE Queue("emu", e, b)
      BY <2>1, <2>2 DEF Queue, WritersTyped, Within, AtRing, Writers
    <2>3. CASE Goto("emu", "sticky") \/ UNCHANGED writers
      BY <2>1, <2>3 DEF Goto, writers, WritersTyped, Within, AtRing, Writers
    <2> QED
      BY <2>1, <2>2, <2>3
  <1>3. CASE OsdFirstTime \/ OsdClosing \/ OsdClosed \/ StickyKeys \/ ReleaseDone
    <2>1. \E l \in {"binds", "release", "sticky", "closed"} : Goto("emu", l)
      BY <1>3 DEF OsdFirstTime, OsdClosing, OsdClosed, StickyKeys, ReleaseDone,
             DBP_ReleaseKeyEvents, KeysTyped
    <2> QED
      BY <2>1 DEF Goto, WritersTyped, Within, AtRing, Writers
  <1>4. CASE UserStep \/ (\E v \in Keys : PollKey(v)) \/ SetPads
    <2>1. \/ UNCHANGED writers
          \/ Goto("ui", "pads") \/ Goto("ui", "idle")
          \/ \E k, down : SetKeyState(k, down)
      BY <1>4 DEF UserStep, KeyDownEvent, KeyUpEvent, LoseKeyUp, PadChange, ClearPads, PollKey,
             SetPads
    <2>2. CASE UNCHANGED writers
      BY <2>2 DEF writers
    <2>3. CASE Goto("ui", "pads") \/ Goto("ui", "idle")
      BY <2>3 DEF Goto, WritersTyped, Within, AtRing, Writers
    <2>4. CASE \E k, down : SetKeyState(k, down)
      BY <2>4 DEF SetKeyState, WritersTyped, Within, AtRing, Writers
    <2> QED
      BY <2>1, <2>2, <2>3, <2>4
  <1>5. CASE CopyEvent \/ TakeEvent \/ OsdStep
    BY <1>5 DEF CopyEvent, TakeEvent, OsdStep, StartOSD, OSDStarted, CloseOSD, writers
  <1> QED
    BY <1>1, <1>2, <1>3, <1>4, <1>5 DEF Next, UIStep, EmuStep, Writers

(* The history variable misses nothing, and forgets nothing. *)
LEMMA ApartKept ==
    ASSUME Typing, Apart, Next PROVE Apart' /\ raced \subseteq raced'
  <1>1. CASE \E t \in Writers : QueueStep(t)
    <2>1. PICK t \in Writers : QueueStep(t)
      BY <1>1
    <2>2. CASE ReadCursors(t)
      <3>1. raced' = raced \cup (IF at[Other(t)] \in AtRing THEN {"ring"} ELSE {})
        BY <2>2 DEF ReadCursors
      <3>2. "ring" \notin raced' => at'[Other(t)] \notin AtRing
        BY <2>1, <3>1, OneMoves, OtherWriter DEF Writers
      <3> QED
        BY <2>1, <3>1, <3>2, OneMoves, OtherWriter DEF Apart, Calling, Writers
    <2>3. CASE ~ReadCursors(t)
      BY <2>1, <2>3, OneMoves DEF Apart, Calling, Writers
    <2> QED
      BY <2>2, <2>3
  <1>2. CASE \A t \in Writers : ~QueueStep(t)
    <2>1. ASSUME NEW t \in Writers, NEW e \in Events, NEW b, Queue(t, e, b)
          PROVE  Apart' /\ raced \subseteq raced'
      <3>1. /\ evt'[t] = e /\ at'[t] = "count"
            /\ \A u \in Writers : u # t => at'[u] = at[u] /\ evt'[u] = evt[u]
        BY <2>1 DEF Queue, Typing, WritersTyped
      <3>2. /\ raced \subseteq raced' /\ ("ring" \in raced' => "ring" \in raced)
            /\ "key" \notin raced' => ~Calling(Other(t)) \/ evt[Other(t)].key # e.key
        BY <2>1, QueueRaces
      <3> QED
        BY <3>1, <3>2, OtherWriter DEF Apart, Calling, AtRing, Writers
    <2>2. CASE raced' = raced /\ \A t \in Writers : at'[t] \in Within => at[t] \in Within
      BY <1>2, <2>2, OneCalls DEF Apart, Calling, Writers
    <2> QED
      BY <1>2, <2>1, <2>2, OneCalls
  <1> QED
    BY <1>1, <1>2
-----------------------------------------------------------------------------
(* A key between keyboard_event, or a binding, and the count of            *)
(* DBP_QueueEvent.                                                         *)
Counting(t, k, down) == at[t] = "count" /\ evt[t].key = k /\ evt[t].down = down
Pressing(k) == \E t \in Writers : Counting(t, k, TRUE)
Releasing(k) == \E t \in Writers : Counting(t, k, FALSE)

(* DBP_ReleaseKeyEvents is still to come to the key. *)
ReleaseAll(k) ==
    /\ at["emu"] = "release" \/ (Calling("emu") /\ back["emu"] = "release")
    /\ ~onlyPhysical /\ toRelease <= k

One(b) == IF b THEN 1 ELSE 0
OwnersOf(k) == One(ByKeyboard(k)) + One(k = PadKey /\ lastval) + One(k = PadKey /\ osdLastval)

(* A key is not counted more often than it has owners, the press that is   *)
(* about to be counted included and the release that is not; except for    *)
(* the keys that are all about to be released.  So the count stays far     *)
(* from the flag.  A press by the keyboard is the first.                   *)
Owned(k) ==
    /\ Count(k) <= 3
    /\ ReleaseAll(k) \/ Count(k) + One(Pressing(k)) <= OwnersOf(k) + One(Releasing(k))
    /\ Counting("ui", k, TRUE) => keysDown[k] = 128

AllOwned == \A k \in Keys : Owned(k)
-----------------------------------------------------------------------------
(* The weight of a condition. *)
LEMMA OneTypes == ASSUME NEW b \in BOOLEAN PROVE One(b) \in {0, 1} /\ (b <=> One(b) = 1)
  BY DEF One

(* The byte of a key is its count and its flag. *)
LEMMA CountTypes ==
    ASSUME Typing, NEW k \in Keys
    PROVE  /\ keysDown[k] \in 0 .. 255 /\ Count(k) \in 0 .. 127
           /\ keysDown[k] = Count(k) + (IF ByKeyboard(k) THEN 128 ELSE 0)
  BY DEF Typing, KeysTyped, Count, ByKeyboard, DBP_DOWN_BY_KEYBOARD

(* A key has at most three owners. *)
LEMMA OwnersTypes == ASSUME NEW k PROVE OwnersOf(k) \in Nat /\ OwnersOf(k) <= 3
  BY DEF OwnersOf, One

(* What leaves a key alone, but for the calls, keeps it owned. *)
LEMMA SameKey ==
    ASSUME Typing, NEW k \in Keys, Owned(k),
           keysDown'[k] = keysDown[k], k = PadKey => UNCHANGED <<lastval, osdLastval>>,
           ReleaseAll(k) => ReleaseAll(k)', Pressing(k)' => Pressing(k),
           Releasing(k) => Releasing(k)', Counting("ui", k, TRUE)' => Counting("ui", k, TRUE)
    PROVE  Owned(k)'
  <1>1. /\ Count(k)' = Count(k) /\ OwnersOf(k)' = OwnersOf(k)
        /\ Count(k) \in Nat /\ OwnersOf(k) \in Nat
    BY CountTypes DEF Count, ByKeyboard, OwnersOf, One
  <1>2. One(Pressing(k))' <= One(Pressing(k)) /\ One(Releasing(k)) <= One(Releasing(k))'
        /\ One(Pressing(k)) \in Nat /\ One(Releasing(k)) \in Nat
        /\ One(Pressing(k))' \in Nat /\ One(Releasing(k))' \in Nat
    BY DEF One
  <1>3. Count(k)' <= 3
    BY <1>1 DEF Owned
  <1>4. CASE ReleaseAll(k)
    BY <1>3, <1>4 DEF Owned
  <1>5. CASE ~ReleaseAll(k)
    <2>1. Count(k) + One(Pressing(k)) <= OwnersOf(k) + One(Releasing(k))
      BY <1>5 DEF Owned
    <2>2. Count(k)' + One(Pressing(k))' <= OwnersOf(k)' + One(Releasing(k))'
      BY <2>1, <1>1, <1>2
    <2>3. Counting("ui", k, TRUE)' => keysDown'[k] = 128
      BY DEF Owned
    <2> QED
      BY <1>3, <2>2, <2>3 DEF Owned
  <1> QED
    BY <1>4, <1>5

(* So does a step outside of the calls. *)
LEMMA OwnedOutside ==
    ASSUME Typing, AllOwned,
           UNCHANGED <<keysDown, lastval, osdLastval>>,
           \A t \in Writers : at'[t] = "count" => at[t] = "count" /\ evt'[t] = evt[t],
           \A t \in Writers : at[t] = "count" => at'[t] = "count" /\ evt'[t] = evt[t],
           \A k \in Keys : ReleaseAll(k) => ReleaseAll(k)'
    PROVE  AllOwned'
  <1> SUFFICES ASSUME NEW k \in Keys PROVE Owned(k)'
    BY DEF AllOwned, Keys
  <1>1. \A t \in Writers, down \in BOOLEAN : Counting(t, k, down)' <=> Counting(t, k, down)
    BY DEF Counting
  <1>2. Pressing(k)' => Pressing(k)
    BY <1>1 DEF Pressing
  <1>3. Releasing(k) => Releasing(k)'
    BY <1>1 DEF Releasing
  <1> QED
    BY <1>1, <1>2, <1>3, SameKey DEF AllOwned, Writers

(* A step in DBP_QueueEvent: a release of all keys goes on afterwards. *)
LEMMA CallLocal ==
    ASSUME Typing, NEW t \in Writers, QueueStep(t), NEW k \in Keys, ReleaseAll(k)
    PROVE  ReleaseAll(k)'
  <1>1. Calling(t) /\ UNCHANGED emu
    BY DEF QueueStep, CountPress, CountRelease, ReadCursors, Collapse, WriteSlot,
           AdvanceCursor, Calling, Within, AtRing
  <1>2. \/ Return(t)
        \/ /\ UNCHANGED back
           /\ \E l \in {"cursors", "collapse", "write", "advance"} : at' = [at EXCEPT ![t] = l]
    BY DEF QueueStep, CountPress, CountRelease, ReadCursors, Collapse, WriteSlot,
           AdvanceCursor, Goto
  <1>3. CASE t = "ui"
    BY <1>1, <1>2, <1>3 DEF ReleaseAll, Return, emu, Typing, WritersTyped, Calling, Writers
  <1>4. CASE t = "emu"
    BY <1>1, <1>2, <1>4 DEF ReleaseAll, Return, emu, Typing, WritersTyped, Calling, Within, AtRing,
       Writers
  <1> QED
    BY <1>3, <1>4 DEF Writers

(* The key is counted: nobody else is there with it. *)
LEMMA CountOwned ==
    ASSUME Typing, Apart, "key" \notin raced, AllOwned, NEW t \in Writers,
           CountPress(t) \/ CountRelease(t)
    PROVE  AllOwned'
  <1>1. QueueStep(t) /\ Calling(t) /\ UNCHANGED <<lastval, osdLastval>> /\ at[t] = "count"
    BY DEF QueueStep, CountPress, CountRelease, Calling, Within, AtRing, emu
  <1>2. PICK j \in Keys : j = evt[t].key /\ evt[t].down \in BOOLEAN
    BY <1>1, CallerEvent
  <1>3. /\ at'[t] # "count"
        /\ \A u \in Writers : u # t => at'[u] = at[u] /\ evt'[u] = evt[u]
        /\ \A u \in Writers : u # t /\ at[u] = "count" => evt[u].key # j
    BY <1>1, <1>2, OneMoves DEF Apart, Calling, Within, AtRing, Writers
  <1>4. ~Pressing(j)' /\ ~Releasing(j)' /\ ~Counting("ui", j, TRUE)'
    BY <1>3 DEF Pressing, Releasing, Counting, Writers
  <1>5. ASSUME NEW k \in Keys, k # j PROVE Owned(k)'
    <2>1. keysDown'[k] = keysDown[k]
      BY <1>2, <1>5 DEF CountPress, CountRelease, Typing, KeysTyped
    <2>2. \A u \in Writers, down \in BOOLEAN : Counting(u, k, down)' <=> Counting(u, k, down)
      BY <1>2, <1>3, <1>5 DEF Counting
    <2>3. /\ Pressing(k)' => Pressing(k)
          /\ Releasing(k) => Releasing(k)'
          /\ Counting("ui", k, TRUE)' => Counting("ui", k, TRUE)
      BY <2>2 DEF Pressing, Releasing, Writers
    <2> QED
      BY <1>1, <2>1, <2>3, CallLocal, SameKey DEF AllOwned
  <1>6. keysDown[j] \in 0 .. 255 /\ Owned(j) /\ (ReleaseAll(j) => ReleaseAll(j)')
    BY <1>1, <1>2, CountTypes, CallLocal DEF AllOwned
  <1>7. Pressing(j) <=> evt[t].down
    BY <1>1, <1>2, <1>3 DEF Pressing, Counting
  <1>8. Releasing(j) <=> ~evt[t].down
    BY <1>1, <1>2, <1>3 DEF Releasing, Counting
  <1>9. /\ One(Pressing(j)) = IF evt[t].down THEN 1 ELSE 0
        /\ One(Releasing(j)) = IF evt[t].down THEN 0 ELSE 1
        /\ One(Pressing(j))' = 0 /\ One(Releasing(j))' = 0
    BY <1>4, <1>7, <1>8 DEF One
  <1>10. ReleaseAll(j) \/ Count(j) + One(Pressing(j)) <= OwnersOf(j) + One(Releasing(j))
    BY <1>6 DEF Owned
  <1>11. CASE CountPress(t)
    <2>1. evt[t].down /\ keysDown'[j] = (keysDown[j] + 1) % 256
      BY <1>2, <1>11 DEF CountPress, Typing, KeysTyped
    <2>2. Count(j) <= 2
      <3>1. CASE t = "ui"
        BY <1>1, <1>2, <1>6, <2>1, <3>1 DEF Owned, Counting, Count, DBP_DOWN_BY_KEYBOARD
      <3>2. CASE t = "emu"
        <4>1. ~ReleaseAll(j)
          BY <1>1, <2>1, <3>2 DEF ReleaseAll, Typing, Callers
        <4>2. Count(j) + 1 <= OwnersOf(j)
          BY <1>9, <1>10, <2>1, <4>1, OwnersTypes
        <4> QED
          BY <4>2, CountTypes, OwnersTypes
      <3> QED
        BY <3>1, <3>2 DEF Writers
    <2>3. Count(j)' = Count(j) + 1 /\ (ByKeyboard(j)' <=> ByKeyboard(j))
      BY <1>6, <2>1, <2>2 DEF Count, ByKeyboard, DBP_DOWN_BY_KEYBOARD
    <2>4. OwnersOf(j)' = OwnersOf(j)
      BY <1>1, <2>3 DEF OwnersOf, One
    <2>5. ReleaseAll(j) \/ Count(j) + 1 <= OwnersOf(j)
      BY <1>9, <1>10, <2>1, OwnersTypes
    <2>6. /\ Count(j)' <= 3
          /\ \/ ReleaseAll(j)'
             \/ Count(j)' + One(Pressing(j))' <= OwnersOf(j)' + One(Releasing(j))'
      BY <1>6, <1>9, <2>2, <2>3, <2>4, <2>5, CountTypes, OwnersTypes
    <2>7. Owned(j)'
      BY <1>4, <2>6 DEF Owned
    <2> QED
      BY <1>5, <2>7 DEF AllOwned, Keys
  <1>12. CASE CountRelease(t)
    <2>1. ~evt[t].down /\ keysDown'[j] = IF Count(j) = 0 THEN keysDown[j] ELSE keysDown[j] - 1
      BY <1>2, <1>12 DEF CountRelease, Typing, KeysTyped
    <2>2. /\ Count(j)' = IF Count(j) = 0 THEN 0 ELSE Count(j) - 1
          /\ ByKeyboard(j)' <=> ByKeyboard(j)
      BY <1>6, <2>1 DEF Count, ByKeyboard, DBP_DOWN_BY_KEYBOARD
    <2>3. OwnersOf(j)' = OwnersOf(j)
      BY <1>1, <2>2 DEF OwnersOf, One
    <2>4. ReleaseAll(j) \/ Count(j) <= OwnersOf(j) + 1
      BY <1>9, <1>10, <2>1, CountTypes, OwnersTypes
    <2>5. /\ Count(j)' <= 3
          /\ \/ ReleaseAll(j)'
             \/ Count(j)' + One(Pressing(j))' <= OwnersOf(j)' + One(Releasing(j))'
      BY <1>6, <1>9, <2>2, <2>3, <2>4, CountTypes, OwnersTypes DEF Owned
    <2>6. Owned(j)'
      BY <1>4, <2>5 DEF Owned
    <2> QED
      BY <1>5, <2>6 DEF AllOwned, Keys
  <1> QED
    BY <1>11, <1>12

(* A call begins: nobody was there with the key before, which is pressed   *)
(* or released now; the other keys are as they were.                       *)
LEMMA CallBegins ==
    ASSUME Typing, "key" \notin raced', NEW t \in Writers, NEW e \in Events, NEW b,
           Queue(t, e, b), ~Calling(t), NEW k \in Keys
    PROVE  /\ k = e.key => /\ ~Pressing(k) /\ ~Releasing(k)
                           /\ Pressing(k)' <=> e.down
                           /\ Releasing(k)' <=> ~e.down
                           /\ Counting("ui", k, TRUE)' => t = "ui" /\ e.down
           /\ k # e.key => /\ Pressing(k)' <=> Pressing(k)
                           /\ Releasing(k)' <=> Releasing(k)
                           /\ Counting("ui", k, TRUE)' <=> Counting("ui", k, TRUE)
           /\ t = "ui" => UNCHANGED <<at["emu"], back["emu"]>>
           /\ t = "emu" => at'["emu"] = "count" /\ back'["emu"] = b
  <1>1. ~Calling(Other(t)) \/ evt[Other(t)].key # e.key
    BY QueueRaces
  <1>2. /\ at'[t] = "count" /\ evt'[t] = e /\ back'[t] = b
        /\ \A u \in Writers : u # t => at'[u] = at[u] /\ back'[u] = back[u] /\ evt'[u] = evt[u]
    BY DEF Queue, Typing, WritersTyped
  <1>3. /\ at[t] # "count" /\ e.down \in BOOLEAN
        /\ \A u \in Writers : u # t /\ at[u] = "count" => evt[u].key # e.key
    BY <1>1, OtherWriter DEF Calling, Within, AtRing, Events, Writers
  <1>4. CASE k = e.key
    <2>1. \A u \in Writers, down \in BOOLEAN :
              /\ ~Counting(u, k, down)
              /\ Counting(u, k, down)' <=> u = t /\ down = e.down
      BY <1>2, <1>3, <1>4 DEF Counting
    <2> QED
      BY <1>2, <1>3, <1>4, <2>1 DEF Pressing, Releasing, Writers
  <1>5. CASE k # e.key
    <2>1. \A u \in Writers, down \in BOOLEAN : Counting(u, k, down)' <=> Counting(u, k, down)
      BY <1>2, <1>3, <1>5 DEF Counting
    <2> QED
      BY <1>2, <1>5, <2>1 DEF Pressing, Releasing, Writers
  <1> QED
    BY <1>4, <1>5

(* A press by the keyboard makes it an owner, a release is the last. *)
LEMMA KeyboardOwned ==
    ASSUME Typing, "key" \notin raced', AllOwned, keyboard_event PROVE AllOwned'
  <1>1. evt["ui"] \in Events /\ at["ui"] = "key" /\ UNCHANGED emu
    BY DEF keyboard_event, Typing, Callers
  <1>2. PICK j \in Keys : j = evt["ui"].key /\ evt["ui"].down \in BOOLEAN
    BY <1>1 DEF Events
  <1>3. CASE Return("ui") /\ UNCHANGED keysDown
    <2>1. \A u \in Writers : at'[u] = "count" <=> at[u] = "count"
      BY <1>1, <1>3 DEF Return, Typing, WritersTyped, Callers, Writers
    <2>2. \A u \in Writers : at[u] = "count" => evt'[u] = evt[u]
      BY <1>1, <1>3 DEF Return, Typing, WritersTyped, Writers
    <2>3. UNCHANGED <<at["emu"], back["emu"]>>
      BY <1>3 DEF Return, Typing, WritersTyped, Writers
    <2>4. \A k \in Keys : ReleaseAll(k) => ReleaseAll(k)'
      BY <1>1, <2>3 DEF ReleaseAll, Calling, emu
    <2> QED
      BY <1>1, <1>3, <2>1, <2>2, <2>4, OwnedOutside DEF emu
  <1>4. CASE ~(Return("ui") /\ UNCHANGED keysDown)
    <2>1. Queue("ui", evt["ui"], "idle") /\ ~Calling("ui")
      BY <1>1, <1>4 DEF keyboard_event, Calling, Within, AtRing
    <2>2. \/ evt["ui"].down /\ keysDown[j] = 0 /\ keysDown'[j] = 128
          \/ ~evt["ui"].down /\ keysDown'[j] = 1
      BY <1>2, <1>4 DEF keyboard_event, Typing, KeysTyped, DBP_DOWN_BY_KEYBOARD
    <2>3. \A k \in Keys : k # j => keysDown'[k] = keysDown[k]
      BY <1>2, <1>4 DEF keyboard_event, Typing, KeysTyped
    <2>4. ASSUME NEW k \in Keys PROVE ReleaseAll(k) => ReleaseAll(k)'
      BY <1>1, <2>1, CallBegins DEF ReleaseAll, Calling, emu, Writers
    <2>5. /\ Pressing(j)' <=> evt["ui"].down
          /\ Releasing(j)' <=> ~evt["ui"].down
          /\ Counting("ui", j, TRUE)' => evt["ui"].down
      <3> DEFINE e == evt["ui"]
      <3>1. e \in Events /\ Queue("ui", e, "idle") /\ ~Calling("ui") /\ j = e.key
        BY <1>1, <1>2, <2>1
      <3> HIDE DEF e
      <3>2. /\ Pressing(j)' <=> e.down
            /\ Releasing(j)' <=> ~e.down
            /\ Counting("ui", j, TRUE)' => e.down
        BY <3>1, CallBegins DEF Writers
      <3> QED
        BY <3>2 DEF e
    <2>6. ASSUME NEW k \in Keys, k # j PROVE Owned(k)'
      <3>1. /\ Pressing(k)' <=> Pressing(k)
            /\ Releasing(k)' <=> Releasing(k)
            /\ Counting("ui", k, TRUE)' <=> Counting("ui", k, TRUE)
        BY <1>1, <1>2, <2>1, <2>6, CallBegins DEF Writers
      <3> QED
        BY <1>1, <2>3, <2>4, <2>6, <3>1, SameKey DEF AllOwned, emu
    <2>7. Owned(j)'
      <3>1. /\ Pressing(j)' <=> evt["ui"].down
            /\ Releasing(j)' <=> ~evt["ui"].down
            /\ Counting("ui", j, TRUE)' => evt["ui"].down
        BY <2>5
      <3>2. Count(j)' = IF evt["ui"].down THEN 0 ELSE 1
        BY <2>2 DEF Count, DBP_DOWN_BY_KEYBOARD
      <3>3. evt["ui"].down => OwnersOf(j)' >= 1
        BY <2>2 DEF OwnersOf, One, ByKeyboard, DBP_DOWN_BY_KEYBOARD
      <3>4. OwnersOf(j)' \in Nat
        BY DEF OwnersOf, One
      <3>5. Count(j)' + One(Pressing(j))' <= OwnersOf(j)' + One(Releasing(j))'
        BY <1>2, <3>1, <3>2, <3>3, <3>4 DEF One
      <3>6. Count(j)' <= 3
        BY <3>2
      <3>7. Counting("ui", j, TRUE)' => keysDown'[j] = 128
        BY <2>2, <3>1
      <3> QED
        BY <3>5, <3>6, <3>7 DEF Owned
    <2> QED
      BY <2>6, <2>7 DEF AllOwned, Keys
  <1> QED
    BY <1>3, <1>4

(* DBP_ReleaseKeyEvents leaves the key it comes to with one release. *)
LEMMA ReleaseOwned ==
    ASSUME Typing, "key" \notin raced', AllOwned, ReleaseKey PROVE AllOwned'
  <1>1. /\ at["emu"] = "release" /\ toRelease <= NumKeys /\ toRelease' = toRelease + 1
        /\ UNCHANGED <<lastval, osdLastval, onlyPhysical>>
    BY DEF ReleaseKey
  <1>2. PICK j \in Keys : j = toRelease
    BY <1>1, ConstantTypes DEF Typing, KeysTyped, Keys
  <1>3. ~Calling("emu") /\ ~Counting("emu", j, TRUE)
    BY <1>1 DEF Calling, Within, AtRing, Counting
  <1>4. ASSUME NEW k \in Keys, k # j,
               at'["emu"] = "release" \/ (at'["emu"] = "count" /\ back'["emu"] = "release")
        PROVE  ReleaseAll(k) => ReleaseAll(k)'
    <2>1. toRelease <= k => toRelease' <= k
      BY <1>1, <1>2, <1>4, ConstantTypes DEF Keys
    <2> QED
      BY <1>1, <1>4, <2>1 DEF ReleaseAll, Calling, Within, AtRing
  <1>5. CASE (keysDown[j] = 0 \/ onlyPhysical) /\ UNCHANGED <<keysDown, writers>>
    <2>1. ASSUME NEW k \in Keys PROVE /\ Pressing(k)' <=> Pressing(k)
                                      /\ Releasing(k)' <=> Releasing(k)
                                      /\ Counting("ui", k, TRUE)' <=> Counting("ui", k, TRUE)
      BY <1>5 DEF Pressing, Releasing, Counting, writers
    <2>2. ASSUME NEW k \in Keys, k # j PROVE Owned(k)'
      <3>1. at'["emu"] = "release"
        BY <1>1, <1>5 DEF writers
      <3>2. ReleaseAll(k) => ReleaseAll(k)'
        BY <1>4, <2>2, <3>1
      <3> QED
        BY <1>1, <1>5, <2>1, <3>2, SameKey DEF AllOwned
    <2>3. CASE keysDown[j] = 0
      <3>1. Count(j)' = 0
        BY <1>5, <2>3 DEF Count, DBP_DOWN_BY_KEYBOARD
      <3>2. ~Counting("ui", j, TRUE)
        <4>1. Counting("ui", j, TRUE) => keysDown[j] = 128
          <5>1. Owned(j)
            BY DEF AllOwned
          <5> QED
            BY <5>1 DEF Owned
        <4>2. keysDown[j] # 128
          BY <2>3
        <4> QED
          BY <4>1, <4>2
      <3>3. ~Pressing(j)' /\ ~Counting("ui", j, TRUE)'
        BY <1>3, <2>1, <3>2 DEF Pressing, Writers
      <3>4. OwnersOf(j)' \in Nat /\ One(Releasing(j))' \in Nat /\ One(Pressing(j))' = 0
        BY <3>3 DEF OwnersOf, One
      <3>5. Count(j)' <= 3 /\ Count(j)' + One(Pressing(j))' <= OwnersOf(j)' + One(Releasing(j))'
        BY <3>1, <3>4
      <3>6. Owned(j)'
        BY <3>3, <3>5 DEF Owned
      <3> QED
        BY <2>2, <3>6 DEF AllOwned, Keys
    <2>4. CASE onlyPhysical
      <3>1. ~ReleaseAll(j)
        BY <2>4 DEF ReleaseAll
      <3>2. Owned(j)'
        BY <1>1, <1>5, <2>1, <3>1, SameKey DEF AllOwned
      <3> QED
        BY <2>2, <3>2 DEF AllOwned, Keys
    <2> QED
      BY <1>5, <2>3, <2>4
  <1>6. CASE keysDown' = [keysDown EXCEPT ![j] = 1]
             /\ Queue("emu", [down |-> FALSE, key |-> j], "release")
    <2> DEFINE e == [down |-> FALSE, key |-> j]
    <2>1. e \in Events /\ e.key = j /\ ~e.down
      BY DEF Events
    <2>2. Queue("emu", e, "release")
      BY <1>6
    <2> HIDE DEF e
    <2>3. keysDown'[j] = 1 /\ \A k \in Keys : k # j => keysDown'[k] = keysDown[k]
      BY <1>6 DEF Typing, KeysTyped
    <2>4. /\ ~Pressing(j)' /\ Releasing(j)' /\ ~Counting("ui", j, TRUE)'
          /\ at'["emu"] = "count" /\ back'["emu"] = "release"
      BY <1>3, <2>1, <2>2, CallBegins DEF Writers
    <2>5. ASSUME NEW k \in Keys, k # j PROVE Owned(k)'
      <3>1. /\ Pressing(k)' <=> Pressing(k)
            /\ Releasing(k)' <=> Releasing(k)
            /\ Counting("ui", k, TRUE)' <=> Counting("ui", k, TRUE)
        BY <1>3, <2>1, <2>2, <2>5, CallBegins DEF Writers
      <3> QED
        BY <1>1, <1>4, <2>3, <2>4, <2>5, <3>1, SameKey DEF AllOwned
    <2>6. Owned(j)'
      <3>1. Count(j)' = 1
        BY <2>3 DEF Count, DBP_DOWN_BY_KEYBOARD
      <3>2. One(Releasing(j))' = 1 /\ One(Pressing(j))' = 0
        <4>1. Releasing(j)' /\ ~Pressing(j)'
          BY <2>4
        <4> QED
          BY <4>1 DEF One
      <3>4. OwnersOf(j)' \in Nat
        BY DEF OwnersOf, One
      <3>3. Count(j)' <= 3 /\ Count(j)' + One(Pressing(j))' <= OwnersOf(j)' + One(Releasing(j))'
        BY <3>1, <3>2, <3>4
      <3> QED
        BY <2>4, <3>3 DEF Owned
    <2> QED
      BY <2>5, <2>6 DEF AllOwned, Keys
  <1> QED
    BY <1>2, <1>5, <1>6 DEF ReleaseKey

(* A binding of the pad is an owner from when it notes the press. *)
LEMMA UpdateOwned ==
    ASSUME Typing, "key" \notin raced', AllOwned, NEW v \in BOOLEAN, NEW w \in BOOLEAN,
           Update(v, w),
           at["emu"] = "binds", UNCHANGED <<keysDown, toRelease, onlyPhysical>>,
           \/ w = lastval /\ v = lastval' /\ UNCHANGED osdLastval
           \/ w = osdLastval /\ v = osdLastval' /\ UNCHANGED lastval
    PROVE  AllOwned'
  <1>1. ~Calling("emu") /\ \A k \in Keys : ~ReleaseAll(k)
    BY DEF Calling, Within, AtRing, ReleaseAll
  <1>2. CASE v = w
    <2>1. Goto("emu", "sticky") /\ UNCHANGED <<lastval, osdLastval>>
      BY <1>2 DEF Update
    <2>2. \A t \in Writers : (at'[t] = "count" <=> at[t] = "count") /\ evt'[t] = evt[t]
      BY <2>1 DEF Goto, Typing, WritersTyped
    <2> QED
      BY <1>1, <2>1, <2>2, OwnedOutside
  <1>3. CASE v # w
    <2> DEFINE e == [down |-> v, key |-> PadKey]
    <2>1. e \in Events /\ e.key = PadKey /\ e.down = v /\ PadKey \in Keys
      BY ConstantTypes DEF Events
    <2>2. Queue("emu", e, "sticky")
      BY <1>3 DEF Update
    <2> HIDE DEF e
    <2>3. /\ ~Pressing(PadKey) /\ ~Releasing(PadKey) /\ ~Counting("ui", PadKey, TRUE)'
          /\ Pressing(PadKey)' <=> v
          /\ Releasing(PadKey)' <=> ~v
      BY <1>1, <2>1, <2>2, CallBegins DEF Writers
    <2>4. ASSUME NEW k \in Keys, k # PadKey PROVE Owned(k)'
      <3>1. /\ Pressing(k)' <=> Pressing(k)
            /\ Releasing(k)' <=> Releasing(k)
            /\ Counting("ui", k, TRUE)' <=> Counting("ui", k, TRUE)
        BY <1>1, <2>1, <2>2, <2>4, CallBegins DEF Writers
      <3> QED
        BY <1>1, <2>4, <3>1, SameKey DEF AllOwned
    <2>5. Owned(PadKey)'
      <3>1. Count(PadKey) <= 3 /\ Count(PadKey) <= OwnersOf(PadKey) /\ Count(PadKey) \in Nat
        <4>1. Count(PadKey) + One(Pressing(PadKey)) <= OwnersOf(PadKey) + One(Releasing(PadKey))
          <5>1. ~ReleaseAll(PadKey) /\ Owned(PadKey)
            BY <1>1, <2>1 DEF AllOwned
          <5> QED
            BY <5>1 DEF Owned
        <4>2. One(Pressing(PadKey)) = 0 /\ One(Releasing(PadKey)) = 0
          BY <2>1, <2>3 DEF One
        <4> QED
          BY <2>1, <4>1, <4>2, CountTypes, OwnersTypes DEF AllOwned, Owned
      <3>2. Count(PadKey)' = Count(PadKey) /\ (ByKeyboard(PadKey)' <=> ByKeyboard(PadKey))
        BY DEF Count, ByKeyboard
      <3>3. OwnersOf(PadKey)' = IF v THEN OwnersOf(PadKey) + 1 ELSE OwnersOf(PadKey) - 1
        BY <1>3, <3>2 DEF OwnersOf, One, Typing, KeysTyped
      <3>4. /\ One(Pressing(PadKey))' = IF v THEN 1 ELSE 0
            /\ One(Releasing(PadKey))' = IF v THEN 0 ELSE 1
        BY <2>1, <2>3 DEF One
      <3>5. /\ Count(PadKey)' <= 3
            /\ Count(PadKey)' + One(Pressing(PadKey))'
                   <= OwnersOf(PadKey)' + One(Releasing(PadKey))'
        BY <3>1, <3>2, <3>3, <3>4, OwnersTypes
      <3> QED
        BY <2>1, <2>3, <3>5 DEF Owned
    <2> QED
      BY <2>4, <2>5 DEF AllOwned, Keys
  <1> QED
    BY <1>2, <1>3

(* A call of DBP_ReleaseKeyEvents for all keys comes to each of them. *)
LEMMA ReleaseBegins ==
    ASSUME Typing, AllOwned, at["emu"] # "release", ~Calling("emu"), NEW after,
           DBP_ReleaseKeyEvents(FALSE, after), UNCHANGED keysDown
    PROVE  AllOwned'
  <1>1. \A t \in Writers : (at'[t] = "count" <=> at[t] = "count") /\ evt'[t] = evt[t]
    BY DEF DBP_ReleaseKeyEvents, Goto, Calling, Within, AtRing, Typing, WritersTyped
  <1>2. \A k \in Keys : ReleaseAll(k)'
    BY ConstantTypes DEF DBP_ReleaseKeyEvents, Goto, ReleaseAll, Typing, WritersTyped, Keys, Writers
  <1>3. \A k \in Keys : Counting("ui", k, TRUE)' => Counting("ui", k, TRUE)
    BY <1>1 DEF Counting, Writers
  <1>4. \A k \in Keys : Count(k)' = Count(k) /\ keysDown'[k] = keysDown[k]
    BY DEF Count
  <1>5. ASSUME NEW k \in Keys PROVE Owned(k)'
    <2>1. Owned(k)
      BY DEF AllOwned
    <2>2. Count(k)' <= 3
      BY <1>4, <2>1 DEF Owned
    <2>3. Counting("ui", k, TRUE)' => keysDown'[k] = 128
      <3>1. Counting("ui", k, TRUE) => keysDown[k] = 128
        BY <2>1 DEF Owned
      <3> QED
        BY <3>1, <1>3, <1>4
    <2>4. ReleaseAll(k)'
      BY <1>2
    <2> QED
      BY <2>2, <2>3, <2>4 DEF Owned
  <1> QED
    BY <1>5 DEF AllOwned, Keys

(* No step leaves a key counted without an owner. *)
LEMMA OwnedKept ==
    ASSUME Typing, Apart, "key" \notin raced, "key" \notin raced', AllOwned, Next
    PROVE  AllOwned'
  <1>1. ASSUME NEW t \in Writers, QueueStep(t) PROVE AllOwned'
    <2>1. CASE CountPress(t) \/ CountRelease(t)
      BY <2>1, CountOwned
    <2>2. CASE ReadCursors(t) \/ Collapse(t) \/ WriteSlot(t) \/ AdvanceCursor(t)
      <3>1. at[t] # "count" /\ Calling(t) /\ UNCHANGED <<keysDown, lastval, osdLastval>>
        BY <2>2 DEF ReadCursors, Collapse, WriteSlot, AdvanceCursor, Calling, Within, AtRing,
               emu, downs
      <3>2. \A k \in Keys : ReleaseAll(k) => ReleaseAll(k)'
        BY <1>1, CallLocal
      <3>3. /\ at'[t] # "count"
            /\ \A u \in Writers : u # t => at'[u] = at[u] /\ evt'[u] = evt[u]
        BY <1>1, OneMoves
      <3> QED
        BY <3>1, <3>2, <3>3, OwnedOutside
    <2> QED
      BY <1>1, <2>1, <2>2 DEF QueueStep
  <1>2. CASE keyboard_event
    BY <1>2, KeyboardOwned
  <1>3. CASE ReleaseKey
    BY <1>3, ReleaseOwned
  <1>4. CASE GameBindings
    BY <1>4, UpdateOwned DEF GameBindings, downs, Typing, UserTyped, KeysTyped
  <1>5. CASE OsdBindings
    BY <1>5, UpdateOwned DEF OsdBindings, downs, Typing, UserTyped, KeysTyped
  <1>6. CASE OsdFirstTime
    BY <1>6, ReleaseBegins DEF OsdFirstTime, downs, Calling, Within, AtRing
  <1>7. CASE OsdClosing
    BY <1>7, ReleaseBegins DEF OsdClosing, downs, Calling, Within, AtRing
  <1>8. CASE OsdClosed \/ StickyKeys \/ ReleaseDone
    <2>1. at["emu"] \in {"closed", "sticky", "release"}
          /\ UNCHANGED <<keysDown, lastval, osdLastval, evt, back>>
          /\ \E l \in {"binds", "release", "sticky", "closed"} : at' = [at EXCEPT !["emu"] = l]
      BY <1>8 DEF OsdClosed, StickyKeys, ReleaseDone, DBP_ReleaseKeyEvents, Goto, downs, emu,
             Typing, KeysTyped
    <2>2. \A t \in Writers : (at'[t] = "count" <=> at[t] = "count") /\ evt'[t] = evt[t]
      BY <2>1 DEF Typing, WritersTyped
    <2>3. ASSUME NEW k \in Keys PROVE ~ReleaseAll(k)
      <3>1. CASE ReleaseDone
        <4>1. ~(toRelease <= k)
          BY <3>1, ConstantTypes DEF ReleaseDone, Keys, Typing, KeysTyped
        <4> QED
          BY <4>1 DEF ReleaseAll
      <3>2. CASE OsdClosed \/ StickyKeys
        BY <3>2 DEF OsdClosed, StickyKeys, ReleaseAll, Calling, Within, AtRing
      <3> QED
        BY <1>8, <3>1, <3>2
    <2> QED
      BY <2>1, <2>2, <2>3, OwnedOutside
  <1>9. CASE UserStep \/ (\E v \in Keys : PollKey(v)) \/ SetPads
    <2>1. UNCHANGED <<keysDown, emu>>
      BY <1>9 DEF UserStep, KeyDownEvent, KeyUpEvent, LoseKeyUp, PadChange, ClearPads, PollKey,
             SetPads, CoreSide, downs
    <2>2. \/ UNCHANGED writers
          \/ /\ at["ui"] \in {"idle", "pads"}
             /\ \E l \in {"key", "pads", "idle"} : at' = [at EXCEPT !["ui"] = l]
             /\ UNCHANGED back
             /\ \E e : evt' = [evt EXCEPT !["ui"] = e]
      <3>1. CASE PadChange \/ \E k \in Typed : LoseKeyUp(k)
        BY <3>1 DEF PadChange, LoseKeyUp
      <3>2. CASE ClearPads \/ SetPads
        BY <3>2 DEF ClearPads, SetPads, Goto, Input, Typing, WritersTyped
      <3>3. CASE \/ \E k \in Typed : KeyDownEvent(k) \/ KeyUpEvent(k)
                 \/ \E v \in Keys : PollKey(v)
        BY <3>3 DEF KeyDownEvent, KeyUpEvent, PollKey, SetKeyState, Input
      <3> QED
        BY <1>9, <3>1, <3>2, <3>3 DEF UserStep
    <2>3. \A t \in Writers : /\ at'[t] = "count" <=> at[t] = "count"
                             /\ at[t] = "count" => evt'[t] = evt[t]
      BY <2>2 DEF Typing, WritersTyped, writers
    <2>4. UNCHANGED <<at["emu"], back["emu"]>>
      <3>1. CASE UNCHANGED writers
        BY <3>1 DEF writers
      <3>2. CASE UNCHANGED back /\ \E l : at' = [at EXCEPT !["ui"] = l]
        BY <3>2 DEF Typing, WritersTyped, Writers
      <3> QED
        BY <2>2, <3>1, <3>2
    <2>5. \A k \in Keys : ReleaseAll(k) => ReleaseAll(k)'
      BY <2>1, <2>4 DEF ReleaseAll, Calling, emu
    <2> QED
      BY <2>1, <2>3, <2>5, OwnedOutside DEF emu
  <1>10. CASE CopyEvent \/ TakeEvent \/ OsdStep
    <2>1. UNCHANGED <<keysDown, emu, writers>>
      BY <1>10 DEF CopyEvent, TakeEvent, OsdStep, StartOSD, OSDStarted, CloseOSD, downs
    <2>2. \A k \in Keys : ReleaseAll(k) => ReleaseAll(k)'
      BY <2>1 DEF ReleaseAll, Calling, emu, writers
    <2> QED
      BY <2>1, <2>2, OwnedOutside DEF emu, writers
  <1> QED
    BY <1>1, <1>2, <1>3, <1>4, <1>5, <1>6, <1>7, <1>8, <1>9, <1>10
       DEF Next, UIStep, EmuStep, Writers
-----------------------------------------------------------------------------
KInv == Typing /\ Apart /\ ("key" \notin raced => AllOwned)

(* The invariant of the keys at the start ... *)
LEMMA Begins == Init => KInv
  <1> SUFFICES ASSUME Init PROVE KInv
    OBVIOUS
  <1>1. UserTyped
    <2>1. 0 \in 0 .. MaxInputs
      BY ConstantTypes
    <2> QED
      BY <2>1 DEF Init, UserTyped
  <1>2. KeysTyped
    <2>1. 1 \in 1 .. NumKeys + 1 /\ 0 \in 0 .. 255 /\ 0 \in Int
      BY ConstantTypes
    <2> QED
      BY <2>1 DEF Init, KeysTyped
  <1>3. RingTyped
    BY ConstantTypes DEF Init, RingTyped, Slots
  <1>4. WritersTyped /\ Callers
    <2>1. 0 \in Slots
      BY ConstantTypes DEF Slots
    <2> QED
      BY <2>1 DEF Init, WritersTyped, Callers, Calling, Within, AtRing, Writers
  <1>5. AllOwned
    <2> SUFFICES ASSUME NEW k \in Keys PROVE Owned(k)
      BY DEF AllOwned
    <2>1. \A t \in Writers : at[t] # "count"
      BY DEF Init, Writers
    <2>2. ~Pressing(k) /\ ~Counting("ui", k, TRUE)
      BY <2>1 DEF Pressing, Counting, Writers
    <2>3. Count(k) = 0
      BY DEF Init, Count, DBP_DOWN_BY_KEYBOARD
    <2>4. OwnersOf(k) \in Nat /\ One(Releasing(k)) \in Nat /\ One(Pressing(k)) = 0
      BY <2>2 DEF OwnersOf, One
    <2>5. Count(k) <= 3 /\ Count(k) + One(Pressing(k)) <= OwnersOf(k) + One(Releasing(k))
      BY <2>3, <2>4
    <2> QED
      BY <2>2, <2>5 DEF Owned
  <1> QED
    <2>1. Apart
      BY DEF Init, Apart, Calling, Within, AtRing, Writers
    <2> QED
      BY <1>1, <1>2, <1>3, <1>4, <1>5, <2>1 DEF KInv, Typing

(* ... and in every step. *)
LEMMA KInvKept == ASSUME KInv, [Next]_vars PROVE KInv'
  <1>1. CASE Next
    <2>1. Typing'
      BY <1>1, UserTypedKept, KeysTypedKept, RingTypedKept, WritersKept DEF KInv, Typing
    <2>2. Apart' /\ raced \subseteq raced'
      BY <1>1, ApartKept DEF KInv
    <2>3. "key" \notin raced' => AllOwned'
      BY <1>1, <2>2, OwnedKept DEF KInv
    <2> QED
      BY <2>1, <2>2, <2>3 DEF KInv
  <1>2. CASE UNCHANGED vars
    <2>1. UNCHANGED <<user, front, downs, ring, writers, emu, osd, dos, timesFull>>
      BY <1>2 DEF vars
    <2>2. UserTyped' /\ KeysTyped' /\ RingTyped'
      BY <2>1 DEF user, front, osd, downs, emu, ring, dos, KInv, Typing, UserTyped, KeysTyped,
             RingTyped
    <2>3. WritersTyped' /\ Callers' /\ Apart' /\ raced' = raced
      BY <2>1 DEF writers, emu, KInv, Typing, WritersTyped, Callers, Apart, Calling
    <2>4. \A k \in Keys : ReleaseAll(k) => ReleaseAll(k)'
      BY <2>1 DEF writers, emu, ReleaseAll, Calling
    <2>5. "key" \notin raced' => AllOwned'
      BY <2>1, <2>3, <2>4, OwnedOutside DEF KInv, writers, downs, emu
    <2> QED
      BY <2>2, <2>3, <2>5 DEF KInv, Typing
  <1> QED
    BY <1>1, <1>2

(* Outside of the calls every key that is counted has an owner. *)
LEMMA OwnersKnown == KInv => KeysSound
  <1> SUFFICES ASSUME KInv PROVE KeysSound
    OBVIOUS
  <1>1. TypeOK
    BY DEF KInv, Typing, UserTyped, KeysTyped, RingTyped, WritersTyped, TypeOK
  <1>2. ASSUME NoCall, "key" \notin raced, NEW k \in Keys, Count(k) > 0,
               ~(at["emu"] = "release" /\ ~onlyPhysical /\ toRelease <= k)
        PROVE  ByKeyboard(k) \/ (k = PadKey /\ (lastval \/ osdLastval))
    <2>1. \A t \in Writers : at[t] # "count" /\ ~Calling(t)
      BY <1>2 DEF NoCall, Calling, Within, AtRing
    <2>2. ~ReleaseAll(k) /\ ~Pressing(k) /\ ~Releasing(k)
      BY <1>2, <2>1 DEF ReleaseAll, Pressing, Releasing, Counting, Writers
    <2>3. Count(k) + One(Pressing(k)) <= OwnersOf(k) + One(Releasing(k))
      BY <1>2, <2>2 DEF KInv, AllOwned, Owned
    <2>4. One(Pressing(k)) = 0 /\ One(Releasing(k)) = 0
      BY <2>2 DEF One
    <2>5. OwnersOf(k) > 0
      BY <1>2, <2>3, <2>4, CountTypes, OwnersTypes DEF KInv
    <2> QED
      BY <2>5 DEF OwnersOf, One
  <1> QED
    BY <1>1, <1>2 DEF KeysSound, KeysHaveOwner

(* A key that is down for the core has somebody who will let go of it,     *)
(* whichever of the keyboard, the pad, the OSD and the search for sticky   *)
(* keys pressed and released it in which order, until two threads are in   *)
(* DBP_QueueEvent with one key at once.                                    *)
THEOREM KeysStaySound == Spec => []KeysSound
  <1>1. KInv /\ [Next]_vars => KInv'
    BY KInvKept
  <1> QED
    BY <1>1, Begins, OwnersKnown, PTL DEF Spec
-----------------------------------------------------------------------------
(* The ring as a sequence: the slots from r up to w, around the end.       *)
Length(w, r) == (w + QueueSize - r) % QueueSize
SlotAt(r, i) == (r + i - 1) % QueueSize
After(s) == (s + 1) % QueueSize
RingSeq(q, w, r) == [i \in 1 .. Length(w, r) |-> q[SlotAt(r, i)]]

(* The remainder, where it is used: a sum of two slots. *)
LEMMA ModSmall == \A a \in Nat : a < QueueSize => a % QueueSize = a
  BY ConstantTypes

LEMMA ModBig ==
    \A a \in Nat : QueueSize <= a /\ a < 2 * QueueSize => a % QueueSize = a - QueueSize
  BY ConstantTypes

(* The slots around the end of the ring, without the remainder. *)
LEMMA Around ==
    ASSUME NEW r \in Slots, NEW w \in Slots
    PROVE  /\ After(r) = IF r = QueueSize - 1 THEN 0 ELSE r + 1
           /\ Length(w, r) = IF r <= w THEN w - r ELSE w + QueueSize - r
           /\ \A i \in 1 .. QueueSize : SlotAt(r, i) =
                  IF r + i - 1 < QueueSize THEN r + i - 1 ELSE r + i - 1 - QueueSize
  <1> USE ConstantTypes DEF Slots, After, Length, SlotAt
  <1>1. After(r) = IF r = QueueSize - 1 THEN 0 ELSE r + 1
    BY ModSmall, ModBig
  <1>2. Length(w, r) = IF r <= w THEN w - r ELSE w + QueueSize - r
    <2>1. w + QueueSize - r \in Nat /\ w + QueueSize - r < 2 * QueueSize
      OBVIOUS
    <2> QED
      BY <2>1, ModSmall, ModBig
  <1>3. ASSUME NEW i \in 1 .. QueueSize
        PROVE  SlotAt(r, i) =
                  IF r + i - 1 < QueueSize THEN r + i - 1 ELSE r + i - 1 - QueueSize
    <2>1. r + i - 1 \in Nat /\ r + i - 1 < 2 * QueueSize
      OBVIOUS
    <2> QED
      BY <2>1, ModSmall, ModBig
  <1> QED
    BY <1>1, <1>2, <1>3

(* One slot on for the writer, and one for the reader. *)
LEMMA OneOn ==
    ASSUME NEW w \in Slots, NEW r \in Slots
    PROVE  /\ After(w) \in Slots /\ Length(w, r) \in 0 .. QueueSize - 1
           /\ SlotAt(r, 1) = r /\ SlotAt(r, Length(w, r) + 1) = w
           /\ After(w) # r => Length(After(w), r) = Length(w, r) + 1
           /\ w # r => Length(w, r) > 0 /\ Length(w, After(r)) = Length(w, r) - 1
           /\ \A i \in 1 .. Length(w, r) - 1 : SlotAt(After(r), i) = SlotAt(r, i + 1)
           /\ \A i \in 1 .. Length(w, r) : SlotAt(r, i) \in Slots /\ SlotAt(r, i) # w
  <1>1. After(w) \in Slots /\ After(r) \in Slots
    BY ConstantTypes, Around DEF Slots
  <1>2. Length(w, r) \in 0 .. QueueSize - 1
    BY ConstantTypes, Around DEF Slots
  <1>3. SlotAt(r, 1) = r
    BY ConstantTypes, Around DEF Slots
  <1>4. SlotAt(r, Length(w, r) + 1) = w
    BY <1>2, ConstantTypes, Around DEF Slots
  <1>5. After(w) # r => Length(After(w), r) = Length(w, r) + 1
    <2>1. /\ Length(After(w), r) = IF r <= After(w) THEN After(w) - r ELSE After(w) + QueueSize - r
          /\ Length(w, r) = IF r <= w THEN w - r ELSE w + QueueSize - r
          /\ After(w) = IF w = QueueSize - 1 THEN 0 ELSE w + 1
      BY <1>1, Around
    <2> QED
      BY <2>1, ConstantTypes DEF Slots
  <1>6. w # r => Length(w, r) > 0 /\ Length(w, After(r)) = Length(w, r) - 1
    <2>1. /\ Length(w, After(r)) = IF After(r) <= w THEN w - After(r) ELSE w + QueueSize - After(r)
          /\ Length(w, r) = IF r <= w THEN w - r ELSE w + QueueSize - r
          /\ After(r) = IF r = QueueSize - 1 THEN 0 ELSE r + 1
      BY <1>1, Around
    <2> QED
      BY <2>1, ConstantTypes DEF Slots
  <1>7. ASSUME NEW i \in 1 .. Length(w, r) - 1 PROVE SlotAt(After(r), i) = SlotAt(r, i + 1)
    <2>1. i \in 1 .. QueueSize /\ i + 1 \in 1 .. QueueSize
      BY <1>2, ConstantTypes
    <2>2. SlotAt(r, i + 1) = IF r + (i + 1) - 1 < QueueSize THEN r + (i + 1) - 1
                             ELSE r + (i + 1) - 1 - QueueSize
      BY <2>1, Around
    <2>3. SlotAt(After(r), i) = IF After(r) + i - 1 < QueueSize THEN After(r) + i - 1
                                ELSE After(r) + i - 1 - QueueSize
      BY <1>1, <2>1, Around
    <2>4. After(r) = IF r = QueueSize - 1 THEN 0 ELSE r + 1
      BY Around
    <2> QED
      BY <2>1, <2>2, <2>3, <2>4, ConstantTypes DEF Slots
  <1>8. ASSUME NEW i \in 1 .. Length(w, r) PROVE SlotAt(r, i) \in Slots /\ SlotAt(r, i) # w
    <2>1. i \in 1 .. QueueSize
      BY <1>2, ConstantTypes
    <2>2. SlotAt(r, i) = IF r + i - 1 < QueueSize THEN r + i - 1 ELSE r + i - 1 - QueueSize
      BY <2>1, Around
    <2>3. Length(w, r) = IF r <= w THEN w - r ELSE w + QueueSize - r
      BY Around
    <2> QED
      BY <1>2, <2>1, <2>2, <2>3, ConstantTypes DEF Slots
  <1> QED
    BY <1>1, <1>2, <1>3, <1>4, <1>5, <1>6, <1>7, <1>8

Entries == Events \cup {Nothing}

(* The ring is a sequence of what its slots hold. *)
LEMMA RingIsSeq ==
    ASSUME NEW q \in [Slots -> Entries], NEW w \in Slots, NEW r \in Slots
    PROVE  RingSeq(q, w, r) \in Seq(Entries) /\ Len(RingSeq(q, w, r)) = Length(w, r)
  <1>1. Length(w, r) \in Nat /\ RingSeq(q, w, r) \in [1 .. Length(w, r) -> Entries]
    <2>1. \A i \in 1 .. Length(w, r) : q[SlotAt(r, i)] \in Entries
      BY OneOn
    <2>2. RingSeq(q, w, r) \in [1 .. Length(w, r) -> Entries]
      BY <2>1 DEF RingSeq
    <2>3. Length(w, r) \in Nat
      <3>1. Length(w, r) \in 0 .. QueueSize - 1
        BY OneOn
      <3> QED
        BY <3>1
    <2> QED
      BY <2>2, <2>3
  <1> QED
    BY <1>1

(* The writer moves its cursor on: the slot it leaves is the newest. *)
LEMMA RingAppend ==
    ASSUME NEW q \in [Slots -> Entries], NEW w \in Slots, NEW r \in Slots, After(w) # r
    PROVE  RingSeq(q, After(w), r) = Append(RingSeq(q, w, r), q[w])
  <1>1. PICK n \in Nat : n = Length(w, r) /\ Length(After(w), r) = n + 1 /\ After(w) \in Slots
                         /\ SlotAt(r, n + 1) = w
    BY OneOn, ConstantTypes
  <1> DEFINE s == RingSeq(q, w, r)
  <1>2. s \in Seq(Entries) /\ Len(s) = n /\ \A i \in 1 .. n : s[i] = q[SlotAt(r, i)]
    <2>1. s \in Seq(Entries) /\ Len(s) = Length(w, r)
      BY RingIsSeq
    <2>2. \A i \in 1 .. Length(w, r) : s[i] = q[SlotAt(r, i)]
      BY DEF RingSeq
    <2> QED
      BY <1>1, <2>1, <2>2
  <1> HIDE DEF s
  <1> DEFINE u == RingSeq(q, After(w), r)
  <1>3. u \in Seq(Entries) /\ Len(u) = n + 1 /\ \A i \in 1 .. n + 1 : u[i] = q[SlotAt(r, i)]
    <2>1. /\ u \in Seq(Entries) /\ Len(u) = Length(After(w), r)
          /\ \A i \in 1 .. Length(After(w), r) : u[i] = q[SlotAt(r, i)]
      <3>1. u \in Seq(Entries) /\ Len(u) = Length(After(w), r)
        BY <1>1, RingIsSeq
      <3> QED
        BY <3>1 DEF RingSeq
    <2> QED
      BY <1>1, <2>1
  <1> HIDE DEF u
  <1>4. u[n + 1] = q[w] /\ \A i \in 1 .. n : u[i] = s[i]
    BY <1>1, <1>2, <1>3
  <1>5. q[w] \in Entries
    OBVIOUS
  <1>6. u = Append(s, q[w])
    BY <1>2, <1>3, <1>4, <1>5
  <1> QED
    BY <1>6 DEF s, u

(* The reader moves its cursor on: the oldest is gone. *)
LEMMA RingTail ==
    ASSUME NEW q \in [Slots -> Entries], NEW w \in Slots, NEW r \in Slots, w # r
    PROVE  /\ RingSeq(q, w, r) # <<>> /\ RingSeq(q, w, r)[1] = q[r]
           /\ RingSeq(q, w, After(r)) = Tail(RingSeq(q, w, r))
  <1>1. PICK n \in Nat \ {0} : n = Length(w, r) /\ Length(w, After(r)) = n - 1
                               /\ After(r) \in Slots
    BY OneOn, ConstantTypes
  <1>2. SlotAt(r, 1) = r /\ \A i \in 1 .. n - 1 : SlotAt(After(r), i) = SlotAt(r, i + 1)
    BY <1>1, OneOn
  <1> DEFINE s == RingSeq(q, w, r)
  <1>3. s \in Seq(Entries) /\ Len(s) = n /\ \A i \in 1 .. n : s[i] = q[SlotAt(r, i)]
    <2>1. s \in Seq(Entries) /\ Len(s) = Length(w, r)
      BY RingIsSeq
    <2>2. \A i \in 1 .. Length(w, r) : s[i] = q[SlotAt(r, i)]
      BY DEF RingSeq
    <2> QED
      BY <1>1, <2>1, <2>2
  <1> HIDE DEF s
  <1> DEFINE u == RingSeq(q, w, After(r))
  <1>4. u \in Seq(Entries) /\ Len(u) = n - 1 /\ \A i \in 1 .. n - 1 : u[i] = q[SlotAt(After(r), i)]
    <2>1. /\ u \in Seq(Entries) /\ Len(u) = Length(w, After(r))
          /\ \A i \in 1 .. Length(w, After(r)) : u[i] = q[SlotAt(After(r), i)]
      <3>1. u \in Seq(Entries) /\ Len(u) = Length(w, After(r))
        BY <1>1, RingIsSeq
      <3> QED
        BY <3>1 DEF RingSeq
    <2> QED
      BY <1>1, <2>1
  <1> HIDE DEF u
  <1>5. s # <<>> /\ s[1] = q[r]
    BY <1>2, <1>3
  <1>6. \A i \in 1 .. n - 1 : i + 1 \in 1 .. n /\ u[i] = s[i + 1]
    BY <1>2, <1>3, <1>4
  <1>7. u = Tail(s)
    BY <1>3, <1>4, <1>5, <1>6
  <1> QED
    BY <1>5, <1>7 DEF s, u

(* The writer's slot is not one of the ring's. *)
LEMMA RingWrite ==
    ASSUME NEW w \in Slots, NEW r \in Slots, NEW q, NEW p,
           \A s \in Slots : s # w => p[s] = q[s]
    PROVE  RingSeq(p, w, r) = RingSeq(q, w, r)
  <1>1. \A i \in 1 .. Length(w, r) : p[SlotAt(r, i)] = q[SlotAt(r, i)]
    BY OneOn
  <1> QED
    BY <1>1 DEF RingSeq

LEMMA PendingIs == Pending = RingSeq(queue, writeCursor, readCursor)
  BY DEF Pending, RingSeq, Length, SlotAt
-----------------------------------------------------------------------------
(* Until the ring is full or both write it: what the reader has copied is  *)
(* the oldest event still; the writer has the newest slot, and the one     *)
(* after it is free.                                                       *)
Placing == {"cursors", "collapse", "write", "advance"}

Placed(t) ==
    /\ at[t] # "collapse"
    /\ at[t] \in {"write", "advance"} => /\ cur[t] = writeCursor /\ next[t] = After(writeCursor)
                                         /\ next[t] # readCursor
    /\ at[t] = "advance" => queue[cur[t]] = evt[t]

RInv ==
    timesFull = 0 /\ "ring" \notin raced =>
        /\ reader = "take" => readCursor # writeCursor /\ taken = queue[readCursor]
        /\ \A t \in Writers : Placed(t)
-----------------------------------------------------------------------------
(* The steps in which no event is placed. *)
LEMMA NotPlacing ==
    ASSUME Typing, Next, \A t \in Writers : ~QueueStep(t)
    PROVE  /\ UNCHANGED <<queue, writeCursor, timesFull>>
           /\ \A t \in Writers : at[t] \in Placing \/ at'[t] \in Placing =>
                  at'[t] = at[t] /\ evt'[t] = evt[t] /\ cur'[t] = cur[t] /\ next'[t] = next[t]
           /\ \/ UNCHANGED dos /\ readCursor' = readCursor
              \/ (CopyEvent \/ TakeEvent \/ OsdStep) /\ UNCHANGED <<downs, writers>>
  <1>1. CASE CopyEvent \/ TakeEvent \/ OsdStep
    BY <1>1 DEF CopyEvent, TakeEvent, OsdStep, StartOSD, OSDStarted, CloseOSD, writers, ring
  <1>2. CASE UserStep \/ (\E v \in Keys : PollKey(v)) \/ SetPads
    <2>1. UNCHANGED <<ring, dos, timesFull>>
      BY <1>2 DEF UserStep, KeyDownEvent, KeyUpEvent, LoseKeyUp, PadChange, ClearPads, PollKey,
             SetPads, CoreSide
    <2>2. \/ UNCHANGED writers
          \/ /\ at["ui"] \in {"idle", "pads"} /\ UNCHANGED <<cur, next>>
             /\ \E l \in {"key", "pads", "idle"} : at' = [at EXCEPT !["ui"] = l]
             /\ \E e : evt' = [evt EXCEPT !["ui"] = e]
      <3>1. CASE PadChange \/ \E k \in Typed : LoseKeyUp(k)
        BY <3>1 DEF PadChange, LoseKeyUp
      <3>2. CASE ClearPads \/ SetPads
        BY <3>2 DEF ClearPads, SetPads, Goto, Input, Typing, WritersTyped
      <3>3. CASE \/ \E k \in Typed : KeyDownEvent(k) \/ KeyUpEvent(k)
                 \/ \E v \in Keys : PollKey(v)
        BY <3>3 DEF KeyDownEvent, KeyUpEvent, PollKey, SetKeyState, Input
      <3> QED
        BY <1>2, <3>1, <3>2, <3>3 DEF UserStep
    <2> QED
      BY <2>1, <2>2 DEF Typing, WritersTyped, writers, Writers, Placing, ring
  <1>3. CASE \/ keyboard_event \/ GameBindings \/ OsdFirstTime \/ OsdBindings \/ OsdClosing
             \/ OsdClosed \/ StickyKeys \/ ReleaseKey \/ ReleaseDone
    <2>1. UNCHANGED <<ring, dos, timesFull>>
      BY <1>3 DEF keyboard_event, GameBindings, OsdFirstTime, OsdBindings, OsdClosing, OsdClosed,
             StickyKeys, ReleaseKey, ReleaseDone
    <2>2. \/ UNCHANGED writers
          \/ /\ at["emu"] \in {"binds", "closed", "sticky", "release"} /\ UNCHANGED <<cur, next>>
             /\ \E l \in {"count", "binds", "closed", "sticky", "release"} :
                   at' = [at EXCEPT !["emu"] = l]
             /\ \E e : evt' = [evt EXCEPT !["emu"] = e]
          \/ at["ui"] = "key" /\ (Return("ui") \/ \E e, b : Queue("ui", e, b))
      <3>1. CASE keyboard_event
        BY <3>1 DEF keyboard_event
      <3>2. CASE GameBindings \/ OsdBindings \/ ReleaseKey
        BY <3>2 DEF GameBindings, OsdBindings, ReleaseKey, Update, Queue, Goto, Typing,
               WritersTyped
      <3>3. CASE OsdFirstTime \/ OsdClosing \/ OsdClosed \/ StickyKeys \/ ReleaseDone
        BY <3>3 DEF OsdFirstTime, OsdClosing, OsdClosed, StickyKeys, ReleaseDone,
               DBP_ReleaseKeyEvents, Goto, Typing, WritersTyped, KeysTyped
      <3> QED
        BY <1>3, <3>1, <3>2, <3>3
    <2>3. CASE at["ui"] = "key" /\ (Return("ui") \/ \E e, b : Queue("ui", e, b))
      BY <2>1, <2>3 DEF Return, Queue, Typing, WritersTyped, Callers, Writers, Placing, ring
    <2>4. CASE ~(at["ui"] = "key" /\ (Return("ui") \/ \E e, b : Queue("ui", e, b)))
      BY <2>1, <2>2, <2>4 DEF Typing, WritersTyped, writers, Writers, Placing, ring
    <2> QED
      BY <2>3, <2>4
  <1> QED
    BY <1>1, <1>2, <1>3 DEF Next, UIStep, EmuStep, Writers

(* Two cursors that meet after one step have met before. *)
LEMMA AfterIs == \A s, r \in Slots : /\ After(s) \in Slots /\ (After(s) = After(r) => s = r)
  <1> SUFFICES ASSUME NEW s \in Slots, NEW r \in Slots
               PROVE  After(s) \in Slots /\ (After(s) = After(r) => s = r)
    OBVIOUS
  <1>1. After(s) = IF s = QueueSize - 1 THEN 0 ELSE s + 1
    BY Around
  <1>2. After(r) = IF r = QueueSize - 1 THEN 0 ELSE r + 1
    BY Around
  <1> QED
    BY <1>1, <1>2, ConstantTypes DEF Slots

(* No step disturbs what is being placed or taken. *)
LEMMA RInvKept ==
    ASSUME KInv, RInv, Next PROVE RInv'
  <1> SUFFICES ASSUME timesFull' = 0, "ring" \notin raced'
               PROVE  /\ (reader = "take" => readCursor # writeCursor /\ taken = queue[readCursor])'
                      /\ \A t \in Writers : Placed(t)'
    BY DEF RInv, Writers
  <1> USE DEF KInv, Typing
  <1>1. timesFull = 0
    <2>1. CASE \E t \in Writers : QueueStep(t)
      BY <2>1 DEF QueueStep, CountPress, CountRelease, ReadCursors, Collapse, WriteSlot,
             AdvanceCursor, RingTyped
    <2> QED
      BY <2>1, NotPlacing
  <1>2. /\ reader = "take" => readCursor # writeCursor /\ taken = queue[readCursor]
        /\ \A t \in Writers : Placed(t)
    BY <1>1, ApartKept DEF RInv
  <1>3. writeCursor \in Slots /\ readCursor \in Slots
    BY DEF RingTyped
  <1>4. ASSUME NEW t \in Writers, QueueStep(t)
        PROVE  /\ (reader = "take" => readCursor # writeCursor /\ taken = queue[readCursor])'
               /\ \A u \in Writers : Placed(u)'
    <2>1. UNCHANGED <<readCursor, reader, taken>> /\ Calling(t)
      BY <1>4 DEF QueueStep, CountPress, CountRelease, ReadCursors, Collapse, WriteSlot,
             AdvanceCursor, dos, Calling, Within, AtRing, ring
    <2>2. \A u \in Writers : u # t => at'[u] = at[u] /\ evt'[u] = evt[u]
                                      /\ cur'[u] = cur[u] /\ next'[u] = next[u]
      BY <1>4, OneMoves DEF QueueStep, CountPress, CountRelease, ReadCursors, Collapse,
         WriteSlot, AdvanceCursor, Goto, Return, WritersTyped
    <2>3. at'[t] \in AtRing \/ at[t] \in AtRing =>
              \A u \in Writers : u # t => at'[u] \notin AtRing
      <3>1. CASE at'[t] \in AtRing
        BY <1>4, <3>1, ApartKept DEF Apart, Writers
      <3>2. CASE at[t] \in AtRing
        <4>1. "ring" \notin raced
          BY <1>4, ApartKept
        <4> QED
          BY <2>2, <3>2, <4>1 DEF Apart, Writers
      <3> QED
        BY <3>1, <3>2
    <2>4. ASSUME NEW u \in Writers, u # t,
                 UNCHANGED <<writeCursor, queue>> \/ at'[t] \in AtRing \/ at[t] \in AtRing
          PROVE  Placed(u)'
      <3>1. CASE UNCHANGED <<writeCursor, queue>>
        BY <1>2, <2>1, <2>2, <2>4, <3>1 DEF Placed
      <3>2. CASE at'[t] \in AtRing \/ at[t] \in AtRing
        BY <2>3, <2>4, <3>2 DEF Placed, AtRing
      <3> QED
        BY <2>4, <3>1, <3>2
    <2>5. CASE CountPress(t) \/ CountRelease(t)
      <3>1. at'[t] \notin {"collapse", "write", "advance"}
        BY <2>5 DEF CountPress, CountRelease, Return, Goto, WritersTyped
      <3> QED
        BY <1>2, <2>1, <2>4, <2>5, <3>1 DEF CountPress, CountRelease, ring, Placed
    <2>6. CASE ReadCursors(t)
      <3>1. (writeCursor + 1) % QueueSize # readCursor /\ writeCursor' = writeCursor
        BY <1>1, <2>6 DEF ReadCursors
      <3>2. at'[t] = "write" /\ cur'[t] = writeCursor /\ next'[t] = After(writeCursor)
            /\ queue' = queue
        BY <2>6, <3>1 DEF ReadCursors, WritersTyped, After
      <3>3. Placed(t)'
        BY <2>1, <3>1, <3>2 DEF Placed, After
      <3> QED
        BY <1>2, <2>1, <2>4, <3>1, <3>2, <3>3
    <2>7. CASE Collapse(t)
      BY <1>2, <2>7 DEF Collapse, Placed
    <2>8. CASE WriteSlot(t)
      <3>1. /\ cur[t] = writeCursor /\ next[t] = After(writeCursor) /\ next[t] # readCursor
            /\ UNCHANGED <<writeCursor, evt, cur, next>> /\ at'[t] = "advance"
            /\ queue' = [queue EXCEPT ![writeCursor] = evt[t]]
        BY <1>2, <2>8 DEF WriteSlot, Goto, WritersTyped, Placed
      <3>2. Placed(t)'
        BY <1>3, <2>1, <3>1 DEF Placed, RingTyped
      <3> QED
        BY <1>2, <1>3, <2>1, <2>4, <2>8, <3>1, <3>2 DEF RingTyped, WriteSlot, AtRing
    <2>9. CASE AdvanceCursor(t)
      <3>1. writeCursor' = next[t] /\ next[t] # readCursor /\ queue' = queue
            /\ at'[t] = back[t]
        BY <1>2, <2>9 DEF AdvanceCursor, Return, WritersTyped, Placed
      <3>2. Placed(t)'
        BY <3>1 DEF Placed, WritersTyped
      <3> QED
        BY <1>2, <2>1, <2>4, <2>9, <3>1, <3>2 DEF AdvanceCursor, AtRing
    <2> QED
      BY <1>4, <2>5, <2>6, <2>7, <2>8, <2>9 DEF QueueStep
  <1>5. CASE \A t \in Writers : ~QueueStep(t)
    <2>1. UNCHANGED <<queue, writeCursor>>
      BY <1>5, NotPlacing
    <2>2. \A t \in Writers : at'[t] \in {"collapse", "write", "advance"} =>
                  at'[t] = at[t] /\ evt'[t] = evt[t] /\ cur'[t] = cur[t] /\ next'[t] = next[t]
      BY <1>5, NotPlacing DEF Placing
    <2>3. CASE readCursor' = readCursor
      <3>1. ASSUME NEW t \in Writers PROVE Placed(t)'
        BY <1>2, <2>1, <2>2, <2>3 DEF Placed
      <3>2. (reader = "take" => readCursor # writeCursor /\ taken = queue[readCursor])'
        <4>1. CASE UNCHANGED dos
          BY <1>2, <2>1, <2>3, <4>1 DEF dos
        <4>2. CASE CopyEvent \/ TakeEvent \/ OsdStep
          BY <1>2, <2>1, <2>3, <4>2 DEF CopyEvent, TakeEvent, OsdStep, StartOSD, OSDStarted,
                 CloseOSD
        <4> QED
          BY <1>5, <4>1, <4>2, NotPlacing
      <3> QED
        BY <3>1, <3>2
    <2>4. CASE readCursor' # readCursor
      <3>1. TakeEvent
        BY <1>5, <2>4, NotPlacing DEF CopyEvent, OsdStep, StartOSD, OSDStarted, CloseOSD, ring
      <3>2. readCursor' = After(readCursor) /\ reader' = "look" /\ readCursor # writeCursor
        BY <1>2, <3>1 DEF TakeEvent, After
      <3>3. ASSUME NEW t \in Writers PROVE Placed(t)'
        BY <1>2, <1>3, <2>1, <2>2, <3>2, AfterIs DEF Placed
      <3> QED
        BY <3>2, <3>3
    <2> QED
      BY <2>3, <2>4
  <1> QED
    BY <1>4, <1>5

(* Who moves the cursor on is the one who moves. *)
LEMMA OneAdvances ==
    ASSUME Typing, NEW t \in Writers, QueueStep(t), NEW u \in Writers, AdvanceCursor(u)
    PROVE  u = t
  <1>1. at[u] = "advance" /\ at'[u] = back[u] /\ back[u] # "advance"
    BY DEF AdvanceCursor, Return, Typing, WritersTyped
  <1> QED
    BY <1>1, OneMoves

(* What a step does to the pending events. *)
LEMMA PendingStep ==
    ASSUME KInv, RInv, Next, timesFull' = 0, "ring" \notin raced'
    PROVE  \/ Pending' = Pending /\ ~TakeEvent /\ \A t \in Writers : ~AdvanceCursor(t)
           \/ TakeEvent /\ Pending # <<>> /\ Pending' = Tail(Pending) /\ taken = Pending[1]
           \/ \E t \in Writers : /\ AdvanceCursor(t) /\ evt[t] \in Events
                                 /\ Pending' = Append(Pending, evt[t])
  <1> USE DEF KInv, Typing
  <1>1. queue \in [Slots -> Entries] /\ writeCursor \in Slots /\ readCursor \in Slots
    BY DEF RingTyped, Entries
  <1>2. timesFull = 0
    <2>1. CASE \E t \in Writers : QueueStep(t)
      BY <2>1 DEF QueueStep, CountPress, CountRelease, ReadCursors, Collapse, WriteSlot,
             AdvanceCursor, RingTyped
    <2> QED
      BY <2>1, NotPlacing
  <1>3. /\ reader = "take" => readCursor # writeCursor /\ taken = queue[readCursor]
        /\ \A t \in Writers : Placed(t)
    BY <1>2, ApartKept DEF RInv
  <1>4. Pending' = RingSeq(queue', writeCursor', readCursor')
    BY DEF Pending, RingSeq, Length, SlotAt
  <1>5. ASSUME NEW t \in Writers, QueueStep(t)
        PROVE  \/ Pending' = Pending /\ ~TakeEvent /\ \A u \in Writers : ~AdvanceCursor(u)
               \/ \E u \in Writers : /\ AdvanceCursor(u) /\ evt[u] \in Events
                                     /\ Pending' = Append(Pending, evt[u])
    <2>1. readCursor' = readCursor /\ ~TakeEvent
      BY <1>5 DEF QueueStep, CountPress, CountRelease, ReadCursors, Collapse, WriteSlot,
             AdvanceCursor, ring, dos, TakeEvent
    <2>2. at[t] # "advance" => \A u \in Writers : ~AdvanceCursor(u)
      BY <1>5, OneAdvances DEF AdvanceCursor
    <2>3. CASE CountPress(t) \/ CountRelease(t) \/ ReadCursors(t)
      <3>1. UNCHANGED <<queue, writeCursor>>
        BY <1>2, <2>3 DEF CountPress, CountRelease, ReadCursors, ring
      <3>2. at[t] # "advance"
        BY <2>3 DEF CountPress, CountRelease, ReadCursors
      <3> QED
        BY <1>4, <2>1, <2>2, <3>1, <3>2, PendingIs
    <2>4. CASE Collapse(t)
      BY <1>3, <2>4 DEF Collapse, Placed
    <2>5. CASE WriteSlot(t)
      <3>1. writeCursor' = writeCursor /\ queue' = [queue EXCEPT ![writeCursor] = evt[t]]
        BY <1>3, <2>5 DEF WriteSlot, Placed
      <3>2. \A s \in Slots : s # writeCursor => queue'[s] = queue[s]
        BY <1>1, <3>1
      <3>3. RingSeq(queue', writeCursor, readCursor) = Pending
        BY <1>1, <3>2, RingWrite, PendingIs
      <3> QED
        BY <1>4, <2>1, <2>5, <2>2, <3>1, <3>3 DEF WriteSlot
    <2>6. CASE AdvanceCursor(t)
      <3>1. /\ writeCursor' = After(writeCursor) /\ After(writeCursor) # readCursor
            /\ queue' = queue /\ queue[writeCursor] = evt[t]
        BY <1>3, <2>6 DEF AdvanceCursor, Placed
      <3>2. evt[t] \in Events
        BY <2>6, CallerEvent DEF AdvanceCursor, Calling, Within, AtRing
      <3>3. Pending' = Append(Pending, evt[t])
        BY <1>1, <1>4, <2>1, <3>1, RingAppend, PendingIs
      <3> QED
        BY <2>6, <3>2, <3>3
    <2> QED
      BY <1>5, <2>3, <2>4, <2>5, <2>6 DEF QueueStep
  <1>6. CASE \A t \in Writers : ~QueueStep(t)
    <2>1. UNCHANGED <<queue, writeCursor>>
      BY <1>6, NotPlacing
    <2>2. CASE TakeEvent
      <3>1. /\ readCursor' = After(readCursor) /\ readCursor # writeCursor
            /\ taken = queue[readCursor]
        BY <1>3, <2>2 DEF TakeEvent, After
      <3>2. /\ RingSeq(queue, writeCursor, readCursor) # <<>>
            /\ RingSeq(queue, writeCursor, readCursor)[1] = queue[readCursor]
            /\ RingSeq(queue, writeCursor, After(readCursor))
                   = Tail(RingSeq(queue, writeCursor, readCursor))
        BY <1>1, <3>1, RingTail
      <3>3. Pending' = RingSeq(queue, writeCursor, After(readCursor))
        BY <1>4, <2>1, <3>1
      <3> QED
        BY <2>2, <3>1, <3>2, <3>3, PendingIs
    <2>3. CASE ~TakeEvent
      <3>1. readCursor' = readCursor
        BY <1>6, <2>3, NotPlacing DEF CopyEvent, OsdStep, StartOSD, OSDStarted, CloseOSD, ring
      <3>2. \A t \in Writers : ~AdvanceCursor(t)
        BY <1>6 DEF QueueStep
      <3> QED
        BY <1>4, <2>1, <2>3, <3>1, <3>2, PendingIs
    <2> QED
      BY <2>2, <2>3
  <1> QED
    BY <1>5, <1>6

(* The invariant of the ring at the start ... *)
LEMMA RingBegins == Init => RInv
  BY DEF Init, RInv, Placed, Writers

(* ... and in every step. *)
LEMMA RInvKeeps == ASSUME KInv, RInv, [Next]_vars PROVE RInv'
  <1>1. CASE UNCHANGED vars
    BY <1>1 DEF vars, ring, writers, dos, RInv, Placed
  <1> QED
    BY <1>1, RInvKept

(* The events between the cursors are a queue until the ring is full or    *)
(* both writers write it: a step of whichever thread, another in the call  *)
(* as well, leaves it alone, takes its oldest event or adds one, whole,    *)
(* after the newest.                                                       *)
THEOREM RingStaysQueue == Spec => RingIsQueue
  <1>1. KInv /\ RInv /\ [Next]_vars => KInv' /\ RInv'
    BY KInvKept, RInvKeeps
  <1>2. ASSUME KInv, RInv, [Next]_vars
        PROVE  [timesFull' = 0 /\ "ring" \notin raced' =>
                   \/ Pending # <<>> /\ Pending' = Tail(Pending)
                   \/ \E e \in Events : Pending' = Append(Pending, e)]_Pending
    <2>1. CASE UNCHANGED vars
      BY <2>1 DEF vars, ring, Pending
    <2>2. CASE Next
      BY <1>2, <2>2, PendingStep
    <2> QED
      BY <1>2, <2>1, <2>2
  <1>3. Init => KInv /\ RInv
    BY Begins, RingBegins
  <1> QED
    BY <1>1, <1>2, <1>3, PTL DEF Spec, RingIsQueue
-----------------------------------------------------------------------------
(* A key is down when the events of s are taken by a machine in which the  *)
(* keys of m are: without the last event of the key being named.           *)
StaysDown(s, k, m) ==
    \/ k \in m /\ \A i \in 1 .. Len(s) : s[i].key # k
    \/ \E i \in 1 .. Len(s) : /\ s[i].key = k /\ s[i].down
                              /\ \A j \in 1 .. Len(s) : i < j => s[j].key # k

Releases(t, k) == at[t] \in Placing /\ ~evt[t].down /\ evt[t].key = k

(* Until the ring is full, or both write it or have one key, a press that  *)
(* is being placed has been counted, and a key that stays down is counted  *)
(* unless its release is being placed.                                     *)
DInv ==
    timesFull = 0 /\ raced \subseteq {"call"} =>
        /\ \A t \in Writers : at[t] \in Placing /\ evt[t].down => Count(evt[t].key) > 0
        /\ \A k \in Keys : StaysDown(Pending, k, machine) =>
                Count(k) > 0 \/ \E t \in Writers : Releases(t, k)
-----------------------------------------------------------------------------
(* A set of naturals has a least. *)
LEMMA LeastOf == ASSUME NEW T \in SUBSET Nat, T # {} PROVE \E m \in T : \A n \in T : m <= n
  <1>1. PICK m \in T : \A y \in T : ~(<<y, m>> \in OpToRel(<, Nat))
    BY WFMin, NatLessThanWellFounded
  <1>2. \A y \in T : ~(y < m)
    BY <1>1 DEF OpToRel
  <1> QED
    BY <1>2

(* A set of positions has a greatest, which is Max. *)
LEMMA GreatestOf ==
    ASSUME NEW n \in Nat, NEW S \in SUBSET (1 .. n), S # {}
    PROVE  Max(S) \in S /\ \A i \in S : i <= Max(S)
  <1> DEFINE T == {m \in Nat : \A i \in S : i <= m}
  <1>1. n \in T
    OBVIOUS
  <1>2. PICK m \in T : \A j \in T : m <= j
    BY <1>1, LeastOf
  <1>3. m \in S
    <2> SUFFICES ASSUME m \notin S PROVE FALSE
      OBVIOUS
    <2>1. PICK i \in S : TRUE
      OBVIOUS
    <2>2. m >= 1 /\ m - 1 \in T
      BY <2>1, <1>2
    <2> QED
      BY <2>2, <1>2
  <1> QED
    BY <1>2, <1>3 DEF Max

(* What the last event of a key says is whether it stays down. *)
LEMMA DownByLast ==
    ASSUME Typing, NEW k \in Keys, EndsDown(k) PROVE StaysDown(Pending, k, machine)
  <1>1. queue \in [Slots -> Entries] /\ writeCursor \in Slots /\ readCursor \in Slots
    BY DEF Typing, RingTyped, Entries
  <1>2. Pending \in Seq(Entries)
    BY <1>1, RingIsSeq, PendingIs
  <1> DEFINE n == Len(Pending)
  <1>3. n \in Nat /\ DOMAIN Pending = 1 .. n
    BY <1>2
  <1>4. Of(k) = {i \in 1 .. n : Pending[i].key = k}
    BY <1>3 DEF Of
  <1> HIDE DEF n
  <1>5. CASE Of(k) = {}
    <2>1. k \in machine
      BY <1>5 DEF EndsDown
    <2>2. \A i \in 1 .. n : Pending[i].key # k
      BY <1>4, <1>5
    <2> QED
      BY <2>1, <2>2 DEF StaysDown, n
  <1>6. CASE Of(k) # {}
    <2>1. PICK i \in Of(k) : i = Max(Of(k)) /\ \A j \in Of(k) : j <= i
      <3>1. Of(k) \in SUBSET (1 .. n)
        BY <1>4
      <3>2. Max(Of(k)) \in Of(k) /\ \A j \in Of(k) : j <= Max(Of(k))
        BY <1>3, <1>6, <3>1, GreatestOf
      <3> QED
        BY <3>2
    <2>2. Pending[i].down
      BY <1>6, <2>1 DEF EndsDown
    <2>3. i \in 1 .. n /\ Pending[i].key = k
      BY <1>4, <2>1
    <2>4. \A j \in 1 .. n : i < j => Pending[j].key # k
      BY <1>3, <1>4, <2>1, <2>3
    <2> QED
      BY <2>2, <2>3, <2>4 DEF StaysDown, n
  <1> QED
    BY <1>5, <1>6

(* A machine with fewer keys. *)
LEMMA DownWithFewer ==
    ASSUME NEW s, NEW k, NEW m, NEW m2, k \in m2 => k \in m, StaysDown(s, k, m2)
    PROVE  StaysDown(s, k, m)
  BY DEF StaysDown

(* One event more: it decides for its own key alone. *)
LEMMA DownAppended ==
    ASSUME NEW s \in Seq(Entries), NEW e \in Entries, NEW k, NEW m, StaysDown(Append(s, e), k, m)
    PROVE  IF e.key = k THEN e.down ELSE StaysDown(s, k, m)
  <1> DEFINE u == Append(s, e)
             n == Len(s)
  <1>1. n \in Nat /\ Len(u) = n + 1 /\ u[n + 1] = e /\ \A i \in 1 .. n : u[i] = s[i]
    OBVIOUS
  <1> HIDE DEF u, n
  <1>2. 1 .. n \subseteq 1 .. n + 1 /\ n + 1 \in 1 .. n + 1
    BY <1>1
  <1>3. CASE k \in m /\ \A i \in 1 .. Len(u) : u[i].key # k
    <2>1. e.key # k /\ \A i \in 1 .. n : s[i].key # k
      BY <1>1, <1>2, <1>3
    <2> QED
      BY <1>3, <2>1 DEF StaysDown, n
  <1>4. CASE \E i \in 1 .. Len(u) : /\ u[i].key = k /\ u[i].down
                                    /\ \A j \in 1 .. Len(u) : i < j => u[j].key # k
    <2>1. PICK i \in 1 .. n + 1 : /\ u[i].key = k /\ u[i].down
                                  /\ \A j \in 1 .. n + 1 : i < j => u[j].key # k
      BY <1>1, <1>4
    <2>2. CASE i = n + 1
      BY <1>1, <2>1, <2>2
    <2>3. CASE i # n + 1
      <3>1. i \in 1 .. n /\ i < n + 1
        BY <1>1, <2>3
      <3>2. e.key # k
        BY <1>1, <1>2, <2>1, <3>1
      <3>3. s[i].key = k /\ s[i].down /\ \A j \in 1 .. n : i < j => s[j].key # k
        BY <1>1, <1>2, <2>1, <3>1
      <3> QED
        BY <3>1, <3>2, <3>3 DEF StaysDown, n
    <2> QED
      BY <2>2, <2>3
  <1> QED
    BY <1>3, <1>4 DEF StaysDown, u

(* The machine takes the oldest event. *)
LEMMA DownTaken ==
    ASSUME NEW s \in Seq(Entries), s # <<>>, NEW k, NEW m, NEW m2,
           StaysDown(Tail(s), k, m2),
           IF s[1].key = k THEN k \in m2 => s[1].down ELSE k \in m2 => k \in m
    PROVE  StaysDown(s, k, m)
  <1> DEFINE u == Tail(s)
             n == Len(s)
  <1>1. n \in Nat \ {0} /\ Len(u) = n - 1 /\ \A i \in 1 .. n - 1 : u[i] = s[i + 1]
    OBVIOUS
  <1> HIDE DEF u, n
  <1>2. \A i \in 1 .. n : i # 1 => i - 1 \in 1 .. n - 1 /\ u[i - 1] = s[i]
    <2> SUFFICES ASSUME NEW i \in 1 .. n, i # 1
                 PROVE  i - 1 \in 1 .. n - 1 /\ u[i - 1] = s[i]
      OBVIOUS
    <2>1. i - 1 \in 1 .. n - 1 /\ (i - 1) + 1 = i
      BY <1>1
    <2> QED
      BY <1>1, <2>1
  <1>3. CASE k \in m2 /\ \A i \in 1 .. n - 1 : u[i].key # k
    <2>1. \A i \in 1 .. n : i # 1 => s[i].key # k
      BY <1>2, <1>3
    <2>2. CASE s[1].key = k
      <3>1. 1 \in 1 .. n /\ \A j \in 1 .. n : 1 < j => j # 1
        BY <1>1
      <3> QED
        BY <1>3, <2>1, <2>2, <3>1 DEF StaysDown, n
    <2>3. CASE s[1].key # k
      BY <1>3, <2>1, <2>3 DEF StaysDown, n
    <2> QED
      BY <2>2, <2>3
  <1>4. CASE \E i \in 1 .. n - 1 : /\ u[i].key = k /\ u[i].down
                                   /\ \A j \in 1 .. n - 1 : i < j => u[j].key # k
    <2>1. PICK i \in 1 .. n - 1 : /\ u[i].key = k /\ u[i].down
                                  /\ \A j \in 1 .. n - 1 : i < j => u[j].key # k
      BY <1>4
    <2>2. i + 1 \in 1 .. n /\ s[i + 1].key = k /\ s[i + 1].down
      BY <1>1, <2>1
    <2>3. ASSUME NEW j \in 1 .. n, i + 1 < j PROVE s[j].key # k
      <3>1. j # 1 /\ i < j - 1
        BY <2>1, <2>3
      <3> QED
        BY <1>2, <2>1, <3>1
    <2> QED
      BY <2>2, <2>3 DEF StaysDown, n
  <1> QED
    BY <1>1, <1>3, <1>4 DEF StaysDown, u

(* Only a press that is placed makes a key stay down. *)
LEMMA DownStep ==
    ASSUME KInv, RInv, Next, timesFull' = 0, "ring" \notin raced', NEW k \in Keys,
           StaysDown(Pending, k, machine)'
    PROVE  \/ /\ StaysDown(Pending, k, machine)
              /\ \A t \in Writers : AdvanceCursor(t) => evt[t].key # k
           \/ \E t \in Writers : AdvanceCursor(t) /\ evt[t].down /\ evt[t].key = k
  <1> USE DEF KInv, Typing
  <1>1. Pending \in Seq(Entries)
    <2>1. queue \in [Slots -> Entries] /\ writeCursor \in Slots /\ readCursor \in Slots
      BY DEF RingTyped, Entries
    <2> QED
      BY <2>1, RingIsSeq, PendingIs
  <1>2. StaysDown(Pending', k, machine')
    BY DEF StaysDown
  <1>3. CASE Pending' = Pending /\ ~TakeEvent /\ \A t \in Writers : ~AdvanceCursor(t)
    <2>1. k \in machine' => k \in machine
      <3>1. CASE \E t \in Writers : QueueStep(t)
        BY <3>1 DEF QueueStep, CountPress, CountRelease, ReadCursors, Collapse, WriteSlot,
               AdvanceCursor, dos
      <3>2. CASE ~\E t \in Writers : QueueStep(t)
        BY <1>3, <3>2, NotPlacing DEF CopyEvent, OsdStep, StartOSD, OSDStarted, CloseOSD, dos
      <3> QED
        BY <3>1, <3>2
    <2>2. StaysDown(Pending, k, machine)
      BY <1>2, <1>3, <2>1, DownWithFewer
    <2> QED
      BY <1>3, <2>2
  <1>4. CASE TakeEvent /\ Pending # <<>> /\ Pending' = Tail(Pending) /\ taken = Pending[1]
    <2>1. \A t \in Writers : ~AdvanceCursor(t)
      BY <1>4 DEF TakeEvent, AdvanceCursor, dos
    <2>2. IF taken.key = k THEN k \in machine' => taken.down
                           ELSE k \in machine' => k \in machine
      BY <1>4 DEF TakeEvent
    <2>3. StaysDown(Pending, k, machine)
      BY <1>1, <1>2, <1>4, <2>2, DownTaken
    <2> QED
      BY <2>1, <2>3
  <1>5. ASSUME NEW t \in Writers, AdvanceCursor(t), evt[t] \in Events,
               Pending' = Append(Pending, evt[t])
        PROVE  \/ /\ StaysDown(Pending, k, machine)
                  /\ \A u \in Writers : AdvanceCursor(u) => evt[u].key # k
               \/ \E u \in Writers : AdvanceCursor(u) /\ evt[u].down /\ evt[u].key = k
    <2>1. evt[t] \in Entries /\ machine' = machine
      BY <1>5 DEF Entries, AdvanceCursor, dos
    <2>2. IF evt[t].key = k THEN evt[t].down ELSE StaysDown(Pending, k, machine)
      BY <1>1, <1>2, <1>5, <2>1, DownAppended
    <2>3. \A u \in Writers : AdvanceCursor(u) => u = t
      BY <1>5, OneAdvances DEF QueueStep
    <2> QED
      BY <1>5, <2>2, <2>3
  <1> QED
    BY <1>3, <1>4, <1>5, PendingStep

(* Outside of DBP_QueueEvent nothing takes a key for released. *)
LEMMA StaysCounted ==
    ASSUME KInv, Next, \A t \in Writers : ~QueueStep(t), NEW k \in Keys, Count(k) > 0
    PROVE  Count(k)' > 0
  <1> USE DEF KInv, Typing
  <1>1. \/ keysDown' = keysDown
        \/ keysDown' = [keysDown EXCEPT ![evt["ui"].key] = 1]
        \/ keysDown' = [keysDown EXCEPT ![toRelease] = 1]
        \/ /\ keysDown' = [keysDown EXCEPT ![evt["ui"].key] = 128]
           /\ keysDown[evt["ui"].key] = 0
    <2>1. CASE keyboard_event
      BY <2>1 DEF keyboard_event, DBP_DOWN_BY_KEYBOARD
    <2>2. CASE ReleaseKey
      BY <2>2 DEF ReleaseKey
    <2>3. CASE ~keyboard_event /\ ~ReleaseKey
      BY <2>3 DEF Next, UserStep, UIStep, EmuStep, KeyDownEvent, KeyUpEvent, LoseKeyUp, PadChange,
             ClearPads, PollKey, SetPads, CoreSide, GameBindings, OsdFirstTime, OsdBindings,
             OsdClosing, OsdClosed, StickyKeys, ReleaseDone, CopyEvent, TakeEvent, OsdStep,
             StartOSD, OSDStarted, CloseOSD, downs, Writers
    <2> QED
      BY <2>1, <2>2, <2>3
  <1>2. keysDown'[k] = keysDown[k] \/ keysDown'[k] = 1 \/ keysDown[k] = 0
    BY <1>1 DEF KeysTyped
  <1> QED
    BY <1>2 DEF Count, DBP_DOWN_BY_KEYBOARD

(* No step makes a key stay down that the core takes for released. *)
LEMMA DInvKept == ASSUME KInv, RInv, DInv, Next PROVE DInv'
  <1> SUFFICES ASSUME timesFull' = 0, raced' \subseteq {"call"}
               PROVE  /\ \A t \in Writers : at'[t] \in Placing /\ evt'[t].down
                                            => Count(evt[t].key)' > 0
                      /\ \A k \in Keys : StaysDown(Pending, k, machine)' =>
                            Count(k)' > 0 \/ \E t \in Writers : Releases(t, k)'
    BY DEF DInv, Writers, Keys
  <1> USE DEF KInv, Typing
  <1>1. timesFull = 0
    <2>1. CASE \E t \in Writers : QueueStep(t)
      BY <2>1 DEF QueueStep, CountPress, CountRelease, ReadCursors, Collapse, WriteSlot,
             AdvanceCursor, RingTyped
    <2> QED
      BY <2>1, NotPlacing
  <1>0. raced \subseteq {"call"} /\ "ring" \notin raced' /\ Apart /\ AllOwned
    BY ApartKept
  <1>2. /\ \A t \in Writers : at[t] \in Placing /\ evt[t].down => Count(evt[t].key) > 0
        /\ \A k \in Keys : StaysDown(Pending, k, machine) =>
                Count(k) > 0 \/ \E t \in Writers : Releases(t, k)
    BY <1>0, <1>1 DEF DInv
  <1>3. CASE \A t \in Writers : ~QueueStep(t)
    <2>1. \A t \in Writers : at[t] \in Placing \/ at'[t] \in Placing =>
                                at'[t] = at[t] /\ evt'[t] = evt[t]
      BY <1>3, NotPlacing
    <2>2. ASSUME NEW t \in Writers, at'[t] \in Placing, evt'[t].down
          PROVE  Count(evt[t].key)' > 0
      <3>1. PICK k \in Keys : k = evt[t].key /\ k = evt'[t].key
        BY <2>1, <2>2, CallerEvent DEF Placing, Calling, Within, AtRing
      <3>2. Count(k) > 0
        BY <1>2, <2>1, <2>2, <3>1
      <3>3. Count(k)' > 0
        BY <1>3, <3>2, StaysCounted
      <3> QED
        BY <3>1, <3>3 DEF Count
    <2>3. ASSUME NEW k \in Keys, StaysDown(Pending, k, machine)'
          PROVE  Count(k)' > 0 \/ \E t \in Writers : Releases(t, k)'
      <3>1. \A t \in Writers : ~AdvanceCursor(t)
        BY <1>3 DEF QueueStep
      <3>2. StaysDown(Pending, k, machine)
        BY <2>3, <3>1, <1>0, DownStep
      <3>3. Count(k) > 0 \/ \E t \in Writers : Releases(t, k)
        BY <1>2, <3>2
      <3>4. ASSUME NEW t \in Writers PROVE Releases(t, k) => Releases(t, k)'
        BY <2>1 DEF Releases
      <3> QED
        BY <1>3, <3>3, <3>4, StaysCounted
    <2> QED
      BY <2>2, <2>3
  <1>4. ASSUME NEW t \in Writers, QueueStep(t)
        PROVE  /\ \A u \in Writers : at'[u] \in Placing /\ evt'[u].down
                                     => Count(evt[u].key)' > 0
               /\ \A k \in Keys : StaysDown(Pending, k, machine)' =>
                     Count(k)' > 0 \/ \E u \in Writers : Releases(u, k)'
    <2>1. Calling(t)
      BY <1>4 DEF QueueStep, CountPress, CountRelease, ReadCursors, Collapse, WriteSlot,
             AdvanceCursor, Calling, Within, AtRing
    <2>2. PICK j \in Keys : j = evt[t].key /\ evt[t].down \in BOOLEAN
      BY <2>1, CallerEvent
    <2>3. /\ \A u \in Writers : AdvanceCursor(u) => u = t
          /\ \A u \in Writers : u # t => at'[u] = at[u] /\ evt'[u] = evt[u]
          /\ \A u \in Writers : u # t /\ at[u] \in Placing => evt[u].key # j
          /\ \A u \in Writers : u # t => ~Releases(u, j) /\ ~Releases(u, j)'
          /\ \A u \in Writers, k \in Keys : u # t => (Releases(u, k)' <=> Releases(u, k))
      <3>1. /\ \A u \in Writers : AdvanceCursor(u) => u = t
            /\ \A u \in Writers : u # t => at'[u] = at[u] /\ evt'[u] = evt[u]
        BY <1>4, OneMoves, OneAdvances
      <3>2. \A u \in Writers : u # t /\ at[u] \in Placing => evt[u].key # j
        BY <1>0, <2>1, <2>2 DEF Apart, Calling, Within, AtRing, Placing, Writers
      <3> QED
        BY <3>1, <3>2 DEF Releases
    <2>10. ASSUME \A k \in Keys : k # j => Count(k)' = Count(k),
                  NEW u \in Writers, u # t, at'[u] \in Placing, evt'[u].down
           PROVE  Count(evt[u].key)' > 0
      <3>1. PICK k \in Keys : k = evt[u].key /\ k # j
        BY <2>3, <2>10, CallerEvent DEF Placing, Calling, Within, AtRing
      <3>2. Count(k) > 0
        BY <1>2, <2>3, <2>10, <3>1
      <3>3. Count(k)' > 0
        BY <2>10, <3>1, <3>2
      <3> QED
        BY <2>3, <2>10, <3>1, <3>3 DEF Count
    <2>11. ASSUME NEW k \in Keys, StaysDown(Pending, k, machine)',
                  \A u \in Writers : ~Releases(u, k)'
           PROVE  \/ Count(k) > 0 \/ (Releases(t, k) /\ ~(AdvanceCursor(t) /\ evt[t].key = k))
                  \/ AdvanceCursor(t) /\ evt[t].down /\ evt[t].key = k
      <3>1. CASE /\ StaysDown(Pending, k, machine)
                 /\ \A u \in Writers : AdvanceCursor(u) => evt[u].key # k
        <4>1. Count(k) > 0 \/ \E u \in Writers : Releases(u, k)
          BY <1>2, <3>1
        <4> QED
          BY <2>3, <2>11, <3>1, <4>1
      <3>2. CASE \E u \in Writers : AdvanceCursor(u) /\ evt[u].down /\ evt[u].key = k
        BY <2>3, <3>2
      <3> QED
        BY <1>0, <2>11, <3>1, <3>2, DownStep
    <2>4. CASE CountPress(t)
      <3>1. /\ at[t] = "count" /\ ~AdvanceCursor(t) /\ evt[t].down
            /\ keysDown' = [keysDown EXCEPT ![j] = (keysDown[j] + 1) % 256]
        BY <2>2, <2>4 DEF CountPress, AdvanceCursor
      <3>2. Count(j)' > 0
        <4>1. keysDown[j] \in 0 .. 255 /\ keysDown[j] % 128 <= 3
          BY <1>0, <2>2 DEF KeysTyped, AllOwned, Owned, Count, DBP_DOWN_BY_KEYBOARD
        <4>2. keysDown'[j] = (keysDown[j] + 1) % 256
          BY <3>1 DEF KeysTyped
        <4>3. keysDown'[j] % 128 > 0
          BY <4>1, <4>2
        <4> QED
          BY <4>3 DEF Count, DBP_DOWN_BY_KEYBOARD
      <3>3. \A k \in Keys : k # j => Count(k)' = Count(k)
        BY <3>1 DEF Count, KeysTyped
      <3>4. ASSUME at'[t] \in Placing PROVE Count(evt[t].key)' > 0
        <4>1. evt'[t].key = j
          BY <2>2, <2>4, <3>4 DEF CountPress, Goto, Return, WritersTyped, Placing
        <4> QED
          BY <3>2, <4>1 DEF Count
      <3>5. ASSUME NEW k \in Keys, StaysDown(Pending, k, machine)',
                   \A u \in Writers : ~Releases(u, k)'
            PROVE  Count(k)' > 0
        BY <2>11, <3>1, <3>2, <3>3, <3>5 DEF Releases
      <3> QED
        BY <2>10, <3>3, <3>4, <3>5
    <2>5. CASE CountRelease(t)
      <3>1. /\ at[t] = "count" /\ ~AdvanceCursor(t) /\ ~evt[t].down
            /\ keysDown' = [keysDown EXCEPT ![j] = IF Count(j) = 0 THEN keysDown[j]
                                                                   ELSE keysDown[j] - 1]
            /\ IF Count(j) = 1 THEN Goto(t, "cursors") ELSE Return(t)
        BY <2>2, <2>5 DEF CountRelease, AdvanceCursor
      <3>2. \A k \in Keys : k # j => Count(k)' = Count(k)
        BY <3>1 DEF Count, KeysTyped
      <3>3. Count(j) > 1 => Count(j)' > 0
        <4>1. keysDown[j] \in 0 .. 255
          BY DEF KeysTyped
        <4>2. Count(j) > 1 => keysDown'[j] = keysDown[j] - 1
          BY <3>1 DEF KeysTyped
        <4> QED
          BY <4>1, <4>2 DEF Count, DBP_DOWN_BY_KEYBOARD
      <3>4. Count(j) = 1 => Releases(t, j)'
        BY <2>2, <3>1 DEF Goto, WritersTyped, Releases, Placing
      <3>5. at'[t] \in Placing => ~evt'[t].down
        BY <3>1 DEF Goto, Return, WritersTyped, Placing
      <3>6. ASSUME NEW k \in Keys, StaysDown(Pending, k, machine)',
                   \A u \in Writers : ~Releases(u, k)'
            PROVE  Count(k)' > 0
        <4>1. Count(k) > 0
          BY <2>11, <3>1, <3>6 DEF Releases, Placing
        <4>2. k = j => Count(j) > 1
          BY <3>4, <3>6, <4>1, CountTypes
        <4> QED
          BY <3>2, <3>3, <4>1, <4>2
      <3> QED
        BY <2>10, <3>2, <3>5, <3>6
    <2>6. CASE ReadCursors(t) \/ Collapse(t) \/ WriteSlot(t)
      <3>1. /\ UNCHANGED <<keysDown, evt>> /\ at[t] \in Placing /\ at'[t] \in Placing
            /\ ~AdvanceCursor(t)
        BY <2>6 DEF ReadCursors, Collapse, WriteSlot, Goto, AdvanceCursor, WritersTyped, Placing,
               downs
      <3>2. \A k \in Keys : Count(k)' = Count(k)
        BY <3>1 DEF Count
      <3>3. evt'[t].down => Count(evt[t].key)' > 0
        BY <1>2, <3>1 DEF Count
      <3>4. ASSUME NEW k \in Keys, StaysDown(Pending, k, machine)',
                   \A u \in Writers : ~Releases(u, k)'
            PROVE  Count(k)' > 0
        <4>1. ~Releases(t, k)
          BY <3>1, <3>4 DEF Releases
        <4> QED
          BY <2>11, <3>1, <3>2, <3>4, <4>1
      <3> QED
        BY <2>10, <3>2, <3>3, <3>4
    <2>7. CASE AdvanceCursor(t)
      <3>1. at[t] \in Placing /\ at'[t] \notin Placing /\ UNCHANGED keysDown
        BY <2>7 DEF AdvanceCursor, Return, WritersTyped, Placing, downs
      <3>2. \A k \in Keys : Count(k)' = Count(k)
        BY <3>1 DEF Count
      <3>3. ASSUME NEW k \in Keys, StaysDown(Pending, k, machine)',
                   \A u \in Writers : ~Releases(u, k)'
            PROVE  Count(k)' > 0
        <4>1. CASE evt[t].down /\ evt[t].key = k
          BY <1>2, <3>1, <3>2, <4>1
        <4>2. CASE ~(evt[t].down /\ evt[t].key = k)
          <5>1. Count(k) > 0 \/ (Releases(t, k) /\ evt[t].key # k)
            BY <2>7, <2>11, <3>3, <4>2
          <5> QED
            BY <3>2, <5>1 DEF Releases
        <4> QED
          BY <4>1, <4>2
      <3> QED
        BY <2>10, <3>1, <3>2, <3>3
    <2> QED
      BY <1>4, <2>4, <2>5, <2>6, <2>7 DEF QueueStep
  <1> QED
    BY <1>3, <1>4

(* At the start nothing is down. *)
LEMMA DownBegins == Init => DInv
  <1> SUFFICES ASSUME Init PROVE DInv
    OBVIOUS
  <1>1. Typing
    BY Begins DEF KInv
  <1>2. Length(writeCursor, readCursor) = 0
    BY <1>1, Around DEF Init, Typing, RingTyped, Slots
  <1>3. Pending = << >>
    <2>1. queue \in [Slots -> Entries] /\ writeCursor \in Slots /\ readCursor \in Slots
      BY <1>1 DEF Typing, RingTyped, Entries
    <2>2. /\ Pending \in Seq(Entries)
          /\ Len(Pending) = Length(writeCursor, readCursor)
      BY <2>1, RingIsSeq, PendingIs
    <2> QED
      BY <1>2, <2>2
  <1>4. \A k \in Keys : ~StaysDown(Pending, k, machine)
    BY <1>3 DEF StaysDown, Init
  <1>5. \A t \in Writers : at[t] \notin Placing
    BY DEF Init, Writers, Placing
  <1> QED
    BY <1>4, <1>5 DEF DInv

(* A key that will stay down in the machine is down for the core: until    *)
(* the ring is full, or two threads write it or are in the call with one   *)
(* key at once, no order in which the keyboard, the pad, the polls and the *)
(* OSD press and release a key makes it stick.                             *)
THEOREM NoKeySticks == Spec => []NoStuckKey
  <1> DEFINE IInv == KInv /\ RInv /\ DInv
  <1>1. IInv /\ [Next]_vars => IInv'
    <2> SUFFICES ASSUME IInv, [Next]_vars PROVE IInv'
      OBVIOUS
    <2>1. KInv' /\ RInv'
      BY KInvKept, RInvKeeps
    <2>2. CASE Next
      BY <2>1, <2>2, DInvKept
    <2>3. CASE UNCHANGED vars
      <3>1. UNCHANGED <<at, evt, raced, keysDown, machine, timesFull, queue, writeCursor,
                        readCursor>>
        BY <2>3 DEF vars, writers, downs, dos, ring
      <3>2. Pending' = Pending
        BY <3>1 DEF Pending
      <3>3. DInv'
        BY <3>1, <3>2 DEF DInv, Count, StaysDown, Releases, Writers, Keys
      <3> QED
        BY <2>1, <3>3
    <2> QED
      BY <2>2, <2>3
  <1>2. Init => IInv
    BY Begins, RingBegins, DownBegins
  <1>3. IInv => NoStuckKey
    <2> SUFFICES ASSUME IInv, NoCall, timesFull = 0, raced \subseteq {"call"}, NEW k \in Keys,
                        EndsDown(k)
                 PROVE  Count(k) > 0
      BY DEF NoStuckKey
    <2>1. StaysDown(Pending, k, machine)
      BY DownByLast DEF KInv
    <2>2. \A t \in Writers : ~Releases(t, k)
      BY DEF NoCall, Releases, Placing, Within, AtRing
    <2> QED
      BY <2>1, <2>2 DEF DInv
  <1> QED
    BY <1>1, <1>2, <1>3, PTL DEF Spec
==============================================================================
