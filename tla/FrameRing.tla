------------------------------ MODULE FrameRing -----------------------------
(***************************************************************************)
(* The video frame ring of RetroCore.  The emulation thread publishes a    *)
(* frame in retro_video, the UI thread takes the newest one in             *)
(* AcquireFrame and gives the slot back in ReleaseFrame.  There is no      *)
(* lock: every access to a slot's state or sequence number is one atomic   *)
(* operation, and each of them is a step of its own here.                  *)
(***************************************************************************)
EXTENDS Integers, FiniteSets

CONSTANTS FrameSlots,   \* FRAME_SLOTS
          MaxFrames,    \* bound on the frames published
          MaxGames      \* bound on the games loaded

ASSUME FrameSlotsAssumption == FrameSlots \in Nat \ {0}
ASSUME BoundsAssumption == MaxFrames \in Nat /\ MaxGames \in Nat

Slots == 0 .. FrameSlots - 1
NoSlot == -1

(* Slot states *)
Free == 0
Writing == 1
Published == 2
Reading == 3

VARIABLES
    frameState,        \* s_frameState
    frameSeq,          \* s_frameSeq
    frameData,         \* s_frameSlots[i].data: which frame of which game
    seqCounter,        \* g_frameSeqCounter
    lastPresentedSeq,  \* s_lastPresentedSeq
    readSlot,          \* s_readSlot
    loaded,            \* s_loaded
    game,              \* which game is loaded (its number; 0 before the first)
    prodPc, prodIdx, target,                      \* retro_video
    consPc, consIdx, lastShown, best, bestSeq,    \* AcquireFrame
    screen             \* the frame last uploaded to the GPU

sharedVars == <<frameState, frameSeq, frameData, seqCounter,
                lastPresentedSeq, readSlot, loaded, game, screen>>
prodVars == <<prodPc, prodIdx, target>>
consVars == <<consPc, consIdx, lastShown, best, bestSeq>>
vars == <<sharedVars, prodVars, consVars>>

NoFrame == [n |-> 0, game |-> 0]
Frames == [n : 0 .. MaxFrames, game : 0 .. MaxGames]

Init ==
    /\ frameState = [s \in Slots |-> Free]
    /\ frameSeq = [s \in Slots |-> 0]
    /\ frameData = [s \in Slots |-> NoFrame]
    /\ seqCounter = 0 /\ lastPresentedSeq = 0 /\ readSlot = NoSlot
    /\ loaded = FALSE /\ game = 0 /\ screen = NoFrame
    /\ prodPc = "core" /\ prodIdx = 0 /\ target = NoSlot
    /\ consPc = "ui" /\ consIdx = 0 /\ lastShown = 0
    /\ best = NoSlot /\ bestSeq = 0

(***************************************************************************)
(* Emulation thread: retro_video                                           *)
(***************************************************************************)
RetroVideo ==
    /\ prodPc = "core" /\ loaded /\ seqCounter < MaxFrames
    /\ prodPc' = "findFree" /\ prodIdx' = 0 /\ target' = NoSlot
    /\ UNCHANGED <<sharedVars, consVars>>

(* compare_exchange of slot prodIdx from free to writing *)
ClaimFree ==
    /\ prodPc = "findFree" /\ prodIdx \in Slots
    /\ frameState[prodIdx] = Free
    /\ frameState' = [frameState EXCEPT ![prodIdx] = Writing]
    /\ target' = prodIdx /\ prodPc' = "copy"
    /\ UNCHANGED <<frameSeq, frameData, seqCounter, lastPresentedSeq, readSlot,
                   loaded, game, screen, prodIdx, consVars>>

SkipBusy ==
    /\ prodPc = "findFree" /\ prodIdx \in Slots
    /\ frameState[prodIdx] # Free
    /\ IF prodIdx + 1 \in Slots
       THEN prodIdx' = prodIdx + 1 /\ UNCHANGED prodPc
       ELSE prodIdx' = 0 /\ prodPc' = "findOldest"
    /\ UNCHANGED <<sharedVars, target, consVars>>

(* Mutant of ScanOldest: the comparison the wrong way round. *)
ScanNewest ==
    /\ prodPc = "findOldest" /\ prodIdx \in Slots
    /\ target' = IF /\ frameState[prodIdx] = Published
                    /\ \/ target = NoSlot
                       \/ frameSeq[prodIdx] > frameSeq[target]
                 THEN prodIdx ELSE target
    /\ prodIdx' = prodIdx + 1
    /\ UNCHANGED <<sharedVars, prodPc, consVars>>

(* The state is loaded; the sequence number of a slot changes only in this *)
(* thread, so its load is part of the same step.                           *)
ScanOldest ==
    /\ prodPc = "findOldest" /\ prodIdx \in Slots
    /\ target' = IF /\ frameState[prodIdx] = Published
                    /\ \/ target = NoSlot
                       \/ frameSeq[prodIdx] < frameSeq[target]
                 THEN prodIdx ELSE target
    /\ prodIdx' = prodIdx + 1
    /\ UNCHANGED <<sharedVars, prodPc, consVars>>

(* Mutant of ClaimOldest: a plain store instead of the compare-exchange. *)
ClaimUnchecked ==
    /\ prodPc = "findOldest" /\ prodIdx = FrameSlots /\ target # NoSlot
    /\ frameState' = [frameState EXCEPT ![target] = Writing]
    /\ prodPc' = "copy"
    /\ UNCHANGED <<frameSeq, frameData, seqCounter, lastPresentedSeq, readSlot,
                   loaded, game, screen, prodIdx, target, consVars>>

(* compare_exchange of the oldest published slot *)
ClaimOldest ==
    /\ prodPc = "findOldest" /\ prodIdx = FrameSlots
    /\ target # NoSlot /\ frameState[target] = Published
    /\ frameState' = [frameState EXCEPT ![target] = Writing]
    /\ prodPc' = "copy"
    /\ UNCHANGED <<frameSeq, frameData, seqCounter, lastPresentedSeq, readSlot,
                   loaded, game, screen, prodIdx, target, consVars>>

(* Nothing to overwrite, or the UI took the slot after the scan *)
DropFrame ==
    /\ prodPc = "findOldest" /\ prodIdx = FrameSlots
    /\ target # NoSlot => frameState[target] # Published
    /\ prodPc' = "core" /\ target' = NoSlot
    /\ UNCHANGED <<sharedVars, prodIdx, consVars>>

CopyFrame ==
    /\ prodPc = "copy"
    /\ frameData' = [frameData EXCEPT ![target] = [n |-> seqCounter + 1, game |-> game]]
    /\ prodPc' = "number"
    /\ UNCHANGED <<frameState, frameSeq, seqCounter, lastPresentedSeq, readSlot,
                   loaded, game, screen, prodIdx, target, consVars>>

(* Mutants of NumberFrame: the slot keeps its old number; the counter is   *)
(* advanced once for the copy and once for the publication.                *)
NumberOnlyCounter ==
    /\ prodPc = "number"
    /\ seqCounter' = seqCounter + 1 /\ prodPc' = "publish"
    /\ UNCHANGED <<frameState, frameSeq, frameData, lastPresentedSeq, readSlot,
                   loaded, game, screen, prodIdx, target, consVars>>
NumberTwice ==
    /\ prodPc = "number"
    /\ seqCounter' = seqCounter + 2
    /\ frameSeq' = [frameSeq EXCEPT ![target] = seqCounter']
    /\ prodPc' = "publish"
    /\ UNCHANGED <<frameState, frameData, lastPresentedSeq, readSlot, loaded,
                   game, screen, prodIdx, target, consVars>>

NumberFrame ==
    /\ prodPc = "number"
    /\ seqCounter' = seqCounter + 1
    /\ frameSeq' = [frameSeq EXCEPT ![target] = seqCounter']
    /\ prodPc' = "publish"
    /\ UNCHANGED <<frameState, frameData, lastPresentedSeq, readSlot, loaded,
                   game, screen, prodIdx, target, consVars>>

PublishFrame ==
    /\ prodPc = "publish"
    /\ frameState' = [frameState EXCEPT ![target] = Published]
    /\ prodPc' = "core" /\ target' = NoSlot
    /\ UNCHANGED <<frameSeq, frameData, seqCounter, lastPresentedSeq, readSlot,
                   loaded, game, screen, prodIdx, consVars>>

(***************************************************************************)
(* Emulation thread: the part of LoadGameInternal and UnloadGameInternal   *)
(* that the ring sees.  A load does not unload the game before it.  The    *)
(* last game allowed by the bound stays loaded.                            *)
(***************************************************************************)
LoadGame ==
    /\ prodPc = "core" /\ game < MaxGames
    /\ loaded' = TRUE /\ game' = game + 1 /\ prodPc' = "reset"
    /\ UNCHANGED <<frameState, frameSeq, frameData, seqCounter, lastPresentedSeq,
                   readSlot, screen, prodIdx, target, consVars>>

UnloadGame ==
    /\ prodPc = "core" /\ loaded /\ game < MaxGames
    /\ loaded' = FALSE /\ prodPc' = "reset"
    /\ UNCHANGED <<frameState, frameSeq, frameData, seqCounter, lastPresentedSeq,
                   readSlot, game, screen, prodIdx, target, consVars>>

ResetPresented ==
    /\ prodPc = "reset"
    /\ lastPresentedSeq' = 0 /\ prodPc' = "core"
    /\ UNCHANGED <<frameState, frameSeq, frameData, seqCounter, readSlot, loaded,
                   game, screen, prodIdx, target, consVars>>

(***************************************************************************)
(* UI thread: Render, AcquireFrame, ReleaseFrame                           *)
(***************************************************************************)
RenderLoaded ==
    /\ consPc = "ui" /\ loaded
    /\ consPc' = "enter"
    /\ UNCHANGED <<sharedVars, prodVars, consIdx, lastShown, best, bestSeq>>

EnterAcquire ==
    /\ consPc = "enter"
    /\ lastShown' = lastPresentedSeq
    /\ consIdx' = 0 /\ best' = NoSlot /\ bestSeq' = 0 /\ consPc' = "scan"
    /\ UNCHANGED <<sharedVars, prodVars>>

LoadState ==
    /\ consPc = "scan" /\ consIdx \in Slots
    /\ IF frameState[consIdx] = Published
       THEN consPc' = "seq" /\ UNCHANGED consIdx
       ELSE consIdx' = consIdx + 1 /\ UNCHANGED consPc
    /\ UNCHANGED <<sharedVars, prodVars, lastShown, best, bestSeq>>

(* The producer may have rewritten the slot since LoadState. *)
LoadSeq ==
    /\ consPc = "seq"
    /\ IF /\ frameSeq[consIdx] > lastShown
          /\ best = NoSlot \/ frameSeq[consIdx] > bestSeq
       THEN best' = consIdx /\ bestSeq' = frameSeq[consIdx]
       ELSE UNCHANGED <<best, bestSeq>>
    /\ consIdx' = consIdx + 1 /\ consPc' = "scan"
    /\ UNCHANGED <<sharedVars, prodVars, lastShown>>

(* compare_exchange of the best slot from published to reading *)
ClaimBest ==
    /\ consPc = "scan" /\ consIdx = FrameSlots
    /\ best # NoSlot /\ frameState[best] = Published
    /\ frameState' = [frameState EXCEPT ![best] = Reading]
    /\ consPc' = "stamp"
    /\ UNCHANGED <<frameSeq, frameData, seqCounter, lastPresentedSeq, readSlot,
                   loaded, game, screen, prodVars, consIdx, lastShown, best, bestSeq>>

NothingNew ==
    /\ consPc = "scan" /\ consIdx = FrameSlots
    /\ best # NoSlot => frameState[best] # Published
    /\ consPc' = "ui"
    /\ UNCHANGED <<sharedVars, prodVars, consIdx, lastShown, best, bestSeq>>

(* Mutant of StampPresented: everything published so far counts as shown. *)
StampNewest ==
    /\ consPc = "stamp"
    /\ readSlot' = best /\ lastPresentedSeq' = seqCounter
    /\ consPc' = "upload"
    /\ UNCHANGED <<frameState, frameSeq, frameData, seqCounter, loaded, game,
                   screen, prodVars, consIdx, lastShown, best, bestSeq>>

(* s_readSlot is this thread's own; the store that matters to the other    *)
(* thread is the one of s_lastPresentedSeq.                                *)
StampPresented ==
    /\ consPc = "stamp"
    /\ readSlot' = best /\ lastPresentedSeq' = bestSeq
    /\ consPc' = "upload"
    /\ UNCHANGED <<frameState, frameSeq, frameData, seqCounter, loaded, game,
                   screen, prodVars, consIdx, lastShown, best, bestSeq>>

UploadFrame ==
    /\ consPc = "upload"
    /\ screen' = frameData[best] /\ consPc' = "release"
    /\ UNCHANGED <<frameState, frameSeq, frameData, seqCounter, lastPresentedSeq,
                   readSlot, loaded, game, prodVars, consIdx, lastShown, best, bestSeq>>

(* Mutants of ReleaseFrame: the slot goes back as published; it does not   *)
(* go back at all.                                                         *)
ReleasePublished ==
    /\ consPc = "release"
    /\ frameState' = [frameState EXCEPT ![readSlot] = Published]
    /\ readSlot' = NoSlot /\ consPc' = "ui"
    /\ UNCHANGED <<frameSeq, frameData, seqCounter, lastPresentedSeq, loaded,
                   game, screen, prodVars, consIdx, lastShown, best, bestSeq>>
ReleaseForgotten ==
    /\ consPc = "release"
    /\ readSlot' = NoSlot /\ consPc' = "ui"
    /\ UNCHANGED <<frameState, frameSeq, frameData, seqCounter, lastPresentedSeq,
                   loaded, game, screen, prodVars, consIdx, lastShown, best, bestSeq>>

ReleaseFrame ==
    /\ consPc = "release"
    /\ frameState' = IF readSlot \in Slots
                     THEN [frameState EXCEPT ![readSlot] = Free] ELSE frameState
    /\ readSlot' = NoSlot /\ consPc' = "ui"
    /\ UNCHANGED <<frameSeq, frameData, seqCounter, lastPresentedSeq, loaded,
                   game, screen, prodVars, consIdx, lastShown, best, bestSeq>>

-----------------------------------------------------------------------------
Produce == \/ ClaimFree \/ SkipBusy \/ ScanOldest \/ ClaimOldest \/ DropFrame
           \/ CopyFrame \/ NumberFrame \/ PublishFrame \/ ResetPresented

Emulate == RetroVideo \/ LoadGame \/ UnloadGame \/ Produce

Consume == \/ RenderLoaded \/ EnterAcquire \/ LoadState \/ LoadSeq \/ ClaimBest
           \/ NothingNew \/ StampPresented \/ UploadFrame \/ ReleaseFrame

Next == Emulate \/ Consume

Spec == Init /\ [][Next]_vars

(* The render loop keeps drawing, and a call of retro_video runs to its    *)
(* end; whether the core produces another frame, or a game is loaded or    *)
(* left, is up to the core and the user.                                   *)
FairSpec == Spec /\ WF_vars(Consume) /\ WF_vars(Produce)

-----------------------------------------------------------------------------
TypeOK ==
    /\ frameState \in [Slots -> {Free, Writing, Published, Reading}]
    /\ frameSeq \in [Slots -> 0 .. MaxFrames]
    /\ frameData \in [Slots -> Frames]
    /\ seqCounter \in 0 .. MaxFrames /\ lastPresentedSeq \in 0 .. MaxFrames
    /\ readSlot \in Slots \cup {NoSlot}
    /\ loaded \in BOOLEAN /\ game \in 0 .. MaxGames /\ screen \in Frames
    /\ prodPc \in {"core", "reset", "findFree", "findOldest", "copy", "number", "publish"}
    /\ prodIdx \in 0 .. FrameSlots /\ target \in Slots \cup {NoSlot}
    /\ consPc \in {"ui", "enter", "scan", "seq", "stamp", "upload", "release"}
    /\ consIdx \in 0 .. FrameSlots /\ lastShown \in 0 .. MaxFrames
    /\ best \in Slots \cup {NoSlot} /\ bestSeq \in 0 .. MaxFrames

ProducerHolds == IF prodPc \in {"copy", "number", "publish"} THEN {target} ELSE {}
ConsumerHolds == IF consPc \in {"stamp", "upload", "release"} THEN {best} ELSE {}

(* No slot is written while the UI uploads it, whatever the interleaving   *)
(* of the two compare-exchange claims: the pixels of a frame on screen are *)
(* those of one retro_video call.                                          *)
NoTearing == ProducerHolds \cap ConsumerHolds = {}

(* A slot is marked writing or reading exactly while a thread works on it: *)
(* no dropped frame, lost claim or unload ever leaks a slot of the ring.   *)
NoSlotLeak ==
    /\ {s \in Slots : frameState[s] = Writing} = ProducerHolds
    /\ {s \in Slots : frameState[s] = Reading} = ConsumerHolds

(* A published slot's sequence number is the number of the frame in it,    *)
(* and two published slots never carry the same one, so that newest and    *)
(* oldest are well defined.                                                *)
SeqNamesFrame ==
    /\ \A s \in Slots : frameState[s] \in {Published, Reading} =>
                            frameSeq[s] = frameData[s].n /\ frameSeq[s] > 0
    /\ \A s, t \in Slots : frameSeq[s] = frameSeq[t] /\ frameSeq[s] > 0 => s = t

(* The bookkeeping of the ring: the types, every slot accounted for, and   *)
(* every published number naming its frame.                                *)
RingSound == TypeOK /\ NoSlotLeak /\ SeqNamesFrame

(* retro_video never overwrites the newest published frame: that slot is   *)
(* left only to the UI.                                                    *)
NewestKept ==
    [][\A s \in Slots :
          frameState[s] = Published /\ frameSeq[s] = seqCounter
             => frameState'[s] \in {Published, Reading}]_vars

(* As long as a game stays loaded, a published frame, or a later one,      *)
(* reaches the screen: neither a lost claim nor the comparison with the    *)
(* last presented number starves the newest frame.                         *)
NewestShown ==
    \A n \in 1 .. MaxFrames :
        (prodPc = "publish" /\ seqCounter = n) ~> (screen.n >= n \/ ~loaded)

(* RetroCore.cpp: "the screen never jumps backwards through stale          *)
(* published frames".                                                      *)
NeverBackwards == [][screen'.n >= screen.n]_vars

(* The ring implements the mailbox. *)
Mailbox == INSTANCE FrameMailbox WITH
    pending <- {frameData[s].n : s \in {t \in Slots : frameState[t] = Published}},
    newest <- IF prodPc = "publish" THEN seqCounter - 1 ELSE seqCounter,
    held <- IF consPc \in {"stamp", "upload", "release"} THEN frameData[best].n ELSE 0,
    screen <- screen.n

MailboxSpec == Mailbox!MailboxSpec
=============================================================================
