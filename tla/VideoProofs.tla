----------------------------- MODULE VideoProofs -----------------------------
(***************************************************************************)
(* The way of a picture to the screen: proofs about FrameRing, which hands *)
(* it from the emulation thread to the user interface, and about           *)
(* GraphicsDevice, which draws it, each a specification of its own.        *)
(*                                                                         *)
(* FrameRing: for every number of slots and every bound.                   *)
(* GraphicsDevice: for every set of window sizes, scales and resolutions,  *)
(* every threshold, both native orientations and any number of devices.    *)
(***************************************************************************)
EXTENDS FrameRing, GraphicsDevice, TLAPS
-----------------------------------------------------------------------------
(* The ring of frames *)


(* TypeOK is not inductive alone: that the counter stays within its bound  *)
(* rests on the guard of RetroVideo, taken several steps before the        *)
(* counter moves, and the slots indexed in a step were chosen in earlier   *)
(* ones.                                                                   *)
InFrame == prodPc \in {"findFree", "findOldest", "copy", "number"}

TypeInv ==
    /\ TypeOK
    /\ InFrame => seqCounter < MaxFrames
    /\ prodPc \in {"copy", "number", "publish"} => target \in Slots
    /\ consPc \in {"stamp", "upload", "release"} => best \in Slots
    /\ consPc = "seq" => consIdx \in Slots

LEMMA TypeInvInit == Init => TypeInv
  <1> SUFFICES ASSUME Init PROVE TypeInv
    OBVIOUS
  <1>1. NoFrame \in Frames
    BY BoundsAssumption DEF NoFrame, Frames
  <1>2. frameState \in [Slots -> {Free, Writing, Published, Reading}]
    BY DEF Init
  <1>3. frameData \in [Slots -> Frames] /\ screen \in Frames
    BY <1>1 DEF Init
  <1>4. frameSeq \in [Slots -> 0 .. MaxFrames]
    BY BoundsAssumption DEF Init
  <1>5. 0 \in 0 .. MaxFrames /\ 0 \in 0 .. MaxGames /\ 0 \in 0 .. FrameSlots
    BY FrameSlotsAssumption, BoundsAssumption
  <1>6. TypeOK
    BY <1>2, <1>3, <1>4, <1>5 DEF Init, TypeOK
  <1>7. QED
    BY <1>6 DEF Init, TypeInv, InFrame

LEMMA TypeInvStep == TypeInv /\ [Next]_vars => TypeInv'
  <1> SUFFICES ASSUME TypeInv, [Next]_vars PROVE TypeInv'
    OBVIOUS
  <1> USE DEF TypeInv, TypeOK, InFrame, sharedVars, prodVars, consVars
  <1>1. CASE RetroVideo      BY <1>1, FrameSlotsAssumption DEF RetroVideo
  <1>2. CASE ClaimFree       BY <1>2 DEF ClaimFree, Writing
  <1>3. CASE SkipBusy
    <2>1. CASE prodIdx + 1 \in Slots
      BY <1>3, <2>1, FrameSlotsAssumption DEF SkipBusy, Slots
    <2>2. CASE prodIdx + 1 \notin Slots
      BY <1>3, <2>2, FrameSlotsAssumption DEF SkipBusy
    <2>3. QED
      BY <2>1, <2>2
  <1>4. CASE ScanOldest
    <2>1. prodIdx' \in 0 .. FrameSlots
      BY <1>4, FrameSlotsAssumption DEF ScanOldest, Slots
    <2>2. target' \in Slots \cup {NoSlot}
      BY <1>4 DEF ScanOldest
    <2>3. QED
      BY <1>4, <2>1, <2>2 DEF ScanOldest
  <1>5. CASE ClaimOldest     BY <1>5 DEF ClaimOldest, Writing, NoSlot
  <1>6. CASE DropFrame       BY <1>6 DEF DropFrame
  <1>7. CASE CopyFrame
    <2>1. [n |-> seqCounter + 1, game |-> game] \in Frames
      BY <1>7, BoundsAssumption DEF CopyFrame, Frames
    <2>2. frameData' \in [Slots -> Frames]
      BY <1>7, <2>1 DEF CopyFrame
    <2>3. QED
      BY <1>7, <2>2 DEF CopyFrame
  <1>8. CASE NumberFrame
    <2>1. seqCounter' \in 0 .. MaxFrames
      BY <1>8, BoundsAssumption DEF NumberFrame
    <2>2. frameSeq' \in [Slots -> 0 .. MaxFrames]
      BY <1>8, <2>1 DEF NumberFrame
    <2>3. QED
      BY <1>8, <2>1, <2>2 DEF NumberFrame
  <1>9. CASE PublishFrame    BY <1>9 DEF PublishFrame, Published
  <1>10. CASE LoadGame       BY <1>10, BoundsAssumption DEF LoadGame
  <1>11. CASE UnloadGame     BY <1>11 DEF UnloadGame
  <1>12. CASE ResetPresented BY <1>12, BoundsAssumption DEF ResetPresented
  <1>13. CASE RenderLoaded   BY <1>13 DEF RenderLoaded
  <1>14. CASE EnterAcquire   BY <1>14, FrameSlotsAssumption, BoundsAssumption DEF EnterAcquire
  <1>15. CASE LoadState
    <2>1. CASE frameState[consIdx] = Published
      BY <1>15, <2>1 DEF LoadState
    <2>2. CASE frameState[consIdx] # Published
      BY <1>15, <2>2, FrameSlotsAssumption DEF LoadState, Slots
    <2>3. QED
      BY <2>1, <2>2
  <1>16. CASE LoadSeq
    <2>1. frameSeq[consIdx] \in 0 .. MaxFrames /\ consIdx + 1 \in 0 .. FrameSlots
      BY <1>16, FrameSlotsAssumption DEF LoadSeq, Slots
    <2>2. best' \in Slots \cup {NoSlot} /\ bestSeq' \in 0 .. MaxFrames
      BY <1>16, <2>1 DEF LoadSeq
    <2>3. QED
      BY <1>16, <2>1, <2>2 DEF LoadSeq
  <1>17. CASE ClaimBest      BY <1>17 DEF ClaimBest, Reading, NoSlot
  <1>18. CASE NothingNew     BY <1>18 DEF NothingNew
  <1>19. CASE StampPresented BY <1>19 DEF StampPresented
  <1>20. CASE UploadFrame    BY <1>20 DEF UploadFrame
  <1>21. CASE ReleaseFrame   BY <1>21 DEF ReleaseFrame, Free
  <1>22. CASE UNCHANGED vars BY <1>22 DEF vars
  <1>23. QED
    BY <1>1, <1>2, <1>3, <1>4, <1>5, <1>6, <1>7, <1>8, <1>9, <1>10, <1>11, <1>12,
       <1>13, <1>14, <1>15, <1>16, <1>17, <1>18, <1>19, <1>20, <1>21, <1>22
       DEF Next, Emulate, Produce, Consume

(* Every variable of the ring keeps its type, for any number of slots.     *)
THEOREM TypeCorrect == Spec => []TypeOK
  <1>1. Spec => []TypeInv
    BY TypeInvInit, TypeInvStep, PTL DEF Spec
  <1>2. TypeInv => TypeOK
    BY DEF TypeInv
  <1>3. QED
    BY <1>1, <1>2, PTL

-----------------------------------------------------------------------------
(***************************************************************************)
(* Ownership.  A slot is Writing exactly while the producer works on it    *)
(* and Reading exactly while the consumer does; that the consumer finds in *)
(* readSlot the slot it claimed is part of the argument.                   *)
(***************************************************************************)
Ownership ==
    /\ NoSlotLeak
    /\ consPc \in {"upload", "release"} => readSlot = best

LEMMA StatesDiffer == Free # Writing /\ Free # Reading /\ Free # Published
                      /\ Writing # Published /\ Writing # Reading /\ Published # Reading
  BY DEF Free, Writing, Published, Reading

LEMMA OwnershipInit == Init => Ownership
  BY StatesDiffer DEF Init, Ownership, NoSlotLeak, ProducerHolds, ConsumerHolds

LEMMA OwnershipStep == TypeInv /\ Ownership /\ [Next]_vars => Ownership'
  <1> SUFFICES ASSUME TypeInv, Ownership, [Next]_vars PROVE Ownership'
    OBVIOUS
  <1> USE StatesDiffer DEF TypeInv, TypeOK, Ownership, NoSlotLeak, ProducerHolds,
          ConsumerHolds, sharedVars, prodVars, consVars
  <1>1. CASE RetroVideo      BY <1>1 DEF RetroVideo
  <1>2. CASE ClaimFree       BY <1>2 DEF ClaimFree
  <1>3. CASE SkipBusy        BY <1>3 DEF SkipBusy
  <1>4. CASE ScanOldest      BY <1>4 DEF ScanOldest
  <1>5. CASE ClaimOldest     BY <1>5 DEF ClaimOldest
  <1>6. CASE DropFrame       BY <1>6 DEF DropFrame
  <1>7. CASE CopyFrame       BY <1>7 DEF CopyFrame
  <1>8. CASE NumberFrame     BY <1>8 DEF NumberFrame
  <1>9. CASE PublishFrame    BY <1>9 DEF PublishFrame
  <1>10. CASE LoadGame       BY <1>10 DEF LoadGame
  <1>11. CASE UnloadGame     BY <1>11 DEF UnloadGame
  <1>12. CASE ResetPresented BY <1>12 DEF ResetPresented
  <1>13. CASE RenderLoaded   BY <1>13 DEF RenderLoaded
  <1>14. CASE EnterAcquire   BY <1>14 DEF EnterAcquire
  <1>15. CASE LoadState      BY <1>15 DEF LoadState
  <1>16. CASE LoadSeq        BY <1>16 DEF LoadSeq
  <1>17. CASE ClaimBest      BY <1>17 DEF ClaimBest
  <1>18. CASE NothingNew     BY <1>18 DEF NothingNew
  <1>19. CASE StampPresented BY <1>19 DEF StampPresented
  <1>20. CASE UploadFrame    BY <1>20 DEF UploadFrame
  <1>21. CASE ReleaseFrame   BY <1>21 DEF ReleaseFrame
  <1>22. CASE UNCHANGED vars BY <1>22 DEF vars
  <1>23. QED
    BY <1>1, <1>2, <1>3, <1>4, <1>5, <1>6, <1>7, <1>8, <1>9, <1>10, <1>11, <1>12,
       <1>13, <1>14, <1>15, <1>16, <1>17, <1>18, <1>19, <1>20, <1>21, <1>22
       DEF Next, Emulate, Produce, Consume

LEMMA OwnershipHolds == Spec => [](TypeInv /\ Ownership)
  BY TypeInvInit, TypeInvStep, OwnershipInit, OwnershipStep, PTL DEF Spec

(* No slot of the ring is ever leaked: it is marked busy only while one of *)
(* the two threads works on it.                                            *)
THEOREM SlotsNeverLeak == Spec => []NoSlotLeak
  <1>1. Ownership => NoSlotLeak
    BY DEF Ownership
  <1>2. QED
    BY <1>1, OwnershipHolds, PTL

(* The producer never writes a slot the UI is uploading.                   *)
THEOREM NoTornFrame == Spec => []NoTearing
  <1>1. TypeInv /\ Ownership => NoTearing
    BY StatesDiffer DEF Ownership, NoSlotLeak, NoTearing
  <1>2. QED
    BY <1>1, OwnershipHolds, PTL

-----------------------------------------------------------------------------
(***************************************************************************)
(* Sequence numbers.  The number in a slot never exceeds the counter, and  *)
(* between the copy and the publication the slot being written runs one    *)
(* number ahead.                                                           *)
(***************************************************************************)
Numbering ==
    /\ SeqNamesFrame
    /\ \A s \in Slots : frameSeq[s] <= seqCounter
    /\ prodPc = "number" => frameData[target].n = seqCounter + 1
    /\ prodPc = "publish" => /\ frameData[target].n = seqCounter
                             /\ frameSeq[target] = seqCounter
                             /\ seqCounter > 0

LEMMA NumberingInit == Init => Numbering
  BY StatesDiffer DEF Init, Numbering, SeqNamesFrame

LEMMA NumberingStep ==
    TypeInv /\ Ownership /\ Numbering /\ [Next]_vars => Numbering'
  <1> SUFFICES ASSUME TypeInv, Ownership, Numbering, [Next]_vars PROVE Numbering'
    OBVIOUS
  <1> USE StatesDiffer, BoundsAssumption
      DEF TypeInv, TypeOK, Ownership, NoSlotLeak, ProducerHolds, ConsumerHolds,
          Numbering, SeqNamesFrame, sharedVars, prodVars, consVars
  <1>1. CASE RetroVideo BY <1>1 DEF RetroVideo
  <1>2. CASE ClaimFree BY <1>2 DEF ClaimFree
  <1>3. CASE SkipBusy BY <1>3 DEF SkipBusy
  <1>4. CASE ScanOldest BY <1>4 DEF ScanOldest
  <1>5. CASE ClaimOldest BY <1>5 DEF ClaimOldest
  <1>6. CASE DropFrame BY <1>6 DEF DropFrame
  <1>7. CASE CopyFrame BY <1>7 DEF CopyFrame
  <1>8. CASE NumberFrame BY <1>8 DEF NumberFrame
  <1>9. CASE PublishFrame BY <1>9 DEF PublishFrame
  <1>10. CASE LoadGame BY <1>10 DEF LoadGame
  <1>11. CASE UnloadGame BY <1>11 DEF UnloadGame
  <1>12. CASE ResetPresented BY <1>12 DEF ResetPresented
  <1>13. CASE RenderLoaded BY <1>13 DEF RenderLoaded
  <1>14. CASE EnterAcquire BY <1>14 DEF EnterAcquire
  <1>15. CASE LoadState BY <1>15 DEF LoadState
  <1>16. CASE LoadSeq BY <1>16 DEF LoadSeq
  <1>17. CASE ClaimBest BY <1>17 DEF ClaimBest
  <1>18. CASE NothingNew BY <1>18 DEF NothingNew
  <1>19. CASE StampPresented BY <1>19 DEF StampPresented
  <1>20. CASE UploadFrame BY <1>20 DEF UploadFrame
  <1>21. CASE ReleaseFrame BY <1>21 DEF ReleaseFrame
  <1>22. CASE UNCHANGED vars BY <1>22 DEF vars
  <1>23. QED
    BY <1>1, <1>2, <1>3, <1>4, <1>5, <1>6, <1>7, <1>8, <1>9, <1>10, <1>11, <1>12,
       <1>13, <1>14, <1>15, <1>16, <1>17, <1>18, <1>19, <1>20, <1>21, <1>22
       DEF Next, Emulate, Produce, Consume

(* The number in a published slot is the number of the frame in it, and no *)
(* two slots carry the same one.                                           *)
THEOREM SequenceNumbersNameFrames == Spec => []SeqNamesFrame
  <1>1. Spec => []Numbering
    BY OwnershipHolds, NumberingInit, NumberingStep, PTL DEF Spec
  <1>2. Numbering => SeqNamesFrame
    BY DEF Numbering
  <1>3. QED
    BY <1>1, <1>2, PTL

(* The bookkeeping of the ring is right: TypeOK, NoSlotLeak and            *)
(* SeqNamesFrame together.                                                 *)
THEOREM RingIsSound == Spec => []RingSound
  <1>1. TypeOK /\ NoSlotLeak /\ SeqNamesFrame => RingSound
    BY DEF RingSound
  <1>2. QED
    BY <1>1, TypeCorrect, SlotsNeverLeak, SequenceNumbersNameFrames, PTL

-----------------------------------------------------------------------------
(***************************************************************************)
(* What the UI knows.  A number it read is never ahead of the slot it read *)
(* it from, and it has the counter's own value as the last one presented   *)
(* only when it has taken that frame: a newest frame that still waits is   *)
(* newer than anything shown.                                              *)
(***************************************************************************)
Newest(t) == frameState[t] = Published /\ frameSeq[t] = seqCounter

NewestGone == prodPc # "publish" /\ \A t \in Slots : ~Newest(t)

Freshness ==
    /\ bestSeq <= seqCounter /\ lastPresentedSeq <= seqCounter /\ lastShown <= seqCounter
    /\ best # NoSlot => bestSeq <= frameSeq[best]
    /\ lastPresentedSeq = seqCounter /\ seqCounter > 0 => NewestGone
    /\ lastShown = seqCounter /\ seqCounter > 0 => NewestGone

LEMMA FreshnessInit == Init => Freshness
  BY StatesDiffer DEF Init, Freshness, NoSlot

LEMMA FreshnessStep ==
    TypeInv /\ Ownership /\ Numbering /\ Freshness /\ [Next]_vars => Freshness'
  <1> SUFFICES ASSUME TypeInv, Ownership, Numbering, Freshness, [Next]_vars PROVE Freshness'
    OBVIOUS
  <1> USE StatesDiffer, BoundsAssumption
      DEF TypeInv, TypeOK, Ownership, NoSlotLeak, ProducerHolds, ConsumerHolds,
          Numbering, SeqNamesFrame, Freshness, Newest, NewestGone,
          sharedVars, prodVars, consVars
  <1>1. CASE RetroVideo BY <1>1 DEF RetroVideo
  <1>2. CASE ClaimFree BY <1>2 DEF ClaimFree
  <1>3. CASE SkipBusy BY <1>3 DEF SkipBusy
  <1>4. CASE ScanOldest BY <1>4 DEF ScanOldest
  <1>5. CASE ClaimOldest BY <1>5 DEF ClaimOldest
  <1>6. CASE DropFrame BY <1>6 DEF DropFrame
  <1>7. CASE CopyFrame BY <1>7 DEF CopyFrame
  <1>8. CASE NumberFrame BY <1>8 DEF NumberFrame
  <1>9. CASE PublishFrame BY <1>9 DEF PublishFrame
  <1>10. CASE LoadGame BY <1>10 DEF LoadGame
  <1>11. CASE UnloadGame BY <1>11 DEF UnloadGame
  <1>12. CASE ResetPresented BY <1>12 DEF ResetPresented
  <1>13. CASE RenderLoaded BY <1>13 DEF RenderLoaded
  <1>14. CASE EnterAcquire BY <1>14 DEF EnterAcquire
  <1>15. CASE LoadState BY <1>15 DEF LoadState
  <1>16. CASE LoadSeq
    <2>1. consIdx \in Slots /\ consIdx # NoSlot
      BY <1>16 DEF LoadSeq, Slots, NoSlot
    <2>2. CASE best' = best /\ bestSeq' = bestSeq
      BY <1>16, <2>2 DEF LoadSeq
    <2>3. CASE best' = consIdx /\ bestSeq' = frameSeq[consIdx]
      BY <1>16, <2>1, <2>3 DEF LoadSeq
    <2>4. QED
      BY <1>16, <2>2, <2>3 DEF LoadSeq
  <1>17. CASE ClaimBest BY <1>17 DEF ClaimBest
  <1>18. CASE NothingNew BY <1>18 DEF NothingNew
  <1>19. CASE StampPresented
    <2>1. best \in Slots /\ best # NoSlot /\ frameState[best] = Reading
      BY <1>19 DEF StampPresented, Slots, NoSlot
    <2>2. ASSUME bestSeq = seqCounter, seqCounter > 0 PROVE NewestGone
      <3>1. frameSeq[best] = seqCounter
        BY <2>1, <2>2
      <3>2. QED
        BY <2>1, <3>1, <2>2
    <2>3. NewestGone => NewestGone'
      BY <1>19 DEF StampPresented
    <2>4. QED
      BY <1>19, <2>2, <2>3 DEF StampPresented
  <1>20. CASE UploadFrame BY <1>20 DEF UploadFrame
  <1>21. CASE ReleaseFrame BY <1>21 DEF ReleaseFrame
  <1>22. CASE UNCHANGED vars BY <1>22 DEF vars
  <1>23. QED
    BY <1>1, <1>2, <1>3, <1>4, <1>5, <1>6, <1>7, <1>8, <1>9, <1>10, <1>11, <1>12,
       <1>13, <1>14, <1>15, <1>16, <1>17, <1>18, <1>19, <1>20, <1>21, <1>22
       DEF Next, Emulate, Produce, Consume

-----------------------------------------------------------------------------
(***************************************************************************)
(* Why the newest frame is safe.  While the producer looks for a slot the  *)
(* UI can take at most one frame other than the newest: the one it already *)
(* holds, or the one an old scan settled on; every scan it starts later    *)
(* ends at the newest frame, and then there is none to lose.  With three   *)
(* slots one older frame is therefore always left for the producer's scan  *)
(* to prefer.  With two slots there need not be one, and the property      *)
(* fails.                                                                  *)
(***************************************************************************)
Older(t) == {s \in Slots \ {t} : frameState[s] = Published}

(* The UI will not take another frame than t before its next scan. *)
Settled(t) ==
    consPc \in {"scan", "seq"} /\ consIdx > t => best = t /\ bestSeq = seqCounter

Spare(t) == \/ \E s, r \in Older(t) : s # r
            \/ Older(t) # {} /\ Settled(t)

Search ==
    /\ prodPc = "findFree" => prodIdx \in Slots
    /\ prodPc = "findFree" =>
         \A t \in Slots : Newest(t) =>
             (\E s \in Slots : s >= prodIdx /\ frameState[s] = Free) \/ Spare(t)
    /\ prodPc = "findOldest" =>
         /\ \A t \in Slots : Newest(t) => Spare(t)
         /\ \A s \in Slots : s < prodIdx /\ frameState[s] = Published =>
                target # NoSlot /\ frameSeq[target] <= frameSeq[s]

SafeInv == TypeInv /\ Ownership /\ Numbering /\ Freshness

LEMMA SearchInit == Init => Search
  BY DEF Init, Search

(* No step of the UI takes away the last spare frame. *)
LEMMA SpareKept ==
    ASSUME SafeInv, Consume, NEW t \in Slots, Newest(t)', Spare(t)
    PROVE  Spare(t)'
  <1> USE StatesDiffer, FrameSlotsAssumption
      DEF SafeInv, TypeInv, TypeOK, Ownership, NoSlotLeak, ProducerHolds, ConsumerHolds,
          Numbering, SeqNamesFrame, Freshness, Newest, NewestGone, Older, Settled, Spare,
          sharedVars, prodVars, consVars, Slots, NoSlot
  <1>1. CASE RenderLoaded   BY <1>1 DEF RenderLoaded
  <1>2. CASE EnterAcquire   BY <1>2 DEF EnterAcquire
  <1>3. CASE LoadState      BY <1>3 DEF LoadState
  <1>4. CASE LoadSeq
    <2>1. Older(t)' = Older(t) /\ Newest(t)
      BY <1>4 DEF LoadSeq
    <2>2. ASSUME Settled(t) PROVE Settled(t)'
      <3>1. frameSeq[t] = seqCounter /\ seqCounter > 0 /\ lastShown < seqCounter
        BY <2>1
      <3>2. CASE consIdx > t
        BY <1>4, <2>2, <3>1, <3>2 DEF LoadSeq
      <3>3. CASE consIdx = t
        <4>1. CASE best # NoSlot /\ bestSeq = seqCounter
          <5>1. best = t
            <6>1. best \in Slots
              BY <4>1
            <6>2. frameSeq[best] \in Nat /\ frameSeq[best] = seqCounter
              BY <4>1, <6>1
            <6>3. QED
              BY <3>1, <6>1, <6>2
          <5>2. QED
            BY <1>4, <3>1, <3>3, <4>1, <5>1 DEF LoadSeq
        <4>2. CASE best = NoSlot \/ bestSeq < seqCounter
          BY <1>4, <3>1, <3>3, <4>2 DEF LoadSeq
        <4>3. QED
          BY <4>1, <4>2
      <3>4. CASE consIdx < t
        BY <1>4, <3>4 DEF LoadSeq
      <3>5. QED
        BY <1>4, <3>2, <3>3, <3>4 DEF LoadSeq
    <2>3. QED
      BY <2>1, <2>2
  <1>5. CASE ClaimBest
    <2>1. best # t /\ best \in Slots
      BY <1>5 DEF ClaimBest
    <2>2. Older(t)' = Older(t) \ {best}
      BY <1>5, <2>1 DEF ClaimBest
    <2>3. ~Settled(t)
      BY <1>5, <2>1 DEF ClaimBest
    <2>4. \E s \in Older(t)' : TRUE
      <3>1. PICK s \in Older(t), r \in Older(t) : s # r
        BY <2>3
      <3>2. s # best \/ r # best
        BY <3>1
      <3>3. s \in Older(t)' \/ r \in Older(t)'
        BY <2>2, <3>1, <3>2
      <3>4. QED
        BY <3>3
    <2>5. Settled(t)'
      BY <1>5 DEF ClaimBest
    <2>6. QED
      BY <2>4, <2>5
  <1>6. CASE NothingNew     BY <1>6 DEF NothingNew
  <1>7. CASE StampPresented BY <1>7 DEF StampPresented
  <1>8. CASE UploadFrame    BY <1>8 DEF UploadFrame
  <1>9. CASE ReleaseFrame
    <2>1. Older(t)' = Older(t)
      BY <1>9 DEF ReleaseFrame
    <2>2. Settled(t)'
      BY <1>9 DEF ReleaseFrame
    <2>3. QED
      BY <2>1, <2>2
  <1>10. QED
    BY <1>1, <1>2, <1>3, <1>4, <1>5, <1>6, <1>7, <1>8, <1>9 DEF Consume

LEMMA SearchStep ==
    ASSUME FrameSlots >= 3, SafeInv, Search, [Next]_vars PROVE Search'
  <1> USE StatesDiffer, FrameSlotsAssumption
      DEF SafeInv, TypeInv, TypeOK, Ownership, NoSlotLeak, ProducerHolds, ConsumerHolds,
          Numbering, SeqNamesFrame, Search, Newest, Older, Settled, Spare,
          sharedVars, prodVars, consVars
  <1>1. CASE RetroVideo
    <2>1. ASSUME NEW t \in Slots, Newest(t)
          PROVE (\E s \in Slots : frameState[s] = Free) \/ Spare(t)
      <3>1. PICK r \in Slots, s \in Slots : r # s /\ r # t /\ s # t
        <4>1. 0 \in Slots /\ 1 \in Slots /\ 2 \in Slots
          BY DEF Slots
        <4>2. CASE t = 0
          BY <4>1, <4>2
        <4>3. CASE t = 1
          BY <4>1, <4>3
        <4>4. CASE t \notin {0, 1}
          BY <4>1, <4>4
        <4>5. QED
          BY <4>2, <4>3, <4>4
      <3>2. \A q \in Slots : frameState[q] # Writing
        BY <1>1 DEF RetroVideo
      <3>3. CASE consPc \in {"stamp", "upload", "release"}
        BY <2>1, <3>1, <3>2, <3>3
      <3>4. CASE consPc \notin {"stamp", "upload", "release"}
        BY <2>1, <3>1, <3>2, <3>4
      <3>5. QED
        BY <3>3, <3>4
    <2>2. \A t \in Slots : Newest(t)' = Newest(t) /\ Spare(t)' = Spare(t)
      BY <1>1 DEF RetroVideo
    <2>3. prodPc' = "findFree" /\ prodIdx' = 0 /\ frameState' = frameState
      BY <1>1 DEF RetroVideo
    <2>4. \A s \in Slots : s >= 0
      BY DEF Slots
    <2>5. 0 \in Slots
      BY DEF Slots
    <2> HIDE DEF Newest, Spare
    <2>6. QED
      BY <2>1, <2>2, <2>3, <2>4, <2>5
  <1>2. CASE SkipBusy
    <2>1. \A t \in Slots : Newest(t)' = Newest(t) /\ Spare(t)' = Spare(t)
      BY <1>2 DEF SkipBusy
    <2>2. prodPc = "findFree" /\ prodIdx \in Slots /\ frameState[prodIdx] # Free
          /\ frameState' = frameState /\ target' = target /\ frameSeq' = frameSeq
      BY <1>2 DEF SkipBusy
    <2>3. CASE prodIdx + 1 \in Slots
      <3>1. prodIdx' = prodIdx + 1 /\ prodPc' = "findFree"
        BY <1>2, <2>3 DEF SkipBusy
      <3>2. \A s \in Slots : s >= prodIdx /\ s # prodIdx => s >= prodIdx + 1
        BY DEF Slots
      <3> HIDE DEF Newest, Spare
      <3>3. QED
        BY <2>1, <2>2, <2>3, <3>1, <3>2
    <2>4. CASE prodIdx + 1 \notin Slots
      <3>1. prodIdx' = 0 /\ prodPc' = "findOldest"
        BY <1>2, <2>4 DEF SkipBusy
      <3>2. \A s \in Slots : ~(s < 0) /\ (s >= prodIdx => s = prodIdx)
        BY <2>2, <2>4 DEF Slots
      <3> HIDE DEF Newest, Spare
      <3>3. QED
        BY <2>1, <2>2, <3>1, <3>2
    <2>5. QED
      BY <2>3, <2>4
  <1>3. CASE ScanOldest
    BY <1>3 DEF ScanOldest, Slots, NoSlot
  <1>4. CASE ClaimFree \/ ClaimOldest \/ DropFrame \/ CopyFrame \/ NumberFrame
             \/ PublishFrame \/ LoadGame \/ UnloadGame \/ ResetPresented
    BY <1>4 DEF ClaimFree, ClaimOldest, DropFrame, CopyFrame, NumberFrame, PublishFrame,
                LoadGame, UnloadGame, ResetPresented
  <1>5. CASE Consume
    <2>1. /\ UNCHANGED <<prodPc, prodIdx, target, frameSeq, seqCounter>>
          /\ \A s \in Slots : frameState'[s] = Published => frameState[s] = Published
          /\ \A s \in Slots : frameState[s] = Free => frameState'[s] = Free
      BY <1>5 DEF Consume, RenderLoaded, EnterAcquire, LoadState, LoadSeq, ClaimBest,
                  NothingNew, StampPresented, UploadFrame, ReleaseFrame
    <2>2. ASSUME NEW t \in Slots, Newest(t)' PROVE Newest(t)
      BY <2>1, <2>2
    <2>3. ASSUME NEW t \in Slots, Newest(t)', Spare(t) PROVE Spare(t)'
      BY <1>5, <2>3, SpareKept
    <2>4. QED
      BY <2>1, <2>2, <2>3
  <1>6. CASE UNCHANGED vars
    BY <1>6 DEF vars
  <1>7. QED
    BY <1>1, <1>2, <1>3, <1>4, <1>5, <1>6 DEF Next, Emulate, Produce

(* With three slots or more, the published slot retro_video takes back is  *)
(* never the newest one.                                                   *)
LEMMA ClaimsAnOlderFrame ==
    ASSUME FrameSlots >= 3, SafeInv, Search, ClaimOldest
    PROVE  target \in Slots /\ frameState[target] = Published
           /\ frameSeq[target] # seqCounter
  <1> USE DEF SafeInv, TypeInv, TypeOK, ClaimOldest
  <1>1. target \in Slots /\ frameState[target] = Published
    OBVIOUS
  <1>2. ASSUME Newest(target) PROVE FALSE
    <2>1. PICK s \in Older(target) : TRUE
      BY <1>1, <1>2 DEF Search, Spare
    <2>2. s \in Slots /\ s # target /\ frameState[s] = Published /\ s < prodIdx
      BY <2>1, FrameSlotsAssumption DEF Older, Slots
    <2>3. frameSeq[target] <= frameSeq[s]
      BY <2>2 DEF Search
    <2>4. frameSeq[s] <= seqCounter /\ frameSeq[s] > 0 /\ frameSeq[target] = seqCounter
      BY <1>2, <2>2 DEF Numbering, SeqNamesFrame, Newest
    <2>5. frameSeq[s] = frameSeq[target]
      BY <1>1, <2>2, <2>3, <2>4
    <2>6. QED
      BY <1>1, <2>2, <2>4, <2>5 DEF Numbering, SeqNamesFrame
  <1>3. QED
    BY <1>1, <1>2 DEF Newest

LEMMA SearchHolds == ASSUME FrameSlots >= 3 PROVE Spec => [](SafeInv /\ Search)
  <1>1. Init => SafeInv /\ Search
    BY TypeInvInit, OwnershipInit, NumberingInit, FreshnessInit, SearchInit DEF SafeInv
  <1>2. SafeInv /\ Search /\ [Next]_vars => (SafeInv /\ Search)'
    <2> SUFFICES ASSUME SafeInv, Search, [Next]_vars PROVE (SafeInv /\ Search)'
      OBVIOUS
    <2>1. SafeInv'
      BY TypeInvStep, OwnershipStep, NumberingStep, FreshnessStep DEF SafeInv
    <2>2. Search'
      BY SearchStep
    <2>3. QED
      BY <2>1, <2>2
  <1>3. QED
    BY <1>1, <1>2, PTL DEF Spec

(* The newest published frame leaves the ring only to the UI, whatever the *)
(* interleaving, as long as there are three slots.                         *)
THEOREM NewestFrameKept == ASSUME FrameSlots >= 3 PROVE Spec => NewestKept
  <1>1. SafeInv /\ Search /\ [Next]_vars =>
          [\A s \in Slots :
             frameState[s] = Published /\ frameSeq[s] = seqCounter
                => frameState'[s] \in {Published, Reading}]_vars
    <2> SUFFICES ASSUME SafeInv, Search, Next, NEW s \in Slots,
                        frameState[s] = Published, frameSeq[s] = seqCounter
                 PROVE  frameState'[s] \in {Published, Reading}
      BY DEF vars
    <2> USE StatesDiffer DEF SafeInv, TypeInv, TypeOK, Ownership, NoSlotLeak,
            ProducerHolds, ConsumerHolds, sharedVars
    <2>1. CASE ClaimOldest
      BY <2>1, ClaimsAnOlderFrame DEF ClaimOldest
    <2>2. CASE ClaimFree \/ PublishFrame
      BY <2>2 DEF ClaimFree, PublishFrame
    <2>3. CASE ClaimBest \/ ReleaseFrame
      BY <2>3 DEF ClaimBest, ReleaseFrame
    <2>4. CASE UNCHANGED frameState
      BY <2>4
    <2>5. QED
      BY <2>1, <2>2, <2>3, <2>4
         DEF Next, Emulate, Produce, Consume, RetroVideo, SkipBusy, ScanOldest, DropFrame,
             CopyFrame, NumberFrame, LoadGame, UnloadGame, ResetPresented, RenderLoaded,
             EnterAcquire, LoadState, LoadSeq, NothingNew, StampPresented, UploadFrame
  <1>2. QED
    BY <1>1, SearchHolds, PTL DEF Spec, NewestKept

-----------------------------------------------------------------------------
(***************************************************************************)
(* Refinement: the claims and the publication are the steps of the mailbox *)
(* on the frames; the scans and the bookkeeping are stuttering steps.      *)
(***************************************************************************)
PublishedSlots == {t \in Slots : frameState[t] = Published}
Waiting == {frameData[s].n : s \in PublishedSlots}
Announced == IF prodPc = "publish" THEN seqCounter - 1 ELSE seqCounter
InHand == IF consPc \in {"stamp", "upload", "release"} THEN frameData[best].n ELSE 0

LEMMA StutterSteps ==
    ASSUME SafeInv, [Next]_vars, ~ClaimOldest, ~PublishFrame, ~ClaimBest,
           ~UploadFrame, ~ReleaseFrame
    PROVE  UNCHANGED <<Waiting, Announced, InHand, screen.n>>
  <1> USE StatesDiffer DEF SafeInv, TypeInv, TypeOK, Ownership, NoSlotLeak,
          ProducerHolds, ConsumerHolds, PublishedSlots, Announced, InHand,
          sharedVars, prodVars, consVars
  <1>1. UNCHANGED PublishedSlots
    BY DEF Next, Emulate, Produce, Consume, RetroVideo, ClaimFree, SkipBusy, ScanOldest,
           DropFrame, CopyFrame, NumberFrame, LoadGame, UnloadGame, ResetPresented,
           RenderLoaded, EnterAcquire, LoadState, LoadSeq, NothingNew, StampPresented, vars
  <1>2. \A s \in PublishedSlots : frameData'[s].n = frameData[s].n
    BY DEF Next, Emulate, Produce, Consume, RetroVideo, ClaimFree, SkipBusy, ScanOldest,
           DropFrame, CopyFrame, NumberFrame, LoadGame, UnloadGame, ResetPresented,
           RenderLoaded, EnterAcquire, LoadState, LoadSeq, NothingNew, StampPresented, vars
  <1>3. UNCHANGED Waiting
    BY <1>1, <1>2 DEF Waiting
  <1>4. UNCHANGED <<Announced, screen.n>>
    BY DEF Next, Emulate, Produce, Consume, RetroVideo, ClaimFree, SkipBusy, ScanOldest,
           DropFrame, CopyFrame, NumberFrame, LoadGame, UnloadGame, ResetPresented,
           RenderLoaded, EnterAcquire, LoadState, LoadSeq, NothingNew, StampPresented, vars
  <1>5. UNCHANGED InHand
    BY DEF Next, Emulate, Produce, Consume, RetroVideo, ClaimFree, SkipBusy, ScanOldest,
           DropFrame, CopyFrame, NumberFrame, LoadGame, UnloadGame, ResetPresented,
           RenderLoaded, EnterAcquire, LoadState, LoadSeq, NothingNew, StampPresented, vars
  <1>6. QED
    BY <1>3, <1>4, <1>5

LEMMA MailboxStep ==
    ASSUME FrameSlots >= 3, SafeInv, Search, [Next]_vars
    PROVE  [Mailbox!MailboxNext]_(Mailbox!mailboxVars)
  <1> USE StatesDiffer
  <1>1. \A s \in PublishedSlots : s \in Slots /\ frameData[s].n = frameSeq[s]
    BY DEF PublishedSlots, SafeInv, Numbering, SeqNamesFrame
  <1>2. \A s, r \in PublishedSlots : frameData[s].n = frameData[r].n => s = r
    BY <1>1 DEF PublishedSlots, SafeInv, Numbering, SeqNamesFrame
  <1>3. CASE ClaimOldest
    <2> DEFINE f == frameData[target].n
    <2>1. target \in PublishedSlots /\ f # seqCounter
      BY <1>1, <1>3, ClaimsAnOlderFrame DEF PublishedSlots
    <2>2. PublishedSlots' = PublishedSlots \ {target} /\ UNCHANGED frameData
      BY <1>3, <2>1 DEF ClaimOldest, PublishedSlots, SafeInv, TypeInv, TypeOK
    <2>3. Waiting' = Waiting \ {f} /\ f \in Waiting
      BY <1>2, <2>1, <2>2 DEF Waiting
    <2>4. Announced = seqCounter /\ UNCHANGED <<Announced, InHand, screen.n>>
      BY <1>3 DEF ClaimOldest, Announced, InHand, consVars
    <2>5. Mailbox!Discard
      BY <2>1, <2>3, <2>4 DEF Mailbox!Discard, Waiting, Announced, InHand, PublishedSlots
    <2>6. QED
      BY <2>5 DEF Mailbox!MailboxNext
  <1>4. CASE PublishFrame
    <2>1. PublishedSlots' = PublishedSlots \cup {target} /\ UNCHANGED frameData
      BY <1>4 DEF PublishFrame, PublishedSlots, SafeInv, TypeInv, TypeOK
    <2>2. frameData[target].n = seqCounter /\ seqCounter > 0 /\ seqCounter \in 0 .. MaxFrames
      BY <1>4 DEF PublishFrame, SafeInv, Numbering, TypeInv, TypeOK
    <2>3. Waiting' = Waiting \cup {seqCounter}
      BY <2>1, <2>2 DEF Waiting
    <2>4. Announced = seqCounter - 1 /\ Announced' = seqCounter
      BY <1>4 DEF PublishFrame, Announced
    <2>5. Announced' = Announced + 1 /\ Announced < MaxFrames
      BY <2>2, <2>4, BoundsAssumption
    <2>6. UNCHANGED <<InHand, screen.n>>
      BY <1>4 DEF PublishFrame, InHand, consVars
    <2>7. Mailbox!Publish
      BY <2>3, <2>4, <2>5, <2>6
         DEF Mailbox!Publish, Waiting, Announced, InHand, PublishedSlots
    <2>8. QED
      BY <2>7 DEF Mailbox!MailboxNext
  <1>5. CASE ClaimBest
    <2> DEFINE f == frameData[best].n
    <2>1. best \in PublishedSlots
      BY <1>5 DEF ClaimBest, PublishedSlots, NoSlot, SafeInv, TypeInv, TypeOK
    <2>2. PublishedSlots' = PublishedSlots \ {best} /\ UNCHANGED frameData
      BY <1>5, <2>1 DEF ClaimBest, PublishedSlots, SafeInv, TypeInv, TypeOK
    <2>3. Waiting' = Waiting \ {f} /\ f \in Waiting
      BY <1>2, <2>1, <2>2 DEF Waiting
    <2>4. InHand = 0 /\ InHand' = f /\ UNCHANGED <<Announced, screen.n>>
      BY <1>5 DEF ClaimBest, InHand, Announced, prodVars
    <2>5. Mailbox!Take
      BY <2>3, <2>4 DEF Mailbox!Take, Waiting, Announced, InHand, PublishedSlots
    <2>6. QED
      BY <2>5 DEF Mailbox!MailboxNext
  <1>6. CASE UploadFrame
    <2>1. best \in Slots /\ frameState[best] = Reading
      BY <1>6 DEF UploadFrame, SafeInv, TypeInv, Ownership, NoSlotLeak, ConsumerHolds
    <2>2. frameData[best].n # 0
      BY <2>1 DEF SafeInv, Numbering, SeqNamesFrame
    <2>3. InHand = frameData[best].n
      BY <1>6 DEF UploadFrame, InHand
    <2>4. InHand # 0 /\ screen'.n = InHand
      BY <1>6, <2>2, <2>3 DEF UploadFrame
    <2>5. UNCHANGED Waiting
      BY <1>6 DEF UploadFrame, Waiting, PublishedSlots
    <2>6. UNCHANGED Announced
      BY <1>6 DEF UploadFrame, Announced, prodVars
    <2>7. UNCHANGED InHand
      BY <1>6 DEF UploadFrame, InHand
    <2>8. Mailbox!Show
      BY <2>4, <2>5, <2>6, <2>7
         DEF Mailbox!Show, Waiting, Announced, InHand, PublishedSlots
    <2>9. QED
      BY <2>8 DEF Mailbox!MailboxNext
  <1>7. CASE ReleaseFrame
    <2>1. PublishedSlots' = PublishedSlots /\ UNCHANGED frameData
      BY <1>7 DEF ReleaseFrame, PublishedSlots, SafeInv, TypeInv, TypeOK, Ownership,
                  NoSlotLeak, ConsumerHolds
    <2>2. UNCHANGED <<Waiting, Announced, screen.n>> /\ InHand' = 0
      BY <1>7, <2>1 DEF ReleaseFrame, Waiting, Announced, InHand, prodVars
    <2>3. Mailbox!Return
      BY <2>2 DEF Mailbox!Return, Waiting, Announced, InHand, PublishedSlots
    <2>4. QED
      BY <2>3 DEF Mailbox!MailboxNext
  <1>8. CASE ~ClaimOldest /\ ~PublishFrame /\ ~ClaimBest /\ ~UploadFrame /\ ~ReleaseFrame
    <2>1. UNCHANGED <<Waiting, Announced, InHand, screen.n>>
      BY <1>8, StutterSteps
    <2>2. QED
      BY <2>1 DEF Mailbox!mailboxVars, Waiting, Announced, InHand, PublishedSlots
  <1>9. QED
    BY <1>3, <1>4, <1>5, <1>6, <1>7, <1>8

(* The ring with three slots or more implements the mailbox.               *)
THEOREM ImplementsMailbox == ASSUME FrameSlots >= 3 PROVE Spec => MailboxSpec
  <1>1. Init => Mailbox!MailboxInit
    BY StatesDiffer DEF Init, Mailbox!MailboxInit, NoFrame
  <1>2. SafeInv /\ Search /\ [Next]_vars =>
           [Mailbox!MailboxNext]_(Mailbox!mailboxVars)
    BY MailboxStep
  <1>3. QED
    BY <1>1, <1>2, SearchHolds, PTL DEF Spec, MailboxSpec, Mailbox!MailboxSpec
-----------------------------------------------------------------------------
(* The devices *)


\* A device as the calls that rebuild it may find it, its chain gone perhaps.
Extent == [w : Nat, h : Nat]
Devices == 1..MaxDevices
AnyGfx == [device : Devices, removed : BOOLEAN,
           chain : [device : 0..MaxDevices, size : Extent, rotation : {0, 90, 180, 270}],
           views : [device : 0..MaxDevices, size : Extent], dpi : Nat]

\* A device as they leave it, for a window known as k.
Pixels == [w : Nat \ {0}, h : Nat \ {0}]
Gfx == [device : Devices, removed : BOOLEAN,
        chain : [device : Devices, size : Pixels, rotation : {0, 90, 180, 270}],
        views : [device : Devices, size : Pixels], dpi : Nat]

BuiltFor(g, k) ==
  /\ g \in Gfx
  /\ g.chain.device = g.device
  /\ g.views = [device |-> g.device, size |-> g.chain.size]
  /\ g.chain.size = RenderTargetSize(k)
  /\ g.chain.rotation = Rotation(k.orient)
  /\ g.dpi = EffectiveDpi(k)
  /\ g.removed => g.device < MaxDevices

----------------------------------------------------------------------------
(* The target                                                               *)

\* The scale the target is drawn at is a scale, halved or not.
LEMMA EffectiveDpiType ==
  ASSUME NEW k \in Windows PROVE EffectiveDpi(k) \in Nat
<1> DEFINE d == k.dpi
<1>1. d \in Nat
  BY DeviceAssumption DEF Windows
<1>2. d \div 2 \in Nat
  BY <1>1
<1>3. EffectiveDpi(k) = d \div 2 \/ EffectiveDpi(k) = d
  BY DEF EffectiveDpi
<1>. QED
  BY <1>1, <1>2, <1>3

\* No side of the target is empty, whatever the window and the scale.
LEMMA LargerType ==
  ASSUME NEW a \in Nat, NEW b \in Nat PROVE Larger(a * b, 1) \in Nat \ {0}
<1>1. a * b \in Nat
  OBVIOUS
<1>. QED
  BY <1>1 DEF Larger

LEMMA TargetType ==
  ASSUME NEW k \in Windows PROVE RenderTargetSize(k) \in Pixels
<1>1. k.size.w \in Nat /\ k.size.h \in Nat
  BY DeviceAssumption DEF Windows
<1>2. OutputSize(k) \in Pixels
  BY <1>1, EffectiveDpiType, LargerType DEF OutputSize, Pixels
<1>3. Flip(OutputSize(k)) \in Pixels
  BY <1>2 DEF Flip, Pixels
<1>. QED
  BY <1>2, <1>3 DEF RenderTargetSize

LEMMA RotationType ==
  ASSUME NEW o \in Orientations PROVE Rotation(o) \in {0, 90, 180, 270}
<1>. QED
  BY DeviceAssumption DEF Orientations, Rotation

\* The rotation is the quarters between the native orientation and another,
\* and the target lies on its side for an odd number of them.
Quarter == [o \in Orientations |->
              CASE o = "Landscape" -> 0 [] o = "Portrait" -> 1
                [] o = "LandscapeFlipped" -> 2 [] OTHER -> 3]

LEMMA RotationCountsQuarters ==
  ASSUME NEW o \in Orientations
  PROVE  LET turn == (Quarter[Native] - Quarter[o]) % 4
         IN  /\ Rotation(o) = 90 * turn
             /\ turn % 2 = 1 <=> Rotation(o) \in {90, 270}
<1>1. /\ Quarter["Landscape"] = 0 /\ Quarter["Portrait"] = 1
      /\ Quarter["LandscapeFlipped"] = 2 /\ Quarter["PortraitFlipped"] = 3
  BY DEF Quarter, Orientations
<1>2. CASE Native = "Landscape"
  BY <1>1, <1>2 DEF Orientations, Rotation
<1>3. CASE Native = "Portrait"
  BY <1>1, <1>3 DEF Orientations, Rotation
<1>. QED
  BY <1>2, <1>3, DeviceAssumption

----------------------------------------------------------------------------
(* What rebuilds the device                                                 *)

\* A chain is resized on its own device, or made on the present one.
LEMMA ResizedBuilds ==
  ASSUME NEW k \in Windows, NEW g \in AnyGfx,
         g.chain.device \in {None, g.device},
         g.removed => g.device < MaxDevices
  PROVE  /\ BuiltFor(Resized(g, k), k)
         /\ Resized(g, k).device = g.device
         /\ Resized(g, k).removed = g.removed
<1>1. RenderTargetSize(k) \in Pixels
  BY TargetType
<1>2. Rotation(k.orient) \in {0, 90, 180, 270}
  BY RotationType DEF Windows
<1>3. EffectiveDpi(k) \in Nat
  BY EffectiveDpiType
<1>4. /\ ResizedChain(g, k) = [device |-> g.device, size |-> RenderTargetSize(k),
                               rotation |-> Rotation(k.orient)]
      /\ g.device \in Devices
  BY DEF ResizedChain, AnyGfx, Devices, None
<1>. DEFINE r == Resized(g, k)
<1>5. r = [device |-> g.device, removed |-> g.removed, chain |-> ResizedChain(g, k),
           views |-> NewViews(g, k), dpi |-> EffectiveDpi(k)]
  <2>. DEFINE a == ResizedChain(g, k)
              b == NewViews(g, k)
              e == EffectiveDpi(k)
  <2>1. r = [g EXCEPT !.chain = a, !.views = b, !.dpi = e]
    BY DEF Resized
  <2>. HIDE DEF a, b, e, r
  <2>2. r = [device |-> g.device, removed |-> g.removed, chain |-> a, views |-> b, dpi |-> e]
    BY <2>1 DEF AnyGfx
  <2>. QED
    BY <2>2 DEF a, b, e
<1>6. NewViews(g, k) = [device |-> g.device, size |-> RenderTargetSize(k)]
  BY DEF NewViews
<1>7. r \in Gfx
  BY <1>1, <1>2, <1>3, <1>4, <1>5, <1>6 DEF Gfx, AnyGfx
<1>. QED
  BY <1>4, <1>5, <1>6, <1>7 DEF BuiltFor

\* A device that is set up again gets a chain of its own.
LEMMA RecoveredBuilds ==
  ASSUME NEW k \in Windows, NEW g \in AnyGfx, g.device < MaxDevices
  PROVE  /\ BuiltFor(Recovered(g, k), k)
         /\ ~ Recovered(g, k).removed
<1>. DEFINE b == [g EXCEPT !.chain = NoChain]
            c == Created(b)
<1>1. b = [device |-> g.device, removed |-> g.removed, chain |-> NoChain,
           views |-> g.views, dpi |-> g.dpi]
  BY DEF AnyGfx
<1>2. c = [device |-> g.device + 1, removed |-> FALSE, chain |-> NoChain,
           views |-> g.views, dpi |-> g.dpi]
  <2>. HIDE DEF b
  <2>1. c = [b EXCEPT !.device = b.device + 1, !.removed = FALSE]
    BY DEF Created
  <2>. QED
    BY <1>1, <2>1
<1>. HIDE DEF c
<1>3. g.device + 1 \in Devices
  BY DeviceAssumption DEF AnyGfx, Devices
<1>4. NoChain \in [device : 0..MaxDevices, size : Extent, rotation : {0, 90, 180, 270}]
  BY DeviceAssumption DEF NoChain, None, Nothing, Extent
<1>5. c \in AnyGfx
  BY <1>2, <1>3, <1>4 DEF AnyGfx
<1>6. c.chain.device = None /\ ~ c.removed
  BY <1>2 DEF NoChain
<1>7. Recovered(g, k) = Resized(c, k)
  BY DEF Recovered, c
<1>. QED
  BY <1>5, <1>6, <1>7, ResizedBuilds

LEMMA BuiltIsAny ==
  ASSUME NEW k \in Windows, NEW g, BuiltFor(g, k) PROVE g \in AnyGfx
<1>. QED
  BY DeviceAssumption DEF BuiltFor, Gfx, AnyGfx, Devices, Pixels, Extent

----------------------------------------------------------------------------
(* The inductive invariant                                                  *)

\* The types of all but the device, which BuiltFor has.
PartsTyped ==
  /\ window \in Windows /\ known \in Windows
  /\ pending \subseteq {"size", "dpi", "orient"}
  /\ made \in [Kept -> 0..MaxDevices]
  /\ picture \in [frame : FrameSizes \cup {Nothing},
                  staging : FrameSizes \cup {Nothing, Preallocated},
                  screen : Sizes \cup {Nothing}]
  /\ shown \subseteq AllOverlays
  /\ phase \in {"events", "overlays", "drawn", "present"}
  /\ drawn \subseteq Kept

\* What the frontend has not learned of the window, an event will tell it.
EventsTell ==
  /\ known.size # window.size => "size" \in pending
  /\ known.dpi # window.dpi => "dpi" \in pending
  /\ known.orient # window.orient => "orient" \in pending

\* The disc is of the present device, and a frame fits.
KeptInv ==
  /\ made["loading"] \in {None, gfx.device}
  /\ PictureFits

DeviceInv == PartsTyped /\ BuiltFor(gfx, known) /\ EventsTell /\ KeptInv

LEMMA KeptParts ==
  /\ {"shaders", "staging", "texture", "loading", "menu", "cursor", "fps",
      "browser", "about", "box"} = Kept
  /\ AllOverlays \subseteq Kept
BY DEF Kept, Picture, AllOverlays, Dialogs

LEMMA DeviceInvInit == DeviceInit => DeviceInv
<1>. SUFFICES ASSUME DeviceInit PROVE DeviceInv
  OBVIOUS
<1>. DEFINE g == [device |-> 1, removed |-> FALSE, chain |-> NoChain,
                  views |-> [device |-> None, size |-> Nothing], dpi |-> 0]
<1>1. PartsTyped
  <2>1. made \in [Kept -> 0..MaxDevices]
    BY DeviceAssumption DEF DeviceInit, None
  <2>2. shown \subseteq AllOverlays
    BY DEF DeviceInit, AllOverlays
  <2>. QED
    BY <2>1, <2>2 DEF DeviceInit, PartsTyped
<1>2. g \in AnyGfx /\ g.chain.device = None /\ ~ g.removed
  BY DeviceAssumption DEF AnyGfx, NoChain, Nothing, None, Extent, Devices
<1>3. BuiltFor(gfx, known)
  <2>1. gfx = Resized(g, known) /\ known \in Windows
    BY DEF DeviceInit
  <2>. HIDE DEF g
  <2>. QED
    BY <1>2, <2>1, ResizedBuilds
<1>4. KeptInv
  BY KeptParts DEF DeviceInit, KeptInv, PictureFits, None
<1>. QED
  BY <1>1, <1>3, <1>4 DEF DeviceInit, DeviceInv, EventsTell

----------------------------------------------------------------------------
(* One lemma for each action that disturbs more than one part               *)

\* The disc is let go with the device, the pictures are not.
LEMMA ReleasedType ==
  ASSUME PartsTyped, KeptInv, NEW lost \in BOOLEAN, NEW d,
         lost \/ d = gfx.device
  PROVE  LET m == Released(made, lost)
         IN  /\ m \in [Kept -> 0..MaxDevices]
             /\ m["loading"] \in {None, d}
             /\ m["staging"] = made["staging"]
             /\ m["texture"] = made["texture"]
BY KeptParts, DeviceAssumption DEF Released, PartsTyped, KeptInv, None

\* A rebuild fits the window that is known then, and drops the disc if it had
\* to set up another device.
LEMMA LearnIInv ==
  ASSUME DeviceInv, NEW event, NEW k \in Windows, Learn(event, k),
         k.size = window.size     \/ (k.size = known.size /\ event # "size"),
         k.dpi = window.dpi       \/ (k.dpi = known.dpi /\ event # "dpi"),
         k.orient = window.orient \/ (k.orient = known.orient /\ event # "orient")
  PROVE  DeviceInv'
<1>. DEFINE lost == k # known /\ gfx.removed
<1>1. BuiltFor(gfx', k) /\ (lost \/ gfx'.device = gfx.device)
  <2>1. gfx \in AnyGfx /\ gfx.chain.device = gfx.device
        /\ (gfx.removed => gfx.device < MaxDevices)
    BY BuiltIsAny DEF DeviceInv, BuiltFor, PartsTyped
  <2>2. CASE k = known
    BY <2>2 DEF Learn, DeviceInv
  <2>3. CASE k # known /\ gfx.removed
    <3>1. gfx' = Recovered(gfx, k)
      BY <2>3 DEF Learn, Rebuilt
    <3>. QED
      BY <2>1, <2>3, <3>1, RecoveredBuilds
  <2>4. CASE k # known /\ ~ gfx.removed
    <3>1. gfx' = Resized(gfx, k)
      BY <2>4 DEF Learn, Rebuilt
    <3>. QED
      BY <2>1, <3>1, ResizedBuilds
  <2>. QED
    BY <2>2, <2>3, <2>4
<1>2. /\ made' \in [Kept -> 0..MaxDevices]
      /\ made'["loading"] \in {None, gfx'.device}
      /\ made'["staging"] = made["staging"]
      /\ made'["texture"] = made["texture"]
  <2>1. made' = Released(made, lost) /\ lost \in BOOLEAN
    BY DEF Learn
  <2>. HIDE DEF lost
  <2>. QED
    BY <1>1, <2>1, ReleasedType DEF DeviceInv
<1>3. PartsTyped'
  BY <1>2 DEF DeviceInv, PartsTyped, Learn
<1>4. EventsTell'
  BY DEF DeviceInv, EventsTell, Learn
<1>5. KeptInv'
  BY <1>2 DEF DeviceInv, KeptInv, PictureFits, Learn
<1>. QED
  BY <1>1, <1>3, <1>4, <1>5 DEF DeviceInv, Learn

\* The same for a device that is set up again for the same window.
LEMMA RecoverIInv ==
  ASSUME DeviceInv, gfx.device < MaxDevices,
         gfx' = Recovered(gfx, known), made' = Released(made, TRUE),
         phase' \in {"events", "overlays", "drawn", "present"},
         UNCHANGED <<window, pending, known, picture, shown, drawn>>
  PROVE  DeviceInv'
<1>1. gfx \in AnyGfx
  BY BuiltIsAny DEF DeviceInv, PartsTyped
<1>2. BuiltFor(gfx', known)
  BY <1>1, RecoveredBuilds DEF DeviceInv, PartsTyped
<1>3. /\ made' \in [Kept -> 0..MaxDevices]
      /\ made'["loading"] \in {None, gfx'.device}
      /\ made'["staging"] = made["staging"]
      /\ made'["texture"] = made["texture"]
  BY ReleasedType DEF DeviceInv
<1>4. PartsTyped'
  BY <1>3 DEF DeviceInv, PartsTyped
<1>5. EventsTell'
  BY DEF DeviceInv, EventsTell
<1>6. KeptInv'
  BY <1>3 DEF DeviceInv, KeptInv, PictureFits
<1>. QED
  BY <1>2, <1>4, <1>5, <1>6 DEF DeviceInv

\* A frame of any resolution leaves a staging texture it fits, or none.
LEMMA FrameFits ==
  ASSUME DeviceInv, NEW f \in FrameSizes, UpdateVideoFrame(f)
  PROVE  /\ made' \in [Kept -> 0..MaxDevices]
         /\ picture' \in [frame : FrameSizes \cup {Nothing},
                          staging : FrameSizes \cup {Nothing, Preallocated},
                          screen : Sizes \cup {Nothing}]
         /\ made'["loading"] = made["loading"]
         /\ PictureFits'
<1>1. gfx.device \in 1..MaxDevices
  BY DEF DeviceInv, BuiltFor, Gfx, Devices
<1>2. CASE made' = [made EXCEPT !["texture"] = None] /\ UNCHANGED picture
  BY <1>2, KeptParts, DeviceAssumption DEF DeviceInv, PartsTyped, KeptInv, PictureFits, None
<1>3. CASE UNCHANGED <<made, picture>>
  BY <1>3 DEF DeviceInv, PartsTyped, KeptInv, PictureFits
<1>4. CASE /\ RemakeTextures(f)
           /\ ~ (made' = [made EXCEPT !["texture"] = None] /\ UNCHANGED picture)
  <2>. DEFINE restage == made["staging"] = None \/ Exceeds(f, picture.staging)
              p == [frame |-> f, screen |-> known.size,
                    staging |-> IF restage THEN f ELSE picture.staging]
  <2>1. picture' = p
    BY <1>4 DEF RemakeTextures
  <2>2. PICK s \in IF restage THEN {gfx.device, None} ELSE {made["staging"]} :
          made' = [made EXCEPT !["texture"] = gfx.device, !["staging"] = s]
    BY <1>4 DEF RemakeTextures
  <2>3. s \in 0..MaxDevices
    BY <1>1, <2>2, KeptParts, DeviceAssumption DEF DeviceInv, PartsTyped, None
  <2>4. /\ made' \in [Kept -> 0..MaxDevices]
        /\ made'["loading"] = made["loading"]
        /\ made'["staging"] = s
    BY <1>1, <2>2, <2>3, KeptParts DEF DeviceInv, PartsTyped
  <2>5. picture' \in [frame : FrameSizes \cup {Nothing},
                     staging : FrameSizes \cup {Nothing, Preallocated},
                     screen : Sizes \cup {Nothing}]
    BY <2>1 DEF DeviceInv, PartsTyped, Windows
  <2>6. f.w =< picture'.staging.w /\ f.h =< picture'.staging.h
    <3>1. f \in Extent /\ picture.staging \in Extent
      BY DeviceAssumption DEF DeviceInv, PartsTyped, Nothing, Extent
    <3>2. CASE restage
      BY <2>1, <3>1, <3>2 DEF Extent
    <3>3. CASE ~ restage
      BY <2>1, <3>1, <3>3 DEF Exceeds, Extent
    <3>. QED
      BY <3>2, <3>3
  <2>. QED
    BY <2>1, <2>4, <2>5, <2>6 DEF PictureFits
<1>. QED
  BY <1>2, <1>3, <1>4 DEF UpdateVideoFrame, RemakeTextures

----------------------------------------------------------------------------
(* Overlays                                                                 *)

\* What drawing and hiding overlays does to what is kept: the picture is left
\* alone, and the disc is dropped or made on the present device.
OverlaysOnly(m) ==
  /\ m \in [Kept -> 0..MaxDevices]
  /\ m["loading"] \in {None, gfx.device}
  /\ m["staging"] = made["staging"]
  /\ m["texture"] = made["texture"]

FrameSound(f) ==
  /\ f = [made |-> f.made, drawn |-> f.drawn]
  /\ OverlaysOnly(f.made)
  /\ f.drawn \subseteq Kept

LEMMA UseSound ==
  ASSUME DeviceInv, NEW f, FrameSound(f), NEW part \in AllOverlays
  PROVE  FrameSound(Use(f, part))
<1>. DEFINE m == IF f.made[part] = None THEN [f.made EXCEPT ![part] = gfx.device] ELSE f.made
            d == f.drawn \cup {part}
<1>1. Use(f, part) = [made |-> m, drawn |-> d]
  BY DEF Use
<1>2. gfx.device \in 0..MaxDevices
  BY DeviceAssumption DEF DeviceInv, BuiltFor, Gfx, Devices
<1>3. part \in Kept /\ part # "staging" /\ part # "texture"
  BY DEF Kept, AllOverlays, Dialogs, Picture
<1>4. OverlaysOnly(m)
  BY <1>2, <1>3, KeptParts DEF FrameSound, OverlaysOnly
<1>5. d \subseteq Kept
  BY <1>3 DEF FrameSound
<1>. HIDE DEF m, d
<1>. QED
  BY <1>1, <1>4, <1>5 DEF FrameSound

\* Whatever is on the screen, a frame draws with overlays.
LEMMA OverlaysSound ==
  ASSUME DeviceInv, DrawOverlays
  PROVE  OverlaysOnly(made') /\ drawn' \subseteq Kept
<1>. DEFINE before == [made |-> made, drawn |-> drawn]
<1>1. PICK booted \in BOOLEAN :
        LET frame == IF "loading" \in shown THEN RenderLoadingScreen(before)
                     ELSE RenderFps(RenderCursor(RenderFullScreen(before, booted)))
        IN  made' = frame.made /\ drawn' = frame.drawn
  BY DEF DrawOverlays
<1>2. FrameSound(before)
  BY DEF FrameSound, OverlaysOnly, DeviceInv, PartsTyped, KeptInv
<1>. HIDE DEF before
<1>3. {"loading", "menu", "cursor", "fps", "browser", "about", "box"} \subseteq AllOverlays
  BY DEF AllOverlays, Dialogs
<1>4. ASSUME NEW f, FrameSound(f)
      PROVE  /\ FrameSound(EnsureMenu(f))
             /\ FrameSound(RenderLoadingScreen(f))
             /\ FrameSound(RenderBrowser(f))
             /\ FrameSound(RenderAbout(f))
             /\ FrameSound(RenderBox(f))
             /\ FrameSound(RenderCursor(f))
             /\ FrameSound(RenderFps(f))
  BY <1>3, <1>4, UseSound
     DEF EnsureMenu, EnsureBrowser, EnsureAbout, EnsureBox, EnsureLoadingDisc,
         RenderLoadingScreen, RenderBrowser, RenderAbout, RenderBox, RenderCursor, RenderFps
<1>5. ASSUME NEW f, FrameSound(f)
      PROVE  FrameSound(RenderFullScreen(f, booted))
  <2>1. FrameSound(RenderBox(RenderAbout(RenderBrowser(EnsureMenu(f)))))
    BY <1>4, <1>5
  <2>. QED
    BY <1>4, <1>5, <2>1 DEF RenderFullScreen
<1>6. FrameSound(RenderFps(RenderCursor(RenderFullScreen(before, booted))))
  BY <1>2, <1>4, <1>5
<1>. QED
  BY <1>1, <1>2, <1>4, <1>6 DEF FrameSound

\* What is taken down lets go of overlays only.
LEMMA HideSound ==
  ASSUME DeviceInv, NEW part \in Overlays, Hide(part)
  PROVE  OverlaysOnly(made')
<1>1. OverlaysOnly(made)
  BY DEF OverlaysOnly, DeviceInv, PartsTyped, KeptInv
<1>2. None \in 0..MaxDevices
  BY DeviceAssumption DEF None
<1>3. /\ OverlaysOnly(ReleaseMenu(made))
      /\ OverlaysOnly(ReleaseBox(made))
      /\ OverlaysOnly(ReleaseLoadingDisc(made))
  BY <1>1, <1>2, KeptParts
     DEF OverlaysOnly, ReleaseMenu, ReleaseBox, ReleaseLoadingDisc, Dialogs
<1>4. made' \in {made, ReleaseMenu(made), ReleaseBox(made), ReleaseLoadingDisc(made)}
  BY DEF Hide
<1>. QED
  BY <1>1, <1>3, <1>4

----------------------------------------------------------------------------
(* Every step                                                               *)

LEMMA DeviceInvNext == DeviceInv /\ [DeviceNext]_deviceVars => DeviceInv'
<1>. SUFFICES ASSUME DeviceInv, [DeviceNext]_deviceVars PROVE DeviceInv'
  OBVIOUS
<1>1. CASE WindowChanges
  <2>1. EventsTell'
    BY <1>1 DEF DeviceInv, EventsTell, WindowChanges
  <2>2. PartsTyped'
    BY <1>1 DEF DeviceInv, PartsTyped, WindowChanges
  <2>. QED
    BY <1>1, <2>1, <2>2 DEF DeviceInv, KeptInv, PictureFits, WindowChanges
<1>2. CASE DeviceRemoved
  <2>1. gfx' = [gfx EXCEPT !.removed = TRUE] /\ gfx.device < MaxDevices
    BY <1>2 DEF DeviceRemoved
  <2>2. BuiltFor(gfx', known)
    BY <2>1 DEF DeviceInv, BuiltFor, Gfx
  <2>3. gfx'.device = gfx.device
    BY <2>1 DEF DeviceInv, BuiltFor, Gfx
  <2>. QED
    BY <1>2, <2>2, <2>3 DEF DeviceInv, PartsTyped, EventsTell, KeptInv, PictureFits, DeviceRemoved
<1>3. CASE SetLogicalSize
  <2>. DEFINE k == [known EXCEPT !.size = window.size]
  <2>1. k \in Windows /\ k.size = window.size /\ k.dpi = known.dpi /\ k.orient = known.orient
    BY DEF DeviceInv, PartsTyped, Windows
  <2>2. Learn("size", k)
    BY <1>3 DEF SetLogicalSize
  <2>. HIDE DEF k
  <2>. QED
    BY <2>1, <2>2, LearnIInv
<1>4. CASE SetDpi
  <2>. DEFINE k == IF known.dpi = window.dpi THEN known
                   ELSE [known EXCEPT !.dpi = window.dpi, !.size = window.size]
  <2>1. /\ k \in Windows /\ k.dpi = window.dpi /\ k.orient = known.orient
        /\ k.size \in {known.size, window.size}
    <3>1. known \in Windows /\ window \in Windows
      BY DEF DeviceInv, PartsTyped
    <3>2. CASE known.dpi # window.dpi
      BY <3>1, <3>2 DEF Windows
    <3>. QED
      BY <3>1, <3>2
  <2>2. Learn("dpi", k)
    BY <1>4 DEF SetDpi
  <2>. HIDE DEF k
  <2>. QED
    BY <2>1, <2>2, LearnIInv
<1>5. CASE SetCurrentOrientation
  <2>. DEFINE k == [known EXCEPT !.orient = window.orient]
  <2>1. k \in Windows /\ k.orient = window.orient /\ k.size = known.size /\ k.dpi = known.dpi
    BY DEF DeviceInv, PartsTyped, Windows
  <2>2. Learn("orient", k)
    BY <1>5 DEF SetCurrentOrientation
  <2>. HIDE DEF k
  <2>. QED
    BY <2>1, <2>2, LearnIInv
<1>6. CASE ValidateDevice
  BY <1>6, RecoverIInv DEF ValidateDevice, DeviceInv, PartsTyped
<1>7. ASSUME NEW part \in Overlays, Show(part) PROVE DeviceInv'
  <2>1. OverlaysOnly(made)
    BY DEF OverlaysOnly, DeviceInv, PartsTyped, KeptInv
  <2>2. OverlaysOnly(made')
    BY <1>7, <2>1, KeptParts, DeviceAssumption DEF Show, ReleaseBox, OverlaysOnly, None
  <2>3. shown' \subseteq AllOverlays
    BY <1>7, DeviceAssumption DEF Show, DeviceInv, PartsTyped
  <2>. QED
    BY <1>7, <2>2, <2>3
       DEF Show, OverlaysOnly, DeviceInv, PartsTyped, EventsTell, KeptInv, PictureFits
<1>8. ASSUME NEW part \in Overlays, Hide(part) PROVE DeviceInv'
  <2>1. OverlaysOnly(made')
    BY <1>8, HideSound
  <2>. QED
    BY <1>8, <2>1
       DEF Hide, OverlaysOnly, DeviceInv, PartsTyped, EventsTell, KeptInv, PictureFits
<1>9. CASE DrawGame
  <2>1. drawn' \subseteq Kept
    BY <1>9 DEF DrawGame, Upload, Kept, Picture
  <2>2. CASE \E f \in FrameSizes : UpdateVideoFrame(f)
    <3>1. PICK f \in FrameSizes : UpdateVideoFrame(f)
      BY <2>2
    <3>2. PartsTyped'
      BY <1>9, <2>1, <3>1, FrameFits DEF DrawGame, DeviceInv, PartsTyped
    <3>3. KeptInv'
      BY <1>9, <3>1, FrameFits DEF DrawGame, DeviceInv, KeptInv
    <3>. QED
      BY <1>9, <3>2, <3>3 DEF DrawGame, DeviceInv, EventsTell
  <2>3. CASE UNCHANGED <<made, picture>>
    BY <1>9, <2>1, <2>3 DEF DrawGame, DeviceInv, PartsTyped, EventsTell, KeptInv, PictureFits
  <2>. QED
    BY <1>9, <2>2, <2>3 DEF DrawGame, Upload
<1>10. CASE DrawNoGame
  BY <1>10 DEF DrawNoGame, DeviceInv, PartsTyped, EventsTell, KeptInv, PictureFits
<1>11. CASE DrawOverlays
  <2>1. OverlaysOnly(made') /\ drawn' \subseteq Kept
    BY <1>11, OverlaysSound
  <2>. QED
    BY <1>11, <2>1
       DEF DrawOverlays, OverlaysOnly, DeviceInv, PartsTyped, EventsTell, KeptInv, PictureFits
<1>12. CASE EndDraw
  <2>1. OverlaysOnly(made')
    BY <1>12, KeptParts, DeviceAssumption
       DEF EndDraw, OverlaysOnly, DeviceInv, PartsTyped, KeptInv, None
  <2>. QED
    BY <1>12, <2>1
       DEF EndDraw, OverlaysOnly, DeviceInv, PartsTyped, EventsTell, KeptInv, PictureFits
<1>13. CASE Present
  <2>1. CASE gfx.removed
    <3>1. gfx' = Recovered(gfx, known) /\ made' = Released(made, TRUE)
      BY <1>13, <2>1 DEF Present, Released
    <3>2. gfx.device < MaxDevices
      BY <2>1 DEF DeviceInv, BuiltFor
    <3>. QED
      BY <1>13, <3>1, <3>2, RecoverIInv DEF Present
  <2>2. CASE ~ gfx.removed
    <3>1. gfx' = gfx /\ made' = made
      BY <1>13, <2>2 DEF Present, Released
    <3>. QED
      BY <1>13, <3>1 DEF Present, DeviceInv, PartsTyped, EventsTell, KeptInv, PictureFits
  <2>. QED
    BY <2>1, <2>2
<1>14. CASE UNCHANGED deviceVars
  BY <1>14 DEF deviceVars, DeviceInv, PartsTyped, EventsTell, KeptInv, PictureFits
<1>. QED
  BY <1>1, <1>2, <1>3, <1>4, <1>5, <1>6, <1>7, <1>8, <1>9, <1>10, <1>11, <1>12, <1>13, <1>14
     DEF DeviceNext

\* The strengthening holds in every behaviour: the events still to be handled
\* make up for all the frontend does not know.
THEOREM DeviceInductive == DeviceSpec => []DeviceInv
BY DeviceInvInit, DeviceInvNext, PTL DEF DeviceSpec

----------------------------------------------------------------------------
(* The theorems                                                             *)

\* Whichever call finds a device gone, and however often, the swap chain and
\* its views belong to the device that draws, and no side of the target is
\* empty.
THEOREM DeviceStaysSound == DeviceSpec => []DeviceSound
<1>1. DeviceInv => DeviceSound
  <2>. SUFFICES ASSUME DeviceInv PROVE DeviceSound
    OBVIOUS
  <2>1. OneDevice
    BY DEF DeviceInv, BuiltFor, KeptInv, OneDevice
  <2>2. DeviceTypeOK
    BY DEF DeviceInv, PartsTyped, BuiltFor, Gfx, Devices, Pixels, DeviceTypeOK
  <2>. QED
    BY <2>1, <2>2 DEF DeviceSound
<1>. QED
  BY <1>1, DeviceInductive, PTL

\* Once the posted events are handled, in any order, the target has the size,
\* the density and the rotation of the window.
THEOREM TargetEndsAsWindow == DeviceSpec => []TargetFollowsWindow
<1>1. DeviceInv => TargetFollowsWindow
  <2>. SUFFICES ASSUME DeviceInv, pending = {} PROVE TargetFollowsWindow
    BY DEF TargetFollowsWindow
  <2>1. known = window
    BY DEF DeviceInv, EventsTell, PartsTyped, Windows
  <2>. DEFINE turn == (Quarter[Native] - Quarter[window.orient]) % 4
  <2>2. /\ Rotation(window.orient) = 90 * turn
        /\ turn % 2 = 1 <=> Rotation(window.orient) \in {90, 270}
    BY RotationCountsQuarters DEF DeviceInv, PartsTyped, Windows
  <2>3. OutputSize(window) = [w |-> Larger(window.size.w * gfx.dpi, 1),
                              h |-> Larger(window.size.h * gfx.dpi, 1)]
    BY <2>1 DEF DeviceInv, BuiltFor, OutputSize
  <2>4. /\ gfx.chain.size = IF turn % 2 = 1 THEN Flip(OutputSize(window))
                            ELSE OutputSize(window)
        /\ gfx.chain.rotation = 90 * turn
    BY <2>1, <2>2 DEF DeviceInv, BuiltFor, RenderTargetSize
  <2>. QED
    BY <2>3, <2>4, Zenon DEF TargetFollowsWindow, Quarter
<1>. QED
  BY <1>1, DeviceInductive, PTL

\* For any resolutions in any order, and whatever texture could not be made,
\* the copy of a frame stays inside the staging texture.
THEOREM FramesFit == DeviceSpec => []PictureFits
<1>1. DeviceInv => PictureFits
  BY DEF DeviceInv, KeptInv
<1>. QED
  BY <1>1, DeviceInductive, PTL
=============================================================================
