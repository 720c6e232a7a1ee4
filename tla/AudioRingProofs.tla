--------------------------- MODULE AudioRingProofs ---------------------------
(***************************************************************************)
(* Proofs about AudioRing for any number and size of sub-buffers, any      *)
(* Write, beep and number of waits.  m_buffers is exact, although the      *)
(* engine may count a sub-buffer down before the writer counted it up, so  *)
(* the ring is never handed more sub-buffers than it has.  Unless a Write  *)
(* of a game overlaps a Flush, a Write times out only when the ring is     *)
(* full, the ring stays in order, and a game is heard alone.               *)
(***************************************************************************)
EXTENDS AudioRing, FiniteSetTheorems, SequenceTheorems, TLAPS

(* The types, in two parts that different steps disturb. *)
MaxLeft == IF MaxWrite > BeepLength THEN MaxWrite ELSE BeepLength

ThreadsTyped ==
    /\ wpc \in [Writers -> {"idle", "copy", "copied", "submit", "count", "wait"}]
    /\ uiPc \in {"idle", "stop", "stopFlush", "flush", "flushWait", "flushSleep",
              "flushReset"}
    /\ started \in BOOLEAN /\ event \in BOOLEAN /\ signalling \in BOOLEAN
    /\ loaded \in BOOLEAN /\ raced \in BOOLEAN
    /\ unloadEvent \in BOOLEAN /\ loadRequest \in BOOLEAN /\ loadResult \in BOOLEAN

(* One game more at most is asked for, and one wait more is waited. *)
AmountsTyped ==
    /\ bufptr \in 0 .. SubBuf /\ writeBuffer \in Buffers
    /\ left \in [Writers -> 0 .. MaxLeft]
    /\ game \in 0 .. MaxGames /\ (loadRequest => game < MaxGames)
    /\ waited \in 0 .. FlushWaits /\ (uiPc = "flushSleep" => waited < FlushWaits)
    /\ content \in [Buffers -> SUBSET (0 .. MaxGames)]

(* A sub-buffer that is submitted and not yet counted is one, because the  *)
(* mutex is held in between.  That is all the difference there is between  *)
(* m_buffers and what the engine has still to end, and m_buffers was below *)
(* its limit when the sub-buffer was submitted.                            *)
Uncounted == IF Unlocked THEN 0 ELSE 1

Counted ==
    /\ queue \in Seq(Buffers) /\ due \in Nat /\ buffers \in Int
    /\ \A t, u \in Writers : wpc[t] = "count" /\ wpc[u] = "count" => t = u
    /\ buffers + Uncounted = Len(queue) + due
    /\ Len(queue) + due < MaxBuffers

IInv == ThreadsTyped /\ AmountsTyped /\ Counted
-----------------------------------------------------------------------------
LEMMA TwoWriters == "emu" \in Writers /\ "ui" \in Writers /\ "emu" # "ui"
  BY DEF Writers

LEMMA ConstantTypes ==
    /\ MaxBuffers \in Nat /\ MaxBuffers > 1 /\ SubBuf \in Nat /\ SubBuf > 0
    /\ MaxWrite \in Nat /\ BeepLength \in Nat /\ MaxLeft \in Nat
    /\ MaxWrite <= MaxLeft /\ BeepLength <= MaxLeft
    /\ FlushWaits \in Nat /\ MaxGames \in Nat
  BY RingAssumption, UseAssumption DEF MaxLeft

(* The sub-buffers that are submitted and not counted, as a number. *)
LEMMA CountSet ==
    ASSUME Counted
    PROVE  Cardinality({t \in Writers : wpc[t] = "count"}) = Uncounted
  <1> DEFINE C == {t \in Writers : wpc[t] = "count"}
  <1>1. CASE Unlocked
    <2>1. C = {}
      BY <1>1 DEF Unlocked
    <2> QED
      BY <1>1, <2>1, FS_EmptySet DEF Uncounted
  <1>2. CASE ~ Unlocked
    <2>1. PICK t \in Writers : wpc[t] = "count"
      BY <1>2 DEF Unlocked
    <2>2. C = {t}
      BY <2>1 DEF Counted
    <2>3. Cardinality({t}) = 1
      BY FS_Singleton
    <2> QED
      BY <1>2, <2>2, <2>3 DEF Uncounted
  <1> QED
    BY <1>1, <1>2
-----------------------------------------------------------------------------
(* Going on in Write, when the lock is neither taken nor released. *)
LEMMA GoToKeeps ==
    ASSUME IInv, NEW t \in Writers, NEW p \in {"idle", "copy", "copied", "submit", "wait"},
           wpc[t] # "count", GoTo(t, p)
    PROVE  /\ wpc' \in [Writers -> {"idle", "copy", "copied", "submit", "count", "wait"}]
           /\ Unlocked' <=> Unlocked
           /\ \A u, v \in Writers : wpc'[u] = "count" /\ wpc'[v] = "count" => u = v
  <1>1. wpc' = [wpc EXCEPT ![t] = p] /\ p # "count"
    BY DEF GoTo
  <1>2. \A u \in Writers : wpc'[u] = "count" <=> wpc[u] = "count"
    BY <1>1 DEF IInv, ThreadsTyped
  <1> QED
    BY <1>1, <1>2 DEF IInv, ThreadsTyped, Counted, Unlocked

(* What leaves what Counted is about alone keeps it. *)
LEMMA CountedKept ==
    ASSUME IInv, UNCHANGED <<queue, due, buffers>>,
           UNCHANGED wpc \/ \E t \in Writers, p \in {"idle", "copy", "copied", "submit", "wait"} :
                              wpc[t] # "count" /\ GoTo(t, p)
    PROVE  Counted'
  <1>1. /\ Unlocked' <=> Unlocked
        /\ \A u, v \in Writers : wpc'[u] = "count" /\ wpc'[v] = "count" => u = v
    BY GoToKeeps DEF IInv, Counted, Unlocked
  <1>2. Uncounted' = Uncounted
    BY <1>1 DEF Uncounted
  <1> QED
    BY <1>1, <1>2 DEF IInv, Counted

LEMMA NextRoundType ==
    ASSUME NEW t \in Writers PROVE NextRound(t) \in {"idle", "copy"}
  BY DEF NextRound

LEMMA NextIndex ==
    ASSUME NEW b \in Buffers PROVE (b + 1) % MaxBuffers \in Buffers
  BY ConstantTypes DEF Buffers

LEMMA CopyKeeps ==
    ASSUME IInv, NEW t \in Writers, Copy(t) PROVE IInv'
  <1> DEFINE need == IF left[t] < SubBuf - bufptr THEN left[t] ELSE SubBuf - bufptr
             from == IF t = "emu" THEN game ELSE 0
             kept == IF bufptr = 0 THEN {} ELSE content[writeBuffer]
  <1>1. /\ wpc[t] = "copy" /\ started' = TRUE /\ bufptr' = bufptr + need
        /\ left' = [left EXCEPT ![t] = left[t] - need]
        /\ content' = IF need = 0 THEN content
                      ELSE [content EXCEPT ![writeBuffer] = kept \cup {from}]
        /\ GoTo(t, "copied")
        /\ UNCHANGED <<writeBuffer, buffers, event, queue, due, signalling, ui, core, raced>>
    BY DEF Copy
  <1>2. need \in Nat /\ need <= left[t] /\ need <= SubBuf - bufptr
    BY ConstantTypes DEF IInv, AmountsTyped
  <1>3. from \in 0 .. MaxGames
    BY ConstantTypes DEF IInv, AmountsTyped
  <1>4. kept \subseteq 0 .. MaxGames
    BY DEF IInv, AmountsTyped
  <1> HIDE DEF need, from, kept
  <1>5. ThreadsTyped'
    BY <1>1, GoToKeeps DEF IInv, ThreadsTyped, ui, core
  <1>6. AmountsTyped'
    <2>1. bufptr' \in 0 .. SubBuf
      BY <1>1, <1>2, ConstantTypes DEF IInv, AmountsTyped
    <2>2. left' \in [Writers -> 0 .. MaxLeft]
      BY <1>1, <1>2, ConstantTypes DEF IInv, AmountsTyped
    <2>3. content' \in [Buffers -> SUBSET (0 .. MaxGames)]
      BY <1>1, <1>3, <1>4 DEF IInv, AmountsTyped
    <2> QED
      BY <1>1, <2>1, <2>2, <2>3 DEF IInv, AmountsTyped, ui, core
  <1>7. Counted'
    BY <1>1, CountedKept
  <1> QED
    BY <1>5, <1>6, <1>7 DEF IInv

LEMMA SubmitKeeps ==
    ASSUME IInv, NEW t \in Writers, Submit(t) PROVE IInv'
  <1>1. /\ wpc[t] = "submit" /\ Unlocked
        /\ UNCHANGED <<bufptr, writeBuffer, buffers, content, started, event, due, signalling,
                       left, uiPc, waited, loaded, game, unloadEvent, loadRequest, loadResult,
                       raced>>
    BY DEF Submit, ring, ui, core
  <1>2. AmountsTyped'
    BY <1>1 DEF IInv, AmountsTyped
  <1>3. CASE buffers < MaxBuffers - 1
    <2>1. queue' = Append(queue, writeBuffer) /\ wpc' = [wpc EXCEPT ![t] = "count"]
      BY <1>3 DEF Submit, GoTo
    <2>2. ThreadsTyped'
      BY <1>1, <2>1 DEF IInv, ThreadsTyped
    <2>3. wpc'[t] = "count" /\ \A u \in Writers : wpc'[u] = "count" => u = t
      BY <1>1, <2>1 DEF IInv, ThreadsTyped, Unlocked
    <2>4. Uncounted = 0 /\ Uncounted' = 1
      BY <1>1, <2>3 DEF Uncounted, Unlocked
    <2>5. queue' \in Seq(Buffers) /\ Len(queue') = Len(queue) + 1 /\ Len(queue) \in Nat
      BY <2>1 DEF IInv, AmountsTyped, Counted
    <2>6. Counted'
      BY <1>1, <1>3, <2>3, <2>4, <2>5, ConstantTypes DEF IInv, Counted
    <2> QED
      BY <1>2, <2>2, <2>6 DEF IInv
  <1>4. CASE ~ (buffers < MaxBuffers - 1)
    <2>1. GoTo(t, "wait") /\ queue' = queue
      BY <1>4 DEF Submit
    <2>2. ThreadsTyped' /\ Counted'
      BY <1>1, <2>1, GoToKeeps, CountedKept DEF IInv, ThreadsTyped
    <2> QED
      BY <1>2, <2>2 DEF IInv
  <1> QED
    BY <1>3, <1>4

LEMMA CountSubmittedKeeps ==
    ASSUME IInv, NEW t \in Writers, CountSubmitted(t) PROVE IInv'
  <1>1. /\ wpc[t] = "count" /\ buffers' = buffers + 1 /\ bufptr' = 0
        /\ writeBuffer' = (writeBuffer + 1) % MaxBuffers
        /\ wpc' = [wpc EXCEPT ![t] = NextRound(t)]
        /\ UNCHANGED <<content, started, event, queue, due, signalling, left, uiPc, waited,
                       loaded, game, unloadEvent, loadRequest, loadResult, raced>>
    BY DEF CountSubmitted, GoTo, engine, ui, core
  <1>2. NextRound(t) \in {"idle", "copy"}
    BY NextRoundType
  <1>3. ThreadsTyped'
    BY <1>1, <1>2 DEF IInv, ThreadsTyped
  <1>4. AmountsTyped'
    <2>1. 0 \in 0 .. SubBuf /\ writeBuffer' \in Buffers
      BY <1>1, NextIndex, ConstantTypes DEF IInv, AmountsTyped
    <2> QED
      BY <1>1, <2>1 DEF IInv, AmountsTyped
  <1>5. \A u \in Writers : wpc'[u] # "count"
    BY <1>1, <1>2 DEF IInv, ThreadsTyped, Counted
  <1>6. Uncounted = 1 /\ Uncounted' = 0
    BY <1>1, <1>5 DEF Uncounted, Unlocked
  <1>7. Counted'
    BY <1>1, <1>5, <1>6 DEF IInv, Counted
  <1> QED
    BY <1>3, <1>4, <1>7 DEF IInv

LEMMA WriteKeeps ==
    ASSUME IInv, NEW t \in Writers, WriteStep(t) PROVE IInv'
  <1>1. CASE CheckFull(t)
    <2>1. PICK p \in {"submit", "idle", "copy"} : wpc[t] = "copied" /\ GoTo(t, p)
      BY <1>1, NextRoundType DEF CheckFull
    <2>2. UNCHANGED <<ring, engine, left, ui, core, raced>>
      BY <1>1 DEF CheckFull
    <2>3. ThreadsTyped' /\ AmountsTyped'
      BY <2>1, <2>2, GoToKeeps DEF IInv, ThreadsTyped, AmountsTyped, ring, engine, ui, core
    <2>4. Counted'
      BY <2>1, <2>2, CountedKept DEF ring, engine
    <2> QED
      BY <2>3, <2>4 DEF IInv
  <1>2. CASE SubmitFails(t) \/ WriteTimeout(t)
    <2>1. /\ wpc[t] # "count" /\ GoTo(t, "idle") /\ left' = [left EXCEPT ![t] = 0]
          /\ UNCHANGED <<ring, engine, ui, core, raced>>
      BY <1>2 DEF SubmitFails, WriteTimeout
    <2>2. ThreadsTyped'
      BY <2>1, GoToKeeps DEF IInv, ThreadsTyped, engine, ui, core
    <2>3. left' \in [Writers -> 0 .. MaxLeft]
      BY <2>1, ConstantTypes DEF IInv, AmountsTyped
    <2>4. AmountsTyped'
      BY <2>1, <2>3 DEF IInv, AmountsTyped, ring, ui, core
    <2>5. Counted'
      BY <2>1, CountedKept DEF ring, engine
    <2> QED
      BY <2>2, <2>4, <2>5 DEF IInv
  <1>3. CASE WaitSlot(t)
    <2>1. /\ wpc[t] = "wait" /\ GoTo(t, "submit") /\ event' = FALSE
          /\ UNCHANGED <<ring, started, queue, due, signalling, left, ui, core, raced>>
      BY <1>3 DEF WaitSlot
    <2>2. ThreadsTyped' /\ AmountsTyped'
      <3>1. ThreadsTyped'
        BY <2>1, GoToKeeps DEF IInv, ThreadsTyped, ui, core
      <3>2. AmountsTyped'
        BY <2>1 DEF IInv, AmountsTyped, ring, ui, core
      <3> QED
        BY <3>1, <3>2
    <2>3. Counted'
      BY <2>1, CountedKept DEF ring
    <2> QED
      BY <2>2, <2>3 DEF IInv
  <1> QED
    BY <1>1, <1>2, <1>3, CopyKeeps, SubmitKeeps, CountSubmittedKeeps DEF WriteStep
-----------------------------------------------------------------------------
(* The engine plays, and counts down. *)
LEMMA EngineKeeps ==
    ASSUME IInv, EngineStep PROVE IInv'
  <1> USE DEF ring, writer, ui, core
  <1>1. CASE PlayBuffer
    <2>1. /\ queue # <<>> /\ queue' = Tail(queue) /\ due' = due + 1
          /\ UNCHANGED <<ring, started, event, signalling, writer, ui, core, raced>>
      BY <1>1 DEF PlayBuffer
    <2>2. queue' \in Seq(Buffers) /\ Len(queue') = Len(queue) - 1 /\ Len(queue) \in Nat
      BY <2>1 DEF IInv, Counted
    <2>3. ThreadsTyped' /\ AmountsTyped'
      BY <2>1 DEF IInv, ThreadsTyped, AmountsTyped
    <2>4. Uncounted' = Uncounted
      BY <2>1 DEF Uncounted, Unlocked
    <2>5. Counted'
      BY <2>1, <2>2, <2>4 DEF IInv, Counted
    <2> QED
      BY <2>3, <2>5 DEF IInv
  <1>2. CASE OnBufferEnded
    <2>1. /\ due > 0 /\ due' = due - 1 /\ buffers' = buffers - 1 /\ signalling' = TRUE
          /\ UNCHANGED <<bufptr, writeBuffer, content, started, event, queue, writer, ui, core,
                         raced>>
      BY <1>2 DEF OnBufferEnded
    <2>2. ThreadsTyped' /\ AmountsTyped'
      BY <2>1 DEF IInv, ThreadsTyped, AmountsTyped
    <2>3. Uncounted' = Uncounted /\ Uncounted \in Nat /\ Len(queue) \in Nat
      BY <2>1 DEF Uncounted, Unlocked, IInv, Counted
    <2>4. Counted'
      BY <2>1, <2>3, ConstantTypes DEF IInv, Counted
    <2> QED
      BY <2>2, <2>4 DEF IInv
  <1>3. CASE SignalEnded
    <2>1. /\ signalling' = FALSE /\ event' = TRUE
          /\ UNCHANGED <<ring, started, queue, due, writer, ui, core, raced>>
      BY <1>3 DEF SignalEnded
    <2>2. ThreadsTyped' /\ AmountsTyped'
      BY <2>1 DEF IInv, ThreadsTyped, AmountsTyped
    <2>3. Counted'
      BY <2>1, CountedKept
    <2> QED
      BY <2>2, <2>3 DEF IInv
  <1> QED
    BY <1>1, <1>2, <1>3 DEF EngineStep
-----------------------------------------------------------------------------
(* A Flush gives all but the playing sub-buffer back, to be counted down.  *)
LEMMA FlushQueueKeeps ==
    ASSUME IInv, FlushQueue PROVE IInv'
  <1> USE DEF ring, writer, ui, core
  <1> DEFINE kept == IF started /\ queue # <<>> THEN <<Head(queue)>> ELSE <<>>
  <1>1. /\ queue' = kept /\ due' = due + Len(queue) - Len(kept)
        /\ waited' = 0 /\ uiPc' = "flushWait"
        /\ UNCHANGED <<ring, started, event, signalling, writer, core, raced>>
    BY DEF FlushQueue
  <1>2. kept \in Seq(Buffers) /\ Len(kept) \in Nat /\ Len(kept) <= Len(queue)
        /\ Len(queue) \in Nat
    <2>1. queue \in Seq(Buffers)
      BY DEF IInv, Counted
    <2>2. CASE queue = <<>>
      BY <2>1, <2>2
    <2>3. CASE queue # <<>>
      <3>1. Head(queue) \in Buffers /\ Len(queue) \in Nat /\ Len(queue) >= 1
        BY <2>1, <2>3
      <3> QED
        BY <3>1
    <2> QED
      BY <2>2, <2>3
  <1> HIDE DEF kept
  <1>3. ThreadsTyped' /\ AmountsTyped'
    BY <1>1, ConstantTypes DEF IInv, ThreadsTyped, AmountsTyped
  <1>4. Uncounted' = Uncounted
    BY <1>1 DEF Uncounted, Unlocked
  <1>5. Counted'
    BY <1>1, <1>2, <1>4 DEF IInv, Counted
  <1> QED
    BY <1>3, <1>5 DEF IInv

(* The other steps of the user interface and of the core. *)
LEMMA UiKeeps ==
    ASSUME IInv, UiStep PROVE IInv'
  <1> USE DEF ring, engine, writer, ui, core
  <1>1. CASE Stop \/ HandleLoad \/ HandleUnload
    <2>1. /\ UNCHANGED <<bufptr, writeBuffer, buffers, content, queue, due, wpc, left, waited,
                         loaded, game, loadRequest, event, signalling>>
          /\ uiPc' \in {"idle", "flush", "stopFlush"}
      BY <1>1 DEF Stop, HandleLoad, HandleUnload
    <2>2. AmountsTyped'
      BY <2>1 DEF IInv, AmountsTyped
    <2>3. ThreadsTyped'
      <3>1. started' \in BOOLEAN /\ loadResult' \in BOOLEAN
        BY <1>1 DEF Stop, HandleLoad, HandleUnload, IInv, ThreadsTyped
      <3>2. unloadEvent' \in BOOLEAN
        BY <1>1 DEF Stop, HandleLoad, HandleUnload, IInv, ThreadsTyped
      <3>3. raced' \in BOOLEAN
        BY <1>1 DEF Stop, HandleLoad, HandleUnload, IInv, ThreadsTyped
      <3> QED
        BY <2>1, <3>1, <3>2, <3>3 DEF IInv, ThreadsTyped
    <2> QED
      BY <2>1, <2>2, <2>3, CountedKept DEF IInv
  <1>2. CASE FlushLook
    <2>1. ThreadsTyped' /\ AmountsTyped'
      BY <1>2 DEF FlushLook, IInv, ThreadsTyped, AmountsTyped
    <2>2. UNCHANGED <<queue, due, buffers, wpc>>
      BY <1>2 DEF FlushLook
    <2> QED
      BY <2>1, <2>2, CountedKept DEF IInv
  <1>3. CASE FlushSleep
    <2>1. waited' = waited + 1 /\ waited < FlushWaits /\ waited \in Nat
      BY <1>3 DEF FlushSleep, IInv, AmountsTyped
    <2>2. waited' \in 0 .. FlushWaits
      BY <2>1, ConstantTypes
    <2>3. ThreadsTyped' /\ AmountsTyped'
      BY <1>3, <2>2 DEF FlushSleep, IInv, ThreadsTyped, AmountsTyped
    <2>4. UNCHANGED <<queue, due, buffers, wpc>>
      BY <1>3 DEF FlushSleep
    <2> QED
      BY <2>3, <2>4, CountedKept DEF IInv
  <1>4. CASE FlushReset
    <2>1. bufptr' \in 0 .. SubBuf /\ writeBuffer' \in Buffers
      BY <1>4, ConstantTypes DEF FlushReset, Buffers
    <2>2. ThreadsTyped' /\ AmountsTyped'
      BY <1>4, <2>1 DEF FlushReset, IInv, ThreadsTyped, AmountsTyped
    <2>3. UNCHANGED <<queue, due, buffers, wpc>>
      BY <1>4 DEF FlushReset
    <2> QED
      BY <2>2, <2>3, CountedKept DEF IInv
  <1> QED
    BY <1>1, <1>2, <1>3, <1>4, FlushQueueKeeps DEF UiStep

LEMMA CoreKeeps ==
    ASSUME IInv, CoreStep \/ UserStep PROVE IInv'
  <1> USE DEF ring, engine, writer, ui, core
  <1>1. CASE WriteSound
    <2>1. PICK n \in 1 .. MaxWrite : left' = [left EXCEPT !["emu"] = n]
      BY <1>1 DEF WriteSound
    <2>2. left' \in [Writers -> 0 .. MaxLeft]
      <3>1. n \in 0 .. MaxLeft
        BY ConstantTypes
      <3> QED
        BY <2>1, <3>1 DEF IInv, AmountsTyped
    <2>3. wpc["emu"] # "count" /\ GoTo("emu", "copy")
      BY <1>1 DEF WriteSound
    <2>4. ThreadsTyped' /\ AmountsTyped'
      BY <1>1, <2>2, <2>3, GoToKeeps, TwoWriters
         DEF WriteSound, IInv, ThreadsTyped, AmountsTyped
    <2>5. Counted'
      BY <1>1, <2>3, CountedKept, TwoWriters DEF WriteSound
    <2> QED
      BY <2>4, <2>5 DEF IInv
  <1>2. CASE Beep
    <2>1. left' = [left EXCEPT !["ui"] = BeepLength] /\ wpc["ui"] # "count" /\ GoTo("ui", "copy")
      BY <1>2 DEF Beep, UiIdle
    <2>2. left' \in [Writers -> 0 .. MaxLeft]
      <3>1. BeepLength \in 0 .. MaxLeft
        BY ConstantTypes
      <3> QED
        BY <2>1, <3>1 DEF IInv, AmountsTyped
    <2>3. ThreadsTyped' /\ AmountsTyped'
      BY <1>2, <2>1, <2>2, GoToKeeps, TwoWriters DEF Beep, IInv, ThreadsTyped, AmountsTyped
    <2>4. Counted'
      BY <1>2, <2>1, CountedKept, TwoWriters DEF Beep
    <2> QED
      BY <2>3, <2>4 DEF IInv
  <1>3. CASE LoadGame
    <2>1. game' = game + 1 /\ loadRequest /\ ~ loadRequest'
      BY <1>3 DEF LoadGame
    <2>2. game' \in 0 .. MaxGames
      BY <2>1, ConstantTypes DEF IInv, AmountsTyped
    <2>3. ThreadsTyped' /\ AmountsTyped'
      BY <1>3, <2>2 DEF LoadGame, IInv, ThreadsTyped, AmountsTyped
    <2>4. UNCHANGED <<queue, due, buffers, wpc>>
      BY <1>3 DEF LoadGame
    <2> QED
      BY <2>3, <2>4, CountedKept DEF IInv
  <1>4. CASE UnloadGame \/ RequestLoad \/ SeeIdle
    <2>1. ThreadsTyped' /\ AmountsTyped'
      <3>1. ThreadsTyped'
        <4>1. UNCHANGED <<wpc, started, event, signalling, raced, loadResult>>
          BY <1>4 DEF UnloadGame, RequestLoad, SeeIdle
        <4>2. uiPc' = uiPc \/ uiPc' = "stop"
          BY <1>4 DEF UnloadGame, RequestLoad, SeeIdle
        <4>3. loaded' \in BOOLEAN
          BY <1>4 DEF UnloadGame, RequestLoad, SeeIdle, IInv, ThreadsTyped
        <4>4. unloadEvent' \in BOOLEAN
          BY <1>4 DEF UnloadGame, RequestLoad, SeeIdle, IInv, ThreadsTyped
        <4>5. loadRequest' \in BOOLEAN
          BY <1>4 DEF UnloadGame, RequestLoad, SeeIdle, IInv, ThreadsTyped
        <4> QED
          BY <4>1, <4>2, <4>3, <4>4, <4>5 DEF IInv, ThreadsTyped
      <3>2. loadRequest' => game' < MaxGames
        BY <1>4 DEF UnloadGame, RequestLoad, SeeIdle, IInv, AmountsTyped
      <3>3. /\ UNCHANGED <<bufptr, writeBuffer, left, game, waited, content>>
            /\ uiPc' = "flushSleep" => uiPc = "flushSleep"
        BY <1>4 DEF UnloadGame, RequestLoad, SeeIdle
      <3> QED
        BY <3>1, <3>2, <3>3 DEF IInv, AmountsTyped
    <2>2. UNCHANGED <<queue, due, buffers, wpc>>
      BY <1>4 DEF UnloadGame, RequestLoad, SeeIdle
    <2> QED
      BY <2>1, <2>2, CountedKept DEF IInv
  <1> QED
    BY <1>1, <1>2, <1>3, <1>4 DEF CoreStep, UserStep
-----------------------------------------------------------------------------
LEMMA InitIInv == Init => IInv
  <1> SUFFICES ASSUME Init PROVE IInv
    OBVIOUS
  <1>1. ThreadsTyped
    BY DEF Init, ThreadsTyped
  <1>2. AmountsTyped
    <2>1. 0 \in 0 .. SubBuf /\ 0 \in Buffers /\ 0 \in 0 .. MaxLeft /\ 0 \in 0 .. MaxGames
          /\ 0 \in 0 .. FlushWaits
      BY ConstantTypes DEF Buffers
    <2> QED
      BY <2>1 DEF Init, AmountsTyped
  <1>3. Counted
    <2>1. Unlocked /\ \A t \in Writers : wpc[t] # "count"
      BY DEF Init, Unlocked
    <2> QED
      BY <2>1, ConstantTypes DEF Init, Counted, Uncounted
  <1> QED
    BY <1>1, <1>2, <1>3 DEF IInv

(* The counting invariant holds in every state, whatever overlaps (Write, Flush, OnBufferEnd). *)
THEOREM Inductive == Spec => []IInv
  <1>1. IInv /\ [Next]_vars => IInv'
    <2> SUFFICES ASSUME IInv, [Next]_vars PROVE IInv'
      OBVIOUS
    <2>1. CASE UNCHANGED vars
      <3>1. ThreadsTyped' /\ AmountsTyped'
        BY <2>1 DEF vars, ring, engine, writer, ui, core, IInv, ThreadsTyped, AmountsTyped
      <3>2. Counted'
        BY <2>1, CountedKept DEF vars, ring, engine, writer
      <3> QED
        BY <3>1, <3>2 DEF IInv
    <2> QED
      BY <2>1, WriteKeeps, EngineKeeps, UiKeeps, CoreKeeps DEF Next
  <1> QED
    BY InitIInv, <1>1, PTL DEF Spec

(* For a ring of any size: every sub-buffer submitted is counted down once *)
(* and m_buffers is one too low at most, while a submitted one is not yet  *)
(* counted.                                                                *)
THEOREM BuffersExact == Spec => [](TypeOK /\ CountExact)
  <1>1. IInv => TypeOK /\ CountExact
    <2> SUFFICES ASSUME IInv PROVE TypeOK /\ CountExact
      OBVIOUS
    <2>1. CountExact
      BY CountSet DEF IInv, Counted, CountExact
    <2>2. /\ Len(queue) \in Nat /\ Len(queue) < MaxBuffers /\ due \in 0 .. MaxBuffers - 1
          /\ buffers \in -1 .. MaxBuffers - 1
      BY ConstantTypes DEF IInv, Counted, Uncounted
    <2>3. TypeOK
      BY <2>2 DEF IInv, ThreadsTyped, AmountsTyped, Counted, MaxLeft, TypeOK
    <2> QED
      BY <2>1, <2>3
  <1> QED
    BY <1>1, Inductive, PTL

(* So the engine never has a sub-buffer too many: one of the ring's is     *)
(* always left for the writer.                                             *)
THEOREM OneLeftToWrite == Spec => [](Len(queue) + due < MaxBuffers)
  <1>1. IInv => Len(queue) + due < MaxBuffers
    BY DEF IInv, Counted
  <1> QED
    BY <1>1, Inductive, PTL
-----------------------------------------------------------------------------
(***************************************************************************)
(* Who runs when.  The beep is written before the first game and the       *)
(* sound of a game while it is loaded, so one thread writes at a time; and *)
(* a Flush that no Write of a game overlapped has the ring for itself.     *)
(***************************************************************************)
Turns ==
    /\ uiPc # "idle" => wpc["ui"] = "idle"
    /\ wpc["ui"] # "idle" => game = 0 /\ ~ loadRequest
    /\ wpc["emu"] # "idle" => loaded
    /\ loaded => game > 0
    /\ loadRequest => ~ loaded /\ ~ unloadEvent /\ ~ loadResult /\ uiPc \in {"idle", "stop"}
    /\ unloadEvent \/ uiPc = "stopFlush" => ~ loaded
    /\ uiPc = "stop" => ~ loaded \/ loadResult
    /\ uiPc \in Flushing /\ ~ raced => wpc["emu"] = "idle"

(* A thread about to submit has a full sub-buffer. *)
Filled ==
    ~ raced => \A t \in Writers : wpc[t] \in {"submit", "wait", "count"} => bufptr = SubBuf

(* The signal of a slot that came free reaches the thread that waits.      *)
Awake ==
    ~ raced => \A t \in Writers :
        wpc[t] = "wait" => event \/ signalling \/ buffers >= MaxBuffers - 1

Waking == IInv /\ Turns /\ Filled /\ Awake

LEMMA OneWrites ==
    ASSUME IInv, Turns, NEW t \in Writers, NEW u \in Writers,
           wpc[t] # "idle", wpc[u] # "idle"
    PROVE  t = u
  <1>1. wpc["emu"] # "idle" => game > 0
    BY DEF Turns
  <1>2. wpc["ui"] # "idle" => game = 0
    BY DEF Turns
  <1>3. ~ (game > 0 /\ game = 0)
    BY DEF IInv, AmountsTyped
  <1> QED
    BY <1>1, <1>2, <1>3 DEF Writers

(* While the ring is being flushed, nobody writes. *)
LEMMA FlushAlone ==
    ASSUME Turns, ~ raced, uiPc \in Flushing
    PROVE  (\A t \in Writers : wpc[t] = "idle") /\ Unlocked
  BY DEF Turns, Writers, Flushing, Unlocked

(* What a step of Write leaves alone. *)
LEMMA WriteFrame ==
    ASSUME IInv, NEW t \in Writers, WriteStep(t)
    PROVE  /\ wpc[t] # "idle" /\ (\A u \in Writers : u # t => wpc'[u] = wpc[u])
           /\ UNCHANGED <<uiPc, waited, loaded, game, unloadEvent, loadRequest, loadResult,
                          raced, due, signalling>>
  <1>1. wpc[t] # "idle" /\ UNCHANGED <<ui, core, raced, due, signalling>>
    BY DEF WriteStep, Copy, CheckFull, Submit, SubmitFails, CountSubmitted, WaitSlot,
           WriteTimeout, engine
  <1>2. \E p : wpc' = [wpc EXCEPT ![t] = p]
    BY DEF WriteStep, Copy, CheckFull, Submit, SubmitFails, CountSubmitted, WaitSlot,
           WriteTimeout, GoTo
  <1> QED
    BY <1>1, <1>2 DEF IInv, ThreadsTyped, ui, core

(* Both ways into Write start from idle. *)
LEMMA EnterFrame ==
    ASSUME IInv, WriteSound \/ Beep
    PROVE  /\ UNCHANGED <<bufptr, writeBuffer, buffers, content, started, event, queue, due,
                          signalling, uiPc, waited, loaded, game, unloadEvent, loadRequest,
                          loadResult>>
           /\ \A u \in Writers : wpc'[u] = wpc[u] \/ (wpc[u] = "idle" /\ wpc'[u] = "copy")
           /\ Beep => raced' = raced /\ wpc'["emu"] = wpc["emu"]
           /\ WriteSound => wpc'["ui"] = wpc["ui"]
           /\ raced => raced'
  <1>1. UNCHANGED <<bufptr, writeBuffer, buffers, content, started, event, queue, due,
                    signalling, uiPc, waited, loaded, game, unloadEvent, loadRequest,
                    loadResult>>
    BY DEF WriteSound, Beep, ring, engine, ui, core
  <1>2. CASE WriteSound
    <2>1. wpc' = [wpc EXCEPT !["emu"] = "copy"] /\ wpc["emu"] = "idle" /\ (raced => raced')
      BY <1>2 DEF WriteSound, GoTo
    <2>2. ~ Beep
      <3>1. Beep => wpc' = [wpc EXCEPT !["ui"] = "copy"] /\ wpc["ui"] = "idle"
        BY DEF Beep, UiIdle, GoTo
      <3> QED
        BY <2>1, <3>1, TwoWriters DEF IInv, ThreadsTyped
    <2> QED
      BY <1>1, <2>1, <2>2, TwoWriters DEF IInv, ThreadsTyped
  <1>3. CASE Beep /\ ~ WriteSound
    <2>1. wpc' = [wpc EXCEPT !["ui"] = "copy"] /\ wpc["ui"] = "idle" /\ raced' = raced
      BY <1>3 DEF Beep, UiIdle, GoTo
    <2> QED
      BY <1>1, <1>3, <2>1, TwoWriters DEF IInv, ThreadsTyped
  <1> QED
    BY <1>2, <1>3

LEMMA TurnsKept ==
    ASSUME IInv, Turns, Next PROVE Turns'
  <1> USE DEF ring, engine, writer, ui, core
  <1>1. ASSUME NEW t \in Writers, WriteStep(t) PROVE Turns'
    <2>1. /\ wpc[t] # "idle" /\ (\A u \in Writers : u # t => wpc'[u] = wpc[u])
          /\ UNCHANGED <<uiPc, loaded, game, unloadEvent, loadRequest, loadResult, raced>>
      BY <1>1, WriteFrame
    <2>2. /\ wpc["ui"] = "idle" => wpc'["ui"] = "idle"
          /\ wpc["emu"] = "idle" => wpc'["emu"] = "idle"
      BY <2>1, TwoWriters
    <2> QED
      BY <2>1, <2>2 DEF Turns
  <1>2. CASE EngineStep
    BY <1>2 DEF EngineStep, PlayBuffer, OnBufferEnded, SignalEnded, Turns
  <1>3. CASE WriteSound
    <2>1. /\ wpc'["ui"] = wpc["ui"] /\ loaded /\ (uiPc \in Flushing => raced')
          /\ UNCHANGED <<uiPc, loaded, game, unloadEvent, loadRequest, loadResult>>
      BY <1>3, EnterFrame DEF WriteSound
    <2> QED
      BY <2>1 DEF Turns
  <1>4. CASE Beep
    <2>1. /\ wpc'["emu"] = wpc["emu"] /\ uiPc = "idle" /\ game = 0 /\ ~ loadRequest
          /\ UNCHANGED <<uiPc, loaded, game, unloadEvent, loadRequest, loadResult, raced>>
      BY <1>4, EnterFrame DEF Beep, UiIdle
    <2> QED
      BY <2>1 DEF Turns
  <1>5. CASE LoadGame
    <2>1. game' > 0
      BY <1>5 DEF LoadGame, IInv, AmountsTyped
    <2>2. wpc["ui"] = "idle" /\ wpc["emu"] = "idle"
      BY <1>5 DEF LoadGame, Turns
    <2> QED
      BY <1>5, <2>1, <2>2 DEF LoadGame, Turns
  <1>6. CASE UnloadGame
    BY <1>6 DEF UnloadGame, Turns
  <1>7. CASE RequestLoad
    BY <1>7 DEF RequestLoad, UiIdle, Turns
  <1>8. CASE SeeIdle
    BY <1>8 DEF SeeIdle, UiIdle, Turns, Flushing
  <1>9. CASE HandleUnload
    BY <1>9 DEF HandleUnload, UiIdle, Turns, Flushing
  <1>10. CASE HandleLoad
    BY <1>10 DEF HandleLoad, UiIdle, Turns, Flushing
  <1>11. CASE Stop
    BY <1>11 DEF Stop, Turns, Flushing
  <1>12. CASE FlushQueue \/ FlushLook \/ FlushSleep \/ FlushReset
    <2>1. /\ uiPc \in Flushing /\ uiPc' \in (Flushing \cup {"idle"})
          /\ UNCHANGED <<wpc, loaded, game, unloadEvent, loadRequest, loadResult, raced>>
      BY <1>12 DEF FlushQueue, FlushLook, FlushSleep, FlushReset, Flushing
    <2> QED
      BY <2>1 DEF Turns, Flushing
  <1> QED
    BY <1>1, <1>2, <1>3, <1>4, <1>5, <1>6, <1>7, <1>8, <1>9, <1>10, <1>11, <1>12
       DEF Next, UiStep, CoreStep, UserStep

LEMMA FilledKept ==
    ASSUME IInv, Turns, Filled, Next PROVE Filled'
  <1> USE DEF ring, engine, writer, ui, core
  <1>1. ASSUME NEW t \in Writers, WriteStep(t) PROVE Filled'
    <2>1. /\ wpc[t] # "idle" /\ (\A u \in Writers : u # t => wpc'[u] = wpc[u])
          /\ raced' = raced
      BY <1>1, WriteFrame
    <2>2. \A u \in Writers : u # t => wpc'[u] = "idle"
      BY <2>1, OneWrites
    <2>3. ~ raced /\ wpc'[t] \in {"submit", "wait", "count"} => bufptr' = SubBuf
      <3>1. CASE Copy(t) \/ SubmitFails(t) \/ CountSubmitted(t) \/ WriteTimeout(t)
        <4>1. \E p \in {"idle", "copy", "copied"} : wpc' = [wpc EXCEPT ![t] = p]
          BY <3>1, NextRoundType
             DEF Copy, SubmitFails, CountSubmitted, WriteTimeout, GoTo
        <4> QED
          BY <4>1 DEF IInv, ThreadsTyped
      <3>2. CASE CheckFull(t)
        <4>1. wpc'[t] = (IF bufptr = SubBuf THEN "submit" ELSE NextRound(t)) /\ bufptr' = bufptr
          BY <3>2 DEF CheckFull, GoTo, IInv, ThreadsTyped
        <4> QED
          BY <4>1, NextRoundType
      <3>3. CASE Submit(t) \/ WaitSlot(t)
        BY <3>3 DEF Submit, WaitSlot, Filled
      <3> QED
        BY <1>1, <3>1, <3>2, <3>3 DEF WriteStep
    <2> QED
      BY <2>1, <2>2, <2>3 DEF Filled
  <1>2. CASE WriteSound \/ Beep
    BY <1>2, EnterFrame DEF Filled
  <1>3. CASE FlushReset
    <2>1. ~ raced => \A t \in Writers : wpc[t] = "idle"
      BY <1>3, FlushAlone DEF FlushReset, Flushing
    <2> QED
      BY <1>3, <2>1 DEF FlushReset, Filled
  <1>4. ASSUME UNCHANGED <<wpc, bufptr>>, raced => raced' PROVE Filled'
    BY <1>4 DEF Filled
  <1>5. CASE EngineStep \/ LoadGame \/ UnloadGame \/ RequestLoad \/ SeeIdle
    <2>1. UNCHANGED <<wpc, bufptr, raced>>
      BY <1>5 DEF EngineStep, PlayBuffer, OnBufferEnded, SignalEnded, LoadGame, UnloadGame,
                  RequestLoad, SeeIdle
    <2> QED
      BY <1>4, <2>1
  <1>6. CASE UiStep /\ ~ FlushReset
    <2>1. UNCHANGED <<wpc, bufptr>> /\ (raced => raced')
      <3>1. CASE HandleLoad
        BY <3>1 DEF HandleLoad
      <3>2. CASE Stop \/ HandleUnload \/ FlushQueue \/ FlushLook \/ FlushSleep
        BY <3>2 DEF Stop, HandleUnload, FlushQueue, FlushLook, FlushSleep
      <3> QED
        BY <1>6, <3>1, <3>2 DEF UiStep
    <2> QED
      BY <1>4, <2>1
  <1> QED
    BY <1>1, <1>2, <1>3, <1>5, <1>6 DEF Next, CoreStep, UserStep

LEMMA AwakeKept ==
    ASSUME IInv, Turns, Awake, Next PROVE Awake'
  <1> USE DEF ring, engine, writer, ui, core
  <1>1. ASSUME NEW t \in Writers, WriteStep(t) PROVE Awake'
    <2>1. /\ wpc[t] # "idle" /\ (\A u \in Writers : u # t => wpc'[u] = wpc[u])
          /\ raced' = raced
      BY <1>1, WriteFrame
    <2>2. \A u \in Writers : u # t => wpc'[u] = "idle"
      BY <2>1, OneWrites
    <2>3. wpc'[t] = "wait" => buffers' >= MaxBuffers - 1
      <3>1. CASE Submit(t)
        <4>1. buffers' = buffers /\ (buffers < MaxBuffers - 1 => wpc'[t] = "count")
          BY <3>1 DEF Submit, GoTo, IInv, ThreadsTyped
        <4>2. buffers \in Int
          BY DEF IInv, Counted
        <4> QED
          BY <4>1, <4>2, ConstantTypes
      <3>2. CASE ~ Submit(t)
        <4>1. \E p \in {"idle", "copy", "copied", "submit"} : wpc' = [wpc EXCEPT ![t] = p]
          BY <1>1, <3>2, NextRoundType
             DEF WriteStep, Copy, CheckFull, SubmitFails, CountSubmitted, WaitSlot,
                 WriteTimeout, GoTo
        <4> QED
          BY <4>1 DEF IInv, ThreadsTyped
      <3> QED
        BY <3>1, <3>2
    <2> QED
      BY <2>1, <2>2, <2>3 DEF Awake
  <1>2. CASE WriteSound \/ Beep
    BY <1>2, EnterFrame DEF Awake
  <1>3. CASE OnBufferEnded \/ SignalEnded
    BY <1>3 DEF OnBufferEnded, SignalEnded, Awake
  <1>4. CASE FlushSleep
    <2>1. ~ raced => \A t \in Writers : wpc[t] = "idle"
      BY <1>4, FlushAlone DEF FlushSleep, Flushing
    <2> QED
      BY <1>4, <2>1 DEF FlushSleep, Awake
  <1>5. ASSUME UNCHANGED <<wpc, event, signalling, buffers>>, raced => raced' PROVE Awake'
    BY <1>5 DEF Awake
  <1>6. CASE PlayBuffer \/ LoadGame \/ UnloadGame \/ RequestLoad \/ SeeIdle
    <2>1. UNCHANGED <<wpc, event, signalling, buffers, raced>>
      BY <1>6 DEF PlayBuffer, LoadGame, UnloadGame, RequestLoad, SeeIdle
    <2> QED
      BY <1>5, <2>1
  <1>7. CASE UiStep /\ ~ FlushSleep
    <2>1. UNCHANGED <<wpc, event, signalling, buffers>> /\ (raced => raced')
      <3>1. CASE HandleLoad
        BY <3>1 DEF HandleLoad
      <3>2. CASE Stop \/ HandleUnload \/ FlushQueue \/ FlushLook \/ FlushReset
        BY <3>2 DEF Stop, HandleUnload, FlushQueue, FlushLook, FlushReset
      <3> QED
        BY <1>7, <3>1, <3>2 DEF UiStep
    <2> QED
      BY <1>5, <2>1
  <1> QED
    BY <1>1, <1>2, <1>3, <1>4, <1>6, <1>7 DEF Next, EngineStep, CoreStep, UserStep

(* Without a race no writer sleeps on a signal that is gone (Write, Flush). *)
THEOREM WritersWake == Spec => []Waking
  <1>1. Init => Turns /\ Filled /\ Awake
    BY DEF Init, Turns, Filled, Awake, Writers, Flushing
  <1>2. IInv /\ (Turns /\ Filled /\ Awake) /\ [Next]_vars => (Turns /\ Filled /\ Awake)'
    <2>1. ASSUME Turns /\ Filled /\ Awake, UNCHANGED vars PROVE (Turns /\ Filled /\ Awake)'
      BY <2>1 DEF vars, ring, engine, writer, ui, core, Turns, Filled, Awake
    <2> QED
      BY <2>1, TurnsKept, FilledKept, AwakeKept
  <1> QED
    BY <1>1, <1>2, Inductive, PTL DEF Spec, Waking

(* A Write that no Flush overlapped times out only when the engine does    *)
(* not consume: the ring is full.                                          *)
THEOREM OnlyFullTimesOut == Spec => TimeoutMeansFull
  <1> DEFINE Full == \A t \in Writers : wpc[t] = "wait" /\ wpc'[t] = "idle" =>
                         raced \/ buffers >= MaxBuffers - 1
  <1>1. Waking /\ [Next]_vars => [Full]_vars
    <2> SUFFICES ASSUME Waking, Next, NEW t \in Writers, wpc[t] = "wait", wpc'[t] = "idle"
                 PROVE  raced \/ buffers >= MaxBuffers - 1
      OBVIOUS
    <2>1. ASSUME NEW u \in Writers, WriteStep(u) PROVE ~ event /\ ~ signalling
      <3>1. u = t
        BY <2>1, WriteFrame DEF Waking
      <3>2. WriteTimeout(t)
        <4>1. CASE Copy(t) \/ CheckFull(t) \/ Submit(t) \/ SubmitFails(t) \/ CountSubmitted(t)
          BY <4>1 DEF Copy, CheckFull, Submit, SubmitFails, CountSubmitted
        <4>2. CASE WaitSlot(t)
          BY <4>2 DEF WaitSlot, GoTo, Waking, IInv, ThreadsTyped
        <4> QED
          BY <2>1, <3>1, <4>1, <4>2 DEF WriteStep
      <3> QED
        BY <3>2 DEF WriteTimeout, EngineSilent
    <2>2. CASE WriteSound \/ Beep
      BY <2>2, EnterFrame DEF Waking
    <2>3. CASE EngineStep \/ UiStep \/ LoadGame \/ UnloadGame \/ RequestLoad \/ SeeIdle
      <3>1. wpc' = wpc
        BY <2>3 DEF EngineStep, PlayBuffer, OnBufferEnded, SignalEnded, UiStep, Stop,
                    HandleLoad, HandleUnload, FlushQueue, FlushLook, FlushSleep, FlushReset,
                    LoadGame, UnloadGame, RequestLoad, SeeIdle, writer
      <3> QED
        BY <3>1
    <2> QED
      BY <2>1, <2>2, <2>3 DEF Next, CoreStep, UserStep, Waking, Awake
  <1> QED
    BY <1>1, WritersWake, PTL DEF Spec, TimeoutMeansFull
-----------------------------------------------------------------------------
(***************************************************************************)
(* The ring in order.  Counting from any queued sub-buffer to the end of   *)
(* the queue leads to the one that is written next.                        *)
(***************************************************************************)
Ahead(b, d) == IF b + d < MaxBuffers THEN b + d ELSE b + d - MaxBuffers

Following == IF Unlocked THEN writeBuffer ELSE Ahead(writeBuffer, 1)

FollowOn == \A i \in 1 .. Len(queue) : Ahead(queue[i], Len(queue) + 1 - i) = Following

InOrder == ~ raced /\ uiPc \notin {"flushWait", "flushSleep", "flushReset"} => FollowOn

(* A Flush has one wait for every sub-buffer the engine has still to end   *)
(* and for a signal given before, so it does not give up before the queue  *)
(* is empty, and only then the ring starts over.                           *)
One(b) == IF b THEN 1 ELSE 0

ToEnd == Len(queue) + due + One(signalling) + One(event)

DrainsInTime ==
    /\ Len(queue) <= 1 /\ (queue # <<>> => started /\ queue[1] # writeBuffer)
    /\ ToEnd = 0 \/ waited + ToEnd <= MaxBuffers + 1

Draining ==
    ~ raced => /\ uiPc \in {"flushWait", "flushSleep"} => DrainsInTime
               /\ uiPc = "flushReset" => queue = <<>>

Orderly == Waking /\ InOrder /\ Draining

LEMMA AheadOne ==
    ASSUME NEW b \in Buffers
    PROVE  (b + 1) % MaxBuffers = Ahead(b, 1)
  <1>1. CASE b + 1 < MaxBuffers
    BY <1>1, ConstantTypes DEF Buffers, Ahead
  <1>2. CASE b + 1 = MaxBuffers
    <2>1. MaxBuffers % MaxBuffers = 0
      BY ConstantTypes
    <2>2. (b + 1) % MaxBuffers = 0
      BY <1>2, <2>1
    <2>3. Ahead(b, 1) = 0
      BY <1>2, ConstantTypes DEF Ahead, Buffers
    <2> QED
      BY <2>2, <2>3
  <1> QED
    BY <1>1, <1>2, ConstantTypes DEF Buffers

LEMMA AheadFacts ==
    ASSUME NEW b \in Buffers, NEW d \in 0 .. MaxBuffers - 1
    PROVE  /\ Ahead(b, d) \in Buffers
           /\ Ahead(b, d + 1) = Ahead(Ahead(b, d), 1)
           /\ Ahead(b, d + 1) = Ahead(Ahead(b, 1), d)
           /\ d > 0 => Ahead(b, d) # b
           /\ \A c \in Buffers : Ahead(b, d) = Ahead(c, d) => b = c
  BY ConstantTypes DEF Buffers, Ahead

LEMMA QueueTypes ==
    ASSUME IInv
    PROVE  /\ queue \in Seq(Buffers) /\ Len(queue) \in Nat /\ Len(queue) < MaxBuffers
           /\ (\A i \in 1 .. Len(queue) : queue[i] \in Buffers)
           /\ writeBuffer \in Buffers /\ Following \in Buffers /\ due \in Nat
  <1>1. /\ queue \in Seq(Buffers) /\ Len(queue) \in Nat /\ Len(queue) < MaxBuffers
        /\ writeBuffer \in Buffers /\ due \in Nat
    BY ConstantTypes DEF IInv, Counted, AmountsTyped
  <1>2. \A i \in 1 .. Len(queue) : queue[i] \in Buffers
    BY <1>1
  <1>3. Ahead(writeBuffer, 1) \in Buffers
    BY <1>1, AheadFacts, ConstantTypes
  <1> QED
    BY <1>1, <1>2, <1>3 DEF Following

(* The mutex is all that tells Following from m_writeBuffer. *)
LEMMA FollowingKept ==
    ASSUME UNCHANGED writeBuffer, Unlocked' <=> Unlocked
    PROVE  Following' = Following
  BY DEF Following, Ahead

LEMMA FollowOnKept ==
    ASSUME IInv, FollowOn, UNCHANGED <<queue, writeBuffer>>, Unlocked' <=> Unlocked
    PROVE  FollowOn'
  BY FollowingKept DEF FollowOn, Ahead

LEMMA SubmitFollowsOn ==
    ASSUME IInv, FollowOn, NEW t \in Writers, Submit(t)
    PROVE  FollowOn'
  <1>1. Unlocked /\ writeBuffer' = writeBuffer /\ Following = writeBuffer
    BY DEF Submit, ring, Following
  <1>2. CASE buffers < MaxBuffers - 1
    <2>1. queue' = Append(queue, writeBuffer) /\ wpc' = [wpc EXCEPT ![t] = "count"]
      BY <1>2 DEF Submit, GoTo
    <2>2. ~ Unlocked'
      BY <2>1 DEF IInv, ThreadsTyped, Unlocked
    <2>3. Following' = Ahead(writeBuffer, 1)
      BY <1>1, <2>2 DEF Following, Ahead
    <2>4. Len(queue') = Len(queue) + 1
      BY <2>1, QueueTypes
    <2>5. SUFFICES ASSUME NEW i \in 1 .. Len(queue) + 1
                   PROVE  Ahead(queue'[i], Len(queue) + 2 - i) = Ahead(writeBuffer, 1)
      BY <2>3, <2>4, QueueTypes DEF FollowOn, Ahead
    <2>6. CASE i = Len(queue) + 1
      BY <2>1, <2>6, QueueTypes
    <2>7. CASE i \in 1 .. Len(queue)
      <3>1. queue'[i] = queue[i] /\ queue[i] \in Buffers
        BY <2>1, <2>7, QueueTypes
      <3>2. Ahead(queue[i], Len(queue) + 1 - i) = writeBuffer
        BY <1>1, <2>7 DEF FollowOn
      <3>3. Len(queue) + 1 - i \in 0 .. MaxBuffers - 1
            /\ Len(queue) + 2 - i = (Len(queue) + 1 - i) + 1
        BY <2>7, QueueTypes, ConstantTypes
      <3> QED
        BY <3>1, <3>2, <3>3, AheadFacts
    <2> QED
      BY <2>6, <2>7, QueueTypes
  <1>3. CASE ~ (buffers < MaxBuffers - 1)
    <2>1. GoTo(t, "wait") /\ queue' = queue /\ wpc[t] # "count"
      BY <1>3 DEF Submit
    <2> QED
      BY <1>1, <2>1, GoToKeeps, FollowOnKept
  <1> QED
    BY <1>2, <1>3

LEMMA CountFollowsOn ==
    ASSUME IInv, FollowOn, NEW t \in Writers, CountSubmitted(t)
    PROVE  FollowOn'
  <1>1. /\ wpc[t] = "count" /\ writeBuffer' = (writeBuffer + 1) % MaxBuffers /\ queue' = queue
        /\ wpc' = [wpc EXCEPT ![t] = NextRound(t)]
    BY DEF CountSubmitted, engine, GoTo
  <1>2. ~ Unlocked /\ Unlocked'
    <2>1. \A u \in Writers : wpc'[u] # "count"
      BY <1>1, NextRoundType DEF IInv, ThreadsTyped, Counted
    <2> QED
      BY <1>1, <2>1 DEF Unlocked
  <1>3. Following' = writeBuffer' /\ Following = Ahead(writeBuffer, 1)
    BY <1>2 DEF Following
  <1>4. Following' = Following
    BY <1>1, <1>3, AheadOne, QueueTypes
  <1> QED
    BY <1>1, <1>4 DEF FollowOn, Ahead

(* What the engine takes, it takes from the front. *)
LEMMA PlayFollowsOn ==
    ASSUME IInv, FollowOn, PlayBuffer
    PROVE  FollowOn'
  <1>1. queue # <<>> /\ queue' = Tail(queue) /\ UNCHANGED <<writeBuffer, wpc>>
    BY DEF PlayBuffer, ring, writer
  <1>2. Following' = Following
    BY <1>1, FollowingKept DEF Unlocked
  <1>3. Len(queue') = Len(queue) - 1 /\ \A i \in 1 .. Len(queue') : queue'[i] = queue[i + 1]
    BY <1>1, QueueTypes
  <1>4. SUFFICES ASSUME NEW i \in 1 .. Len(queue) - 1
                 PROVE  Ahead(queue[i + 1], Len(queue) - i) = Following
    <2>1. \A i \in 1 .. Len(queue') : Ahead(queue'[i], Len(queue') + 1 - i) = Following'
      BY <1>2, <1>3, <1>4, QueueTypes
    <2> QED
      BY <2>1 DEF FollowOn, Ahead
  <1>5. i + 1 \in 1 .. Len(queue) /\ Len(queue) + 1 - (i + 1) = Len(queue) - i
    BY QueueTypes
  <1> QED
    BY <1>5 DEF FollowOn

LEMMA InOrderKept ==
    ASSUME Orderly, Next PROVE InOrder'
  <1> USE DEF ring, engine, writer, ui, core
  <1>0. IInv /\ Turns /\ InOrder /\ Draining
    BY DEF Orderly, Waking
  <1> SUFFICES ASSUME ~ raced', uiPc' \notin {"flushWait", "flushSleep", "flushReset"}
               PROVE  FollowOn'
    BY DEF InOrder
  <1>1. ASSUME NEW t \in Writers, WriteStep(t) PROVE FollowOn'
    <2>1. FollowOn
      BY <1>0, <1>1, WriteFrame DEF InOrder
    <2>2. CASE Copy(t) \/ CheckFull(t) \/ SubmitFails(t) \/ WaitSlot(t) \/ WriteTimeout(t)
      <3>1. UNCHANGED <<queue, writeBuffer>>
        BY <2>2 DEF Copy, CheckFull, SubmitFails, WaitSlot, WriteTimeout
      <3>2. \E p \in {"idle", "copy", "copied", "submit", "wait"} :
                wpc[t] # "count" /\ GoTo(t, p)
        BY <2>2, NextRoundType DEF Copy, CheckFull, SubmitFails, WaitSlot, WriteTimeout
      <3> QED
        BY <1>0, <2>1, <3>1, <3>2, GoToKeeps, FollowOnKept
    <2> QED
      BY <1>0, <1>1, <2>1, <2>2, SubmitFollowsOn, CountFollowsOn DEF WriteStep
  <1>2. ASSUME UNCHANGED <<queue, writeBuffer>>, Unlocked' <=> Unlocked, raced => raced',
               uiPc \notin {"flushWait", "flushSleep", "flushReset"}
        PROVE  FollowOn'
    BY <1>0, <1>2, FollowOnKept DEF InOrder
  <1>3. CASE WriteSound \/ Beep
    <2>1. /\ UNCHANGED <<queue, writeBuffer, uiPc>> /\ (raced => raced')
          /\ \A u \in Writers : wpc'[u] = wpc[u] \/ (wpc[u] = "idle" /\ wpc'[u] = "copy")
      BY <1>0, <1>3, EnterFrame
    <2>2. Unlocked' <=> Unlocked
      BY <2>1 DEF Unlocked
    <2> QED
      BY <1>2, <2>1, <2>2
  <1>4. CASE PlayBuffer
    <2>1. FollowOn
      BY <1>0, <1>4 DEF PlayBuffer, InOrder
    <2> QED
      BY <1>0, <1>4, <2>1, PlayFollowsOn
  <1>5. CASE OnBufferEnded \/ SignalEnded \/ LoadGame \/ UnloadGame \/ RequestLoad \/ SeeIdle
    <2>1. /\ UNCHANGED <<queue, writeBuffer, wpc, raced>>
          /\ uiPc \notin {"flushWait", "flushSleep", "flushReset"}
      BY <1>5 DEF OnBufferEnded, SignalEnded, LoadGame, UnloadGame, RequestLoad, SeeIdle, UiIdle
    <2> QED
      BY <1>2, <2>1 DEF Unlocked
  <1>6. CASE Stop \/ HandleLoad \/ HandleUnload
    <2>1. UNCHANGED <<queue, writeBuffer, wpc>> /\ uiPc \in {"idle", "stop", "stopFlush"}
      BY <1>6 DEF Stop, HandleLoad, HandleUnload, UiIdle
    <2>2. raced => raced'
      <3>1. CASE HandleLoad
        BY <3>1 DEF HandleLoad
      <3>2. CASE Stop \/ HandleUnload
        BY <3>2 DEF Stop, HandleUnload
      <3> QED
        BY <1>6, <3>1, <3>2
    <2> QED
      BY <1>2, <2>1, <2>2 DEF Unlocked
  <1>7. CASE FlushQueue \/ FlushLook \/ FlushSleep
    BY <1>7 DEF FlushQueue, FlushLook, FlushSleep
  <1>8. CASE FlushReset
    <2>1. queue' = <<>>
      BY <1>0, <1>8 DEF FlushReset, Draining
    <2> QED
      BY <2>1 DEF FollowOn
  <1> QED
    BY <1>1, <1>3, <1>4, <1>5, <1>6, <1>7, <1>8
       DEF Next, EngineStep, UiStep, CoreStep, UserStep
-----------------------------------------------------------------------------
(* The numbers of a Flush. *)
LEMMA EndTypes ==
    ASSUME IInv
    PROVE  /\ Len(queue) \in Nat /\ due \in Nat /\ One(signalling) \in {0, 1}
           /\ One(event) \in {0, 1} /\ waited \in Nat /\ ToEnd \in Nat
           /\ Len(queue) + due <= MaxBuffers - 1
  <1>1. Len(queue) \in Nat /\ due \in Nat /\ waited \in Nat /\ Len(queue) + due < MaxBuffers
    BY ConstantTypes DEF IInv, Counted, AmountsTyped
  <1>2. One(signalling) \in {0, 1} /\ One(event) \in {0, 1}
    BY DEF One
  <1> QED
    BY <1>1, <1>2, ConstantTypes DEF ToEnd

LEMMA LastOut ==
    ASSUME NEW q \in Seq(Buffers), q # <<>>, Len(q) <= 1
    PROVE  Len(q) = 1 /\ Tail(q) = <<>>
  <1>1. Len(q) \in Nat \ {0}
    BY EmptySeq
  <1>2. Len(q) = 1
    <2>1. \A n \in Nat \ {0} : n <= 1 => n = 1
      OBVIOUS
    <2> QED
      BY <1>1, <2>1, Zenon
  <1>3. Tail(q) \in Seq(Buffers) /\ Len(Tail(q)) = Len(q) - 1
    BY HeadTailProperties
  <1>4. Tail(q) # <<>> => Len(Tail(q)) \in Nat \ {0}
    BY <1>3, EmptySeq
  <1> QED
    BY <1>2, <1>3, <1>4

LEMMA FlushQueueDrains ==
    ASSUME Orderly, ~ raced, FlushQueue PROVE DrainsInTime'
  <1> USE DEF ring, writer, ui, core
  <1> DEFINE kept == IF started /\ queue # <<>> THEN <<Head(queue)>> ELSE <<>>
  <1>0. IInv /\ Turns /\ InOrder
    BY DEF Orderly, Waking
  <1>1. /\ uiPc = "flush" /\ queue' = kept /\ due' = due + Len(queue) - Len(kept)
        /\ waited' = 0 /\ UNCHANGED <<started, event, signalling, writeBuffer>>
    BY DEF FlushQueue
  <1>2. Len(kept) \in {0, 1} /\ (kept # <<>> => started /\ kept[1] = queue[1] /\ queue # <<>>)
    <2>1. CASE started /\ queue # <<>>
      <3>1. kept = <<Head(queue)>> /\ Head(queue) = queue[1]
        BY <2>1
      <3>2. Len(<<Head(queue)>>) = 1 /\ <<Head(queue)>>[1] = Head(queue)
        OBVIOUS
      <3> QED
        BY <2>1, <3>1, <3>2
    <2>2. CASE ~ (started /\ queue # <<>>)
      <3>1. kept = <<>>
        BY <2>2
      <3>2. Len(<<>>) = 0
        OBVIOUS
      <3> QED
        BY <3>1, <3>2
    <2> QED
      BY <2>1, <2>2
  <1> HIDE DEF kept
  <1>3. queue # <<>> => queue[1] # writeBuffer
    <2> SUFFICES ASSUME queue # <<>> PROVE queue[1] # writeBuffer
      OBVIOUS
    <2>1. Following = writeBuffer
      BY <1>0, <1>1, FlushAlone DEF Flushing, Following
    <2>2. Len(queue) \in 1 .. MaxBuffers - 1
      BY <1>0, QueueTypes, ConstantTypes
    <2>3. Ahead(queue[1], Len(queue) + 1 - 1) = writeBuffer
      BY <1>0, <1>1, <2>1, <2>2 DEF InOrder, FollowOn
    <2>4. Len(queue) + 1 - 1 = Len(queue) /\ Len(queue) \in 0 .. MaxBuffers - 1 /\ Len(queue) > 0
      BY <2>2
    <2>5. queue[1] \in Buffers
      BY <1>0, <2>2, QueueTypes
    <2> QED
      BY <2>3, <2>4, <2>5, AheadFacts
  <1>4. waited' + ToEnd' <= MaxBuffers + 1
    <2>1. One(event') = One(event) /\ One(signalling') = One(signalling)
      BY <1>1
    <2>2. ToEnd' = Len(queue') + due' + One(signalling') + One(event')
      BY DEF ToEnd, One
    <2>3. Len(queue') = Len(kept)
      BY <1>1
    <2>4. ToEnd' = due + Len(queue) + One(signalling) + One(event)
      BY <1>0, <1>1, <1>2, <2>1, <2>2, <2>3, EndTypes
    <2> QED
      BY <1>0, <1>1, <2>4, EndTypes, ConstantTypes
  <1>5. Len(queue') <= 1
    BY <1>1, <1>2
  <1>6. queue' # <<>> => started' /\ queue'[1] # writeBuffer'
    BY <1>1, <1>2, <1>3
  <1> QED
    BY <1>4, <1>5, <1>6 DEF DrainsInTime

(* The engine only moves on what is still to end. *)
LEMMA EngineDrains ==
    ASSUME IInv, DrainsInTime, EngineStep PROVE DrainsInTime'
  <1> USE DEF ring, writer, ui, core
  <1>0. ToEnd' = Len(queue') + due' + One(signalling') + One(event')
    BY DEF ToEnd, One
  <1>1. CASE PlayBuffer
    <2>1. /\ queue # <<>> /\ queue' = Tail(queue) /\ due' = due + 1
          /\ UNCHANGED <<started, event, signalling, writeBuffer, waited>>
      BY <1>1 DEF PlayBuffer
    <2>2. queue \in Seq(Buffers) /\ Len(queue) <= 1
      BY QueueTypes DEF DrainsInTime
    <2>3. Len(queue) = 1 /\ queue' = <<>>
      BY <2>1, <2>2, LastOut
    <2>4. One(signalling') = One(signalling) /\ One(event') = One(event)
      BY <2>1
    <2>5. ToEnd = 1 + due + One(signalling) + One(event)
      BY <2>3 DEF ToEnd
    <2>6. ToEnd' = 0 + (due + 1) + One(signalling) + One(event)
      <3>1. Len(queue') = 0
        BY <2>3, EmptySeq
      <3> QED
        BY <1>0, <2>1, <2>4, <3>1
    <2>7. ToEnd' = ToEnd
      BY <2>5, <2>6, EndTypes
    <2>8. Len(queue') <= 1
      BY <2>3, EmptySeq
    <2>9. ToEnd' = 0 \/ waited' + ToEnd' <= MaxBuffers + 1
      BY <2>1, <2>7 DEF DrainsInTime
    <2> QED
      BY <2>3, <2>8, <2>9 DEF DrainsInTime
  <1>2. CASE OnBufferEnded
    <2>1. /\ ~ signalling /\ signalling' = TRUE /\ due' = due - 1
          /\ UNCHANGED <<started, event, queue, writeBuffer, waited>>
      BY <1>2 DEF OnBufferEnded
    <2>2. One(signalling) = 0 /\ One(signalling') = 1
      BY <2>1 DEF One
    <2>3. ToEnd' = ToEnd
      BY <1>0, <2>1, <2>2, EndTypes DEF ToEnd
    <2> QED
      BY <2>1, <2>3 DEF DrainsInTime
  <1>3. CASE SignalEnded
    <2>1. /\ signalling /\ signalling' = FALSE /\ event' = TRUE
          /\ UNCHANGED <<started, due, queue, writeBuffer, waited>>
      BY <1>3 DEF SignalEnded
    <2>2. One(signalling) = 1 /\ One(signalling') = 0 /\ One(event') = 1
      BY <2>1 DEF One
    <2>3. ToEnd' <= ToEnd /\ ToEnd > 0 /\ ToEnd' \in Nat
      <3>1. ToEnd' = Len(queue) + due + 0 + 1
        BY <1>0, <2>1, <2>2
      <3>2. ToEnd = Len(queue) + due + 1 + One(event)
        BY <2>2 DEF ToEnd
      <3> QED
        BY <3>1, <3>2, EndTypes
    <2>4. waited' + ToEnd' <= MaxBuffers + 1
      BY <2>1, <2>3, EndTypes, ConstantTypes DEF DrainsInTime
    <2> QED
      BY <2>1, <2>4 DEF DrainsInTime
  <1> QED
    BY <1>1, <1>2, <1>3 DEF EngineStep

(* A wait takes one signal, or finds that nothing is left. *)
LEMMA SleepDrains ==
    ASSUME IInv, DrainsInTime, FlushSleep PROVE DrainsInTime'
  <1> USE DEF ring, writer, ui, core
  <1>0. ToEnd' = Len(queue') + due' + One(signalling') + One(event')
    BY DEF ToEnd, One
  <1>1. /\ event \/ EngineSilent
        /\ event' = FALSE /\ waited' = waited + 1
        /\ UNCHANGED <<writeBuffer, started, queue, due, signalling>>
    BY DEF FlushSleep
  <1>2. One(event') = 0
    BY <1>1 DEF One
  <1>3. CASE event
    <2>1. One(event) = 1
      BY <1>3 DEF One
    <2>2. ToEnd' = ToEnd - 1 /\ ToEnd > 0
      BY <1>0, <1>1, <1>2, <2>1, EndTypes DEF ToEnd
    <2>3. waited' + ToEnd' <= MaxBuffers + 1
      BY <1>1, <2>2, EndTypes, ConstantTypes DEF DrainsInTime
    <2> QED
      BY <1>1, <2>3 DEF DrainsInTime
  <1>4. CASE ~ event
    <2>1. due = 0 /\ ~ signalling /\ (queue = <<>> \/ ~ started)
      BY <1>1, <1>4 DEF EngineSilent
    <2>2. queue = <<>>
      BY <2>1 DEF DrainsInTime
    <2>3. Len(queue') = 0 /\ due' = 0 /\ One(signalling') = 0
      BY <1>1, <2>1, <2>2 DEF One
    <2>4. ToEnd' = 0
      BY <1>0, <1>2, <2>3
    <2> QED
      BY <1>1, <2>4 DEF DrainsInTime
  <1> QED
    BY <1>3, <1>4

(* A Flush leaves its waits when m_buffers is 0, or after more of them     *)
(* than there can be sub-buffers to end: nothing is queued any more.       *)
LEMMA LookEmpties ==
    ASSUME FlushWaits > MaxBuffers, IInv, Turns, ~ raced, DrainsInTime, FlushLook,
           uiPc' = "flushReset"
    PROVE  queue = <<>>
  <1>1. ~ (buffers > 0 /\ waited < FlushWaits) /\ uiPc = "flushWait"
    BY DEF FlushLook
  <1>2. Uncounted = 0
    BY <1>1, FlushAlone DEF Flushing, Uncounted
  <1>3. buffers = Len(queue) + due
    <2>1. buffers + Uncounted = Len(queue) + due /\ buffers \in Int
      BY DEF IInv, Counted
    <2> QED
      BY <1>2, <2>1
  <1>4. Len(queue) = 0
    <2>1. CASE ~ buffers > 0
      BY <1>3, <2>1, EndTypes
    <2>2. CASE ~ waited < FlushWaits
      <3>1. waited >= MaxBuffers + 1
        BY <2>2, EndTypes, ConstantTypes
      <3>2. ToEnd = 0
        BY <3>1, EndTypes, ConstantTypes DEF DrainsInTime
      <3> QED
        BY <3>2, EndTypes DEF ToEnd
    <2> QED
      BY <1>1, <2>1, <2>2
  <1> QED
    BY <1>4, QueueTypes

LEMMA DrainingKept ==
    ASSUME FlushWaits > MaxBuffers, Orderly, Next PROVE Draining'
  <1> USE DEF ring, engine, writer, ui, core
  <1>0. IInv /\ Turns /\ InOrder /\ Draining
    BY DEF Orderly, Waking
  <1> SUFFICES ASSUME ~ raced'
               PROVE  /\ uiPc' \in {"flushWait", "flushSleep"} => DrainsInTime'
                      /\ uiPc' = "flushReset" => queue' = <<>>
    BY DEF Draining
  <1> DEFINE Goal == /\ uiPc' \in {"flushWait", "flushSleep"} => DrainsInTime'
                     /\ uiPc' = "flushReset" => queue' = <<>>
  <1>1. ASSUME NEW t \in Writers, WriteStep(t) PROVE uiPc' \notin Flushing
    <2>1. wpc[t] # "idle" /\ uiPc' = uiPc /\ ~ raced
      BY <1>0, <1>1, WriteFrame
    <2> QED
      BY <1>0, <2>1, FlushAlone
  <1>2. CASE EngineStep
    <2>1. UNCHANGED <<uiPc, raced>>
      BY <1>2 DEF EngineStep, PlayBuffer, OnBufferEnded, SignalEnded
    <2>2. queue = <<>> => queue' = <<>>
      BY <1>2 DEF EngineStep, PlayBuffer, OnBufferEnded, SignalEnded
    <2> QED
      BY <1>0, <1>2, <2>1, <2>2, EngineDrains DEF Draining
  <1>3. ASSUME UNCHANGED <<uiPc, queue, started, due, signalling, event, waited, writeBuffer>>,
               raced => raced'
        PROVE  Goal
    <2>1. DrainsInTime => DrainsInTime'
      BY <1>3 DEF DrainsInTime, ToEnd, One
    <2> QED
      BY <1>0, <1>3, <2>1 DEF Draining
  <1>4. CASE WriteSound \/ Beep
    <2>1. UNCHANGED <<uiPc, queue, started, due, signalling, event, waited, writeBuffer>>
          /\ (raced => raced')
      BY <1>0, <1>4, EnterFrame
    <2> QED
      BY <1>3, <2>1
  <1>5. CASE LoadGame \/ UnloadGame \/ RequestLoad
    <2>1. UNCHANGED <<uiPc, queue, started, due, signalling, event, waited, writeBuffer, raced>>
      BY <1>5 DEF LoadGame, UnloadGame, RequestLoad
    <2> QED
      BY <1>3, <2>1
  <1>6. CASE SeeIdle \/ HandleUnload \/ HandleLoad \/ Stop \/ FlushReset
    BY <1>6 DEF SeeIdle, HandleUnload, HandleLoad, Stop, FlushReset
  <1>7. CASE FlushQueue
    <2>1. ~ raced /\ uiPc' = "flushWait"
      BY <1>7 DEF FlushQueue
    <2> QED
      BY <1>7, <2>1, FlushQueueDrains
  <1>8. CASE FlushLook
    <2>1. /\ ~ raced /\ uiPc = "flushWait" /\ uiPc' \in {"flushSleep", "flushReset"}
          /\ UNCHANGED <<queue, started, due, signalling, event, waited, writeBuffer>>
      BY <1>8 DEF FlushLook
    <2>2. DrainsInTime
      BY <1>0, <2>1 DEF Draining
    <2>3. DrainsInTime'
      BY <2>1, <2>2 DEF DrainsInTime, ToEnd, One
    <2> QED
      BY <1>0, <1>8, <2>1, <2>2, <2>3, LookEmpties
  <1>9. CASE FlushSleep
    <2>1. ~ raced /\ uiPc = "flushSleep" /\ uiPc' = "flushWait"
      BY <1>9 DEF FlushSleep
    <2> QED
      BY <1>0, <1>9, <2>1, SleepDrains DEF Draining
  <1> QED
    BY <1>1, <1>2, <1>4, <1>5, <1>6, <1>7, <1>8, <1>9
       DEF Next, UiStep, CoreStep, UserStep, Flushing

(* What RingOrder says of the states the two invariants allow. *)
LEMMA OrderFollows ==
    ASSUME Orderly PROVE RingOrder
  <1> DEFINE next == IF Unlocked THEN writeBuffer ELSE (writeBuffer + 1) % MaxBuffers
  <1>0. IInv /\ Turns /\ InOrder /\ Draining
    BY DEF Orderly, Waking
  <1>1. next = Following
    BY <1>0, QueueTypes, AheadOne DEF Following
  <1>2. ASSUME ~ raced, FollowOn
        PROVE  /\ \A i \in 1 .. Len(queue) - 1 : queue[i + 1] = (queue[i] + 1) % MaxBuffers
               /\ queue # <<>> => (queue[Len(queue)] + 1) % MaxBuffers = Following
               /\ \A i \in 1 .. Len(queue) : queue[i] # Following
    <2>1. ASSUME NEW i \in 1 .. Len(queue) - 1
          PROVE  queue[i + 1] = (queue[i] + 1) % MaxBuffers
      <3> DEFINE d == Len(queue) - i
      <3>1. /\ i \in 1 .. Len(queue) /\ i + 1 \in 1 .. Len(queue) /\ d \in 0 .. MaxBuffers - 1
            /\ Len(queue) + 1 - i = d + 1 /\ Len(queue) + 1 - (i + 1) = d
        BY <1>0, QueueTypes, ConstantTypes
      <3>2. Ahead(queue[i], d + 1) = Ahead(queue[i + 1], d)
        BY <1>2, <3>1 DEF FollowOn
      <3>3. queue[i] \in Buffers /\ queue[i + 1] \in Buffers
        BY <1>0, <3>1, QueueTypes
      <3> HIDE DEF d
      <3>4. Ahead(queue[i], d + 1) = Ahead(Ahead(queue[i], 1), d)
        BY <3>1, <3>3, AheadFacts
      <3>5. Ahead(queue[i], 1) \in Buffers
        BY <3>3, AheadFacts, ConstantTypes
      <3>6. Ahead(queue[i], 1) = queue[i + 1]
        BY <3>1, <3>2, <3>3, <3>4, <3>5, AheadFacts
      <3> QED
        BY <3>3, <3>6, AheadOne
    <2>2. ASSUME queue # <<>> PROVE (queue[Len(queue)] + 1) % MaxBuffers = Following
      <3>1. Len(queue) \in 1 .. Len(queue) /\ Len(queue) + 1 - Len(queue) = 1
        BY <1>0, <2>2, QueueTypes
      <3>2. Ahead(queue[Len(queue)], 1) = Following
        BY <1>2, <3>1 DEF FollowOn
      <3> QED
        BY <1>0, <3>1, <3>2, QueueTypes, AheadOne
    <2>3. ASSUME NEW i \in 1 .. Len(queue) PROVE queue[i] # Following
      <3>1. Len(queue) + 1 - i \in 0 .. MaxBuffers - 1 /\ Len(queue) + 1 - i > 0
        BY <1>0, QueueTypes, ConstantTypes
      <3>2. Ahead(queue[i], Len(queue) + 1 - i) = Following /\ queue[i] \in Buffers
        BY <1>0, <1>2, QueueTypes DEF FollowOn
      <3> QED
        BY <3>1, <3>2, AheadFacts
    <2> QED
      BY <2>1, <2>2, <2>3
  <1>3. ASSUME ~ raced, uiPc \in {"flushWait", "flushSleep"}
        PROVE  /\ 1 .. Len(queue) - 1 = {} /\ uiPc # "idle"
               /\ \A i \in 1 .. Len(queue) : queue[i] # Following
    <2>1. Following = writeBuffer
      BY <1>0, <1>3, FlushAlone DEF Flushing, Following
    <2>2. Len(queue) <= 1 /\ (queue # <<>> => queue[1] # writeBuffer)
      BY <1>0, <1>3 DEF Draining, DrainsInTime
    <2> QED
      BY <1>0, <1>3, <2>1, <2>2, QueueTypes
  <1>4. ASSUME ~ raced, uiPc = "flushReset" PROVE Len(queue) = 0 /\ queue = <<>>
    BY <1>0, <1>4 DEF Draining
  <1>5. ASSUME ~ raced
        PROVE  /\ \A i \in 1 .. Len(queue) - 1 : queue[i + 1] = (queue[i] + 1) % MaxBuffers
               /\ queue # <<>> /\ uiPc = "idle" =>
                    (queue[Len(queue)] + 1) % MaxBuffers = Following
               /\ \A i \in 1 .. Len(queue) : queue[i] # Following
    <2>1. CASE uiPc \notin {"flushWait", "flushSleep", "flushReset"}
      BY <1>0, <1>2, <1>5, <2>1 DEF InOrder
    <2>2. CASE uiPc \in {"flushWait", "flushSleep"}
      BY <1>3, <1>5, <2>2
    <2>3. CASE uiPc = "flushReset"
      BY <1>4, <1>5, <2>3
    <2> QED
      BY <2>1, <2>2, <2>3
  <1> HIDE DEF next
  <1>6. next = IF Unlocked THEN writeBuffer ELSE (writeBuffer + 1) % MaxBuffers
    BY DEF next
  <1> QED
    BY <1>1, <1>5, <1>6 DEF RingOrder

(* Without a race the queue is in order and a Flush waits it out (Flush, Write). *)
THEOREM RingOrdered ==
    ASSUME FlushWaits > MaxBuffers
    PROVE  Spec => []Orderly
  <1>1. Init => InOrder /\ Draining
    BY DEF Init, InOrder, FollowOn, Draining
  <1>2. Waking /\ (InOrder /\ Draining) /\ [Next]_vars => (InOrder /\ Draining)'
    <2>1. ASSUME InOrder /\ Draining, UNCHANGED vars PROVE (InOrder /\ Draining)'
      <3>1. UNCHANGED <<queue, uiPc, started, due, signalling, event, waited, writeBuffer, wpc,
                        raced>>
        BY <2>1 DEF vars, ring, engine, writer, ui, core
      <3>2. (FollowOn => FollowOn') /\ (DrainsInTime => DrainsInTime')
        BY <3>1 DEF FollowOn, Following, Ahead, Unlocked, DrainsInTime, ToEnd, One
      <3> QED
        BY <2>1, <3>1, <3>2 DEF InOrder, Draining
    <2> QED
      BY <2>1, InOrderKept, DrainingKept DEF Orderly
  <1> QED
    BY <1>1, <1>2, WritersWake, PTL DEF Spec, Orderly

(* The ring of any size is exactly counted and in order, whatever stops,   *)
(* flushes or times out: no sub-buffer is written that the engine may      *)
(* still read.  A Flush must be given more waits than there are            *)
(* sub-buffers; the code gives it 100, for four.                           *)
THEOREM RingStaysSound ==
    ASSUME FlushWaits > MaxBuffers
    PROVE  Spec => []RingSound
  <1>1. Orderly => RingOrder
    BY OrderFollows
  <1> QED
    BY <1>1, RingOrdered, BuffersExact, PTL DEF RingSound
-----------------------------------------------------------------------------
(***************************************************************************)
(* Whose sound is in the ring: the beep's and that of the latest game,     *)
(* once its load is handled that of the game alone; and before a game is   *)
(* loaded, nothing of the one before it.                                   *)
(***************************************************************************)
OnlyLatest ==
    /\ \A i \in 1 .. Len(queue) : content[queue[i]] \subseteq {0, game}
    /\ bufptr > 0 => content[writeBuffer] \subseteq {0, game}

OnlyGame ==
    /\ \A i \in 1 .. Len(queue) : content[queue[i]] = {game}
    /\ bufptr > 0 => content[writeBuffer] = {game}

Playing == loaded /\ ~ loadResult /\ uiPc = "idle"

Between == game > 0 /\ ~ loaded /\ ~ unloadEvent /\ uiPc \in {"idle", "stop"}

Sounds ==
    ~ raced => /\ OnlyLatest
               /\ Playing => OnlyGame
               /\ Between => queue = <<>> /\ bufptr = 0

Audible == Orderly /\ Sounds

(* Nothing written: fewer sub-buffers queued, or a shorter one. *)
LEMMA OnlyKept ==
    ASSUME UNCHANGED <<content, writeBuffer, game>>, bufptr' \in {bufptr, 0},
           \A i \in 1 .. Len(queue') : \E j \in 1 .. Len(queue) : queue'[i] = queue[j]
    PROVE  (OnlyLatest => OnlyLatest') /\ (OnlyGame => OnlyGame')
  <1>1. OnlyLatest => OnlyLatest'
    <2>1. ASSUME OnlyLatest, NEW i \in 1 .. Len(queue')
          PROVE  content'[queue'[i]] \subseteq {0, game'}
      BY <2>1 DEF OnlyLatest
    <2>2. ASSUME OnlyLatest, bufptr' > 0 PROVE content'[writeBuffer'] \subseteq {0, game'}
      BY <2>2 DEF OnlyLatest
    <2> QED
      BY <2>1, <2>2 DEF OnlyLatest
  <1>2. OnlyGame => OnlyGame'
    <2>1. ASSUME OnlyGame, NEW i \in 1 .. Len(queue') PROVE content'[queue'[i]] = {game'}
      BY <2>1 DEF OnlyGame
    <2>2. ASSUME OnlyGame, bufptr' > 0 PROVE content'[writeBuffer'] = {game'}
      BY <2>2 DEF OnlyGame
    <2> QED
      BY <2>1, <2>2 DEF OnlyGame
  <1> QED
    BY <1>1, <1>2

(* The writer adds the sound of the latest game, or of the beep before the *)
(* first one, to a sub-buffer that is not queued.                          *)
LEMMA CopySounds ==
    ASSUME Audible, ~ raced, NEW t \in Writers, Copy(t)
    PROVE  OnlyLatest' /\ (Playing => OnlyGame')
  <1> DEFINE need == IF left[t] < SubBuf - bufptr THEN left[t] ELSE SubBuf - bufptr
             from == IF t = "emu" THEN game ELSE 0
             kept == IF bufptr = 0 THEN {} ELSE content[writeBuffer]
  <1>0. IInv /\ Turns /\ RingOrder
    BY OrderFollows DEF Audible, Orderly, Waking
  <1>1. /\ wpc[t] = "copy" /\ Unlocked /\ bufptr' = bufptr + need
        /\ content' = IF need = 0 THEN content
                      ELSE [content EXCEPT ![writeBuffer] = kept \cup {from}]
        /\ UNCHANGED <<writeBuffer, queue, game>>
    BY DEF Copy, core
  <1>2. from = game
    BY <1>0, <1>1 DEF Turns, Writers
  <1>3. kept \subseteq {0, game} /\ (Playing => kept \subseteq {game})
    <2>1. bufptr = 0 \/ bufptr > 0
      BY <1>0, ConstantTypes DEF IInv, AmountsTyped
    <2> QED
      BY <2>1 DEF Audible, Sounds, OnlyLatest, OnlyGame
  <1>4. need \in Nat /\ (need = 0 => bufptr' = bufptr)
    BY <1>0, <1>1, ConstantTypes DEF IInv, AmountsTyped
  <1> HIDE DEF need, from, kept
  <1>5. \A i \in 1 .. Len(queue) : queue[i] \in Buffers /\ queue[i] # writeBuffer
    BY <1>0, <1>1, QueueTypes DEF RingOrder
  <1>6. CASE need = 0
    <2>1. UNCHANGED <<content, writeBuffer, game, queue, bufptr>>
      BY <1>1, <1>4, <1>6
    <2>2. OnlyLatest /\ (Playing => OnlyGame)
      BY DEF Audible, Sounds
    <2> QED
      BY <2>1, <2>2 DEF OnlyLatest, OnlyGame
  <1>7. CASE need # 0
    <2>1. content' = [content EXCEPT ![writeBuffer] = kept \cup {game}]
      BY <1>1, <1>2, <1>7
    <2>2. content'[writeBuffer] = kept \cup {game} /\ writeBuffer \in Buffers
          /\ \A b \in Buffers : b # writeBuffer => content'[b] = content[b]
      BY <1>0, <2>1 DEF IInv, AmountsTyped
    <2>3. \A i \in 1 .. Len(queue) : content'[queue[i]] = content[queue[i]]
      BY <1>5, <2>2
    <2>4. OnlyLatest'
      <3>1. OnlyLatest
        BY DEF Audible, Sounds
      <3>2. \A i \in 1 .. Len(queue') : content'[queue'[i]] \subseteq {0, game'}
        BY <1>1, <2>3, <3>1 DEF OnlyLatest
      <3>3. content'[writeBuffer'] \subseteq {0, game'}
        BY <1>1, <1>3, <2>2
      <3> QED
        BY <3>2, <3>3 DEF OnlyLatest
    <2>5. ASSUME Playing PROVE OnlyGame'
      <3>1. OnlyGame
        BY <2>5 DEF Audible, Sounds
      <3>2. \A i \in 1 .. Len(queue') : content'[queue'[i]] = {game'}
        BY <1>1, <2>3, <3>1 DEF OnlyGame
      <3>3. content'[writeBuffer'] = {game'}
        BY <1>1, <1>3, <2>2, <2>5
      <3> QED
        BY <3>2, <3>3 DEF OnlyGame
    <2> QED
      BY <2>4, <2>5
  <1> QED
    BY <1>6, <1>7

LEMMA SubmitSounds ==
    ASSUME Audible, ~ raced, NEW t \in Writers, Submit(t)
    PROVE  OnlyLatest' /\ (Playing => OnlyGame')
  <1>0. IInv /\ Filled /\ Sounds
    BY DEF Audible, Orderly, Waking
  <1>1. /\ wpc[t] = "submit" /\ UNCHANGED <<content, writeBuffer, game, bufptr>>
        /\ queue' \in {queue, Append(queue, writeBuffer)}
    BY DEF Submit, ring, core
  <1>2. bufptr > 0
    BY <1>0, <1>1, ConstantTypes DEF Filled
  <1>3. \A i \in 1 .. Len(queue') :
            (i \in 1 .. Len(queue) /\ queue'[i] = queue[i]) \/ queue'[i] = writeBuffer
    BY <1>0, <1>1, QueueTypes
  <1>4. OnlyLatest /\ (Playing => OnlyGame)
    BY <1>0 DEF Sounds
  <1>5. OnlyLatest'
    <2>1. ASSUME NEW i \in 1 .. Len(queue') PROVE content[queue'[i]] \subseteq {0, game}
      BY <1>2, <1>3, <1>4 DEF OnlyLatest
    <2> QED
      BY <1>1, <1>4, <2>1 DEF OnlyLatest
  <1>6. ASSUME Playing PROVE OnlyGame'
    <2>1. ASSUME NEW i \in 1 .. Len(queue') PROVE content[queue'[i]] = {game}
      BY <1>2, <1>3, <1>4, <1>6 DEF OnlyGame
    <2> QED
      BY <1>1, <1>4, <1>6, <2>1 DEF OnlyGame
  <1> QED
    BY <1>5, <1>6

(* Once counted, the sub-buffer written next is empty. *)
LEMMA CountSounds ==
    ASSUME OnlyLatest, NEW t \in Writers, CountSubmitted(t)
    PROVE  OnlyLatest' /\ (OnlyGame => OnlyGame')
  <1>1. bufptr' = 0 /\ UNCHANGED <<content, game, queue>>
    BY DEF CountSubmitted, engine, core
  <1>2. ~ (0 > 0)
    OBVIOUS
  <1> QED
    BY <1>1, <1>2 DEF OnlyLatest, OnlyGame

(* A new game is loaded into an empty ring, the first one perhaps into one *)
(* that holds the beep.                                                    *)
LEMMA LoadSounds ==
    ASSUME Audible, ~ raced, LoadGame
    PROVE  OnlyLatest'
  <1>0. IInv /\ Turns /\ Sounds
    BY DEF Audible, Orderly, Waking
  <1>1. /\ loadRequest /\ game' = game + 1
        /\ UNCHANGED <<queue, content, bufptr, writeBuffer>>
    BY DEF LoadGame, ring, engine
  <1>2. CASE game = 0
    <2>1. \A S : S \subseteq {0, game} => S \subseteq {0, game'}
      BY <1>2
    <2> QED
      BY <1>0, <1>1, <2>1 DEF Sounds, OnlyLatest
  <1>3. CASE game > 0
    <2>1. Between
      BY <1>0, <1>1, <1>3 DEF Turns, Between
    <2>2. queue' = <<>> /\ bufptr' = 0
      BY <1>0, <1>1, <2>1 DEF Sounds
    <2>3. 1 .. Len(queue') = {} /\ ~ (bufptr' > 0)
      BY <2>2
    <2> QED
      BY <2>3 DEF OnlyLatest
  <1> QED
    BY <1>0, <1>2, <1>3, ConstantTypes DEF IInv, AmountsTyped

LEMMA SoundsKept ==
    ASSUME Audible, Next PROVE Sounds'
  <1> USE DEF ring, engine, writer, ui, core
  <1>0. IInv /\ Turns /\ Draining /\ Sounds
    BY DEF Audible, Orderly, Waking
  <1> SUFFICES ASSUME ~ raced'
               PROVE  /\ OnlyLatest'
                      /\ Playing' => OnlyGame'
                      /\ Between' => queue' = <<>> /\ bufptr' = 0
    BY DEF Sounds
  <1> DEFINE Goal == /\ OnlyLatest'
                     /\ Playing' => OnlyGame'
                     /\ Between' => queue' = <<>> /\ bufptr' = 0
  <1>1. ASSUME NEW t \in Writers, WriteStep(t) PROVE Goal
    <2>1. /\ wpc[t] # "idle" /\ ~ raced
          /\ UNCHANGED <<loaded, game, loadResult, unloadEvent, uiPc>>
      BY <1>0, <1>1, WriteFrame
    <2>2. OnlyLatest /\ (Playing => OnlyGame) /\ (Playing' <=> Playing)
      BY <1>0, <2>1 DEF Sounds, Playing
    <2>3. ~ Between'
      <3>1. loaded \/ ~ (game > 0)
        <4>1. t = "emu" \/ t = "ui"
          BY DEF Writers
        <4>2. wpc["emu"] # "idle" => loaded
          BY <1>0 DEF Turns
        <4>3. wpc["ui"] # "idle" => game = 0
          BY <1>0 DEF Turns
        <4> QED
          BY <2>1, <4>1, <4>2, <4>3
      <3> QED
        BY <2>1, <3>1 DEF Between
    <2>4. CASE Copy(t)
      BY <2>1, <2>2, <2>3, <2>4, CopySounds
    <2>5. CASE Submit(t)
      BY <2>1, <2>2, <2>3, <2>5, SubmitSounds
    <2>6. CASE CountSubmitted(t)
      BY <2>2, <2>3, <2>6, CountSounds
    <2>7. CASE CheckFull(t) \/ SubmitFails(t) \/ WaitSlot(t) \/ WriteTimeout(t)
      <3>1. UNCHANGED <<queue, content, bufptr, writeBuffer, game>>
        BY <2>7 DEF CheckFull, SubmitFails, WaitSlot, WriteTimeout
      <3> QED
        BY <2>2, <2>3, <3>1 DEF OnlyLatest, OnlyGame
    <2> QED
      BY <1>1, <2>4, <2>5, <2>6, <2>7 DEF WriteStep
  <1>2. ASSUME UNCHANGED <<content, writeBuffer, bufptr, queue, game>>, raced => raced',
               Playing' => Playing, Between' => Between
        PROVE  Goal
    <2>1. (OnlyLatest => OnlyLatest') /\ (OnlyGame => OnlyGame')
      BY <1>2 DEF OnlyLatest, OnlyGame
    <2> QED
      BY <1>0, <1>2, <2>1 DEF Sounds
  <1>3. CASE WriteSound \/ Beep
    <2>1. /\ UNCHANGED <<content, writeBuffer, bufptr, queue, game, loaded, loadResult,
                         unloadEvent, uiPc>>
          /\ (raced => raced')
      BY <1>0, <1>3, EnterFrame
    <2> QED
      BY <1>2, <2>1 DEF Playing, Between
  <1>4. CASE PlayBuffer
    <2>1. /\ queue # <<>> /\ queue' = Tail(queue)
          /\ UNCHANGED <<content, writeBuffer, bufptr, game, loaded, loadResult, unloadEvent,
                         uiPc, raced>>
      BY <1>4 DEF PlayBuffer
    <2>2. OnlyLatest /\ (Playing => OnlyGame) /\ (Between => queue = <<>>)
      BY <1>0, <2>1 DEF Sounds
    <2>3. \A i \in 1 .. Len(queue') : i + 1 \in 1 .. Len(queue) /\ queue'[i] = queue[i + 1]
      BY <1>0, <2>1, QueueTypes
    <2>4. OnlyLatest' /\ (OnlyGame => OnlyGame')
      BY <2>1, <2>2, <2>3, OnlyKept
    <2>5. (Playing' <=> Playing) /\ (Between' <=> Between)
      BY <2>1 DEF Playing, Between
    <2> QED
      BY <2>1, <2>2, <2>4, <2>5
  <1>5. CASE OnBufferEnded \/ SignalEnded \/ RequestLoad
    <2>1. UNCHANGED <<content, writeBuffer, bufptr, queue, game, loaded, loadResult,
                      unloadEvent, uiPc, raced>>
      BY <1>5 DEF OnBufferEnded, SignalEnded, RequestLoad
    <2> QED
      BY <1>2, <2>1 DEF Playing, Between
  <1>6. CASE LoadGame
    <2>1. ~ raced /\ loaded' /\ loadResult'
      BY <1>6 DEF LoadGame
    <2> QED
      BY <1>6, <2>1, LoadSounds DEF Playing, Between
  <1>7. CASE UnloadGame
    <2>1. /\ UNCHANGED <<content, writeBuffer, bufptr, queue, game, raced>>
          /\ ~ loaded' /\ unloadEvent'
      BY <1>7 DEF UnloadGame
    <2> QED
      BY <1>2, <2>1 DEF Playing, Between
  <1>8. CASE SeeIdle
    <2>1. /\ UNCHANGED <<content, writeBuffer, bufptr, queue, game, loaded, unloadEvent, raced>>
          /\ uiPc = "idle" /\ uiPc' = "stop"
      BY <1>8 DEF SeeIdle, UiIdle
    <2> QED
      BY <1>2, <2>1 DEF Playing, Between
  <1>9. CASE Stop
    <2>1. /\ UNCHANGED <<content, writeBuffer, bufptr, queue, game, loaded, loadResult,
                         unloadEvent, raced>>
          /\ uiPc' = "flush" \/ (uiPc = "stop" /\ uiPc' = "idle")
      BY <1>9 DEF Stop
    <2>2. uiPc = "stop" => ~ loaded \/ loadResult
      BY <1>0 DEF Turns
    <2>3. (Playing' => Playing) /\ (Between' => Between)
      BY <2>1, <2>2 DEF Playing, Between
    <2> QED
      BY <1>2, <2>1, <2>3
  <1>10. CASE HandleUnload
    <2>1. UNCHANGED <<content, writeBuffer, bufptr, queue, game, raced>> /\ uiPc' = "stopFlush"
      BY <1>10 DEF HandleUnload
    <2> QED
      BY <1>2, <2>1 DEF Playing, Between
  <1>11. CASE HandleLoad
    <2>1. UNCHANGED <<content, writeBuffer, bufptr, queue, game>> /\ uiPc' = "flush"
      BY <1>11 DEF HandleLoad
    <2>2. raced => raced'
      BY <1>11 DEF HandleLoad
    <2> QED
      BY <1>2, <2>1, <2>2 DEF Playing, Between
  <1>12. CASE FlushQueue
    <2>1. /\ UNCHANGED <<content, writeBuffer, bufptr, game, raced>> /\ uiPc' = "flushWait"
          /\ queue' = IF started /\ queue # <<>> THEN <<Head(queue)>> ELSE <<>>
      BY <1>12 DEF FlushQueue
    <2>2. \A i \in 1 .. Len(queue') : 1 \in 1 .. Len(queue) /\ queue'[i] = queue[1]
      <3>1. CASE started /\ queue # <<>>
        <4>1. queue' = <<queue[1]>> /\ Len(queue) >= 1
          BY <1>0, <2>1, <3>1, QueueTypes
        <4>2. 1 .. Len(queue') = {1} /\ queue'[1] = queue[1] /\ 1 \in 1 .. Len(queue)
          BY <1>0, <4>1, QueueTypes
        <4> QED
          BY <4>2
      <3>2. CASE ~ (started /\ queue # <<>>)
        <4>1. queue' = <<>>
          BY <2>1, <3>2
        <4>2. 1 .. Len(queue') = {}
          BY <4>1
        <4> QED
          BY <4>2
      <3> QED
        BY <3>1, <3>2
    <2>3. OnlyLatest
      BY <1>0, <2>1 DEF Sounds
    <2>4. OnlyLatest'
      BY <2>1, <2>2, <2>3, OnlyKept
    <2> QED
      BY <2>1, <2>4 DEF Playing, Between
  <1>13. CASE FlushLook \/ FlushSleep
    <2>1. UNCHANGED <<content, writeBuffer, bufptr, queue, game, raced>>
          /\ uiPc' \notin {"idle", "stop"}
      BY <1>13 DEF FlushLook, FlushSleep
    <2> QED
      BY <1>2, <2>1 DEF Playing, Between
  <1>14. CASE FlushReset
    <2>1. queue' = <<>> /\ bufptr' = 0
      BY <1>0, <1>14 DEF FlushReset, Draining
    <2>2. 1 .. Len(queue') = {} /\ ~ (bufptr' > 0)
      BY <2>1
    <2> QED
      BY <2>1, <2>2 DEF OnlyLatest, OnlyGame
  <1> QED
    BY <1>1, <1>3, <1>4, <1>5, <1>6, <1>7, <1>8, <1>9, <1>10, <1>11, <1>12, <1>13, <1>14
       DEF Next, EngineStep, UiStep, CoreStep, UserStep

LEMMA SoundsApart ==
    ASSUME Sounds PROVE OneGameAudible
  <1> SUFFICES ASSUME ~ raced, NEW i \in 1 .. Len(queue)
               PROVE  /\ Cardinality(content[queue[i]] \ {0}) <= 1
                      /\ Playing => content[queue[i]] = {game}
    BY DEF OneGameAudible, Playing
  <1>1. content[queue[i]] \subseteq {0, game} /\ (Playing => content[queue[i]] = {game})
    BY DEF Sounds, OnlyLatest, OnlyGame
  <1>2. content[queue[i]] \ {0} = {} \/ content[queue[i]] \ {0} = {game}
    BY <1>1
  <1>3. Cardinality({}) = 0 /\ Cardinality({game}) = 1
    BY FS_EmptySet, FS_Singleton
  <1>4. Cardinality(content[queue[i]] \ {0}) \in {0, 1}
    BY <1>2, <1>3
  <1> QED
    BY <1>1, <1>4

(* However games are loaded, unloaded and beeped before: unless a Write    *)
(* overlapped a Flush, no sub-buffer mixes two games, and a game whose     *)
(* load is handled is heard alone.                                         *)
THEOREM GameHeardAlone ==
    ASSUME FlushWaits > MaxBuffers
    PROVE  Spec => []OneGameAudible
  <1>1. Init => Sounds
    <2> SUFFICES ASSUME Init PROVE Sounds
      OBVIOUS
    <2>1. 1 .. Len(queue) = {} /\ ~ (bufptr > 0) /\ ~ loaded /\ ~ (game > 0)
      BY DEF Init
    <2> QED
      BY <2>1 DEF Sounds, OnlyLatest, OnlyGame, Playing, Between
  <1>2. Orderly /\ Sounds /\ [Next]_vars => Sounds'
    <2>1. ASSUME Sounds, UNCHANGED vars PROVE Sounds'
      <3>1. UNCHANGED <<content, writeBuffer, bufptr, queue, game, loaded, loadResult,
                        unloadEvent, uiPc, raced>>
        BY <2>1 DEF vars, ring, engine, writer, ui, core
      <3> QED
        BY <2>1, <3>1 DEF Sounds, OnlyLatest, OnlyGame, Playing, Between
    <2> QED
      BY <2>1, SoundsKept DEF Audible
  <1>3. Sounds => OneGameAudible
    BY SoundsApart
  <1> QED
    BY <1>1, <1>2, <1>3, RingOrdered, PTL DEF Spec
=============================================================================
