------------------------------ MODULE AudioRing -----------------------------
(***************************************************************************)
(* XAudio2Output: a ring of sub-buffers between the thread that writes     *)
(* sound and the XAudio2 engine.  The emulation thread writes; the UI      *)
(* thread writes the boot beep, stops the voice and flushes the ring; the  *)
(* engine thread ends sub-buffers.  The mutex guards single sections of    *)
(* Write, Flush and Stop, never the waits between them.                    *)
(***************************************************************************)
EXTENDS Integers, Sequences, FiniteSets

CONSTANTS MaxBuffers,     \* MAX_BUFFERS
          SubBuf,         \* SUBBUF_BYTES, in samples
          MaxWrite,       \* bound on the samples of one Write
          BeepLength,     \* the samples of the boot beep
          FlushWaits,     \* bound on the signals one Flush waits for
          MaxGames        \* bound on the games loaded

ASSUME RingAssumption == /\ MaxBuffers \in Nat \ {0, 1}
                         /\ SubBuf \in Nat \ {0} /\ MaxWrite \in Nat \ {0}
ASSUME UseAssumption == /\ BeepLength \in Nat /\ FlushWaits \in Nat
                        /\ MaxGames \in Nat

Writers == {"emu", "ui"}
Buffers == 0 .. MaxBuffers - 1

VARIABLES
    started,       \* m_started, and whether the voice plays
    bufptr,        \* m_bufptr
    writeBuffer,   \* m_writeBuffer
    buffers,       \* m_buffers
    event,         \* m_hEvent is signalled
    content,       \* m_buf: the games whose samples each sub-buffer holds
    queue,         \* XAudio2: the sub-buffers queued, the first one playing
    due,           \* XAudio2: OnBufferEnd calls still to come
    signalling,    \* OnBufferEnded has counted down, not yet signalled
    wpc, left,     \* Write, per thread: where it is, samples left
    loaded, game,  \* RetroCore: a game is loaded, and which one (0: the beep)
    uiPc, waited,  \* the UI thread, and the waits of its Flush
    unloadEvent, loadRequest, loadResult,  \* between the two threads
    raced          \* history: a Write of the game overlapped a Flush

ring == <<bufptr, writeBuffer, buffers, content>>
engine == <<started, event, queue, due, signalling>>
writer == <<wpc, left>>
ui == <<uiPc, waited>>
core == <<loaded, game, unloadEvent, loadRequest, loadResult>>
vars == <<ring, engine, writer, ui, core, raced>>

(* The state after Initialize *)
Init ==
    /\ started = TRUE /\ bufptr = 0 /\ writeBuffer = 0 /\ buffers = 0
    /\ event = FALSE /\ content = [b \in Buffers |-> {}]
    /\ queue = <<>> /\ due = 0 /\ signalling = FALSE
    /\ wpc = [t \in Writers |-> "idle"] /\ left = [t \in Writers |-> 0]
    /\ loaded = FALSE /\ game = 0 /\ uiPc = "idle" /\ waited = 0
    /\ unloadEvent = FALSE /\ loadRequest = FALSE /\ loadResult = FALSE
    /\ raced = FALSE

(* m_mutex is held across a step only between submitting and counting. *)
Unlocked == \A t \in Writers : wpc[t] # "count"

GoTo(t, p) == wpc' = [wpc EXCEPT ![t] = p]
NextRound(t) == IF left[t] = 0 THEN "idle" ELSE "copy"

(***************************************************************************)
(* Write and SubmitFullBuffer                                              *)
(***************************************************************************)
Flushing == {"flush", "flushWait", "flushSleep", "flushReset"}

WriteSound ==
    /\ wpc["emu"] = "idle" /\ loaded
    /\ raced' = (raced \/ uiPc \in Flushing)
    /\ \E n \in 1 .. MaxWrite : left' = [left EXCEPT !["emu"] = n]
    /\ GoTo("emu", "copy")
    /\ UNCHANGED <<ring, engine, ui, core>>

Copy(t) ==
    LET need == IF left[t] < SubBuf - bufptr THEN left[t] ELSE SubBuf - bufptr
        from == IF t = "emu" THEN game ELSE 0
        kept == IF bufptr = 0 THEN {} ELSE content[writeBuffer]
    IN  /\ wpc[t] = "copy" /\ Unlocked
        /\ started' = TRUE
        /\ bufptr' = bufptr + need
        /\ left' = [left EXCEPT ![t] = @ - need]
        /\ content' = IF need = 0 THEN content
                      ELSE [content EXCEPT ![writeBuffer] = kept \cup {from}]
        /\ GoTo(t, "copied")
        /\ UNCHANGED <<writeBuffer, buffers, event, queue, due, signalling, ui, core, raced>>

(* m_bufptr is read again outside the mutex. *)
CheckFull(t) ==
    /\ wpc[t] = "copied"
    /\ GoTo(t, IF bufptr = SubBuf THEN "submit" ELSE NextRound(t))
    /\ UNCHANGED <<ring, engine, left, ui, core, raced>>

Submit(t) ==
    /\ wpc[t] = "submit" /\ Unlocked
    /\ IF buffers < MaxBuffers - 1
       THEN queue' = Append(queue, writeBuffer) /\ GoTo(t, "count")
       ELSE GoTo(t, "wait") /\ UNCHANGED queue
    /\ UNCHANGED <<ring, started, event, due, signalling, left, ui, core, raced>>

(* SubmitSourceBuffer fails: Write gives up, the sub-buffer stays full. *)
SubmitFails(t) ==
    /\ wpc[t] = "submit" /\ Unlocked /\ buffers < MaxBuffers - 1
    /\ GoTo(t, "idle") /\ left' = [left EXCEPT ![t] = 0]
    /\ UNCHANGED <<ring, engine, ui, core, raced>>

(* Mutant of CountSubmitted: the sub-buffer is not left. *)
CountInPlace(t) ==
    /\ wpc[t] = "count"
    /\ buffers' = buffers + 1 /\ bufptr' = 0
    /\ GoTo(t, NextRound(t))
    /\ UNCHANGED <<content, writeBuffer, engine, left, ui, core, raced>>

CountSubmitted(t) ==
    /\ wpc[t] = "count"
    /\ buffers' = buffers + 1 /\ bufptr' = 0
    /\ writeBuffer' = (writeBuffer + 1) % MaxBuffers
    /\ GoTo(t, NextRound(t))
    /\ UNCHANGED <<content, engine, left, ui, core, raced>>

WaitSlot(t) ==
    /\ wpc[t] = "wait" /\ event
    /\ event' = FALSE /\ GoTo(t, "submit")
    /\ UNCHANGED <<ring, started, queue, due, signalling, left, ui, core, raced>>

(* WRITE_TIMEOUT is twenty times what a sub-buffer plays: it passes only   *)
(* if the engine has nothing more to end.                                  *)
EngineSilent == due = 0 /\ ~signalling /\ (queue = <<>> \/ ~started)

WriteTimeout(t) ==
    /\ wpc[t] = "wait" /\ ~event /\ EngineSilent
    /\ GoTo(t, "idle") /\ left' = [left EXCEPT ![t] = 0]
    /\ UNCHANGED <<ring, engine, ui, core, raced>>

WriteStep(t) == \/ Copy(t) \/ CheckFull(t) \/ Submit(t) \/ SubmitFails(t)
                \/ CountSubmitted(t) \/ WaitSlot(t) \/ WriteTimeout(t)

(***************************************************************************)
(* The XAudio2 engine                                                      *)
(***************************************************************************)
PlayBuffer ==
    /\ started /\ queue # <<>>
    /\ queue' = Tail(queue) /\ due' = due + 1
    /\ UNCHANGED <<ring, started, event, signalling, writer, ui, core, raced>>

(* OnBufferEnded counts down first and signals afterwards. *)
OnBufferEnded ==
    /\ due > 0 /\ ~signalling
    /\ due' = due - 1 /\ buffers' = buffers - 1 /\ signalling' = TRUE
    /\ UNCHANGED <<bufptr, writeBuffer, content, started, event, queue, writer, ui, core, raced>>

(* Mutant of SignalEnded: the event is forgotten. *)
SignalForgotten ==
    /\ signalling /\ signalling' = FALSE
    /\ UNCHANGED <<ring, started, event, queue, due, writer, ui, core, raced>>

SignalEnded ==
    /\ signalling
    /\ signalling' = FALSE /\ event' = TRUE
    /\ UNCHANGED <<ring, started, queue, due, writer, ui, core, raced>>

(***************************************************************************)
(* Emulation thread: loading and unloading                                 *)
(***************************************************************************)
LoadGame ==
    /\ wpc["emu"] = "idle" /\ loadRequest
    /\ loadRequest' = FALSE /\ loaded' = TRUE /\ game' = game + 1 /\ loadResult' = TRUE
    /\ UNCHANGED <<ring, engine, writer, ui, unloadEvent, raced>>

UnloadGame ==
    /\ wpc["emu"] = "idle" /\ loaded
    /\ loaded' = FALSE /\ unloadEvent' = TRUE
    /\ UNCHANGED <<ring, engine, writer, ui, game, loadRequest, loadResult, raced>>

(***************************************************************************)
(* UI thread                                                               *)
(***************************************************************************)
UiIdle == uiPc = "idle" /\ wpc["ui"] = "idle"

Beep ==
    /\ UiIdle /\ game = 0 /\ ~loadRequest /\ BeepLength > 0 /\ content[0] = {}
    /\ left' = [left EXCEPT !["ui"] = BeepLength] /\ GoTo("ui", "copy")
    /\ UNCHANGED <<ring, engine, ui, core, raced>>

RequestLoad ==
    /\ UiIdle /\ ~loadRequest /\ ~loadResult /\ game < MaxGames
    /\ ~loaded /\ ~unloadEvent
    /\ loadRequest' = TRUE
    /\ UNCHANGED <<ring, engine, writer, ui, loaded, game, unloadEvent, loadResult, raced>>

(* Nothing loaded and nothing queued: looked up first, stopped later. *)
SeeIdle ==
    /\ UiIdle /\ Unlocked /\ ~loaded /\ buffers <= 0 /\ bufptr = 0
    /\ uiPc' = "stop"
    /\ UNCHANGED <<ring, engine, writer, waited, core, raced>>

HandleUnload ==
    /\ UiIdle /\ unloadEvent
    /\ unloadEvent' = FALSE /\ uiPc' = "stopFlush"
    /\ UNCHANGED <<ring, engine, writer, waited, loaded, game, loadRequest, loadResult, raced>>

Stop ==
    /\ uiPc \in {"stop", "stopFlush"} /\ Unlocked
    /\ started' = FALSE /\ uiPc' = IF uiPc = "stop" THEN "idle" ELSE "flush"
    /\ UNCHANGED <<ring, event, queue, due, signalling, writer, waited, core, raced>>

HandleLoad ==
    /\ UiIdle /\ loadResult /\ ~unloadEvent
    /\ loadResult' = FALSE /\ uiPc' = "flush" /\ raced' = (raced \/ wpc["emu"] # "idle")
    /\ UNCHANGED <<ring, engine, writer, waited, loaded, game, unloadEvent, loadRequest>>

(* Mutant of FlushQueue: what is queued is left to play. *)
FlushNothing ==
    /\ uiPc = "flush" /\ Unlocked
    /\ waited' = 0 /\ uiPc' = "flushReset"
    /\ UNCHANGED <<ring, engine, writer, core, raced>>

(* FlushSourceBuffers leaves the sub-buffer that is playing. *)
FlushQueue ==
    LET kept == IF started /\ queue # <<>> THEN <<Head(queue)>> ELSE <<>>
    IN  /\ uiPc = "flush" /\ Unlocked
        /\ queue' = kept /\ due' = due + Len(queue) - Len(kept)
        /\ waited' = 0 /\ uiPc' = "flushWait"
        /\ UNCHANGED <<ring, started, event, signalling, writer, core, raced>>

FlushLook ==
    /\ uiPc = "flushWait"
    /\ uiPc' = IF buffers > 0 /\ waited < FlushWaits THEN "flushSleep" ELSE "flushReset"
    /\ UNCHANGED <<ring, engine, writer, waited, core, raced>>

(* Mutant of FlushSleep: the waits are not counted. *)
FlushUncounted ==
    /\ uiPc = "flushSleep" /\ (event \/ EngineSilent)
    /\ event' = FALSE /\ uiPc' = "flushWait"
    /\ UNCHANGED <<ring, started, queue, due, signalling, waited, writer, core, raced>>

(* A wait of 10 ms that times out while the engine has still something to  *)
(* end only looks again.  A signal is taken from a Write that waits for    *)
(* the same event.                                                         *)
FlushSleep ==
    /\ uiPc = "flushSleep" /\ (event \/ EngineSilent)
    /\ event' = FALSE /\ waited' = waited + 1 /\ uiPc' = "flushWait"
    /\ UNCHANGED <<ring, started, queue, due, signalling, writer, core, raced>>

FlushReset ==
    /\ uiPc = "flushReset" /\ Unlocked
    /\ bufptr' = 0 /\ writeBuffer' = 0 /\ uiPc' = "idle"
    /\ UNCHANGED <<buffers, content, engine, writer, waited, core, raced>>

-----------------------------------------------------------------------------
EngineStep == PlayBuffer \/ OnBufferEnded \/ SignalEnded
UiStep == Stop \/ HandleLoad \/ HandleUnload \/ FlushQueue \/ FlushLook
          \/ FlushSleep \/ FlushReset
CoreStep == LoadGame \/ UnloadGame \/ WriteSound
UserStep == Beep \/ RequestLoad \/ SeeIdle

Next == (\E t \in Writers : WriteStep(t)) \/ EngineStep \/ UiStep \/ CoreStep \/ UserStep

Spec == Init /\ [][Next]_vars

(* The three threads run; what the game and the user do is up to them. *)
FairSpec ==
    /\ Spec
    /\ \A t \in Writers : WF_vars(WriteStep(t))
    /\ WF_vars(PlayBuffer) /\ WF_vars(OnBufferEnded) /\ WF_vars(SignalEnded)
    /\ SF_vars(UiStep)

-----------------------------------------------------------------------------
TypeOK ==
    /\ started \in BOOLEAN /\ bufptr \in 0 .. SubBuf /\ writeBuffer \in Buffers
    /\ buffers \in -1 .. MaxBuffers - 1 /\ event \in BOOLEAN
    /\ content \in [Buffers -> SUBSET (0 .. MaxGames)]
    /\ queue \in Seq(Buffers) /\ Len(queue) < MaxBuffers
    /\ due \in 0 .. MaxBuffers - 1 /\ signalling \in BOOLEAN
    /\ wpc \in [Writers -> {"idle", "copy", "copied", "submit", "count", "wait"}]
    /\ left \in [Writers -> 0 .. IF MaxWrite > BeepLength THEN MaxWrite ELSE BeepLength]
    /\ loaded \in BOOLEAN /\ raced \in BOOLEAN /\ game \in 0 .. MaxGames
    /\ uiPc \in {"idle", "stop", "stopFlush", "flush", "flushWait", "flushSleep",
              "flushReset"}
    /\ waited \in 0 .. FlushWaits
    /\ unloadEvent \in BOOLEAN /\ loadRequest \in BOOLEAN /\ loadResult \in BOOLEAN

(* m_buffers is exact: every sub-buffer submitted is counted down once,    *)
(* whether it was played or flushed, although the engine may end it before *)
(* the writer has counted it.                                              *)
CountExact ==
    buffers + Cardinality({t \in Writers : wpc[t] = "count"}) = Len(queue) + due

(* As long as no Write of a game overlapped a Flush, the engine plays the  *)
(* sub-buffers as they were written, and none is written while the engine  *)
(* may still read it.  (A sub-buffer is both queued and current only       *)
(* inside the mutex, before it is left.)                                   *)
RingOrder ==
    LET next == IF Unlocked THEN writeBuffer ELSE (writeBuffer + 1) % MaxBuffers
    IN  ~raced =>
        /\ \A i \in 1 .. Len(queue) - 1 : queue[i + 1] = (queue[i] + 1) % MaxBuffers
        /\ queue # <<>> /\ uiPc = "idle" => (queue[Len(queue)] + 1) % MaxBuffers = next
        /\ \A i \in 1 .. Len(queue) : queue[i] # next

(* The ring: exactly counted, and in order.                                *)
RingSound == TypeOK /\ CountExact /\ RingOrder

(* As long as no Write of a game overlapped a Flush, a sub-buffer never    *)
(* mixes the sound of two games, and once a new game's load is handled     *)
(* nothing of an earlier one, nor of the beep, is left in the queue.       *)
OneGameAudible ==
    ~raced => \A i \in 1 .. Len(queue) :
        /\ Cardinality(content[queue[i]] \ {0}) <= 1
        /\ loaded /\ ~loadResult /\ uiPc = "idle" => content[queue[i]] = {game}

(* A Write times out only for the reason it logs, "engine not consuming":  *)
(* never while the ring has room, unless a Flush took the signal.           *)
TimeoutMeansFull ==
    [][\A t \in Writers : wpc[t] = "wait" /\ wpc'[t] = "idle" =>
           raced \/ buffers >= MaxBuffers - 1]_vars

(* A Write always returns, whatever the UI stops or flushes meanwhile.     *)
WriteReturns == \A t \in Writers : wpc[t] # "idle" ~> wpc[t] = "idle"

(* A Flush always returns: the UI thread is not held by the producer.      *)
FlushReturns == uiPc = "flush" ~> uiPc = "idle"

(* So both ends come back: neither side holds the other for ever.          *)
CallsReturn == WriteReturns /\ FlushReturns

(* XAudio2Output.cpp, Flush: "Wait for OnBufferEnd callbacks so m_buffers  *)
(* reaches 0 before the ring is reused".                                   *)
ResetWhenDrained == [][uiPc = "flushReset" /\ uiPc' = "idle" => queue = <<>>]_vars
=============================================================================
