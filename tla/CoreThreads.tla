----------------------------- MODULE CoreThreads ----------------------------
(***************************************************************************)
(* The two threads of the core.  The emulation thread calls retro_load_    *)
(* game, retro_run and retro_unload_game; the DOSBox thread runs the       *)
(* machine.  DBP_ThreadControl hands the machine back and forth with two   *)
(* semaphores, a handful of plain flags, and dbp_state, which both threads *)
(* write.                                                                  *)
(***************************************************************************)
EXTENDS Integers

CONSTANT StrictModeAfterExit    \* the user may toggle "Use Strict Mode" when
                                \* the DOSBox thread has exited, too

ASSUME StrictModeAssumption == StrictModeAfterExit \in BOOLEAN

VARIABLES
    state,         \* dbp_state
    pending,       \* dbp_frame_pending
    pauseEvents,   \* dbp_pause_events
    midframe,      \* dbp_paused_midframe
    biosReboot,    \* dbp_biosreboot
    crashed,       \* dbp_crash_message is not empty
    gameRunning,   \* dbp_game_running
    didPause, doContinue,    \* semDidPause, semDoContinue
    forced,        \* DBP_DOSBOX_ForceShutdown was called
    loaded,        \* RetroCore: s_loaded
    quit,          \* RetroCore: s_shutdownRequested
    pc,            \* where the emulation thread is
    ret,           \* where DBP_ThreadControl or DBP_Shutdown returns to
    after,         \* where init_dosbox returns to
    dos            \* where the DOSBox thread is

flags == <<pauseEvents, midframe, biosReboot, crashed, gameRunning, forced>>
sems == <<didPause, doContinue>>
frontend == <<loaded, quit>>
returns == <<ret, after>>
vars == <<state, pending, flags, sems, frontend, pc, returns, dos>>

Init ==
    /\ state = "BOOT" /\ pending = FALSE
    /\ pauseEvents = FALSE /\ midframe = FALSE /\ biosReboot = FALSE
    /\ crashed = FALSE /\ gameRunning = FALSE /\ forced = FALSE
    /\ didPause = 0 /\ doContinue = 0
    /\ loaded = FALSE /\ quit = FALSE
    /\ pc = "idle" /\ ret = "idle" /\ after = "idle" /\ dos = "none"

(* The step of the emulation thread that only moves on *)
Goto(here, there) ==
    /\ pc = here /\ pc' = there
    /\ UNCHANGED <<state, pending, flags, sems, frontend, dos>>

(* Calls of DBP_ThreadControl, of DBP_Shutdown and of init_dosbox *)
Call(here, op, back) == Goto(here, op) /\ ret' = back /\ UNCHANGED after
InitCall(here, back) == Goto(here, "init") /\ after' = back /\ UNCHANGED ret

(***************************************************************************)
(* Emulation thread: the frontend's calls                                  *)
(***************************************************************************)
LoadGame == ~quit /\ InitCall("idle", "avInfo")

RunFrame == loaded /\ ~quit /\ Goto("idle", "run") /\ UNCHANGED returns

UnloadGame ==
    /\ pc = "idle" /\ loaded
    /\ loaded' = FALSE /\ quit' = FALSE
    /\ pc' = "shutdown" /\ ret' = "idle"
    /\ UNCHANGED <<state, pending, flags, sems, after, dos>>

(***************************************************************************)
(* Emulation thread: DBP_ThreadControl                                     *)
(***************************************************************************)
PauseFrame ==
    /\ pc = "pause"
    /\ IF ~pending \/ pauseEvents
       THEN pc' = ret /\ UNCHANGED pauseEvents
       ELSE pc' = "paused" /\ pauseEvents' = TRUE
    /\ UNCHANGED <<state, pending, midframe, biosReboot, crashed, gameRunning,
                   forced, sems, frontend, returns, dos>>

(* Mutant of PausedFrame: the frame is taken to be still pending. *)
PausedStillPending ==
    /\ pc = "paused" /\ didPause > 0
    /\ didPause' = didPause - 1
    /\ pauseEvents' = midframe
    /\ pc' = ret
    /\ UNCHANGED <<state, pending, midframe, biosReboot, crashed, gameRunning,
                   forced, doContinue, frontend, returns, dos>>

(* Not pausing any longer, if the thread reached the end of the frame.     *)
PausedFrame ==
    /\ pc = "paused" /\ didPause > 0
    /\ didPause' = didPause - 1
    /\ pauseEvents' = midframe /\ pending' = midframe
    /\ pc' = ret
    /\ UNCHANGED <<state, midframe, biosReboot, crashed, gameRunning, forced,
                   doContinue, frontend, returns, dos>>

ResumeFrame ==
    /\ pc = "resume"
    /\ IF pending
       THEN pauseEvents' = FALSE /\ doContinue' = doContinue + 1
       ELSE UNCHANGED <<pauseEvents, doContinue>>
    /\ pc' = ret
    /\ UNCHANGED <<state, pending, midframe, biosReboot, crashed, gameRunning,
                   forced, didPause, frontend, returns, dos>>

(* Mutant of FinishFrame: it does not wait. *)
FinishNotWaited ==
    /\ pc = "finish" /\ pc' = ret /\ pending' = FALSE
    /\ UNCHANGED <<state, flags, sems, frontend, returns, dos>>

FinishFrame ==
    /\ pc = "finish"
    /\ pc' = IF pending THEN "finished" ELSE ret
    /\ IF pending /\ pauseEvents
       THEN pauseEvents' = FALSE /\ doContinue' = doContinue + 1
       ELSE UNCHANGED <<pauseEvents, doContinue>>
    /\ UNCHANGED <<state, pending, midframe, biosReboot, crashed, gameRunning,
                   forced, didPause, frontend, returns, dos>>

FinishedFrame ==
    /\ pc = "finished" /\ didPause > 0
    /\ didPause' = didPause - 1 /\ pending' = FALSE
    /\ pc' = ret
    /\ UNCHANGED <<state, flags, doContinue, frontend, returns, dos>>

NextFrame ==
    /\ pc = "next"
    /\ IF state = "EXITED"
       THEN UNCHANGED <<pending, doContinue>>
       ELSE pending' = TRUE /\ doContinue' = doContinue + 1
    /\ pc' = ret
    /\ UNCHANGED <<state, flags, didPause, frontend, returns, dos>>

(* DBP_Shutdown returns at once if nothing runs. *)
Shutdown ==
    /\ pc = "shutdown"
    /\ IF state \in {"SHUTDOWN", "BOOT"}
       THEN pc' = ret /\ UNCHANGED pauseEvents
       ELSE IF pending THEN pc' = "held" /\ pauseEvents' = TRUE
                       ELSE pc' = "force" /\ UNCHANGED pauseEvents
    /\ UNCHANGED <<state, pending, midframe, biosReboot, crashed, gameRunning,
                   forced, sems, frontend, returns, dos>>

ShutdownHeld ==
    /\ pc = "held" /\ didPause > 0
    /\ didPause' = didPause - 1
    /\ pauseEvents' = FALSE /\ pending' = FALSE
    /\ pc' = "force"
    /\ UNCHANGED <<state, midframe, biosReboot, crashed, gameRunning, forced,
                   doContinue, frontend, returns, dos>>

(* Mutant of ForceShutdown: the machine is not told to shut down. *)
ShutdownUnforced ==
    /\ pc = "force"
    /\ pc' = IF state = "EXITED" THEN "destroy" ELSE "wake"
    /\ UNCHANGED <<state, pending, flags, sems, frontend, returns, dos>>

ForceShutdown ==
    /\ pc = "force"
    /\ IF state = "EXITED"
       THEN pc' = "destroy" /\ UNCHANGED forced
       ELSE pc' = "wake" /\ forced' = TRUE
    /\ UNCHANGED <<state, pending, pauseEvents, midframe, biosReboot, crashed,
                   gameRunning, sems, frontend, returns, dos>>

ShutdownWake ==
    /\ pc = "wake" /\ doContinue' = doContinue + 1 /\ pc' = "exiting"
    /\ UNCHANGED <<state, pending, flags, didPause, frontend, returns, dos>>

(* Mutant of ShutdownWait: one round instead of the loop. *)
ShutdownOnce ==
    /\ pc = "exiting" /\ didPause > 0
    /\ didPause' = didPause - 1 /\ pc' = "destroy"
    /\ UNCHANGED <<state, pending, flags, doContinue, frontend, returns, dos>>

ShutdownWait ==
    /\ pc = "exiting" /\ didPause > 0
    /\ didPause' = didPause - 1
    /\ pc' = IF state = "EXITED" THEN "destroy" ELSE "wake"
    /\ UNCHANGED <<state, pending, flags, doContinue, frontend, returns, dos>>

(* The rest of DBP_Shutdown: the machine is deleted. *)
DestroyMachine ==
    /\ pc = "destroy"
    /\ crashed' = FALSE /\ state' = "SHUTDOWN" /\ pc' = ret
    /\ UNCHANGED <<pending, pauseEvents, midframe, biosReboot, gameRunning,
                   forced, sems, frontend, returns, dos>>

ThreadControl ==
    \/ PauseFrame \/ PausedFrame \/ ResumeFrame \/ FinishFrame \/ FinishedFrame
    \/ NextFrame \/ Shutdown \/ ShutdownHeld \/ ForceShutdown \/ ShutdownWake
    \/ ShutdownWait \/ DestroyMachine

(***************************************************************************)
(* Emulation thread: init_dosbox, retro_get_system_av_info, retro_run      *)
(***************************************************************************)
InitDosbox ==
    IF state = "BOOT" THEN Goto("init", "start") /\ UNCHANGED returns
                      ELSE Call("init", "shutdown", "reset")

ResetMachine ==
    /\ pc = "reset" /\ pc' = "start"
    /\ state' = "BOOT" /\ crashed' = FALSE /\ gameRunning' = FALSE
    /\ UNCHANGED <<pending, pauseEvents, midframe, biosReboot, forced, sems,
                   frontend, returns, dos>>

StartThread ==
    /\ pc = "start" /\ pc' = after
    /\ biosReboot' = FALSE /\ forced' = FALSE
    /\ pending' = TRUE /\ state' = "FIRST_FRAME" /\ dos' = "run"
    /\ UNCHANGED <<pauseEvents, midframe, crashed, gameRunning, sems, frontend,
                   returns>>

AvInfo == Call("avInfo", "finish", "avCheck")

AvCheck ==
    IF biosReboot \/ state = "EXITED"
    THEN InitCall("avCheck", "avAgain")
    ELSE Goto("avCheck", "loaded") /\ UNCHANGED returns

AvAgain == Call("avAgain", "finish", "loaded")

GameLoaded ==
    /\ pc = "loaded" /\ loaded' = TRUE /\ pc' = "idle"
    /\ UNCHANGED <<state, pending, flags, sems, quit, returns, dos>>

(* check_variables, if there is a machine: the strict mode first, then the *)
(* options that changed, each applied between a pause and a resume.        *)
Variables == pc = "run" /\ state # "SHUTDOWN"

NoVariables == Goto("run", "input") /\ UNCHANGED returns

SetStrictMode ==
    /\ Variables
    /\ state # "EXITED" \/ StrictModeAfterExit
    /\ state' = IF gameRunning THEN state ELSE "REBOOT"
    /\ pc' = "option"
    /\ UNCHANGED <<pending, flags, sems, frontend, returns, dos>>

SetOption == Variables /\ Goto("run", "option") /\ UNCHANGED returns

PauseForOption == Call("option", "pause", "apply")
ApplyOption == Call("apply", "resume", "option")
OptionsDone == Goto("option", "input") /\ UNCHANGED returns

(* dbp_state is read more than once while the DOSBox thread may run. *)
ReadState ==
    /\ Goto("input", IF state = "RUNNING" THEN "frame"
                     ELSE IF state = "FIRST_FRAME" THEN "first" ELSE "over")
    /\ UNCHANGED returns

FirstFrame == Call("first", "finish", "firstDone")

FirstFrameDone ==
    /\ pc = "firstDone"
    /\ IF state = "EXITED" THEN pc' = "over" /\ UNCHANGED state
       ELSE /\ pc' = "frame"
            /\ state' = IF state = "FIRST_FRAME" THEN "RUNNING" ELSE state
    /\ UNCHANGED <<pending, flags, sems, frontend, returns, dos>>

(* handle_state_exited: a crash; a reboot; the end, which the frontend is  *)
(* told of; the menu after a crash, from which the user may start again.   *)
HandleCrash == crashed /\ Call("over", "shutdown", "submit")

HandleReboot ==
    /\ ~crashed /\ (state = "REBOOT" \/ biosReboot)
    /\ InitCall("over", "submit")

HandleExit ==
    /\ pc = "over" /\ ~crashed /\ ~biosReboot /\ state = "EXITED"
    /\ quit' = TRUE /\ pc' = "idle"
    /\ UNCHANGED <<state, pending, flags, sems, loaded, returns, dos>>

HandleMenu ==
    /\ ~crashed /\ ~biosReboot /\ state = "SHUTDOWN"
    /\ \/ Goto("over", "submit") /\ UNCHANGED returns
       \/ InitCall("over", "submit")

SubmitLastFrame == Goto("submit", "idle") /\ UNCHANGED returns

EmulateFrame == Call("frame", "finish", "mix")
SkipFrame == Call("frame", "pause", "mixSkipped")
MixAudio == Call("mix", "next", "idle")
MixAudioSkipped == Call("mixSkipped", "resume", "idle")

-----------------------------------------------------------------------------
(***************************************************************************)
(* DOSBox thread                                                           *)
(***************************************************************************)
DosOnly == UNCHANGED <<pending, pauseEvents, frontend, pc, returns>>

(* GFX_AdvanceFrame between two frames: the pause flag is read here ...    *)
SeePause ==
    /\ dos = "run" /\ pauseEvents
    /\ dos' = "onPause"
    /\ DosOnly /\ UNCHANGED <<state, midframe, biosReboot, crashed, gameRunning,
                              forced, sems>>

(* ... and TCM_ON_PAUSE_FRAME entered later. *)
OnPauseFrame ==
    /\ dos = "onPause"
    /\ midframe' = TRUE /\ didPause' = didPause + 1 /\ dos' = "pausedWait"
    /\ DosOnly /\ UNCHANGED <<state, biosReboot, crashed, gameRunning, forced,
                              doContinue>>

Continue ==
    /\ dos \in {"pausedWait", "finishedWait"} /\ doContinue > 0
    /\ doContinue' = doContinue - 1 /\ dos' = "run"
    /\ midframe' = IF dos = "pausedWait" THEN FALSE ELSE midframe
    /\ DosOnly /\ UNCHANGED <<state, biosReboot, crashed, gameRunning, forced,
                              didPause>>

OnFinishFrame ==
    /\ dos = "run"
    /\ didPause' = didPause + 1 /\ dos' = "finishedWait"
    /\ DosOnly /\ UNCHANGED <<state, midframe, biosReboot, crashed, gameRunning,
                              forced, doContinue>>

(* A program of the emulated machine starts or ends. *)
RunProgram ==
    /\ dos = "run" /\ gameRunning' = ~gameRunning
    /\ DosOnly /\ UNCHANGED <<state, midframe, biosReboot, crashed, forced, sems, dos>>

Crash ==
    /\ dos = "run" /\ crashed' = TRUE /\ forced' = TRUE
    /\ DosOnly /\ UNCHANGED <<state, midframe, biosReboot, gameRunning, sems, dos>>

BIOSReboot ==
    /\ dos = "run" /\ biosReboot' = TRUE /\ forced' = TRUE
    /\ DosOnly /\ UNCHANGED <<state, midframe, crashed, gameRunning, sems, dos>>

(* The machine stops, told to or not: TCM_ON_SHUTDOWN sets dbp_state ...   *)
ExitDos ==
    /\ dos = "run" /\ state' = "EXITED" /\ dos' = "exited"
    /\ DosOnly /\ UNCHANGED <<midframe, biosReboot, crashed, gameRunning, forced, sems>>

(* ... and posts afterwards. *)
OnShutdown ==
    /\ dos = "exited"
    /\ gameRunning' = FALSE /\ didPause' = didPause + 1 /\ dos' = "ended"
    /\ DosOnly /\ UNCHANGED <<state, midframe, biosReboot, crashed, forced, doContinue>>

-----------------------------------------------------------------------------
FrontendCall == LoadGame \/ RunFrame \/ UnloadGame

RetroRun ==
    \/ NoVariables \/ SetStrictMode \/ SetOption \/ PauseForOption \/ ApplyOption
    \/ OptionsDone
    \/ ReadState \/ FirstFrame \/ FirstFrameDone \/ HandleCrash \/ HandleReboot
    \/ HandleExit \/ HandleMenu \/ SubmitLastFrame \/ EmulateFrame \/ SkipFrame
    \/ MixAudio \/ MixAudioSkipped

RetroLoadGame ==
    \/ InitDosbox \/ ResetMachine \/ StartThread \/ AvInfo \/ AvCheck \/ AvAgain
    \/ GameLoaded

Machine ==
    \/ SeePause \/ OnPauseFrame \/ Continue \/ OnFinishFrame \/ RunProgram
    \/ Crash \/ BIOSReboot \/ ExitDos \/ OnShutdown

EmulationThread == ThreadControl \/ RetroLoadGame \/ RetroRun

Next == FrontendCall \/ EmulationThread \/ Machine

Spec == Init /\ [][Next]_vars

(* The emulation thread runs unless it waits for a semaphore.  The DOSBox  *)
(* thread runs the machine, whose display timer comes round: a frame ends  *)
(* again and again, a pause is seen, and a machine told to shut down does. *)
(* There are only so many options that changed.                            *)
FairSpec ==
    /\ Spec
    /\ WF_vars(EmulationThread) /\ SF_vars(OptionsDone)
    /\ WF_vars(SeePause \/ OnFinishFrame \/ ExitDos)
    /\ WF_vars(OnPauseFrame \/ OnShutdown \/ Continue)
    /\ SF_vars(forced /\ ExitDos)

-----------------------------------------------------------------------------
States == {"BOOT", "EXITED", "SHUTDOWN", "REBOOT", "FIRST_FRAME", "RUNNING"}
Returns == {"idle", "reset", "apply", "option", "firstDone", "submit", "mix",
            "mixSkipped", "avCheck", "loaded"}
ControlPoints == {"pause", "paused", "resume", "finish", "finished", "next"}
ShutdownPoints == {"shutdown", "held", "force", "wake", "exiting", "destroy"}
InitPoints == {"init", "reset", "start"}
CallPoints == {"idle", "avInfo", "avCheck", "avAgain", "loaded", "run", "option",
               "apply", "input", "first", "firstDone", "over", "submit", "frame",
               "mix", "mixSkipped"}

TypeOK ==
    /\ state \in States /\ pending \in BOOLEAN
    /\ pauseEvents \in BOOLEAN /\ midframe \in BOOLEAN /\ biosReboot \in BOOLEAN
    /\ crashed \in BOOLEAN /\ gameRunning \in BOOLEAN /\ forced \in BOOLEAN
    /\ didPause \in 0 .. 1 /\ doContinue \in 0 .. 1
    /\ loaded \in BOOLEAN /\ quit \in BOOLEAN
    /\ pc \in CallPoints \cup ControlPoints \cup ShutdownPoints \cup InitPoints
    /\ ret \in Returns /\ after \in {"idle", "avInfo", "avAgain", "submit"}
    /\ dos \in {"none", "run", "onPause", "pausedWait", "finishedWait", "exited", "ended"}

(* The DOSBox thread does not touch the machine: there is none, it is      *)
(* over, or it waits for a semaphore nobody has posted yet.                *)
Parked == dos \in {"none", "ended"}
          \/ (dos \in {"pausedWait", "finishedWait"} /\ doContinue = 0)

(* The emulation thread mixes audio, reads the frame, or rebuilds a device *)
(* for a new option, only while the DOSBox thread is held.                 *)
MachineExclusive == pc \in {"avCheck", "loaded", "apply", "firstDone", "mix",
                            "mixSkipped"} => Parked

(* The machine is deleted, and a new thread started, only once the last    *)
(* DOSBox thread is gone: no thread ever runs on a deleted machine, and    *)
(* there are never two.                                                    *)
MachineOutlivesThread == pc \in {"destroy", "reset", "start"} => dos \in {"none", "ended"}

(* The machine is used by one thread, and outlives it.                     *)
MachineSafe == MachineExclusive /\ MachineOutlivesThread

(* The assertions of DBP_ThreadControl and of init_dosbox's callers.       *)
AssertionsHold ==
    /\ pc \in ControlPoints \/ dos = "onPause" => state \notin {"BOOT", "SHUTDOWN"}
    /\ dos = "onPause" => pauseEvents /\ ~midframe
    /\ pc = "resume" /\ pending => pauseEvents
    /\ pc = "finished" /\ didPause > 0 => ~midframe
    /\ pc = "next" => ~pending
    /\ pc = "avInfo" => state # "BOOT"

(* Each post is for one wait: the two semaphores never hold more than one  *)
(* wakeup between them, and none is left when no frame is in flight.       *)
OneBaton ==
    /\ didPause + doContinue <= 1
    /\ pc = "idle" /\ ~pending => didPause + doContinue = 0

(* The hand-over of the machine: what the assertions say, and one baton.   *)
HandOver == TypeOK /\ AssertionsHold /\ OneBaton

(* Every call the frontend makes returns: a load, a frame and an unload    *)
(* never wait for a thread that is itself waiting, or gone.                *)
CallsReturn == pc # "idle" ~> pc = "idle"

(* RetroCore.h on Shutdown, which ends in this call: "Blocks until the     *)
(* emulation thread exits ..., ~256ms" - so an unload comes to its end.    *)
UnloadReturns == pc = "shutdown" ~> pc = "idle"
=============================================================================
