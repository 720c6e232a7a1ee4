---------------------------- MODULE FrameMailbox ----------------------------
(***************************************************************************)
(* What the video path between the emulation thread and the UI thread      *)
(* promises: frames are numbered in the order they are published, the      *)
(* newest one is never thrown away unread, and a frame is shown only       *)
(* after it was published, once for each time it is taken, and taken at    *)
(* most once.  It does not promise that frames are shown in order.         *)
(***************************************************************************)
EXTENDS Integers

CONSTANT MaxFrames    \* bound on the frames published

VARIABLES pending,    \* published frames nobody has taken yet
          newest,     \* the last frame published, 0 before the first
          held,       \* the frame the UI is drawing, 0 when none
          screen      \* the frame last drawn, 0 before the first

mailboxVars == <<pending, newest, held, screen>>

MailboxInit == pending = {} /\ newest = 0 /\ held = 0 /\ screen = 0

Publish ==
    /\ newest < MaxFrames
    /\ newest' = newest + 1
    /\ pending' = pending \cup {newest'}
    /\ UNCHANGED <<held, screen>>

(* The producer reclaims the room of a frame that is not the newest one. *)
Discard ==
    /\ \E f \in pending \ {newest} : pending' = pending \ {f}
    /\ UNCHANGED <<newest, held, screen>>

Take ==
    /\ held = 0
    /\ \E f \in pending : held' = f /\ pending' = pending \ {f}
    /\ UNCHANGED <<newest, screen>>

Show == held # 0 /\ screen' = held /\ UNCHANGED <<pending, newest, held>>

Return == held' = 0 /\ UNCHANGED <<pending, newest, screen>>

MailboxNext == Publish \/ Discard \/ Take \/ Show \/ Return

MailboxSpec == MailboxInit /\ [][MailboxNext]_mailboxVars

=============================================================================
