----------------------------- MODULE FileBrowser -----------------------------
(***************************************************************************)
(* The file browser of the menu: a list of entries for one path, a cursor  *)
(* and the first row on the screen.  A browser is a record, and each       *)
(* handler an operator from a browser to the browser it leaves; what a     *)
(* handler asks of the rest of the program (a game to load, a startup      *)
(* folder) is an operator of its own, ChosenFile and ChosenFolder.         *)
(*                                                                         *)
(* A path is the sequence of its parts: <<>> is the list of the drives.    *)
(***************************************************************************)
EXTENDS Integers, Sequences, FiniteSets, SequencesExt

CONSTANTS
    Drives,         \* the drives, in the order of their letters
    HomePath,       \* LocalFolder
    Folders,        \* readable path -> the names of its folders, sorted
    Files,          \* readable path -> the names of its supported files, sorted
    MaxVisible,     \* MAX_VISIBLE: the cursor is kept within so many rows of the first one
    Fit             \* rows the panel has room for

Paths == DOMAIN Folders

ASSUME BrowserAssumption ==
    /\ MaxVisible \in Nat \ {0} /\ Fit \in Nat \ {0}
    /\ Drives \in Seq(STRING) \ {<<>>} /\ HomePath \in Seq(STRING) \ {<<>>}
    /\ \A path \in Paths : /\ path \in Seq(STRING)
                           /\ Folders[path] \in Seq(STRING) /\ Files[path] \in Seq(STRING)

Entry(kind, path) == [kind |-> kind, path |-> path]
Separator         == Entry("separator", <<>>)

AtMost(a, b)  == IF a < b THEN a ELSE b
AtLeast(a, b) == IF a > b THEN a ELSE b

\* The number of rows drawn of a list, of which max may be.
Visible(len, max) == AtMost(len, AtMost(Fit, max))

\* The scroll offset that brings row sel among the max rows from it on.
Follow(scroll, sel, max) == IF sel < scroll THEN sel
                            ELSE IF sel >= scroll + max THEN sel - max + 1
                            ELSE scroll

\* What is drawn starts here.
Clamp(scroll, len, max) == AtLeast(0, AtMost(scroll, len - Visible(len, max)))
-----------------------------------------------------------------------------
(* ScanDirectory *)

RootEntries(pick, fav) ==
    (IF pick
     THEN <<Entry("set", <<>>)>> \o (IF fav # <<>> THEN <<Entry("clear", <<>>)>> ELSE <<>>)
                                 \o <<Separator>>
     ELSE IF fav # <<>> THEN <<Entry("favourite", fav), Separator>> ELSE <<>>)
    \o [i \in 1..Len(Drives) |-> Entry("folder", <<Drives[i]>>)]
    \o <<Entry("folder", HomePath)>>

\* A folder that cannot be read still lets the user leave.
FolderEntries(pick, path) ==
    IF path \notin Paths THEN <<Entry("up", <<>>)>>
    ELSE (IF pick THEN <<Entry("set", <<>>)>> ELSE <<>>)
         \o <<Entry("up", <<>>)>>
         \o [i \in 1..Len(Folders[path]) |-> Entry("folder", Append(path, Folders[path][i]))]
         \o [i \in 1..Len(Files[path])   |-> Entry("file", Append(path, Files[path][i]))]

ScanDirectory(b, path, fav) ==
    [b EXCEPT !.path = path, !.sel = 1, !.scroll = 0,
              !.entries = IF path = <<>> THEN RootEntries(b.pick, fav)
                                         ELSE FolderEntries(b.pick, path)]

ClosedBrowser == [visible |-> FALSE, pick |-> FALSE, path |-> <<>>, entries |-> <<>>,
                  sel |-> 1, scroll |-> 0]

OpenBrowser(b, fav)     == ScanDirectory([b EXCEPT !.visible = TRUE], <<>>, fav)
OpenForFolderPick(b, fav) == OpenBrowser([b EXCEPT !.pick = TRUE], fav)

\* What Close leaves in place, Open sets again, save for the mode.
CloseBrowser(b) == ClosedBrowser

\* Mutant of BrowserBack: a folder is left like the list of the drives.
BackCloses(b, fav) == CloseBrowser(b)
-----------------------------------------------------------------------------
(* Input.  Rows are numbered from 1; .scroll is the number of rows above. *)

GetParentPath(path) == IF path = <<>> THEN <<>> ELSE Front(path)

Selected(b) == b.entries[b.sel]

\* The separator is passed over, unless it is the row the search ends on.
StepUp(entries, sel) ==
    LET step[s \in 1..Len(entries)] ==
            LET next == IF s = 1 THEN Len(entries) ELSE s - 1
            IN  IF next > 1 /\ entries[next] = Separator THEN step[next] ELSE next
    IN  step[sel]

StepDown(entries, sel) ==
    LET step[s \in 1..Len(entries)] ==
            LET next == IF s = Len(entries) THEN 1 ELSE s + 1
            IN  IF next < Len(entries) /\ entries[next] = Separator THEN step[next] ELSE next
    IN  step[sel]

\* Mutant of MoveTo: the list does not follow the cursor.
MoveToUnscrolled(b, row) == [b EXCEPT !.sel = row]

MoveTo(b, row) == [b EXCEPT !.sel = row, !.scroll = Follow(b.scroll, row - 1, MaxVisible)]

BrowserDPad(b, up) == MoveTo(b, IF up THEN StepUp(b.entries, b.sel)
                                      ELSE StepDown(b.entries, b.sel))

BrowserBack(b, fav) == IF b.path = <<>> THEN CloseBrowser(b)
                       ELSE ScanDirectory(b, GetParentPath(b.path), fav)

\* Confirm on an entry.  Anything that is neither special nor a folder is taken
\* for a file, the separator included; the owner closes the browser for a file.
BrowserConfirm(b, fav) ==
    LET e == Selected(b)
    IN  CASE e.kind \in {"set", "clear"}      -> CloseBrowser(b)
          [] e.kind = "up"                    -> BrowserBack(b, fav)
          [] e.kind \in {"favourite", "folder"} -> ScanDirectory(b, IF e.kind = "favourite"
                                                                   THEN fav ELSE e.path, fav)
          [] OTHER                            -> CloseBrowser(b)

\* The game onFileSelected gets: a separator is a file without a name.
ChosenFile(b)   == IF Selected(b).kind \in {"file", "separator"} THEN <<Selected(b).path>>
                                                               ELSE <<>>
\* The folder onFolderSelected gets.
ChosenFolder(b) == IF Selected(b).kind = "set" THEN <<b.path>>
                   ELSE IF Selected(b).kind = "clear" THEN <<<<>>>>
                   ELSE <<>>

BrowserPageUp(b) == [b EXCEPT !.sel    = AtLeast(1, b.sel - MaxVisible),
                              !.scroll = AtLeast(0, b.scroll - MaxVisible)]

BrowserPageDown(b) ==
    LET len == Len(b.entries)
    IN  [b EXCEPT !.sel    = AtMost(len, b.sel + MaxVisible),
                  !.scroll = IF b.scroll + MaxVisible > len - MaxVisible
                             THEN AtLeast(0, len - MaxVisible)
                             ELSE b.scroll + MaxVisible]

BrowserWheel(b, up) ==
    MoveTo(b, IF up THEN AtLeast(1, b.sel - 3) ELSE AtMost(Len(b.entries), b.sel + 3))

\* The rows the pointer can be over: those drawn, and one more at the edge.
BrowserHit(b) ==
    {row \in 1..Len(b.entries) : row > b.scroll /\ row <= b.scroll + Visible(Len(b.entries), MaxVisible) + 1}

BrowserHover(b, row) == [b EXCEPT !.sel = row]

DrawBrowser(b) == [b EXCEPT !.scroll = Clamp(b.scroll, Len(b.entries), MaxVisible)]

\* The row Confirm would take is one of those on the screen.
BrowserCursorShown(b) ==
    b.visible => /\ b.sel \in 1..Len(b.entries)
                 /\ b.sel > b.scroll /\ b.sel <= b.scroll + Visible(Len(b.entries), MaxVisible) + 1
=============================================================================
