---------------------------- MODULE FrontendMenu ----------------------------
(***************************************************************************)
(* The menu of the frontend: the panel with the main list, the overlays    *)
(* stacked over it (settings, a section of the settings, the history), the *)
(* file browser, the about box and the confirm box with the question it    *)
(* asks.  One cursor, m_selected, serves the panel and the topmost overlay *)
(* in turn; the other positions are saved and restored.  Every list is     *)
(* rebuilt, and every overlay closed, when settings are reset and when a   *)
(* game comes or goes, under whatever is open at that moment.              *)
(*                                                                         *)
(* The user-interface thread does all of this: an action is one handler.   *)
(* How options reach the core and the disk is in module Settings.          *)
(***************************************************************************)
EXTENDS FileBrowser, GameHistory

CONSTANTS
    GeneralKeys,    \* options with a row in "General"
    InputKeys,      \* options with a row in "Input", which stands for five sections
    RowSize,        \* values a row has
    DefaultValue,   \* key -> the value ResetSectionDefaults stores and a row falls back to
    MenuVisible,    \* MAX_VISIBLE of the menu
    Below,          \* rows the pointer reaches under those drawn, over the footer
    None            \* no stored value, no game

RangeOf(seq)  == {seq[i] : i \in 1..Len(seq)}
OptionKeys    == RangeOf(GeneralKeys) \cup RangeOf(InputKeys)

ASSUME MenuAssumption ==
    /\ RowSize \in Nat \ {0, 1} /\ MenuVisible \in Nat \ {0} /\ Below \in Nat
    /\ GeneralKeys \in Seq(STRING) /\ InputKeys \in Seq(STRING)
    /\ DefaultValue \in [OptionKeys -> 0..(RowSize - 1)]
    /\ None \notin 0..(RowSize - 1)

SectionTitles == {"General", "Input"}
SectionKeys(title) == IF title = "General" THEN RangeOf(GeneralKeys) ELSE RangeOf(InputKeys)

VARIABLES
    visible,        \* m_visible
    overlay,        \* titles of the open overlays, the topmost last
    sel,            \* m_selected, from 1
    scroll,         \* m_scrollOffset
    savedPanel,     \* position of the panel under the overlays
    savedOverlay,   \* positions of the overlays under the topmost one
    historyRows,    \* the games m_historyItems shows
    shown,          \* key -> currentValue of its row
    browser,        \* m_fileBrowser
    about,          \* m_aboutDialog is open
    dialog,         \* m_confirmDialog
    options,        \* SettingsManager: key -> value, None for no entry
    favourite,      \* "frontend_startup_folder", <<>> for none
    history,        \* SettingsManager: the games, the latest first
    coreLoaded,     \* m_coreLoadedPrev
    loaded,         \* a game is loaded
    request,        \* the path QueueLoadRom was given, None for none
    exited          \* CoreApplication::Exit was called

menuVars     == <<overlay, sel, scroll, savedPanel, savedOverlay, historyRows, shown>>
settingsVars == <<options, favourite, history>>
gameVars     == <<coreLoaded, loaded, request>>
vars == <<visible, menuVars, browser, about, dialog, settingsVars, gameVars, exited>>
-----------------------------------------------------------------------------
(* The lists *)

Row(action, key, enabled) == [action |-> action, key |-> key, enabled |-> enabled]
Item(action)  == Row(action, "", TRUE)
Toggle(key)   == Row("TOGGLE_VALUE", key, TRUE)
Blank         == Item("NONE")
ToggleRows(keys) == [i \in 1..Len(keys) |-> Toggle(keys[i])]

MainItems == <<Item("OPEN_FILE"), Blank, Item("SETTINGS"), Item("OPEN_HISTORY"), Blank,
               Item("ABOUT"), Item("EXIT")>>

SettingsItems == <<Item("GENERAL"), Item("INPUT"), Blank, Item("RESET_ALL_SETTINGS"),
                   Item("CLEAR_LOGS"), Blank, Item("BACK")>>

GeneralItems == ToggleRows(GeneralKeys)
    \o <<Blank, Item("PICK_FOLDER"), Row("TOGGLE_VALUE", "dosbox_pure_savestate", FALSE), Blank,
         Item("RELOAD_SETTINGS"), Item("RESTART_APP"), Blank, Item("RESET_DEFAULTS"), Blank,
         Item("BACK")>>

InputItems == ToggleRows(InputKeys) \o <<Blank, Item("RESET_DEFAULTS"), Blank, Item("BACK")>>

\* OPEN_HISTORY fills the list; it is not refilled while it is open.
HistoryItems(games) ==
    (IF games = <<>> THEN <<Row("NO_HISTORY", "", FALSE)>>
     ELSE [i \in 1..Len(games) |-> Row("HISTORY", games[i], TRUE)])
    \o <<Blank, Item("CLEAR_HISTORY"), Item("BACK")>>

ItemsOf(title) == CASE title = "Settings" -> SettingsItems
                    [] title = "General"  -> GeneralItems
                    [] title = "Input"    -> InputItems
                    [] title = "History"  -> HistoryItems(historyRows)

OverlayActive == overlay # <<>>
Title == IF OverlayActive THEN Last(overlay) ELSE "main"
Items == IF OverlayActive THEN ItemsOf(Title) ELSE MainItems
Under == Items[sel]                           \* the row under the cursor

\* A row the D-pad and the pointer stop at.
Selectable(row) == row.enabled /\ row.action # "NONE"

\* findVal: the stored value, or the default when nothing is stored.
FindVal(key, value) == IF value = None THEN DefaultValue[key] ELSE value
RowsOf(opts)        == [k \in OptionKeys |-> FindVal(k, opts[k])]
-----------------------------------------------------------------------------
(* RenderFullScreen: the lists on the screen, the lowest first.  Each has the
   row it highlights, and the rows HitTest finds under the pointer: those drawn,
   and, as there is no lower bound to the list, the ones that would be next. *)

RowsHit(items, from) ==
    LET first == Clamp(from, Len(items), MenuVisible)
    IN  (first + 1)..AtMost(Len(items), first + Visible(Len(items), MenuVisible) + Below)

List(items, at) == [rows |-> RowsHit(items, at.scroll), lit |-> at.sel]
Here == [sel |-> sel, scroll |-> scroll]

\* The panel is drawn where it was left when overlays are over it ...
PanelDrawn == List(MainItems, IF OverlayActive THEN savedPanel ELSE Here)

\* ... and so are the overlays under the topmost one.
OverlaysDrawn ==
    [i \in 1..Len(overlay) |-> List(ItemsOf(overlay[i]),
                                    IF i = Len(overlay) THEN Here ELSE savedOverlay[i])]
-----------------------------------------------------------------------------
(* Lists rebuilt *)

\* Mutant of RebuildItems: the saved positions stay.
RebuildKeepsSaved ==
    /\ overlay' = <<>> /\ sel' = 1 /\ scroll' = 0
    /\ UNCHANGED savedOverlay

\* RebuildItems: one page, the first row of it, no overlay.
RebuildItems ==
    /\ overlay' = <<>> /\ savedOverlay' = <<>>
    /\ sel' = 1 /\ scroll' = 0

\* Mutant of BuildMenuTree: the rows keep what they showed.
BuildMenuTreeStale(opts) ==
    /\ RebuildItems
    /\ UNCHANGED <<shown, historyRows, savedPanel>>

\* BuildMenuTree: the rows take the stored values, then RebuildItems.
BuildMenuTree(opts) ==
    /\ shown' = RowsOf(opts)
    /\ RebuildItems
    /\ UNCHANGED <<historyRows, savedPanel>>

\* The panel comes back with the position it had.
CloseOverlays ==
    /\ overlay' = <<>>
    /\ sel' = savedPanel.sel /\ scroll' = savedPanel.scroll
    /\ UNCHANGED <<savedPanel, historyRows, shown>>

\* Back from an overlay: the one below it, or the panel.
PopOverlay ==
    IF savedOverlay # <<>>
    THEN /\ overlay' = Front(overlay)
         /\ sel' = Last(savedOverlay).sel /\ scroll' = Last(savedOverlay).scroll
         /\ savedOverlay' = Front(savedOverlay)
         /\ UNCHANGED <<savedPanel, historyRows, shown>>
    ELSE CloseOverlays /\ UNCHANGED savedOverlay

\* An overlay opens over the panel.
OpenOverlay(title) ==
    /\ savedPanel' = Here
    /\ overlay' = <<title>>
    /\ sel' = 1 /\ scroll' = 0
    /\ UNCHANGED <<savedOverlay, shown>>

\* A section opens over the settings.
PushOverlay(title) ==
    /\ savedOverlay' = Append(savedOverlay, Here)
    /\ overlay' = Append(overlay, title)
    /\ sel' = 1 /\ scroll' = 0
    /\ UNCHANGED <<savedPanel, historyRows, shown>>
-----------------------------------------------------------------------------
(* The confirm box.  .asks is what m_onResult does when it is told yes; a closed
   box keeps nothing that the next Open does not set. *)

\* A section asks to reset its own options.
ResetSection(title) == IF title = "General" THEN "reset General" ELSE "reset Input"

NoDialog == [open |-> FALSE, confirm |-> FALSE, asks |-> "nothing", ok |-> TRUE]

Ask(question) == [open |-> TRUE, confirm |-> TRUE, asks |-> question, ok |-> TRUE]
Tell          == [NoDialog EXCEPT !.open = TRUE]

Init ==
    /\ visible = TRUE
    /\ overlay = <<>> /\ sel = 1 /\ scroll = 0
    /\ savedPanel = [sel |-> 1, scroll |-> 0] /\ savedOverlay = <<>>
    /\ historyRows = <<>>
    /\ options = [k \in OptionKeys |-> None]
    /\ shown = RowsOf(options)
    /\ browser = ClosedBrowser /\ about = FALSE /\ dialog = NoDialog
    /\ favourite = <<>> /\ history = <<>>
    /\ coreLoaded = FALSE /\ loaded = FALSE /\ request = None
    /\ exited = FALSE

Live == visible /\ ~exited
-----------------------------------------------------------------------------
(* What a yes does *)

\* Mutant of ResetDefaults: the other section is reset as well.
ResetDefaultsEverywhere(title) ==
    /\ options' = DefaultValue
    /\ BuildMenuTree(options')
    /\ dialog' = Tell
    /\ UNCHANGED <<visible, favourite, history, exited>>

ResetDefaults(title) ==
    /\ options' = [k \in OptionKeys |-> IF k \in SectionKeys(title) THEN DefaultValue[k] ELSE options[k]]
    /\ BuildMenuTree(options')
    /\ dialog' = Tell
    /\ UNCHANGED <<visible, favourite, history, exited>>

\* "Reset All" and "Reload": the stored options are cleared with the folder.
ResetAll ==
    /\ options' = [k \in OptionKeys |-> None]
    /\ favourite' = <<>>
    /\ BuildMenuTree(options')
    /\ dialog' = Tell
    /\ UNCHANGED <<visible, history, exited>>

\* The stack of saved positions is not cleared, and is empty when history shows.
ClearHistory ==
    /\ history' = <<>>
    /\ CloseOverlays /\ UNCHANGED savedOverlay
    /\ dialog' = NoDialog
    /\ UNCHANGED <<visible, options, favourite, exited>>

ExitConfirmed ==
    /\ visible' = FALSE /\ exited' = TRUE
    /\ dialog' = NoDialog
    /\ UNCHANGED <<menuVars, settingsVars>>

RestartConfirmed ==
    /\ exited' = TRUE
    /\ dialog' = NoDialog
    /\ UNCHANGED <<visible, menuVars, settingsVars>>

DialogCloses ==
    /\ dialog' = NoDialog
    /\ UNCHANGED <<visible, menuVars, settingsVars, exited>>

\* ConfirmDialog::OnConfirm closes the box, then runs the stored answer, which
\* may open it again with another text.
DialogOnConfirm ==
    /\ CASE dialog.asks = ResetSection("General") -> ResetDefaults("General")
         [] dialog.asks = ResetSection("Input")   -> ResetDefaults("Input")
         [] dialog.asks \in {"reset all", "reload"} -> ResetAll
         [] dialog.asks = "clear history" -> ClearHistory
         [] dialog.asks = "exit"          -> ExitConfirmed
         [] dialog.asks = "restart"       -> RestartConfirmed
         [] OTHER                         -> DialogCloses
    /\ UNCHANGED <<browser, about, gameVars>>

DialogOnBack ==
    /\ DialogCloses
    /\ UNCHANGED <<browser, about, gameVars>>

\* A game of the history: the overlays close and the menu hides before the
\* load is even queued.
LoadFromHistory(game) ==
    /\ overlay' = <<>> /\ savedOverlay' = <<>>
    /\ sel' = savedPanel.sel /\ scroll' = savedPanel.scroll
    /\ visible' = FALSE
    /\ request' = game
    /\ UNCHANGED <<savedPanel, historyRows, shown, browser, dialog, settingsVars, coreLoaded,
                   loaded>>

\* A value one up or one down.
Turn(key, by) ==
    /\ shown' = [shown EXCEPT ![key] = (@ + by + RowSize) % RowSize]
    /\ options' = [options EXCEPT ![key] = shown'[key]]

TurnRow(by) ==
    /\ Turn(Under.key, by)
    /\ UNCHANGED <<visible, overlay, sel, scroll, savedPanel, savedOverlay, historyRows, browser,
                   about, dialog, favourite, history, gameVars, exited>>

Question == CASE Under.action = "RESET_DEFAULTS"     -> ResetSection(Title)
              [] Under.action = "RESET_ALL_SETTINGS" -> "reset all"
              [] Under.action = "RELOAD_SETTINGS"    -> "reload"
              [] Under.action = "CLEAR_HISTORY"      -> "clear history"
              [] Under.action = "CLEAR_LOGS"         -> "clear logs"
              [] Under.action = "RESTART_APP"        -> "restart"
              [] Under.action = "EXIT"               -> "exit"

OpenDialog ==
    /\ dialog' = Ask(Question)
    /\ UNCHANGED <<visible, menuVars, browser, about, settingsVars, gameVars, exited>>

ConfirmRow ==
    CASE Under.action = "TOGGLE_VALUE" -> TurnRow(1)
      [] Under.action = "HISTORY"      -> LoadFromHistory(Under.key) /\ UNCHANGED <<about, exited>>
      [] Under.action \in {"RESET_DEFAULTS", "RESET_ALL_SETTINGS", "RELOAD_SETTINGS",
                           "CLEAR_HISTORY", "CLEAR_LOGS", "RESTART_APP", "EXIT"} -> OpenDialog
      [] Under.action = "OPEN_FILE" ->
            /\ browser' = OpenBrowser(browser, favourite)
            /\ UNCHANGED <<visible, menuVars, about, dialog, settingsVars, gameVars, exited>>
      [] Under.action = "PICK_FOLDER" ->
            /\ browser' = OpenForFolderPick(browser, favourite)
            /\ UNCHANGED <<visible, menuVars, about, dialog, settingsVars, gameVars, exited>>
      [] Under.action = "ABOUT" ->
            /\ about' = TRUE
            /\ UNCHANGED <<visible, menuVars, browser, dialog, settingsVars, gameVars, exited>>
      [] Under.action = "SETTINGS" ->
            /\ OpenOverlay("Settings") /\ UNCHANGED historyRows
            /\ UNCHANGED <<visible, browser, about, dialog, settingsVars, gameVars, exited>>
      [] Under.action = "OPEN_HISTORY" ->
            /\ OpenOverlay("History") /\ historyRows' = history
            /\ UNCHANGED <<visible, browser, about, dialog, settingsVars, gameVars, exited>>
      [] Under.action \in {"GENERAL", "INPUT"} ->
            /\ PushOverlay(IF Under.action = "GENERAL" THEN "General" ELSE "Input")
            /\ UNCHANGED <<visible, browser, about, dialog, settingsVars, gameVars, exited>>
      [] Under.action = "BACK" ->
            /\ PopOverlay
            /\ UNCHANGED <<visible, browser, about, dialog, settingsVars, gameVars, exited>>
      [] OTHER -> UNCHANGED vars

\* The browser's answer: a game to load, or a startup folder.  onFolderSelected
\* stores the folder and rebuilds the lists.
BrowserAnswer ==
    /\ browser' = BrowserConfirm(browser, favourite)
    /\ request' = IF ChosenFile(browser) # <<>> THEN Head(ChosenFile(browser)) ELSE request
    /\ IF ChosenFolder(browser) # <<>>
       THEN favourite' = Head(ChosenFolder(browser)) /\ BuildMenuTree(options)
       ELSE UNCHANGED <<favourite, menuVars>>
    /\ UNCHANGED <<visible, about, dialog, options, history, coreLoaded, loaded, exited>>

OnConfirm ==
    /\ Live
    /\ IF dialog.open THEN IF dialog.ok THEN DialogOnConfirm ELSE DialogOnBack
       ELSE IF about
       THEN /\ about' = FALSE
            /\ UNCHANGED <<visible, menuVars, browser, dialog, settingsVars, gameVars, exited>>
       ELSE IF browser.visible THEN BrowserAnswer
       ELSE IF Under.enabled THEN ConfirmRow
       ELSE UNCHANGED vars

\* B or Escape.  At the panel there is nothing to leave.
OnBack ==
    /\ Live
    /\ IF dialog.open THEN DialogOnBack
       ELSE IF about
       THEN /\ about' = FALSE
            /\ UNCHANGED <<visible, menuVars, browser, dialog, settingsVars, gameVars, exited>>
       ELSE IF browser.visible
       THEN /\ browser' = BrowserBack(browser, favourite)
            /\ UNCHANGED <<visible, menuVars, about, dialog, settingsVars, gameVars, exited>>
       ELSE IF OverlayActive
       THEN /\ PopOverlay
            /\ UNCHANGED <<visible, browser, about, dialog, settingsVars, gameVars, exited>>
       ELSE UNCHANGED vars
-----------------------------------------------------------------------------
(* Moving the cursor *)

Cursor(row, from) ==
    /\ sel' = row /\ scroll' = from
    /\ UNCHANGED <<visible, overlay, savedPanel, savedOverlay, historyRows, shown, browser, about,
                   dialog, settingsVars, gameVars, exited>>

Browse(b) ==
    /\ browser' = b
    /\ UNCHANGED <<visible, menuVars, about, dialog, settingsVars, gameVars, exited>>

\* The next selectable row upwards or downwards, around the ends.
NextRow(up) ==
    LET len == Len(Items)
        step[s \in 1..len] ==
            LET next == IF up THEN IF s = 1 THEN len ELSE s - 1 ELSE IF s = len THEN 1 ELSE s + 1
            IN  IF Selectable(Items[next]) THEN next ELSE step[next]
    IN  step[sel]

\* The D-pad moves the cursor under an open confirm box as well.
OnDPad(up) ==
    /\ Live
    /\ IF browser.visible THEN Browse(BrowserDPad(browser, up))
       ELSE IF about THEN UNCHANGED vars
       ELSE Cursor(NextRow(up), Follow(scroll, NextRow(up) - 1, MenuVisible))

\* Left chooses Cancel and right OK, if the box has a Cancel and was drawn with it.
OnDPadLeftRight(right) ==
    /\ Live
    /\ IF dialog.open
       THEN /\ dialog' \in {dialog} \cup (IF dialog.confirm THEN {[dialog EXCEPT !.ok = right]} ELSE {})
            /\ UNCHANGED <<visible, menuVars, browser, about, settingsVars, gameVars, exited>>
       ELSE IF Under.action = "TOGGLE_VALUE" /\ Under.enabled
       THEN TurnRow(IF right THEN 1 ELSE -1)
       ELSE UNCHANGED vars

OnPageUp ==
    /\ Live
    /\ IF browser.visible THEN Browse(BrowserPageUp(browser))
       ELSE IF about THEN UNCHANGED vars
       ELSE Cursor(AtLeast(1, sel - MenuVisible), AtLeast(0, scroll - MenuVisible))

OnPageDown ==
    /\ Live
    /\ IF browser.visible THEN Browse(BrowserPageDown(browser))
       ELSE IF about THEN UNCHANGED vars
       ELSE LET row == AtMost(Len(Items), sel + MenuVisible)
            IN  Cursor(row, IF row - 1 >= scroll + MenuVisible THEN row - MenuVisible ELSE scroll)

\* HitTest: the selectable ones of the rows the pointer reaches.
HitRows == {row \in RowsHit(Items, scroll) : Selectable(Items[row])}

HandlePointerMove(row) ==
    /\ Live /\ ~dialog.open
    /\ IF browser.visible THEN Browse(BrowserHover(browser, row))
       ELSE ~about /\ Cursor(row, scroll)

\* A click on the confirm box answers it; one on the about box closes it; one on
\* an entry of the browser confirms it when the cursor was there already.
HandlePointerDown(row) ==
    /\ Live
    /\ IF dialog.open THEN DialogOnConfirm \/ (dialog.confirm /\ DialogOnBack)
       ELSE IF browser.visible
       THEN IF row = browser.sel THEN BrowserAnswer ELSE Browse(BrowserHover(browser, row))
       ELSE IF about
       THEN /\ about' = FALSE
            /\ UNCHANGED <<visible, menuVars, browser, dialog, settingsVars, gameVars, exited>>
       ELSE row = sel /\ ConfirmRow

HandlePointerWheel(up) ==
    /\ Live /\ ~dialog.open
    /\ IF browser.visible THEN Browse(BrowserWheel(browser, up))
       ELSE /\ ~about /\ OverlayActive
            /\ LET row == IF up THEN AtLeast(1, sel - 1) ELSE AtMost(Len(Items), sel + 1)
               IN  Cursor(row, Follow(scroll, row - 1, MenuVisible))
-----------------------------------------------------------------------------
(* Games come and go, frames are drawn *)

\* SetCoreLoaded: the lists are rebuilt when the state changed.
SetCoreLoaded ==
    /\ ~exited /\ coreLoaded # loaded
    /\ coreLoaded' = loaded
    /\ RebuildItems
    /\ UNCHANGED <<visible, savedPanel, historyRows, shown, browser, about, dialog, settingsVars,
                   loaded, request, exited>>

\* The emulation thread loads what was asked for, or cannot.
LoadGame ==
    /\ ~exited /\ request # None /\ ~loaded
    /\ \/ loaded' = TRUE /\ UNCHANGED request
       \/ request' = None /\ UNCHANGED loaded
    /\ UNCHANGED <<visible, menuVars, browser, about, dialog, settingsVars, coreLoaded, exited>>

\* The user interface learns of the load: the menu hides and the game enters
\* the history.
GameStarted ==
    /\ ~exited /\ loaded /\ request # None
    /\ visible' = FALSE
    /\ history' = IF request = <<>> THEN history
                  ELSE AddToHistoryList(history, request)
    /\ request' = None
    /\ coreLoaded' = TRUE
    /\ IF coreLoaded THEN UNCHANGED <<overlay, savedOverlay, sel, scroll>> ELSE RebuildItems
    /\ UNCHANGED <<savedPanel, historyRows, shown, browser, about, dialog, options, favourite,
                   loaded, exited>>

\* The game ended: the menu shows again, as it was left.
GameEnded ==
    /\ ~exited /\ loaded /\ request = None
    /\ loaded' = FALSE /\ visible' = TRUE
    /\ UNCHANGED <<menuVars, browser, about, dialog, settingsVars, coreLoaded, request,
                   exited>>

\* Ctrl+L opens the browser whatever is open, also while a game runs and the menu
\* is hidden.
CtrlL ==
    /\ ~exited
    /\ Browse(OpenBrowser(browser, favourite))

\* The Back of the system goes to the browser past every box, hidden or not.
BackRequested ==
    /\ ~exited
    /\ IF browser.visible THEN Browse(BrowserBack(browser, favourite)) ELSE UNCHANGED vars

\* RenderFullScreen clamps the list of the browser.
Render ==
    /\ Live /\ browser.visible
    /\ Browse(DrawBrowser(browser))

\* The rows the pointer can be over.
PointerRows == IF browser.visible THEN BrowserHit(browser) ELSE HitRows

Next ==
    \/ OnConfirm \/ OnBack \/ OnPageUp \/ OnPageDown \/ CtrlL \/ BackRequested
    \/ \E b \in BOOLEAN : OnDPad(b) \/ OnDPadLeftRight(b) \/ HandlePointerWheel(b)
    \/ \E row \in PointerRows : HandlePointerMove(row) \/ HandlePointerDown(row)
    \/ SetCoreLoaded \/ LoadGame \/ GameStarted \/ GameEnded
    \/ Render

Spec == Init /\ [][Next]_vars
-----------------------------------------------------------------------------
(* Properties *)

Position == [sel : Nat \ {0}, scroll : Nat]

\* Every variable has its type.
TypeOK ==
    /\ visible \in BOOLEAN /\ about \in BOOLEAN /\ coreLoaded \in BOOLEAN
    /\ loaded \in BOOLEAN /\ exited \in BOOLEAN
    /\ overlay \in Seq(SectionTitles \cup {"Settings", "History"})
    /\ sel \in Nat \ {0} /\ scroll \in Nat
    /\ savedPanel \in Position /\ savedOverlay \in Seq(Position)
    /\ options \in [OptionKeys -> {None} \cup 0..(RowSize - 1)]
    /\ shown \in [OptionKeys -> 0..(RowSize - 1)]
    /\ Len(history) <= MaxHistory /\ Len(historyRows) <= MaxHistory
    /\ dialog.open \in BOOLEAN /\ browser.visible \in BOOLEAN

\* The row a press of Confirm takes exists and is one of those drawn, or one the
\* pointer was led to just under them, in the menu and in the browser, wherever
\* the cursor was moved or put back; and so is the highlighted row of every list
\* below, which a press of Back returns to.
CursorShown ==
    /\ PanelDrawn.lit \in PanelDrawn.rows
    /\ \A i \in 1..Len(overlay) : OverlaysDrawn[i].lit \in OverlaysDrawn[i].rows
    /\ BrowserCursorShown(browser)

\* What is open fits what is drawn: the arrays of the overlays have three places,
\* every overlay but the topmost has a saved position, and the about box and the
\* confirm box, drawn over all, are never open both.
LayersFit ==
    /\ Len(overlay) <= 3
    /\ Len(savedOverlay) = IF OverlayActive THEN Len(overlay) - 1 ELSE 0
    /\ ~(about /\ dialog.open)

\* The layers of the menu, and the positions kept for them.
LayersSound == TypeOK /\ LayersFit

\* Every row shows the value that is stored, also after a reset, whichever list
\* was open and whatever happened to the overlays since.
MenuShowsSettings == shown = RowsOf(options)

\* A box is drawn over the open browser, which takes part of the box's input.
Covered == browser.visible /\ (about \/ dialog.open)

\* What a step may change, and by whose word: an option by the row under the
\* cursor with no box open, or by the yes of a box that asks to reset just it; the
\* history and the end of the program by the yes to that question.  The row may be
\* behind the browser that Ctrl+L opened: Left and Right do not ask for it.
Asked ==
    /\ history' = <<>> /\ history # <<>> => dialog.open /\ dialog.asks = "clear history"
    /\ exited' /\ ~exited => dialog.open /\ dialog.asks \in {"exit", "restart"}
    /\ \A k \in OptionKeys : options'[k] # options[k] =>
         \/ /\ ~dialog.open /\ ~about /\ Under = Toggle(k)
            /\ options'[k] = shown'[k] /\ shown'[k] # shown[k]
            /\ browser.visible => \E right \in BOOLEAN : OnDPadLeftRight(right)
         \/ dialog.open /\ dialog.asks \in {"reset all", "reload"} /\ options'[k] = None
         \/ dialog.open /\ options'[k] = DefaultValue[k]
            /\ \E title \in SectionTitles : k \in SectionKeys(title) /\ dialog.asks = ResetSection(title)
    /\ Covered' => Covered \/ CtrlL

\* An option changes only by the row under the cursor, with no box open and the
\* browser over it only for Left and Right, or by the yes of a box that asks to
\* reset just it; the history is cleared and the program ended only by the yes to
\* that question, though lists and cursor may have changed under the box; and the
\* browser comes to be open under a box only by Ctrl+L.
OnlyWhatWasAsked == [][Asked]_vars

\* How far the user is inside the menu.
Inside == Len(overlay) + (IF about THEN 1 ELSE 0) + (IF dialog.open THEN 1 ELSE 0)
          + (IF browser.visible THEN 1 + Len(browser.path) ELSE 0)

\* A press of Back: one step out, and no setting changed.  The Back of the system
\* leads out of the browser only.
LeadsOut ==
    /\ OnBack /\ Inside > 0 => Inside' = Inside - 1
    /\ BackRequested => Inside' = Inside - (IF browser.visible THEN 1 ELSE 0)
    /\ OnBack \/ BackRequested => UNCHANGED <<options, favourite, history>>

\* Back always leads one step out, so that the panel is reached in the end from
\* everywhere, and the Back of the system does so from the browser, under a box or
\* not; neither changes a setting.
BackLeadsOut == [][LeadsOut]_vars

\* README's table of shortcuts: Ctrl+L opens the file browser, to load a game.
\* Where a game runs the menu is hidden and the browser opens unseen.
ShownByCtrlL == [][CtrlL => browser'.visible /\ visible']_vars
=============================================================================
