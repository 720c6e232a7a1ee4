--------------------------- MODULE GraphicsDevice ---------------------------
(***************************************************************************)
(* What the frontend draws with, all of it on the UI thread: the Direct3D   *)
(* and Direct2D device with its swap chain (Common/DeviceResources.cpp),    *)
(* the picture of the game (Content/RetroD3D11Renderer.cpp) and the         *)
(* brushes, fonts and bitmaps the menu, its dialogs, the file browser, the  *)
(* loading screen and the overlays keep between two frames.                 *)
(*                                                                          *)
(* The system works against that thread in two ways.  The window changes    *)
(* size, scale and orientation at any time and says so with events that are *)
(* handled one by one, later; and the adapter is removed (driver update,    *)
(* undocked graphics card) between any two calls, which the code learns     *)
(* from the result of the next ResizeBuffers, EndDraw or Present.  Devices  *)
(* are numbered in the order they are created, and whatever was made on a   *)
(* device carries its number.                                               *)
(*                                                                          *)
(* A device that is removed while the next one is being set up ends the     *)
(* application (DX::ThrowIfFailed) and is left out.                         *)
(***************************************************************************)
EXTENDS Integers, FiniteSets

CONSTANTS
  Sizes,         \* the sizes of the window, in DIPs
  Dpis,          \* the scales of the display
  DpiThreshold, WidthThreshold, HeightThreshold,
  Native,        \* the native orientation of the display
  FrameSizes,    \* the resolutions of the game
  Preallocated,  \* the size of the first staging texture
  Overlays,      \* the overlays that come and go
  MaxDevices     \* bound: devices created in a behaviour

None == 0                        \* a null pointer; devices are numbered from 1

Orientations == {"Landscape", "Portrait", "LandscapeFlipped", "PortraitFlipped"}

\* The overlays that may be on the screen, with what each keeps.
Dialogs == {"browser", "about", "box"}
AllOverlays == {"loading", "menu", "cursor", "fps"} \cup Dialogs
Picture == {"shaders", "staging", "texture"}
Kept == Picture \cup AllOverlays

ASSUME DeviceAssumption ==
  /\ Native \in {"Landscape", "Portrait"}
  /\ Overlays \subseteq AllOverlays
  /\ MaxDevices \in Nat \ {0}
  /\ Sizes \cup FrameSizes \cup {Preallocated} \subseteq [w : Nat, h : Nat]
  /\ Dpis \subseteq Nat

VARIABLES
  window,    \* the window as the system has it: [size, dpi, orient]
  pending,   \* the events of it that are posted and not handled
  known,     \* m_logicalSize, m_dpi, m_currentOrientation
  gfx,       \* the device: [device, removed, chain, views, dpi]
  made,      \* which device made each resource that is kept
  picture,   \* sizes: m_frameWidth/Height, m_stagingWidth/Height, quad's screen
  shown,     \* what the next frame shows
  phase,     \* where the UI loop is
  drawn      \* the resources this frame has used

deviceVars == <<window, pending, known, gfx, made, picture, shown, phase, drawn>>

Nothing == [w |-> 0, h |-> 0]
Windows == [size : Sizes, dpi : Dpis, orient : Orientations]
Larger(a, b) == IF a > b THEN a ELSE b
Smaller(a, b) == IF a > b THEN b ELSE a
Flip(s) == [w |-> s.h, h |-> s.w]

----------------------------------------------------------------------------
(* The swap chain and what hangs from it                                    *)

\* UpdateRenderTargetSize: on a large display of high density half the
\* density is rendered and the system scales the result.
EffectiveDpi(k) ==
  LET width == k.size.w * k.dpi
      height == k.size.h * k.dpi
  IN  IF /\ k.dpi > DpiThreshold
         /\ Larger(width, height) > WidthThreshold
         /\ Smaller(width, height) > HeightThreshold
      THEN k.dpi \div 2 ELSE k.dpi

\* and no side of the target is empty.
OutputSize(k) ==
  [w |-> Larger(k.size.w * EffectiveDpi(k), 1),
   h |-> Larger(k.size.h * EffectiveDpi(k), 1)]

\* ComputeDisplayRotation, in degrees.
Rotation(orient) ==
  CASE Native = "Landscape" /\ orient = "Landscape" -> 0
    [] Native = "Landscape" /\ orient = "Portrait" -> 270
    [] Native = "Landscape" /\ orient = "LandscapeFlipped" -> 180
    [] Native = "Landscape" /\ orient = "PortraitFlipped" -> 90
    [] Native = "Portrait" /\ orient = "Landscape" -> 90
    [] Native = "Portrait" /\ orient = "Portrait" -> 0
    [] Native = "Portrait" /\ orient = "LandscapeFlipped" -> 270
    [] Native = "Portrait" /\ orient = "PortraitFlipped" -> 180

RenderTargetSize(k) ==
  IF Rotation(k.orient) \in {90, 270} THEN Flip(OutputSize(k)) ELSE OutputSize(k)

\* CreateWindowSizeDependentResources when nothing is lost: the old views are
\* dropped, and the swap chain is resized, or made anew on the present device.
ResizedChain(g, k) ==
  [device |-> IF g.chain.device = None THEN g.device ELSE g.chain.device,
   size |-> RenderTargetSize(k), rotation |-> Rotation(k.orient)]

\* The buffers are viewed again, for Direct3D and for Direct2D,
NewViews(g, k) == [device |-> g.device, size |-> RenderTargetSize(k)]

\* after the chain was turned as the display is.
Resized(g, k) ==
  [g EXCEPT !.chain = ResizedChain(g, k), !.views = NewViews(g, k), !.dpi = EffectiveDpi(k)]

\* CreateDeviceResources: a new device with its two contexts.
Created(g) == [g EXCEPT !.device = @ + 1, !.removed = FALSE]

\* HandleDeviceLost.  OnDeviceLost and OnDeviceRestored are the frontend's.
NoChain == [device |-> None, size |-> Nothing, rotation |-> 0]

\* Mutant of Recovered: the swap chain of the lost device is kept.
RecoveredWithChain(g, k) == Resized(Created(g), k)

Recovered(g, k) == Resized(Created([g EXCEPT !.chain = NoChain]), k)

\* CreateWindowSizeDependentResources: ResizeBuffers of a removed device fails,
\* and HandleDeviceLost does all the rest.
Rebuilt(g, k) == IF g.removed THEN Recovered(g, k) ELSE Resized(g, k)

\* OnDeviceLost: the frontend lets go of the loading disc.  (Its other
\* renderer, m_retroScreen, is never given a picture.)
Released(m, lost) == IF lost THEN [m EXCEPT !["loading"] = None] ELSE m

----------------------------------------------------------------------------
(* The window                                                               *)

\* The main object compiles its shaders and makes the first staging texture
\* as soon as the device and the window are there.  Whether the texture could
\* be made is not looked at, its size is recorded either way.
DeviceInit ==
  /\ window \in Windows
  /\ pending = {}
  /\ known = window
  /\ gfx = Resized([device |-> 1, removed |-> FALSE, chain |-> NoChain,
                    views |-> [device |-> None, size |-> Nothing], dpi |-> 0],
                   window)
  /\ \E preallocated \in {1, None} :
       made = [r \in Kept |-> CASE r = "shaders" -> 1
                               [] r = "staging" -> preallocated
                               [] OTHER -> None]
  /\ picture = [frame |-> Nothing, staging |-> Preallocated, screen |-> Nothing]
  /\ shown = {"menu"}
  /\ phase = "events"
  /\ drawn = {}

\* The system changes the window and posts an event for each part of it that
\* is not what it was.  The size in DIPs changes with the scale.
WindowChanges ==
  /\ \E w \in Windows \ {window} :
       /\ window' = w
       /\ pending' = pending
            \cup (IF w.size # window.size THEN {"size"} ELSE {})
            \cup (IF w.dpi # window.dpi THEN {"dpi"} ELSE {})
            \cup (IF w.orient # window.orient THEN {"orient"} ELSE {})
  /\ UNCHANGED <<known, gfx, made, picture, shown, phase, drawn>>

\* The adapter goes, in the middle of whatever the thread does.
DeviceRemoved ==
  /\ ~ gfx.removed
  /\ gfx.device < MaxDevices
  /\ gfx' = [gfx EXCEPT !.removed = TRUE]
  /\ UNCHANGED <<window, pending, known, made, picture, shown, phase, drawn>>

\* App hands an event to DeviceResources, which rebuilds what depends on the
\* window if the event says something new.
Learn(event, k) ==
  /\ phase = "events"
  /\ event \in pending
  /\ pending' = pending \ {event}
  /\ known' = k
  /\ gfx' = IF k = known THEN gfx ELSE Rebuilt(gfx, k)
  /\ made' = Released(made, k # known /\ gfx.removed)
  /\ UNCHANGED <<window, picture, shown, phase, drawn>>

\* SetLogicalSize
SetLogicalSize == Learn("size", [known EXCEPT !.size = window.size])

\* SetDpi reads the size of the window again, but only for a new scale.
SetDpi ==
  Learn("dpi", IF known.dpi = window.dpi THEN known
               ELSE [known EXCEPT !.dpi = window.dpi, !.size = window.size])

\* Mutant of SetCurrentOrientation: a turn by half a circle, which leaves the
\* sides as they are, is taken for no news.
TurnBySides ==
  Learn("orient", IF RenderTargetSize([known EXCEPT !.orient = window.orient])
                       = RenderTargetSize(known)
                  THEN known
                  ELSE [known EXCEPT !.orient = window.orient])

\* SetCurrentOrientation
SetCurrentOrientation ==
  Learn("orient", [known EXCEPT !.orient = window.orient])

\* ValidateDevice, on DisplayContentsInvalidated: another default adapter, or
\* a removed device, is a lost device.
ValidateDevice ==
  /\ phase = "events"
  /\ gfx.device < MaxDevices
  /\ gfx' = Recovered(gfx, known)
  /\ made' = Released(made, TRUE)
  /\ UNCHANGED <<window, pending, known, picture, shown, phase, drawn>>

----------------------------------------------------------------------------
(* What is on the screen                                                    *)

\* ReleaseResources: the menu lets go of its dialogs' resources too, but only
\* when it has its own.
ReleaseMenu(m) ==
  IF m["menu"] = None THEN m
  ELSE [r \in Kept |-> IF r \in {"menu"} \cup Dialogs THEN None ELSE m[r]]
ReleaseBox(m)         == [m EXCEPT !["box"] = None]
ReleaseLoadingDisc(m) == [m EXCEPT !["loading"] = None]

\* Events and Update put overlays up; the box is opened with nothing kept.
Show(part) ==
  /\ phase = "events"
  /\ part \notin shown
  /\ part \in Dialogs => "menu" \in shown
  /\ shown' = shown \cup {part}
  /\ made' = IF part = "box" THEN ReleaseBox(made) ELSE made
  /\ UNCHANGED <<window, pending, known, gfx, picture, phase, drawn>>

\* They take them down: the menu, the box and the loading screen let go of
\* what they keep; but the menu that is left for a game of the history, or to
\* close the application, is only made invisible.
Hide(part) ==
  /\ phase = "events"
  /\ part \in shown
  /\ shown' = shown \ {part}
  /\ made' \in CASE part = "menu"    -> {ReleaseMenu(made), made}
                [] part = "box"     -> {ReleaseBox(made)}
                [] part = "loading" -> {ReleaseLoadingDisc(made)}
                [] OTHER            -> {made}
  /\ UNCHANGED <<window, pending, known, gfx, picture, phase, drawn>>

----------------------------------------------------------------------------
(* A frame                                                                  *)

\* Mutant of Exceeds: the staging texture is remade only for a frame that is
\* larger both ways.
ExceedsBothWays(a, b) == a.w > b.w /\ a.h > b.h

Exceeds(a, b) == a.w > b.w \/ a.h > b.h

\* UpdateVideoFrame for another resolution: the texture and the quad are made
\* anew, and the staging texture if the frame does not fit.  Without the
\* texture the call gives up.  Of the staging texture the result is not looked
\* at: if it could not be made there is none, with the size of the frame.
RemakeTextures(f) ==
  \/ /\ made' = [made EXCEPT !["texture"] = None]
     /\ UNCHANGED picture
  \/ /\ ~ gfx.removed
     /\ picture' = [frame |-> f, screen |-> known.size,
                    staging |-> IF made["staging"] = None \/ Exceeds(f, picture.staging)
                                THEN f ELSE picture.staging]
     /\ \E staging \in IF made["staging"] = None \/ Exceeds(f, picture.staging)
                       THEN {gfx.device, None} ELSE {made["staging"]} :
          made' = [made EXCEPT !["texture"] = gfx.device, !["staging"] = staging]

UpdateVideoFrame(f) ==
  IF made["texture"] = None \/ picture.frame # f
  THEN RemakeTextures(f)
  ELSE UNCHANGED <<made, picture>>

\* With a game loaded the newest frame is uploaded if there is one, by way of
\* the staging texture if there is one,
Upload(f) ==
  /\ UpdateVideoFrame(f)
  /\ drawn' = CASE made'["texture"] = None -> {}
                [] made'["staging"] = None -> Picture \ {"staging"}
                [] OTHER                   -> Picture

\* and the quad is drawn once there is a texture: Render, first half.
DrawGame ==
  /\ phase = "events"
  /\ phase' = "overlays"
  /\ \/ \E f \in FrameSizes : Upload(f)
     \/ /\ drawn' = IF made["texture"] = None THEN {} ELSE Picture \ {"staging"}
        /\ UNCHANGED <<made, picture>>
  /\ UNCHANGED <<window, pending, known, gfx, shown>>

\* without a game there is only the cleared target.
DrawNoGame ==
  /\ phase = "events"
  /\ phase' = "overlays"
  /\ drawn' = {}
  /\ UNCHANGED <<window, pending, known, gfx, made, picture, shown>>

\* Made once, and made again only when it was let go: what a part lacks is made
\* on the present device, and then drawn with.  f is the frame so far: what is
\* kept and what was drawn with.
Use(f, part) ==
  [made |-> IF f.made[part] = None THEN [f.made EXCEPT ![part] = gfx.device] ELSE f.made,
   drawn |-> f.drawn \cup {part}]

\* EnsureResources of the menu, of its dialogs and of the loading screen.
EnsureMenu(f)        == Use(f, "menu")
EnsureBrowser(f)     == Use(f, "browser")
EnsureAbout(f)       == Use(f, "about")
EnsureBox(f)         == Use(f, "box")
EnsureLoadingDisc(f) == Use(f, "loading")

RenderBrowser(f) == IF "browser" \in shown THEN EnsureBrowser(f) ELSE f
RenderAbout(f)   == IF "about" \in shown THEN EnsureAbout(f) ELSE f
RenderBox(f)     == IF "box" \in shown THEN EnsureBox(f) ELSE f

\* The menu, and the dialogs over it once its boot animation is over.
RenderFullScreen(f, booted) ==
  IF "menu" \notin shown THEN f
  ELSE IF booted THEN RenderBox(RenderAbout(RenderBrowser(EnsureMenu(f))))
  ELSE EnsureMenu(f)

RenderCursor(f) == IF "cursor" \in shown THEN Use(f, "cursor") ELSE f
RenderFps(f)    == IF "fps" \in shown THEN Use(f, "fps") ELSE f

\* The loading screen takes the place of all the others.
RenderLoadingScreen(f) == EnsureLoadingDisc(f)

\* Render, second half.
DrawOverlays ==
  /\ phase = "overlays"
  /\ phase' = "drawn"
  /\ \E booted \in BOOLEAN :
       LET before == [made |-> made, drawn |-> drawn]
           frame == IF "loading" \in shown THEN RenderLoadingScreen(before)
                    ELSE RenderFps(RenderCursor(RenderFullScreen(before, booted)))
       IN  made' = frame.made /\ drawn' = frame.drawn
  /\ UNCHANGED <<window, pending, known, gfx, picture, shown>>

\* EndDraw reports a removed device; only the brush of the cursor is let go.
EndDraw ==
  /\ phase = "drawn"
  /\ phase' = "present"
  /\ made' = IF gfx.removed THEN [made EXCEPT !["cursor"] = None] ELSE made
  /\ drawn' = {}
  /\ UNCHANGED <<window, pending, known, gfx, picture, shown>>

\* Present, and HandleDeviceLost if it reports a removed device.
Present ==
  /\ phase = "present"
  /\ phase' = "events"
  /\ gfx' = IF gfx.removed THEN Recovered(gfx, known) ELSE gfx
  /\ made' = Released(made, gfx.removed)
  /\ UNCHANGED <<window, pending, known, picture, shown, drawn>>

DeviceNext ==
  \/ WindowChanges \/ DeviceRemoved
  \/ SetLogicalSize \/ SetDpi \/ SetCurrentOrientation \/ ValidateDevice
  \/ \E part \in Overlays : Show(part) \/ Hide(part)
  \/ DrawGame \/ DrawNoGame \/ DrawOverlays \/ EndDraw \/ Present

DeviceSpec == DeviceInit /\ [][DeviceNext]_deviceVars

----------------------------------------------------------------------------
(* Properties                                                               *)

\* Every part of the state has its type; the target is never empty, the code
\* "Prevent[s] zero size DirectX content from being created".
DeviceTypeOK ==
  LET Pixels == [w : Nat \ {0}, h : Nat \ {0}]
      FrameSize == FrameSizes \cup {Nothing}
  IN  /\ window \in Windows /\ known \in Windows
      /\ pending \subseteq {"size", "dpi", "orient"}
      /\ gfx \in [device : 1..MaxDevices, removed : BOOLEAN,
                  chain : [device : 1..MaxDevices, size : Pixels,
                           rotation : {0, 90, 180, 270}],
                  views : [device : 1..MaxDevices, size : Pixels], dpi : Nat]
      /\ made \in [Kept -> 0..MaxDevices]
      /\ picture \in [frame : FrameSize, staging : FrameSize \cup {Preallocated},
                      screen : Sizes \cup {Nothing}]
      /\ shown \subseteq AllOverlays
      /\ phase \in {"events", "overlays", "drawn", "present"}
      /\ drawn \subseteq Kept

\* The swap chain and the views of its buffers always belong to the device the
\* frontend draws with and to each other, whichever call found the last
\* device gone, ResizeBuffers in the middle of a rebuild included
\* (DeviceResources.cpp:244-463, 607-624); and the disc of the loading
\* screen, which OnDeviceLost names, is never one of an earlier device.
OneDevice ==
  /\ gfx.chain.device = gfx.device
  /\ gfx.views = [device |-> gfx.device, size |-> gfx.chain.size]
  /\ made["loading"] \in {None, gfx.device}

\* The device, and what was made on it.
DeviceSound == DeviceTypeOK /\ OneDevice

\* Once the posted events are handled, in whatever order they came and
\* whatever device was lost between them, the target has the window's size at
\* the density Direct2D draws with, on its side when the display is, and the
\* swap chain turns by as many quarters as lie between the native orientation
\* and the present one.
TargetFollowsWindow ==
  LET quarter == [o \in Orientations |->
                    CASE o = "Landscape" -> 0 [] o = "Portrait" -> 1
                      [] o = "LandscapeFlipped" -> 2 [] OTHER -> 3]
      turn == (quarter[Native] - quarter[window.orient]) % 4
      pixels == [w |-> Larger(window.size.w * gfx.dpi, 1),
                 h |-> Larger(window.size.h * gfx.dpi, 1)]
  IN  pending = {} =>
        /\ gfx.chain.size = IF turn % 2 = 1 THEN Flip(pixels) ELSE pixels
        /\ gfx.chain.rotation = 90 * turn

\* A frame that is copied fits the staging texture it is copied to and the
\* texture it goes to, whatever resolutions came before it, whichever texture
\* could not be made, and although a size is recorded for a staging texture
\* that is not there (RetroD3D11Renderer.cpp:118-134, 165-262): the copy takes
\* every row of the frame.
PictureFits ==
  made["texture"] # None =>
    /\ picture.frame \in FrameSizes
    /\ made["staging"] # None =>
         /\ picture.frame.w =< picture.staging.w
         /\ picture.frame.h =< picture.staging.h

\* What a frame is drawn with was made on the device it is drawn on:
\* DeviceResources.cpp:606, "Recreate all device resources and set them back
\* to the current state".
DrawnOnItsDevice == \A r \in drawn : made[r] = gfx.device

=============================================================================
