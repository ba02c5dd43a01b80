--------------------------- MODULE DesktopScreens ---------------------------
(***************************************************************************)
(* The monitors, from Windows to a viewer and back: how they are listed    *)
(* and given ids (desktop/display.rs), fitted into the stream              *)
(* (desktop/native/mod.rs), announced by the signalling session and by the *)
(* writer of the video (desktop_webrtc), what the viewer's pointer hits    *)
(* (assets/desktop-viewer.js), and how a resolution is changed             *)
(* (server/desktop_api.rs).  Lengths are pixels of a small world.          *)
(***************************************************************************)
EXTENDS Integers, FiniteSets, FiniteSetsExt

CONSTANTS
  Displays,     \* the numbers of the display devices; the least is the main one
  Modes,        \* <<width, height>> that a display may have
  Limit,        \* the least mode that can be asked for (640x480)
  Caps,         \* <<max_width, max_height>>, both even (Config::validate)
  MaxChanges    \* bound: how often the monitors change

VARIABLES
  desktop,      \* the monitors: the rectangle of each that is on
  plain,        \* none is rotated, and one adapter drives them all
  changes,      \* how often they have changed
  capture,      \* the producer's geometry
  sent,         \* last_geometry of the writer
  greeting,     \* a hello that is being put together
  view,         \* the viewer's layout
  request       \* a PATCH that sets a resolution

vars == <<desktop, plain, changes, capture, sent, greeting, view, request>>

-----------------------------------------------------------------------------
(***************************************************************************)
(* Windows.                                                                *)
(***************************************************************************)
Main == Min(Displays)
Rect(x, y, mode) == [left |-> x, top |-> y, width |-> mode[1], height |-> mode[2]]

\* The main monitor is at the origin; another is right of it, left of it,
\* below, or stands lower.
Places(mode, main) ==
  {Rect(main[1], 0, mode), Rect(-mode[1], 0, mode), Rect(0, main[2], mode), Rect(main[1], 1, mode)}

Arrangements ==
  UNION {UNION {{[m \in others \cup {Main} |-> IF m = Main THEN Rect(0, 0, main) ELSE place[m]] :
                 place \in [others -> UNION {Places(mode, main) : mode \in Modes}]} :
                others \in SUBSET (Displays \ {Main})} : main \in Modes}

Right(r) == r.left + r.width
Bottom(r) == r.top + r.height
Even(n) == n - (n % 2)

\* The rectangle around all monitors.
Around(d) ==
  LET x == Min({d[m].left : m \in DOMAIN d})
      y == Min({d[m].top : m \in DOMAIN d})
  IN [left |-> x, top |-> y, width |-> Max({Right(d[m]) : m \in DOMAIN d}) - x,
      height |-> Max({Bottom(d[m]) : m \in DOMAIN d}) - y]

\* native_desktop_geometry
Metrics(d) ==
  LET r == Around(d) IN [r EXCEPT !.width = Even(@), !.height = Even(@)]

-----------------------------------------------------------------------------
(***************************************************************************)
(* Fitting, scaling and listing.                                           *)
(***************************************************************************)
Larger(a, b) == IF a > b THEN a ELSE b
Smaller(a, b) == IF a < b THEN a ELSE b
Usable(n) == Even(Larger(n, 2))

\* Mutant of Fit: the wrong side is taken for the tight one.
FitOtherSide(source) ==
  IF source.width <= Caps[1] /\ source.height <= Caps[2]
    THEN [source EXCEPT !.width = Usable(@), !.height = Usable(@)]
    ELSE IF source.width * Caps[2] < source.height * Caps[1]
    THEN [source EXCEPT !.width = Usable(Caps[1]),
                        !.height = Usable((source.height * Caps[1]) \div source.width)]
    ELSE [source EXCEPT !.width = Usable((source.width * Caps[2]) \div source.height),
                        !.height = Usable(Caps[2])]

\* fit_native_desktop_geometry
Fit(source) ==
  IF source.width <= Caps[1] /\ source.height <= Caps[2]
    THEN [source EXCEPT !.width = Usable(@), !.height = Usable(@)]
    ELSE IF source.width * Caps[2] > source.height * Caps[1]
    THEN [source EXCEPT !.width = Usable(Caps[1]),
                        !.height = Usable((source.height * Caps[1]) \div source.width)]
    ELSE [source EXCEPT !.width = Usable((source.width * Caps[2]) \div source.height),
                        !.height = Usable(Caps[2])]

\* Mutant of Id: screens are counted.
IdByPlace(d, m) == <<"display", Cardinality({n \in DOMAIN d : n <= m})>>

\* The id of a screen has the number of its device (display_number).
Id(d, m) == <<"display", m>>

\* normalize_desktop_screens: nothing to choose from with one monitor.
Listed(d) ==
  LET shown == {m \in DOMAIN d : d[m].width > 0 /\ d[m].height > 0}
      corner == Around(d)
  IN IF Cardinality(shown) < 2 THEN {}
     ELSE {[id |-> Id(d, m), display |-> m, x |-> d[m].left - corner.left,
            y |-> d[m].top - corner.top, width |-> d[m].width, height |-> d[m].height] : m \in shown}

Scale(value, source, output) == (value * output + source \div 2) \div source

\* scale_native_desktop_screens
Scaled(screens, source, output) ==
  {LET x == Smaller(Scale(s.x, source.width, output.width), output.width)
       y == Smaller(Scale(s.y, source.height, output.height), output.height)
       right == Smaller(Scale(s.x + s.width, source.width, output.width), output.width)
       bottom == Smaller(Scale(s.y + s.height, source.height, output.height), output.height)
   IN [s EXCEPT !.x = x, !.y = y, !.width = Larger(right - x, 1), !.height = Larger(bottom - y, 1)]
    : s \in screens}

\* windows_display_device_name: the device of an id; without one, the main.
All == <<"all", 0>>
DeviceOf(id) == IF id = All THEN Main ELSE id[2]

-----------------------------------------------------------------------------
NoGeometry == Rect(0, 0, <<0, 0>>)
NoDesktop == [m \in {} |-> NoGeometry]
NoRequest == [stage |-> "none", display |-> Main, mode |-> Limit, options |-> {}, calm |-> FALSE]

\* A layout: the frame, the screens, and (ghosts) the monitors that either
\* was read from.
Layout(frame, source, framed, listing, origin) ==
  [width |-> frame.width, height |-> frame.height, screens |-> Scaled(listing, source, frame),
   framed |-> framed, listed |-> origin]
NoView == Layout(NoGeometry, NoGeometry, NoDesktop, {}, NoDesktop)
NoCapture == [source |-> NoGeometry, frame |-> NoGeometry, of |-> NoDesktop]

\* There is a least display, and one can have the least mode.
ScreensAssumption == Main \in Displays /\ Limit \in Modes /\ Modes \subseteq Nat \X Nat /\ MaxChanges \in Nat

ModeOf(r) == <<r.width, r.height>>

TypeOK ==
  /\ Main \in DOMAIN desktop /\ plain \in BOOLEAN /\ changes \in 0..MaxChanges
  /\ \A d \in {desktop, capture.of, greeting.of, view.framed, view.listed} :
       DOMAIN d \subseteq Displays /\ \A m \in DOMAIN d : ModeOf(d[m]) \in Modes
  /\ \A g \in {sent, capture.frame} : DOMAIN g = DOMAIN NoGeometry
  /\ DOMAIN view = DOMAIN NoView
  /\ request \in [stage: {"none", "tested", "applied", "answered"}, display: Displays, mode: Modes,
                  options: SUBSET [mode: Modes, current: BOOLEAN], calm: BOOLEAN]

Init ==
  /\ desktop = [m \in Displays |-> Rect(IF m = Main THEN 0 ELSE Limit[1], 0, Limit)]
  /\ plain = TRUE /\ changes = 0
  /\ capture = NoCapture /\ sent = NoGeometry /\ greeting = NoCapture /\ view = NoView
  /\ request = NoRequest

Unsettled == request' = [request EXCEPT !.calm = FALSE]

\* Somebody moves, adds or turns a monitor; Windows ends the capture.
Rearrange ==
  /\ changes < MaxChanges /\ changes' = changes + 1
  /\ \E d \in Arrangements : desktop' = d
  /\ \E p \in BOOLEAN : plain' = p
  /\ Unsettled
  /\ UNCHANGED <<capture, sent, greeting, view>>

\* desktop_websocket_session measures the desktop ...
Measure ==
  /\ greeting = NoCapture
  /\ greeting' = [source |-> Metrics(desktop), frame |-> Fit(Metrics(desktop)), of |-> desktop]
  /\ UNCHANGED <<desktop, plain, changes, capture, sent, view, request>>

\* ... lists its screens, and says hello.
Hello ==
  /\ greeting # NoCapture /\ greeting' = NoCapture
  /\ view' = Layout(greeting.frame, greeting.source, greeting.of, Listed(desktop), desktop)
  /\ sent' = NoGeometry
  /\ UNCHANGED <<desktop, plain, changes, capture, request>>

\* A capture takes the rectangle of all outputs, to the pixel, and fits it.
Captured == [source |-> Around(desktop), frame |-> Fit(Around(desktop)), of |-> desktop]

\* select_desktop_adapter: of monitors that stand upright, on one adapter.
StartCapture ==
  /\ plain /\ capture.of # desktop
  /\ capture' = Captured
  /\ UNCHANGED <<desktop, plain, changes, sent, greeting, view, request>>

\* Rotated monitors, several adapters: there is no capture.
CaptureFails ==
  /\ capture # NoCapture /\ capture.of # desktop /\ capture' = NoCapture
  /\ UNCHANGED <<desktop, plain, changes, sent, greeting, view, request>>

\* The writer announces a geometry that is new to the viewer before it sends
\* the frame; what it says while the control channel is not open is lost, and
\* not said again.
Announce ==
  /\ capture # NoCapture /\ view # NoView /\ greeting = NoCapture
  /\ sent # capture.frame /\ sent' = capture.frame
  /\ \/ view' = Layout(capture.frame, capture.source, capture.of, Listed(desktop), desktop)
     \/ UNCHANGED view
  /\ UNCHANGED <<desktop, plain, changes, capture, greeting, request>>

-----------------------------------------------------------------------------
(***************************************************************************)
(* The viewer.                                                             *)
(***************************************************************************)
\* screenOptions: only what lies in the frame, and only if that is a choice.
Offered ==
  LET inside == {s \in view.screens : s.x + s.width <= view.width /\ s.y + s.height <= view.height}
  IN IF Cardinality(inside) > 1 THEN inside ELSE {}

\* set_desktop_resolution refuses what is too small.
Allowed(mode) == mode[1] >= Limit[1] /\ mode[2] >= Limit[2]

\* parse_desktop_action_payload and set_desktop_resolution: the device is
\* that of the id, or the main one, and Windows is asked whether it would.
Ask(id, mode) ==
  /\ request.stage \in {"none", "answered"} /\ Allowed(mode)
  /\ LET m == DeviceOf(id)
     IN m \in DOMAIN desktop
          /\ request' = [NoRequest EXCEPT !.stage = "tested", !.display = m, !.mode = mode]
  /\ UNCHANGED <<desktop, plain, changes, capture, sent, greeting, view>>

Refuse ==
  /\ request.stage = "tested" /\ request' = NoRequest
  /\ UNCHANGED <<desktop, plain, changes, capture, sent, greeting, view>>

\* platform_set_desktop_resolution; Windows moves the others beside it.
Apply ==
  /\ request.stage = "tested" /\ request.display \in DOMAIN desktop
  /\ changes < MaxChanges /\ changes' = changes + 1
  /\ \E d \in Arrangements :
       /\ DOMAIN d = DOMAIN desktop
       /\ \A m \in DOMAIN d :
            <<d[m].width, d[m].height>> = IF m = request.display THEN request.mode
                                          ELSE <<desktop[m].width, desktop[m].height>>
       /\ desktop' = d
  /\ request' = [request EXCEPT !.stage = "applied", !.calm = TRUE]
  /\ UNCHANGED <<plain, capture, sent, greeting, view>>

\* Mutant of Options: the present mode is that of the main display.
OptionsOfMain(m) ==
  LET present == {<<desktop[Main].width, desktop[Main].height>>}
  IN {[mode |-> mode, current |-> mode \in present] :
      mode \in {mode \in Modes : Allowed(mode)} \cup present}

\* platform_desktop_resolutions: what can be asked for, and the present mode.
Options(m) ==
  LET present == IF m \in DOMAIN desktop THEN {<<desktop[m].width, desktop[m].height>>} ELSE {}
  IN {[mode |-> mode, current |-> mode \in present] :
      mode \in {mode \in Modes : Allowed(mode)} \cup present}

\* The answer.
Answer ==
  /\ request.stage = "applied"
  /\ request' = [request EXCEPT !.stage = "answered", !.options = Options(request.display)]
  /\ UNCHANGED <<desktop, plain, changes, capture, sent, greeting, view>>

Next ==
  \/ Rearrange \/ Measure \/ Hello \/ StartCapture \/ CaptureFails \/ Announce
  \/ \E id \in {s.id : s \in Offered} \cup {All}, mode \in Modes : Ask(id, mode)
  \/ Refuse \/ Apply \/ Answer

Spec == Init /\ [][Next]_vars

-----------------------------------------------------------------------------
(***************************************************************************)
(* Properties.                                                             *)
(***************************************************************************)
\* The viewer's frame and screens are those of the monitors as they are.
InTune == view.framed = desktop /\ view.listed = desktop

\* README.md:47: "scaled to fit that box while retaining their aspect ratio":
\* whatever the monitors, the frame has even sides within the caps, and keeps
\* the desktop's shape but for the two pixels that are cut off.
FrameFits ==
  capture # NoCapture =>
    LET f == capture.frame
        s == capture.source
    IN /\ f.width % 2 = 0 /\ f.height % 2 = 0 /\ f.width \in 2..Caps[1] /\ f.height \in 2..Caps[2]
       /\ f.width * s.height - f.height * s.width \in (-2 * s.height)..(2 * s.width)

\* README.md:47: "... and normalized input mapping": a viewer that is in tune
\* is offered every monitor, no two of them overlap, and where it points on
\* a screen is on that monitor (desktop-viewer.js:254, input.rs:83).
PointerLands ==
  InTune =>
    /\ Cardinality(DOMAIN desktop) > 1 => {s.display : s \in Offered} = DOMAIN desktop
    /\ \A s, t \in Offered : s # t =>
         s.x + s.width <= t.x \/ t.x + t.width <= s.x \/ s.y + s.height <= t.y \/ t.y + t.height <= s.y
    /\ \A s \in Offered, q \in 1..3 :
         LET r == desktop[s.display]
             all == Around(desktop)
             across == (4 * s.x + q * s.width) * all.width
             down == (4 * s.y + q * s.height) * all.height
         IN /\ across >= 4 * view.width * (r.left - all.left)
            /\ across <= 4 * view.width * (Right(r) - all.left)
            /\ down >= 4 * view.height * (r.top - all.top)
            /\ down <= 4 * view.height * (Bottom(r) - all.top)

\* A screen that is offered stands for its monitor when a resolution is set,
\* even if monitors have come and gone since it was listed.
IdsLead == \A s \in Offered : DeviceOf(s.id) = s.display

\* When a resolution has been set and nobody has interfered, the viewer is
\* shown the one it asked for as the present one.
ChangeTold ==
  request.stage = "answered" /\ request.calm =>
    {o.mode : o \in {o \in request.options : o.current}} = {request.mode}

\* What makes the last two inductive: a listed screen has the id of its
\* monitor, and while nobody interferes the monitor of a request that was
\* applied has the mode it asked for.
ScreensInv ==
  /\ TypeOK
  /\ \A s \in view.screens : s.id = <<"display", s.display>>
  /\ request.stage = "applied" /\ request.calm =>
       request.display \in DOMAIN desktop /\ ModeOf(desktop[request.display]) = request.mode
  /\ ChangeTold
=============================================================================
