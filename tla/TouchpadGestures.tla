--------------------------- MODULE TouchpadGestures ---------------------------
(***************************************************************************)
(* The touch-to-mouse state machine of the launcher (input/touchpad): the  *)
(* interceptor that routes each touch sample, the one-finger handlers of   *)
(* TOUCH and MOUSE mode, the two-finger scroll handler, their two timers,  *)
(* and what all of it leaves behind on the X server.                       *)
(*                                                                         *)
(* Touch samples and timers run on the one UI thread, so a handler is one  *)
(* atomic action.  Coordinates are abstracted to what the handlers decide  *)
(* on: a touch maps to a framebuffer position of Pos or to Outside the     *)
(* rendered image; `far' says that travel passed the tap slop, `near' that *)
(* a touch is close to the previous tap in time and space; dy is the       *)
(* two-finger travel since the previous sample.                            *)
(***************************************************************************)
EXTENDS Integers, FiniteSets

CONSTANTS
  Pos,              \* framebuffer positions the model tells apart
  Origin,           \* where setCursor puts the cursor before the first frame
  Center,           \* the middle of the framebuffer
  Outside,          \* a touch on the letterbox bars (toFramebuffer = null)
  MaxFingers,       \* bound: fingers on the screen at once
  Notch,            \* scrollNotchPx, in units of travel
  MaxDy,            \* bound: two-finger travel between two samples
  ToggleMidGesture, \* may the mode button be hit while a finger is down?
  TouchOutside      \* may a touch be outside the rendered image?

ASSUME PosAssumption ==
  /\ Origin \in Pos /\ Center \in Pos
  /\ Outside \notin Pos
ASSUME BoundsAssumption ==
  /\ MaxFingers \in Nat \ {0}
  /\ Notch \in Nat \ {0}
  /\ MaxDy \in Nat
ASSUME SwitchesAssumption ==
  /\ ToggleMidGesture \in BOOLEAN
  /\ TouchOutside \in BOOLEAN

HoldActions == {"TAP_TAP_HOLD", "GRAB_DRAG", "RIGHT_CLICK"}
NoTimer     == "off"
Fingers     == 0 .. MaxFingers - 1
Effects     == {"motion", "press", "release", "right", "wheelUp", "wheelDown"}
Touches     == IF TouchOutside THEN Pos \union {Outside} ELSE Pos

VARIABLES
  state,         \* TouchpadPointerState, shared by all handlers
  longPress,     \* TOKEN_LONG_PRESS: off, or the hold action it captured
  twoFingerHold, \* TOKEN_TWO_FINGER_HOLD: is the timer posted?
  holdPending,   \* ScrollGestureHandler.holdPending
  holdAction,    \* LauncherSettings.holdAction
  sprite,        \* where the renderer draws the pointer
  layout,        \* renderer geometry: none, surface (no frame yet), frame
  link,          \* LauncherActivity.client and whether its session runs
  greeting,      \* the onConnected callback: not yet, posted, done
  crashed,       \* an exception escaped onTouch and ended the process
  fingers,       \* pointer ids down on the view
  server,        \* the X server: left button held?, pointer position
  sent,          \* effects the last step sent to the X server
  multi,         \* history: onTouch saw two fingers in this gesture
  scrollBase     \* history: pointers whose latest sample scrollLastY holds

vars == <<state, longPress, twoFingerHold, holdPending, holdAction, sprite,
          layout, link, greeting, crashed, fingers, server, sent, multi,
          scrollBase>>
timers == <<longPress, twoFingerHold, holdPending>>
app    == <<holdAction, layout, link, greeting>>

(***************************************************************************)
(* The sink: events reach the X server only while a session is live.       *)
(* Within one handler a press always precedes a release.                   *)
(***************************************************************************)
LeftAfter(effects) ==
  IF "release" \in effects THEN FALSE
  ELSE IF "press" \in effects THEN TRUE ELSE server.left

Emit(effects, at) ==
  /\ sent' = effects
  /\ server' = IF link # "live" THEN server
               ELSE [left |-> LeftAfter(effects),
                     ptr  |-> IF "motion" \in effects THEN at ELSE server.ptr]

Quiet == Emit({}, Origin)

Several == ~ \A f, g \in fingers : f = g
Single  == fingers # {} /\ ~Several

(* The two pointers of index 0 and 1: the smallest ids that are down. *)
Pair(S) == {i \in S : Cardinality({j \in S : j < i}) < 2}

InitialState ==
  [mouseMode |-> FALSE, cursor |-> Origin, dragged |-> FALSE,
   grabbing |-> FALSE, recentTapCount |-> 0, rightClicked |-> FALSE,
   scrolling |-> FALSE, scrollAccum |-> 0, twoFingerRightClicked |-> FALSE,
   directPressed |-> FALSE]

Init ==
  /\ state = InitialState
  /\ longPress = NoTimer /\ twoFingerHold = FALSE /\ holdPending = FALSE
  /\ holdAction \in HoldActions
  /\ sprite = Origin /\ layout = "none"
  /\ link = "none" /\ greeting = "no" /\ crashed = FALSE
  /\ fingers = {}
  /\ \E p \in Pos : server = [left |-> FALSE, ptr |-> p]
  /\ sent = {} /\ multi = FALSE /\ scrollBase = {}

-------------------------------------------------------------------------------
(***************************************************************************)
(* MouseGestureHandler: one finger in MOUSE mode.                          *)
(***************************************************************************)
Ignored == UNCHANGED <<state, timers, sprite, crashed>> /\ Quiet

MouseDown(near) ==
  LET taps   == IF near THEN state.recentTapCount ELSE 0
      grab   == holdAction = "TAP_TAP_HOLD" /\ taps >= 1
  IN  /\ state' = [state EXCEPT !.dragged = FALSE, !.rightClicked = FALSE,
                                !.grabbing = grab, !.recentTapCount = taps]
      /\ longPress' = IF grab THEN longPress ELSE holdAction
      /\ Emit(IF grab THEN {"motion", "press"} ELSE {}, state.cursor)
      /\ UNCHANGED <<twoFingerHold, holdPending, sprite, crashed>>

MouseMove(far, to) ==
  LET drags == far /\ ~state.dragged
      moved == to # state.cursor
  IN  /\ state' = [state EXCEPT !.dragged = @ \/ far, !.cursor = to,
                                !.recentTapCount = IF drags THEN 0 ELSE @]
      /\ longPress' = IF drags THEN NoTimer ELSE longPress
      /\ sprite' = IF moved THEN to ELSE sprite
      /\ Emit(IF moved THEN {"motion"} ELSE {}, to)
      /\ UNCHANGED <<twoFingerHold, holdPending, crashed>>

TapsAfterUpCounting(tap) ==
  IF state.grabbing THEN 0
  ELSE IF tap THEN state.recentTapCount + 1 ELSE state.recentTapCount

TapsAfterUp(tap) ==
  IF state.grabbing THEN 0 ELSE IF tap THEN 1 ELSE state.recentTapCount

MouseUp ==
  LET tap == ~state.grabbing /\ ~state.rightClicked /\ ~state.dragged
  IN  /\ state' = [state EXCEPT !.grabbing = FALSE, !.dragged = FALSE,
                                !.recentTapCount = TapsAfterUp(tap)]
      /\ longPress' = NoTimer
      /\ sprite' = IF tap THEN state.cursor ELSE sprite
      /\ Emit(IF state.grabbing THEN {"release"}
              ELSE IF tap THEN {"motion", "press", "release"} ELSE {},
              state.cursor)
      /\ UNCHANGED <<twoFingerHold, holdPending, crashed>>

MouseCancelKeepsGrab ==
  /\ state' = [state EXCEPT !.dragged = FALSE, !.recentTapCount = 0]
  /\ longPress' = NoTimer
  /\ Quiet
  /\ UNCHANGED <<twoFingerHold, holdPending, sprite, crashed>>

MouseCancel ==
  /\ state' = [state EXCEPT !.grabbing = FALSE, !.dragged = FALSE,
                            !.recentTapCount = 0]
  /\ longPress' = NoTimer
  /\ Emit(IF state.grabbing THEN {"release"} ELSE {}, Origin)
  /\ UNCHANGED <<twoFingerHold, holdPending, sprite, crashed>>

(***************************************************************************)
(* DirectGestureHandler: one finger in TOUCH mode.  toFramebuffer is null  *)
(* before the first layout and outside the image.  Between the first       *)
(* layout and the first frame the viewport is the whole surface but the    *)
(* framebuffer is 0 wide, and coerceIn(0, -1) throws.                      *)
(***************************************************************************)
Direct(p, pressed, effects) ==
  \/ /\ layout = "none" \/ (layout = "frame" /\ p = Outside)
     /\ Ignored
  \/ /\ layout = "surface"
     /\ crashed' = TRUE
     /\ Quiet
     /\ UNCHANGED <<state, timers, sprite>>
  \/ /\ layout = "frame" /\ p # Outside
     /\ state' = [state EXCEPT !.directPressed = pressed]
     /\ sprite' = p
     /\ Emit(effects, p)
     /\ UNCHANGED <<timers, crashed>>

DirectDown(p) == Direct(p, TRUE, {"motion", "press"})
DirectMove(p) == Direct(p, state.directPressed, {"motion"})
DirectUp(p)   == Direct(p, FALSE, {"motion", "release"})

(***************************************************************************)
(* TouchpadInputInterceptor.onTouch for a sample with one pointer.         *)
(***************************************************************************)
ScrollTail(ends) ==
  /\ state' = IF ends THEN [state EXCEPT !.scrolling = FALSE, !.scrollAccum = 0]
              ELSE state
  /\ Quiet
  /\ UNCHANGED <<timers, sprite, crashed>>

OneFinger(mouse, direct, ends) ==
  IF link = "none" THEN Ignored
  ELSE IF state.scrolling THEN ScrollTail(ends)
  ELSE IF ~state.mouseMode THEN direct
  ELSE IF layout # "frame" THEN Ignored ELSE mouse

(***************************************************************************)
(* onTouch for a sample with two or more pointers: drop whatever one       *)
(* finger held, then ScrollGestureHandler.handle.                          *)
(***************************************************************************)
OneFingerDropped ==
  [state EXCEPT !.grabbing = FALSE, !.directPressed = FALSE,
                !.recentTapCount = 0]

DropSilently == {}

DropEffects == IF state.grabbing \/ state.directPressed THEN {"release"} ELSE {}

CancelHoldForgotten == UNCHANGED <<twoFingerHold, holdPending>>

CancelHoldKeepsFlag ==
  /\ twoFingerHold' = (twoFingerHold /\ ~holdPending)
  /\ UNCHANGED holdPending

CancelHold ==
  /\ twoFingerHold' = (twoFingerHold /\ ~holdPending)
  /\ holdPending' = FALSE

ScrollPointerDown ==
  /\ state' = [OneFingerDropped EXCEPT !.scrolling = TRUE, !.scrollAccum = 0,
                                       !.twoFingerRightClicked = FALSE]
  /\ twoFingerHold' = (twoFingerHold \/ state.mouseMode)
  /\ holdPending' = (holdPending \/ state.mouseMode)
  /\ longPress' = NoTimer
  /\ Emit(DropEffects, Origin)

(* What is left of the travel t once whole notches became wheel clicks. *)
Remainder(t) == IF t < 0 THEN -((-t) % Notch) ELSE t % Notch

ScrollMove(dy, far) ==
  LET t      == state.scrollAccum + dy
      counts == state.scrolling /\ ~state.twoFingerRightClicked
      wheels == IF ~counts THEN {}
                ELSE IF t <= -Notch THEN {"wheelDown"}
                ELSE IF t >= Notch THEN {"wheelUp"} ELSE {}
  IN  /\ state' = [OneFingerDropped EXCEPT
                     !.scrolling = TRUE,
                     !.scrollAccum = IF counts THEN Remainder(t) ELSE @]
      /\ IF state.scrolling /\ far THEN CancelHold
         ELSE UNCHANGED <<twoFingerHold, holdPending>>
      /\ longPress' = NoTimer
      /\ Emit(DropEffects \union wheels, Origin)

ScrollEndKeepsCarry ==
  /\ state' = [OneFingerDropped EXCEPT !.scrolling = FALSE]
  /\ CancelHold
  /\ longPress' = NoTimer
  /\ Emit(DropEffects, Origin)

ScrollEndKeepsScrolling ==
  /\ state' = [OneFingerDropped EXCEPT !.scrollAccum = 0]
  /\ CancelHold
  /\ longPress' = NoTimer
  /\ Emit(DropEffects, Origin)

ScrollEnd ==
  /\ state' = [OneFingerDropped EXCEPT !.scrolling = FALSE, !.scrollAccum = 0]
  /\ CancelHold
  /\ longPress' = NoTimer
  /\ Emit(DropEffects, Origin)

TwoFingers(handler) ==
  /\ IF link = "none" THEN UNCHANGED <<state, timers>> /\ Quiet ELSE handler
  /\ UNCHANGED <<sprite, crashed>>

-------------------------------------------------------------------------------
(***************************************************************************)
(* The touch stream Android delivers to glView: DOWN, then POINTER_DOWN /  *)
(* MOVE / POINTER_UP, then UP -- or CANCEL, which ends the stream at once. *)
(* A POINTER_UP sample still counts the finger that lifts.                 *)
(***************************************************************************)
Down(p, near) ==
  /\ ~crashed /\ fingers = {}
  /\ fingers' = {0} /\ multi' = FALSE /\ scrollBase' = {}
  /\ OneFinger(MouseDown(near), DirectDown(p), FALSE)
  /\ UNCHANGED app

PointerDown(f) ==
  /\ ~crashed /\ fingers # {} /\ f \notin fingers
  /\ \A g \in Fingers : g < f => g \in fingers
  /\ fingers' = fingers \union {f} /\ multi' = (multi \/ link # "none")
  /\ scrollBase' = IF link = "none" THEN {} ELSE Pair(fingers')
  /\ TwoFingers(ScrollPointerDown)
  /\ UNCHANGED app

OneFingerMove(p, far, to) ==
  /\ ~crashed /\ Single
  /\ OneFinger(MouseMove(far, to), DirectMove(p), FALSE)
  /\ scrollBase' = {}
  /\ UNCHANGED <<app, fingers, multi>>

TwoFingerMove(dy, far) ==
  /\ ~crashed /\ Several
  /\ TwoFingers(ScrollMove(dy, far))
  /\ scrollBase' = IF link = "none" \/ (state.scrolling /\ state.twoFingerRightClicked)
                   THEN {} ELSE Pair(fingers)
  /\ UNCHANGED <<app, fingers, multi>>

PointerUp(f) ==
  /\ ~crashed /\ Several /\ f \in fingers
  /\ fingers' = fingers \ {f}
  /\ TwoFingers(ScrollEnd)
  /\ UNCHANGED <<app, multi, scrollBase>>

Up(p) ==
  /\ ~crashed /\ Single
  /\ fingers' = {} /\ multi' = FALSE
  /\ OneFinger(MouseUp, DirectUp(p), TRUE)
  /\ UNCHANGED <<app, scrollBase>>

Cancel(p) ==
  /\ ~crashed /\ fingers # {}
  /\ fingers' = {} /\ multi' = FALSE
  /\ IF Several THEN TwoFingers(ScrollEnd)
     ELSE OneFinger(MouseCancel, DirectUp(p), TRUE)
  /\ UNCHANGED <<app, scrollBase>>

(***************************************************************************)
(* The two timers, posted on the UI thread's Handler.                      *)
(***************************************************************************)
HoldWithoutMotion(acts, grab) ==
  IF ~acts THEN {} ELSE IF grab THEN {"press"} ELSE {"right"}

HoldEffects(acts, grab) ==
  IF ~acts THEN {} ELSE IF grab THEN {"motion", "press"} ELSE {"motion", "right"}

LongPressFires ==
  LET acts == ~state.dragged /\ ~state.grabbing /\ ~state.rightClicked
      grab == longPress = "GRAB_DRAG"
  IN  /\ ~crashed /\ longPress # NoTimer
      /\ longPress' = NoTimer
      /\ state' = [state EXCEPT !.grabbing = @ \/ (acts /\ grab),
                                !.rightClicked = @ \/ (acts /\ ~grab)]
      /\ Emit(HoldEffects(acts, grab), state.cursor)
      /\ UNCHANGED <<app, twoFingerHold, holdPending, sprite, crashed, fingers,
                     multi, scrollBase>>

TwoFingerHoldFires ==
  /\ ~crashed /\ twoFingerHold
  /\ twoFingerHold' = FALSE /\ holdPending' = FALSE
  /\ state' = [state EXCEPT !.twoFingerRightClicked = TRUE]
  /\ Emit({"motion", "right"}, state.cursor)
  /\ UNCHANGED <<app, longPress, sprite, crashed, fingers, multi, scrollBase>>

(***************************************************************************)
(* The rest of LauncherActivity that touches this state: the mode button,  *)
(* the settings dialog, and the client's life.                             *)
(***************************************************************************)
SetCursor(mode, p) ==
  /\ state' = [state EXCEPT !.mouseMode = mode, !.cursor = p]
  /\ sprite' = p

ToggleMode ==
  /\ ~crashed
  /\ ToggleMidGesture \/ fingers = {}
  /\ SetCursor(~state.mouseMode, IF layout = "frame" THEN Center ELSE Origin)
  /\ Quiet
  /\ UNCHANGED <<app, timers, crashed, fingers, multi, scrollBase>>

SetHoldAction(h) ==
  /\ ~crashed /\ holdAction' = h
  /\ Quiet
  /\ UNCHANGED <<state, timers, sprite, layout, link, greeting, crashed,
                 fingers, multi, scrollBase>>

(***************************************************************************)
(* The x11-client thread: client = c, running.set(true), the handshake     *)
(* that posts onConnected, the end of the session.                         *)
(***************************************************************************)
LinkStep ==
  /\ ~crashed
  /\ \/ link = "none"   /\ link' = "client" /\ UNCHANGED greeting
     \/ link = "client" /\ link' \in {"live", "dead"} /\ UNCHANGED greeting
     \/ link = "live"   /\ greeting = "no" /\ greeting' = "posted" /\ UNCHANGED link
     \/ link = "live"   /\ link' = "dead" /\ UNCHANGED greeting
  /\ sent' = {}
  /\ UNCHANGED <<state, timers, sprite, holdAction, layout, crashed, fingers,
                 server, multi, scrollBase>>

(* The callback puts the cursor in the middle of the remote screen. *)
OnConnected ==
  /\ ~crashed
  /\ greeting = "posted" /\ greeting' = "done"
  /\ SetCursor(state.mouseMode, Center)
  /\ Quiet
  /\ UNCHANGED <<timers, holdAction, layout, link, crashed, fingers, multi,
                 scrollBase>>

(***************************************************************************)
(* applyViewport: the surface alone gives a viewport over a framebuffer of *)
(* size 0; the first published frame gives the framebuffer its size.       *)
(***************************************************************************)
ApplyViewport ==
  /\ ~crashed
  /\ \/ layout = "none" /\ layout' = "surface"
     \/ layout = "surface" /\ link = "live" /\ greeting # "no" /\ layout' = "frame"
  /\ Quiet
  /\ UNCHANGED <<state, timers, sprite, holdAction, link, greeting, crashed,
                 fingers, multi, scrollBase>>

TouchStep ==
  \/ \E p \in Touches, near \in BOOLEAN : Down(p, near)
  \/ \E f \in Fingers : PointerDown(f)
  \/ \E p \in Touches, far \in BOOLEAN, to \in Pos : OneFingerMove(p, far, to)
  \/ \E dy \in -MaxDy .. MaxDy, far \in BOOLEAN : TwoFingerMove(dy, far)
  \/ \E f \in Fingers : PointerUp(f)
  \/ \E p \in Touches : Up(p)
  \/ \E p \in Touches : Cancel(p)

Next ==
  \/ TouchStep
  \/ LongPressFires
  \/ TwoFingerHoldFires
  \/ ToggleMode
  \/ \E h \in HoldActions : SetHoldAction(h)
  \/ LinkStep
  \/ OnConnected
  \/ ApplyViewport

Spec == Init /\ [][Next]_vars

-------------------------------------------------------------------------------
States ==
  [mouseMode : BOOLEAN, cursor : Pos, dragged : BOOLEAN, grabbing : BOOLEAN,
   recentTapCount : {0, 1}, rightClicked : BOOLEAN, scrolling : BOOLEAN,
   scrollAccum : Int, twoFingerRightClicked : BOOLEAN, directPressed : BOOLEAN]

(* The gesture bookkeeping, timers and server state keep their types. *)
TypeOK ==
  /\ state \in States
  /\ longPress \in HoldActions \union {NoTimer}
  /\ twoFingerHold \in BOOLEAN /\ holdPending \in BOOLEAN
  /\ holdAction \in HoldActions
  /\ sprite \in Pos
  /\ layout \in {"none", "surface", "frame"}
  /\ link \in {"none", "client", "live", "dead"}
  /\ greeting \in {"no", "posted", "done"}
  /\ crashed \in BOOLEAN
  /\ fingers \in SUBSET Fingers
  /\ server \in [left : BOOLEAN, ptr : Pos]
  /\ sent \in SUBSET Effects
  /\ multi \in BOOLEAN
  /\ scrollBase \in SUBSET Fingers

Resting == fingers = {}

(* When no finger is on the screen nothing is left over from any gesture:   *)
(* no button is held on the X server or believed held, no scroll is         *)
(* believed to be in progress (it would swallow the next DOWN), and neither *)
(* timer is armed.  This is what the releases in onTouch, handle(UP) and    *)
(* handle(CANCEL) of the three handlers and their cancel calls add up to.   *)
NothingLeftBehind ==
  Resting =>
    /\ ~state.grabbing /\ ~state.directPressed /\ ~state.scrolling
    /\ longPress = NoTimer /\ ~twoFingerHold
    /\ link # "dead" => ~server.left

(* Whenever the X server holds the left button, the gesture state remembers *)
(* it in exactly the flag of the current mode, so a later event can release *)
(* it: grabbing belongs to MOUSE mode, directPressed to TOUCH mode.         *)
HeldIsRemembered ==
  /\ server.left /\ link # "dead" => state.grabbing \/ state.directPressed
  /\ state.grabbing => state.mouseMode
  /\ state.directPressed => ~state.mouseMode

(* A long press can only be pending for a single finger that rests in MOUSE *)
(* mode without having dragged or grabbed; a two-finger hold only while two *)
(* fingers are down in MOUSE mode.  The cancels are spread over onTouch and *)
(* both handlers, and a late timer would click with no finger down.         *)
TimersBelongToGesture ==
  /\ longPress # NoTimer =>
       /\ Single /\ ~multi /\ state.mouseMode
       /\ ~state.dragged /\ ~state.grabbing
  /\ twoFingerHold => Several /\ state.mouseMode /\ state.scrolling

(* ScrollGestureHandler.holdPending, the flag that decides whether          *)
(* cancelHold does anything, always agrees with the scheduler.              *)
HoldFlagAgrees == holdPending = twoFingerHold

(* Travel left over from one scroll never leaks into the next, and less     *)
(* than one notch is ever carried over: the two loops in handle(MOVE).      *)
ScrollCarriesLess ==
  /\ -Notch < state.scrollAccum /\ state.scrollAccum < Notch
  /\ ~state.scrolling => state.scrollAccum = 0

(* Wheel clicks come only from travel of one pair of fingers: a sample that *)
(* turns travel into wheel clicks or carry measures against the previous    *)
(* sample of the same two pointers, although fingers come and go.           *)
ScrollMeasuresSameFingers ==
  [][/\ fingers' = fingers
     /\ \/ sent' \intersect {"wheelUp", "wheelDown"} # {}
        \/ state'.scrollAccum # state.scrollAccum
     => scrollBase = Pair(fingers)]_vars

(* A left press or right click lands where the user sees the pointer:       *)
(* handlers move the X pointer to the sprite first (MouseGestureHandler,    *)
(* scheduleLongPress; ScrollGestureHandler, scheduleHold).                  *)
ClicksLandOnSprite ==
  [][link = "live" /\ sent' \intersect {"press", "right"} # {}
       => server'.ptr = sprite']_vars

(* A right click never happens while the left button is held for a drag.    *)
NoRightClickDuringDrag ==
  [][link = "live" /\ "right" \in sent' => ~server'.left]_vars
===============================================================================
