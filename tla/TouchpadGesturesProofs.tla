----------------------- MODULE TouchpadGesturesProofs -----------------------
(***************************************************************************)
(* Proofs about TouchpadGestures, for every set of positions, every number *)
(* of fingers and every notch.  The theorems on buttons and timers assume  *)
(* what the Core run fixes: the mode button is not hit while a finger is   *)
(* down, and touches are inside the rendered image.                        *)
(***************************************************************************)
EXTENDS TouchpadGestures, TLAPS

USE PosAssumption, BoundsAssumption, SwitchesAssumption

LEMMA RemainderType ==
  ASSUME NEW t \in Int
  PROVE  Remainder(t) \in Int
  BY DEF Remainder

(* The updates of the scroll fields, one field at a time and together. *)
LEMMA ScrollFieldsType ==
  ASSUME NEW s \in States
  PROVE  /\ [s EXCEPT !.scrolling = FALSE, !.scrollAccum = 0] \in States
         /\ [s EXCEPT !.scrolling = TRUE, !.scrollAccum = 0,
                      !.twoFingerRightClicked = FALSE] \in States
  <1>1. \A q \in States, b \in BOOLEAN :
           /\ [q EXCEPT !.scrolling = b] \in States
           /\ [q EXCEPT !.twoFingerRightClicked = b] \in States
    BY DEF States
  <1>2. \A q \in States : [q EXCEPT !.scrollAccum = 0] \in States
    BY DEF States
  <1> QED BY <1>1, <1>2

(* Emitting any set of effects keeps the server's type. *)
LEMMA EmitType ==
  ASSUME TypeOK, NEW E \in SUBSET Effects, NEW p \in Pos, Emit(E, p)
  PROVE  server' \in [left : BOOLEAN, ptr : Pos] /\ sent' \in SUBSET Effects
  BY DEF Emit, LeftAfter, TypeOK

(* The part of the type invariant a gesture handler can disturb. *)
HandlerTypes ==
  /\ state \in States
  /\ longPress \in HoldActions \union {NoTimer}
  /\ twoFingerHold \in BOOLEAN /\ holdPending \in BOOLEAN
  /\ sprite \in Pos
  /\ crashed \in BOOLEAN
  /\ server \in [left : BOOLEAN, ptr : Pos]
  /\ sent \in SUBSET Effects

LEMMA IgnoredType == TypeOK /\ Ignored => HandlerTypes'
  BY EmitType DEF Ignored, Quiet, HandlerTypes, TypeOK, timers, Effects

LEMMA MouseDownType ==
  ASSUME TypeOK, NEW near \in BOOLEAN, MouseDown(near) PROVE HandlerTypes'
  <1>1. server' \in [left : BOOLEAN, ptr : Pos] /\ sent' \in SUBSET Effects
    BY DEF MouseDown, Emit, LeftAfter, TypeOK, States, Effects
  <1>2. state' \in States
    BY DEF MouseDown, TypeOK, States
  <1> QED BY <1>1, <1>2 DEF MouseDown, TypeOK, HandlerTypes

LEMMA MouseMoveType ==
  ASSUME TypeOK, NEW far \in BOOLEAN, NEW to \in Pos, MouseMove(far, to)
  PROVE  HandlerTypes'
  <1>1. server' \in [left : BOOLEAN, ptr : Pos] /\ sent' \in SUBSET Effects
    BY DEF MouseMove, Emit, LeftAfter, TypeOK, States, Effects
  <1>2. state' \in States
    BY DEF MouseMove, TypeOK, States
  <1> QED BY <1>1, <1>2 DEF MouseMove, TypeOK, HandlerTypes

LEMMA MouseUpType == TypeOK /\ MouseUp => HandlerTypes'
  <1> SUFFICES ASSUME TypeOK, MouseUp PROVE HandlerTypes'
    OBVIOUS
  <1>1. server' \in [left : BOOLEAN, ptr : Pos] /\ sent' \in SUBSET Effects
    BY DEF MouseUp, Emit, LeftAfter, TypeOK, States, Effects
  <1>2. state' \in States
    BY DEF MouseUp, TapsAfterUp, TypeOK, States
  <1> QED BY <1>1, <1>2 DEF MouseUp, TypeOK, HandlerTypes, States

LEMMA MouseCancelType == TypeOK /\ MouseCancel => HandlerTypes'
  <1> SUFFICES ASSUME TypeOK, MouseCancel PROVE HandlerTypes'
    OBVIOUS
  <1>1. server' \in [left : BOOLEAN, ptr : Pos] /\ sent' \in SUBSET Effects
    BY DEF MouseCancel, Emit, LeftAfter, TypeOK, States, Effects
  <1>2. state' \in States
    BY DEF MouseCancel, TypeOK, States
  <1> QED BY <1>1, <1>2 DEF MouseCancel, TypeOK, HandlerTypes

LEMMA DirectType ==
  ASSUME TypeOK, NEW p \in Pos \union {Outside}, NEW pressed \in BOOLEAN,
         NEW E \in SUBSET Effects, Direct(p, pressed, E)
  PROVE  HandlerTypes'
  <1>1. CASE layout = "frame" /\ p # Outside
    <2>1. p \in Pos /\ Emit(E, p)
      BY <1>1 DEF Direct
    <2>2. server' \in [left : BOOLEAN, ptr : Pos] /\ sent' \in SUBSET Effects
      BY <2>1, EmitType
    <2>3. state' \in States
      BY <1>1 DEF Direct, TypeOK, States
    <2> QED BY <1>1, <2>1, <2>2, <2>3 DEF Direct, TypeOK, HandlerTypes, timers
  <1>2. CASE ~(layout = "frame" /\ p # Outside)
    <2>1. Quiet /\ UNCHANGED <<state, timers, sprite>> /\ crashed' \in BOOLEAN
      BY <1>2 DEF Direct, Ignored, TypeOK
    <2>2. server' \in [left : BOOLEAN, ptr : Pos] /\ sent' \in SUBSET Effects
      BY <2>1, EmitType DEF Quiet
    <2> QED BY <2>1, <2>2 DEF TypeOK, HandlerTypes, timers
  <1> QED BY <1>1, <1>2

LEMMA ScrollTailType ==
  ASSUME TypeOK, NEW ends \in BOOLEAN, ScrollTail(ends) PROVE HandlerTypes'
  <1>1. server' \in [left : BOOLEAN, ptr : Pos] /\ sent' \in SUBSET Effects
    BY EmitType DEF ScrollTail, Quiet
  <1>2. state' \in States
    BY ScrollFieldsType DEF ScrollTail, TypeOK
  <1> QED BY <1>1, <1>2 DEF ScrollTail, TypeOK, HandlerTypes, timers

LEMMA DroppedType == TypeOK => OneFingerDropped \in States
  BY DEF TypeOK, States, OneFingerDropped

LEMMA DropEffectsType == DropEffects \in SUBSET Effects
  BY DEF DropEffects, Effects

LEMMA ScrollPointerDownType ==
  ASSUME TypeOK, TwoFingers(ScrollPointerDown) PROVE HandlerTypes'
  <1>1. server' \in [left : BOOLEAN, ptr : Pos] /\ sent' \in SUBSET Effects
    BY EmitType, DropEffectsType DEF TwoFingers, ScrollPointerDown, Quiet
  <1>2. state' \in States
    <2>1. CASE link = "none"
      BY <2>1 DEF TwoFingers, TypeOK
    <2>2. CASE link # "none"
      BY <2>2, DroppedType, ScrollFieldsType DEF TwoFingers, ScrollPointerDown
    <2> QED BY <2>1, <2>2
  <1>3. twoFingerHold' \in BOOLEAN /\ holdPending' \in BOOLEAN
    BY DEF TwoFingers, ScrollPointerDown, TypeOK, States, timers
  <1> QED
    BY <1>1, <1>2, <1>3 DEF TwoFingers, ScrollPointerDown, TypeOK, HandlerTypes, timers

LEMMA ScrollEndType ==
  ASSUME TypeOK, TwoFingers(ScrollEnd) PROVE HandlerTypes'
  <1>1. server' \in [left : BOOLEAN, ptr : Pos] /\ sent' \in SUBSET Effects
    BY EmitType, DropEffectsType DEF TwoFingers, ScrollEnd, Quiet
  <1>2. state' \in States
    <2>1. CASE link = "none"
      BY <2>1 DEF TwoFingers, TypeOK
    <2>2. CASE link # "none"
      BY <2>2, DroppedType, ScrollFieldsType DEF TwoFingers, ScrollEnd
    <2> QED BY <2>1, <2>2
  <1> QED
    BY <1>1, <1>2 DEF TwoFingers, ScrollEnd, CancelHold, TypeOK, HandlerTypes, timers

LEMMA ScrollMoveType ==
  ASSUME TypeOK, NEW dy \in Int, NEW far \in BOOLEAN,
         TwoFingers(ScrollMove(dy, far))
  PROVE  HandlerTypes'
  <1>1. CASE link = "none"
    BY <1>1, EmitType DEF TwoFingers, Quiet, TypeOK, HandlerTypes, timers
  <1>2. CASE link # "none"
    <2>1. PICK W \in SUBSET {"wheelUp", "wheelDown"} :
             Emit(DropEffects \union W, Origin)
      BY <1>2 DEF TwoFingers, ScrollMove
    <2>2. server' \in [left : BOOLEAN, ptr : Pos] /\ sent' \in SUBSET Effects
      <3>1. DropEffects \union W \in SUBSET Effects
        BY DEF DropEffects, Effects
      <3> QED BY <2>1, <3>1, EmitType
    <2>3. Remainder(state.scrollAccum + dy) \in Int
      BY RemainderType DEF TypeOK, States
    <2>4. state' \in States
      BY <1>2, <2>3, DroppedType DEF TwoFingers, ScrollMove, States
    <2> QED
      BY <1>2, <2>2, <2>4
      DEF TwoFingers, ScrollMove, CancelHold, TypeOK, HandlerTypes, timers
  <1> QED BY <1>1, <1>2

(* Every variable keeps its type: whatever the order of touches, timers,   *)
(* mode switches and session events (all handlers of input/touchpad).      *)
THEOREM TypeCorrect == Spec => []TypeOK
<1>1. Init => TypeOK
  <2>1. InitialState \in States
    BY DEF InitialState, States
  <2>2. Init => server \in [left : BOOLEAN, ptr : Pos]
    BY DEF Init
  <2> QED BY <2>1, <2>2 DEF Init, TypeOK
<1>2. TypeOK /\ [Next]_vars => TypeOK'
  <2> SUFFICES ASSUME TypeOK, [Next]_vars PROVE TypeOK'
    OBVIOUS
  <2> USE DEF TypeOK
  <2>1. ASSUME NEW p \in Touches, NEW near \in BOOLEAN, Down(p, near)
        PROVE  TypeOK'
    <3>1. MouseDown(near) => HandlerTypes'
      BY MouseDownType
    <3>2. DirectDown(p) => HandlerTypes'
      BY DirectType DEF DirectDown, Touches, Effects
    <3>3. HandlerTypes'
      BY <2>1, <3>1, <3>2, IgnoredType, ScrollTailType DEF Down, OneFinger
    <3>4. {0} \in SUBSET Fingers
      BY DEF Fingers
    <3> QED BY <2>1, <3>3, <3>4 DEF Down, HandlerTypes, app
  <2>2. ASSUME NEW f \in Fingers, PointerDown(f) PROVE TypeOK'
    <3>1. HandlerTypes'
      BY <2>2, ScrollPointerDownType DEF PointerDown
    <3> QED BY <2>2, <3>1 DEF PointerDown, HandlerTypes, app, Pair
  <2>3. ASSUME NEW p \in Touches, NEW far \in BOOLEAN, NEW to \in Pos,
               OneFingerMove(p, far, to)
        PROVE  TypeOK'
    <3>1. MouseMove(far, to) => HandlerTypes'
      BY MouseMoveType
    <3>2. DirectMove(p) => HandlerTypes'
      BY DirectType DEF DirectMove, Touches, Effects, States
    <3>3. HandlerTypes'
      BY <2>3, <3>1, <3>2, IgnoredType, ScrollTailType DEF OneFingerMove, OneFinger
    <3> QED BY <2>3, <3>3 DEF OneFingerMove, HandlerTypes, app
  <2>4. ASSUME NEW dy \in -MaxDy .. MaxDy, NEW far \in BOOLEAN,
               TwoFingerMove(dy, far)
        PROVE  TypeOK'
    <3>1. HandlerTypes'
      BY <2>4, ScrollMoveType DEF TwoFingerMove
    <3> QED BY <2>4, <3>1 DEF TwoFingerMove, HandlerTypes, app, Pair
  <2>5. ASSUME NEW f \in Fingers, PointerUp(f) PROVE TypeOK'
    <3>1. HandlerTypes'
      BY <2>5, ScrollEndType DEF PointerUp
    <3> QED BY <2>5, <3>1 DEF PointerUp, HandlerTypes, app
  <2>6. ASSUME NEW p \in Touches, Up(p) PROVE TypeOK'
    <3>1. DirectUp(p) => HandlerTypes'
      BY DirectType DEF DirectUp, Touches, Effects
    <3>2. HandlerTypes'
      BY <2>6, <3>1, MouseUpType, IgnoredType, ScrollTailType DEF Up, OneFinger
    <3> QED BY <2>6, <3>2 DEF Up, HandlerTypes, app
  <2>7. ASSUME NEW p \in Touches, Cancel(p) PROVE TypeOK'
    <3>1. DirectUp(p) => HandlerTypes'
      BY DirectType DEF DirectUp, Touches, Effects
    <3>2. HandlerTypes'
      BY <2>7, <3>1, MouseCancelType, IgnoredType, ScrollTailType, ScrollEndType
      DEF Cancel, OneFinger
    <3> QED BY <2>7, <3>2 DEF Cancel, HandlerTypes, app
  <2>8. CASE LongPressFires
    <3>1. server' \in [left : BOOLEAN, ptr : Pos] /\ sent' \in SUBSET Effects
      BY <2>8 DEF LongPressFires, HoldEffects, Emit, LeftAfter, States, Effects
    <3>2. state' \in States
      BY <2>8 DEF LongPressFires, States
    <3> QED BY <2>8, <3>1, <3>2 DEF LongPressFires, app
  <2>9. CASE TwoFingerHoldFires
    <3>1. server' \in [left : BOOLEAN, ptr : Pos] /\ sent' \in SUBSET Effects
      BY <2>9 DEF TwoFingerHoldFires, Emit, LeftAfter, States, Effects
    <3>2. state' \in States
      BY <2>9 DEF TwoFingerHoldFires, States
    <3> QED BY <2>9, <3>1, <3>2 DEF TwoFingerHoldFires, app
  <2>10. ASSUME Quiet
         PROVE  server' \in [left : BOOLEAN, ptr : Pos] /\ sent' \in SUBSET Effects
    BY <2>10, EmitType DEF Quiet
  <2>11. CASE ToggleMode
    <3>1. state' \in States
      BY <2>11 DEF ToggleMode, SetCursor, States
    <3> QED BY <2>11, <2>10, <3>1 DEF ToggleMode, SetCursor, app, timers
  <2>12. ASSUME NEW h \in HoldActions, SetHoldAction(h) PROVE TypeOK'
    BY <2>12, <2>10 DEF SetHoldAction, timers
  <2>13. CASE LinkStep
    BY <2>13 DEF LinkStep, timers
  <2>14. CASE OnConnected
    BY <2>14, <2>10 DEF OnConnected, SetCursor, timers, States
  <2>15. CASE ApplyViewport
    BY <2>15, <2>10 DEF ApplyViewport, timers
  <2>16. CASE UNCHANGED vars
    BY <2>16 DEF vars
  <2> QED
    BY <2>1, <2>2, <2>3, <2>4, <2>5, <2>6, <2>7, <2>8, <2>9, <2>11, <2>12,
       <2>13, <2>14, <2>15, <2>16 DEF Next, TouchStep
<1>3. QED BY <1>1, <1>2, PTL DEF Spec

-----------------------------------------------------------------------------
(***************************************************************************)
(* The inductive invariant.  A held button or an armed timer is tied to    *)
(* the number of fingers, and also to the layout and the link: were either *)
(* missing when the finger lifts, the handler would return early.          *)
(***************************************************************************)
CoreEnv == ~ToggleMidGesture /\ ~TouchOutside

Handling == layout = "frame" /\ link # "none"

OwnersInv ==
  /\ state.grabbing => Single /\ state.mouseMode /\ Handling
  /\ state.directPressed => Single /\ ~state.mouseMode /\ Handling
  /\ server.left /\ link # "dead" =>
       link = "live" /\ (state.grabbing \/ state.directPressed)

TimersInv ==
  /\ HoldFlagAgrees
  /\ longPress # NoTimer =>
       /\ Single /\ ~multi /\ Handling
       /\ state.mouseMode /\ ~state.dragged /\ ~state.grabbing
  /\ twoFingerHold => Several /\ state.mouseMode /\ state.scrolling
  /\ state.scrolling => Several /\ link # "none"

SpriteInv == state.mouseMode => sprite = state.cursor

GestureInv == OwnersInv /\ TimersInv /\ SpriteInv

LEMMA GestureInvImplies ==
  GestureInv => NothingLeftBehind /\ HeldIsRemembered /\ TimersBelongToGesture
  BY DEF GestureInv, OwnersInv, TimersInv, NothingLeftBehind, HeldIsRemembered,
         TimersBelongToGesture, HoldFlagAgrees, Single, Several, Resting

(* What an emission does to the left button, as far as the server hears it. *)
LEMMA EmitLeft ==
  ASSUME NEW E, NEW p, Emit(E, p)
  PROVE  /\ link # "live" => server' = server
         /\ link = "live" /\ "release" \in E => server'.left = FALSE
         /\ link = "live" /\ "release" \notin E /\ "press" \in E => server'.left = TRUE
         /\ link = "live" /\ "release" \notin E /\ "press" \notin E
              => server'.left = server.left
  BY DEF Emit, LeftAfter

(* A sample with several fingers leaves no one-finger button behind. *)
LEMMA Dropping ==
  ASSUME TypeOK, OwnersInv, link # "none",
         NEW W \in SUBSET {"wheelUp", "wheelDown"},
         Emit(DropEffects \union W, Origin)
  PROVE  server'.left => link = "dead"
  <1>1. "press" \notin DropEffects \union W
    BY DEF DropEffects
  <1>2. CASE state.grabbing \/ state.directPressed
    <2>1. "release" \in DropEffects \union W
      BY <1>2 DEF DropEffects
    <2> QED BY <2>1, EmitLeft DEF OwnersInv, TypeOK
  <1>3. CASE ~(state.grabbing \/ state.directPressed)
    <2>1. "release" \notin DropEffects \union W
      BY <1>3 DEF DropEffects
    <2> QED BY <1>1, <1>3, <2>1, EmitLeft DEF OwnersInv, TypeOK
  <1> QED BY <1>2, <1>3

(* The end of a scroll re-establishes the invariant for any finger count. *)
LEMMA ScrollEndInv ==
  ASSUME TypeOK, GestureInv, link # "none", ScrollEnd,
         UNCHANGED <<sprite, layout, link>>
  PROVE  GestureInv'
  <1> USE DEF GestureInv, OwnersInv, TimersInv, SpriteInv, HoldFlagAgrees
  <1>1. /\ state'.mouseMode = state.mouseMode /\ state'.cursor = state.cursor
        /\ ~state'.grabbing /\ ~state'.directPressed /\ ~state'.scrolling
    BY DEF ScrollEnd, OneFingerDropped, TypeOK, States
  <1>2. server'.left => link = "dead"
    <2>1. Emit(DropEffects \union {}, Origin)
      BY DEF ScrollEnd
    <2> QED BY <2>1, Dropping
  <1>3. longPress' = NoTimer /\ holdPending' = FALSE /\ twoFingerHold' = FALSE
    BY DEF ScrollEnd, CancelHold, TypeOK
  <1> QED BY <1>1, <1>2, <1>3

(* The inductive invariant of the gesture layer: in the environment of      *)
(* CoreEnv every step of every handler, timer and callback keeps the owner  *)
(* of the left button, of both timers and of the scroll consistent.         *)
THEOREM GestureInvariant ==
  ASSUME CoreEnv
  PROVE  Spec => []GestureInv
<1>1. Init => GestureInv
  <2>1. Init => ~server.left /\ ~state.grabbing /\ ~state.directPressed
                /\ ~state.scrolling /\ ~state.mouseMode
    BY DEF Init, InitialState
  <2>2. Init => longPress = NoTimer /\ twoFingerHold = FALSE /\ holdPending = FALSE
    BY DEF Init
  <2> QED BY <2>1, <2>2 DEF GestureInv, OwnersInv, TimersInv, SpriteInv, HoldFlagAgrees
<1>2. TypeOK /\ GestureInv /\ [Next]_vars => GestureInv'
  <2> SUFFICES ASSUME TypeOK, GestureInv, [Next]_vars PROVE GestureInv'
    OBVIOUS
  <2> USE DEF GestureInv, OwnersInv, TimersInv, SpriteInv, HoldFlagAgrees, Handling
  <2>1. ASSUME NEW p \in Touches, NEW near \in BOOLEAN, Down(p, near)
        PROVE  GestureInv'
    <3>1. /\ Single' /\ ~Several' /\ ~Several /\ ~Single /\ multi' = FALSE
          /\ UNCHANGED <<layout, link>>
      BY <2>1 DEF Down, Single, Several, app
    <3>2. CASE Ignored
      BY <3>1, <3>2 DEF Ignored, Quiet, Emit, LeftAfter, timers
    <3>3. CASE MouseDown(near) /\ state.mouseMode /\ Handling
      BY <3>1, <3>3 DEF MouseDown, Emit, LeftAfter, TypeOK, States
    <3>4. CASE DirectDown(p) /\ ~state.mouseMode /\ link # "none"
      BY <3>1, <3>4
      DEF DirectDown, Direct, Ignored, Quiet, Emit, LeftAfter, TypeOK, States, timers
    <3> QED BY <2>1, <3>1, <3>2, <3>3, <3>4 DEF Down, OneFinger
  <2>2. ASSUME NEW f \in Fingers, PointerDown(f) PROVE GestureInv'
    <3>1. Several' /\ ~Single' /\ UNCHANGED <<layout, link>>
      BY <2>2 DEF PointerDown, Single, Several, app
    <3>2. CASE link = "none"
      BY <2>2, <3>1, <3>2 DEF PointerDown, TwoFingers, Quiet, Emit, timers
    <3>3. CASE link # "none"
      <4>1. ScrollPointerDown /\ sprite' = sprite
        BY <2>2, <3>3 DEF PointerDown, TwoFingers
      <4>2. /\ state'.mouseMode = state.mouseMode /\ state'.cursor = state.cursor
            /\ ~state'.grabbing /\ ~state'.directPressed /\ state'.scrolling
        BY <4>1 DEF ScrollPointerDown, OneFingerDropped, TypeOK, States
      <4>3. server'.left => link = "dead"
        <5>1. Emit(DropEffects \union {}, Origin)
          BY <4>1 DEF ScrollPointerDown
        <5> QED BY <5>1, <3>3, Dropping
      <4>4. longPress' = NoTimer /\ holdPending' = twoFingerHold'
        BY <4>1 DEF ScrollPointerDown, TypeOK
      <4>5. twoFingerHold' => state.mouseMode
        BY <4>1 DEF ScrollPointerDown, TypeOK
      <4> QED BY <3>1, <3>3, <4>1, <4>2, <4>3, <4>4, <4>5
    <3> QED BY <3>2, <3>3
  <2>3. ASSUME NEW p \in Touches, NEW far \in BOOLEAN, NEW to \in Pos,
               OneFingerMove(p, far, to)
        PROVE  GestureInv'
    <3>1. Single /\ ~Several /\ Single' /\ ~Several' /\ UNCHANGED <<layout, link, multi>>
      BY <2>3 DEF OneFingerMove, Single, Several, app
    <3>2. CASE Ignored
      BY <3>1, <3>2 DEF Ignored, Quiet, Emit, LeftAfter, timers
    <3>3. CASE MouseMove(far, to) /\ state.mouseMode /\ Handling
      BY <3>1, <3>3 DEF MouseMove, Emit, LeftAfter, TypeOK, States
    <3>4. CASE DirectMove(p) /\ ~state.mouseMode /\ link # "none"
      BY <3>1, <3>4
      DEF DirectMove, Direct, Ignored, Quiet, Emit, LeftAfter, TypeOK, States, timers
    <3> QED BY <2>3, <3>1, <3>2, <3>3, <3>4 DEF OneFingerMove, OneFinger
  <2>4. ASSUME NEW dy \in -MaxDy .. MaxDy, NEW far \in BOOLEAN,
               TwoFingerMove(dy, far)
        PROVE  GestureInv'
    <3>1. Several /\ ~Single /\ Several' /\ ~Single' /\ UNCHANGED <<layout, link, multi>>
      BY <2>4 DEF TwoFingerMove, Single, Several, app
    <3>2. CASE link = "none"
      BY <2>4, <3>1, <3>2 DEF TwoFingerMove, TwoFingers, Quiet, Emit, timers
    <3>3. CASE link # "none"
      <4>1. ScrollMove(dy, far) /\ sprite' = sprite
        BY <2>4, <3>3 DEF TwoFingerMove, TwoFingers
      <4>2. /\ state'.mouseMode = state.mouseMode /\ state'.cursor = state.cursor
            /\ ~state'.grabbing /\ ~state'.directPressed /\ state'.scrolling
        BY <4>1 DEF ScrollMove, OneFingerDropped, TypeOK, States
      <4>3. server'.left => link = "dead"
        <5>1. PICK W \in SUBSET {"wheelUp", "wheelDown"} :
                 Emit(DropEffects \union W, Origin)
          BY <4>1 DEF ScrollMove
        <5> QED BY <5>1, <3>3, Dropping
      <4>4. longPress' = NoTimer /\ holdPending' = twoFingerHold'
            /\ (twoFingerHold' => twoFingerHold)
        BY <4>1 DEF ScrollMove, CancelHold, TypeOK
      <4> QED BY <3>1, <3>3, <4>1, <4>2, <4>3, <4>4
    <3> QED BY <3>2, <3>3
  <2>5. ASSUME NEW f \in Fingers, PointerUp(f) PROVE GestureInv'
    <3>1. Several /\ ~Single /\ UNCHANGED <<layout, link, multi>>
      BY <2>5 DEF PointerUp, Single, Several, app
    <3>2. CASE link = "none"
      BY <2>5, <3>1, <3>2 DEF PointerUp, TwoFingers, Quiet, Emit, timers
    <3>3. CASE link # "none"
      <4>1. ScrollEnd /\ UNCHANGED <<sprite, layout, link>>
        BY <2>5, <3>1, <3>3 DEF PointerUp, TwoFingers
      <4> HIDE DEF GestureInv
      <4> QED BY <3>3, <4>1, ScrollEndInv
    <3> QED BY <3>2, <3>3
  <2>6. ASSUME NEW p \in Touches, Up(p) PROVE GestureInv'
    <3>1. /\ Single /\ ~Several /\ ~Single' /\ ~Several'
          /\ UNCHANGED <<layout, link>>
      BY <2>6 DEF Up, Single, Several, app
    <3>2. CASE Ignored /\ ~Handling
      BY <3>1, <3>2 DEF Ignored, Quiet, Emit, LeftAfter, timers
    <3>3. CASE MouseUp /\ state.mouseMode /\ Handling
      BY <3>1, <3>3 DEF MouseUp, Emit, LeftAfter, TypeOK, States
    <3>4. CASE DirectUp(p) /\ ~state.mouseMode /\ link # "none"
      BY <3>1, <3>4
      DEF DirectUp, Direct, Ignored, Quiet, Emit, LeftAfter, TypeOK, States, timers,
          Touches, CoreEnv
    <3> QED BY <2>6, <3>1, <3>2, <3>3, <3>4 DEF Up, OneFinger
  <2>7. ASSUME NEW p \in Touches, Cancel(p) PROVE GestureInv'
    <3>1. /\ Single = ~Several /\ ~Single' /\ ~Several'
          /\ UNCHANGED <<layout, link>>
      BY <2>7 DEF Cancel, Single, Several, app
    <3>2. CASE Several
      <4>1. CASE link = "none"
        BY <2>7, <3>1, <3>2, <4>1 DEF Cancel, TwoFingers, Quiet, Emit, timers
      <4>2. CASE link # "none"
        <5>1. ScrollEnd /\ UNCHANGED <<sprite, layout, link>>
          BY <2>7, <3>1, <3>2, <4>2 DEF Cancel, TwoFingers
        <5> HIDE DEF GestureInv
        <5> QED BY <4>2, <5>1, ScrollEndInv
      <4> QED BY <4>1, <4>2
    <3>3. CASE Single /\ Ignored /\ ~Handling
      BY <3>1, <3>3 DEF Ignored, Quiet, Emit, LeftAfter, timers
    <3>4. CASE Single /\ MouseCancel /\ state.mouseMode /\ Handling
      BY <3>1, <3>4 DEF MouseCancel, Emit, LeftAfter, TypeOK, States
    <3>5. CASE Single /\ DirectUp(p) /\ ~state.mouseMode /\ link # "none"
      BY <3>1, <3>5
      DEF DirectUp, Direct, Ignored, Quiet, Emit, LeftAfter, TypeOK, States, timers,
          Touches, CoreEnv
    <3> QED BY <2>7, <3>1, <3>2, <3>3, <3>4, <3>5 DEF Cancel, OneFinger
  <2>8. CASE LongPressFires
    <3>1. /\ Single /\ ~Several /\ Single' /\ ~Several' /\ state.mouseMode /\ Handling
          /\ UNCHANGED <<layout, link, multi>>
      BY <2>8 DEF LongPressFires, Single, Several, app
    <3>2. /\ state'.mouseMode /\ state'.cursor = state.cursor
          /\ state'.scrolling = state.scrolling
          /\ state'.directPressed = state.directPressed
          /\ ~state.dragged /\ ~state.grabbing
          /\ state'.grabbing = (~state.rightClicked /\ longPress = "GRAB_DRAG")
      BY <2>8, <3>1 DEF LongPressFires, TypeOK, States
    <3>3. server'.left /\ link # "dead" => link = "live" /\ state'.grabbing
      BY <2>8, <3>1, <3>2
      DEF LongPressFires, HoldEffects, Emit, LeftAfter, TypeOK, States
    <3>4. /\ longPress' = NoTimer /\ sprite' = sprite
          /\ UNCHANGED <<twoFingerHold, holdPending>>
      BY <2>8 DEF LongPressFires
    <3> QED BY <3>1, <3>2, <3>3, <3>4
  <2>9. CASE TwoFingerHoldFires
    <3>1. Several /\ Several' /\ ~Single' /\ UNCHANGED <<layout, link, multi>>
      BY <2>9 DEF TwoFingerHoldFires, Single, Several, app
    <3> QED
      BY <2>9, <3>1 DEF TwoFingerHoldFires, Emit, LeftAfter, TypeOK, States, Single
  <2>10. CASE ToggleMode
    <3>1. ~Single /\ ~Several /\ ~Single' /\ ~Several'
      BY <2>10 DEF ToggleMode, CoreEnv, Single, Several
    <3> QED
      BY <2>10, <3>1
      DEF ToggleMode, SetCursor, Quiet, Emit, LeftAfter, app, timers, TypeOK, States
  <2>11. ASSUME UNCHANGED fingers PROVE Single' = Single /\ Several' = Several
    BY <2>11 DEF Single, Several
  <2>12. ASSUME NEW h \in HoldActions, SetHoldAction(h) PROVE GestureInv'
    BY <2>12, <2>11 DEF SetHoldAction, Quiet, Emit, LeftAfter, timers
  <2>13. CASE LinkStep
    BY <2>13, <2>11 DEF LinkStep, timers
  <2>14. CASE OnConnected
    BY <2>14, <2>11
    DEF OnConnected, SetCursor, Quiet, Emit, LeftAfter, timers, TypeOK, States
  <2>15. CASE ApplyViewport
    BY <2>15, <2>11 DEF ApplyViewport, Quiet, Emit, LeftAfter, timers
  <2>16. CASE UNCHANGED vars
    BY <2>16, <2>11 DEF vars
  <2> QED
    BY <2>1, <2>2, <2>3, <2>4, <2>5, <2>6, <2>7, <2>8, <2>9, <2>10, <2>12,
       <2>13, <2>14, <2>15, <2>16 DEF Next, TouchStep
<1>3. QED BY <1>1, <1>2, TypeCorrect, PTL DEF Spec

(* Once the last finger is up no button, scroll or timer is left behind.    *)
THEOREM NothingLeft ==
  ASSUME CoreEnv
  PROVE  Spec => []NothingLeftBehind
BY GestureInvariant, GestureInvImplies, PTL

(* A left button held on the X server is always remembered by the flag of   *)
(* the current mode.                                                        *)
THEOREM HeldRemembered ==
  ASSUME CoreEnv
  PROVE  Spec => []HeldIsRemembered
BY GestureInvariant, GestureInvImplies, PTL

(* Both timers are armed only during the gesture that posted them.          *)
THEOREM TimersOwned ==
  ASSUME CoreEnv
  PROVE  Spec => []TimersBelongToGesture
BY GestureInvariant, GestureInvImplies, PTL

(* A right click comes only from a timer, and the inductive invariant says  *)
(* that no left button is held while one is armed: no step clicks right     *)
(* during a drag.                                                           *)
THEOREM NoRightClickInDrag ==
  ASSUME CoreEnv
  PROVE  Spec => NoRightClickDuringDrag
<1>1. TypeOK /\ GestureInv /\ [Next]_vars
        => [link = "live" /\ "right" \in sent' => ~server'.left]_vars
  <2> SUFFICES ASSUME TypeOK, GestureInv, Next, link = "live", "right" \in sent'
               PROVE  ~server'.left
    OBVIOUS
  <2>1. ASSUME TouchStep PROVE "right" \notin sent'
    <3>1. ASSUME NEW p \in Touches, NEW near \in BOOLEAN, Down(p, near)
          PROVE  "right" \notin sent'
      BY <3>1 DEF Down, OneFinger, Ignored, Quiet, ScrollTail, MouseDown, DirectDown,
                  Direct, Emit
    <3>2. ASSUME NEW f \in Fingers, PointerDown(f) PROVE "right" \notin sent'
      BY <3>2 DEF PointerDown, TwoFingers, ScrollPointerDown, DropEffects, Quiet, Emit
    <3>3. ASSUME NEW p \in Touches, NEW far \in BOOLEAN, NEW to \in Pos,
                 OneFingerMove(p, far, to)
          PROVE  "right" \notin sent'
      BY <3>3 DEF OneFingerMove, OneFinger, Ignored, Quiet, ScrollTail, MouseMove,
                  DirectMove, Direct, Emit
    <3>4. ASSUME NEW dy \in -MaxDy .. MaxDy, NEW far \in BOOLEAN,
                 TwoFingerMove(dy, far)
          PROVE  "right" \notin sent'
      BY <3>4 DEF TwoFingerMove, TwoFingers, ScrollMove, DropEffects, Quiet, Emit
    <3>5. ASSUME NEW f \in Fingers, PointerUp(f) PROVE "right" \notin sent'
      BY <3>5 DEF PointerUp, TwoFingers, ScrollEnd, DropEffects, Quiet, Emit
    <3>6. ASSUME NEW p \in Touches, Up(p) PROVE "right" \notin sent'
      BY <3>6 DEF Up, OneFinger, Ignored, Quiet, ScrollTail, MouseUp, DirectUp,
                  Direct, Emit
    <3>7. ASSUME NEW p \in Touches, Cancel(p) PROVE "right" \notin sent'
      BY <3>7 DEF Cancel, OneFinger, TwoFingers, ScrollEnd, DropEffects, Ignored,
                  Quiet, ScrollTail, MouseCancel, DirectUp, Direct, Emit
    <3> QED BY <2>1, <3>1, <3>2, <3>3, <3>4, <3>5, <3>6, <3>7 DEF TouchStep
  <2>2. CASE LongPressFires
    <3>1. ~server.left
      BY <2>2 DEF LongPressFires, GestureInv, OwnersInv, TimersInv
    <3> QED BY <2>2, <3>1 DEF LongPressFires, HoldEffects, Emit, LeftAfter
  <2>3. CASE TwoFingerHoldFires
    <3>1. ~server.left
      BY <2>3 DEF TwoFingerHoldFires, GestureInv, OwnersInv, TimersInv, Single
    <3> QED BY <2>3, <3>1 DEF TwoFingerHoldFires, Emit, LeftAfter
  <2>4. ASSUME \/ ToggleMode \/ LinkStep \/ OnConnected \/ ApplyViewport
               \/ \E h \in HoldActions : SetHoldAction(h)
        PROVE  FALSE
    BY <2>4 DEF ToggleMode, LinkStep, OnConnected, ApplyViewport, SetHoldAction,
                Quiet, Emit
  <2> QED BY <2>1, <2>2, <2>3, <2>4 DEF Next
<1>2. QED BY <1>1, GestureInvariant, TypeCorrect, PTL DEF Spec, NoRightClickDuringDrag

(* In every environment cancelHold's flag and the scheduler agree: no step  *)
(* posts, cancels or fires the two-finger timer without the flag.           *)
THEOREM HoldFlag == Spec => []HoldFlagAgrees
<1>1. Init => HoldFlagAgrees
  BY DEF Init, HoldFlagAgrees
<1>2. TypeOK /\ HoldFlagAgrees /\ [Next]_vars => HoldFlagAgrees'
  <2> SUFFICES ASSUME TypeOK, HoldFlagAgrees, [Next]_vars PROVE HoldFlagAgrees'
    OBVIOUS
  <2> USE DEF HoldFlagAgrees
  <2>1. ASSUME CancelHold PROVE HoldFlagAgrees'
    BY <2>1 DEF CancelHold, TypeOK
  <2>2. ASSUME UNCHANGED <<twoFingerHold, holdPending>> PROVE HoldFlagAgrees'
    BY <2>2
  <2>3. ASSUME NEW p \in Touches, NEW near \in BOOLEAN, Down(p, near)
        PROVE  UNCHANGED <<twoFingerHold, holdPending>>
    BY <2>3 DEF Down, OneFinger, Ignored, ScrollTail, MouseDown, DirectDown, Direct,
                timers
  <2>4. ASSUME NEW f \in Fingers, PointerDown(f) PROVE HoldFlagAgrees'
    BY <2>4 DEF PointerDown, TwoFingers, ScrollPointerDown, timers
  <2>5. ASSUME NEW p \in Touches, NEW far \in BOOLEAN, NEW to \in Pos,
               OneFingerMove(p, far, to)
        PROVE  UNCHANGED <<twoFingerHold, holdPending>>
    BY <2>5 DEF OneFingerMove, OneFinger, Ignored, ScrollTail, MouseMove, DirectMove,
                Direct, timers
  <2>6. ASSUME NEW dy \in -MaxDy .. MaxDy, NEW far \in BOOLEAN,
               TwoFingerMove(dy, far)
        PROVE  HoldFlagAgrees'
    BY <2>1, <2>2, <2>6 DEF TwoFingerMove, TwoFingers, ScrollMove, timers
  <2>7. ASSUME NEW f \in Fingers, PointerUp(f) PROVE HoldFlagAgrees'
    BY <2>1, <2>2, <2>7 DEF PointerUp, TwoFingers, ScrollEnd, timers
  <2>8. ASSUME NEW p \in Touches, Up(p)
        PROVE  UNCHANGED <<twoFingerHold, holdPending>>
    BY <2>8 DEF Up, OneFinger, Ignored, ScrollTail, MouseUp, DirectUp, Direct, timers
  <2>9. ASSUME NEW p \in Touches, Cancel(p) PROVE HoldFlagAgrees'
    BY <2>1, <2>2, <2>9
    DEF Cancel, TwoFingers, ScrollEnd, OneFinger, Ignored, ScrollTail, MouseCancel,
        DirectUp, Direct, timers
  <2>10. CASE LongPressFires
    BY <2>10 DEF LongPressFires
  <2>11. CASE TwoFingerHoldFires
    BY <2>11 DEF TwoFingerHoldFires
  <2>12. CASE \/ ToggleMode \/ LinkStep \/ OnConnected \/ ApplyViewport
              \/ \E h \in HoldActions : SetHoldAction(h)
    BY <2>12 DEF ToggleMode, LinkStep, OnConnected, ApplyViewport, SetHoldAction,
                 timers
  <2>13. CASE UNCHANGED vars
    BY <2>13 DEF vars
  <2> QED BY <2>2, <2>3, <2>4, <2>5, <2>6, <2>7, <2>8, <2>9, <2>10, <2>11, <2>12,
             <2>13 DEF Next, TouchStep
<1>3. QED BY <1>1, <1>2, TypeCorrect, PTL DEF Spec

-----------------------------------------------------------------------------
(***************************************************************************)
(* Scrolling, in every environment.  A step keeps the scroll fields, ends  *)
(* the scroll, starts one (POINTER_DOWN) or measures travel (MOVE).        *)
(***************************************************************************)
KeepsScroll ==
  /\ state'.scrolling = state.scrolling
  /\ state'.scrollAccum = state.scrollAccum
  /\ state.twoFingerRightClicked => state'.twoFingerRightClicked

EndsScroll == state'.scrolling = FALSE /\ state'.scrollAccum = 0

NoWheel == sent' \intersect {"wheelUp", "wheelDown"} = {}

(* The two loops of handle(MOVE) leave less than a notch either way. *)
LEMMA RemainderBound ==
  ASSUME NEW t \in Int
  PROVE  -Notch < Remainder(t) /\ Remainder(t) < Notch
  <1>1. CASE t < 0
    <2>1. (-t) % Notch \in 0 .. Notch - 1
      BY <1>1
    <2> QED BY <1>1, <2>1 DEF Remainder
  <1>2. CASE ~(t < 0)
    <2>1. t % Notch \in 0 .. Notch - 1
      BY <1>2
    <2> QED BY <1>2, <2>1 DEF Remainder
  <1> QED BY <1>1, <1>2

LEMMA IgnoredScroll == Ignored => KeepsScroll /\ NoWheel
  BY DEF Ignored, Quiet, Emit, KeepsScroll, NoWheel

LEMMA DirectScroll ==
  ASSUME TypeOK, NEW p, NEW pressed, NEW E, Direct(p, pressed, E),
         E \intersect {"wheelUp", "wheelDown"} = {}
  PROVE  KeepsScroll /\ NoWheel
  BY DEF Direct, Ignored, Quiet, Emit, KeepsScroll, NoWheel, TypeOK, States

LEMMA ScrollTailScroll ==
  ASSUME TypeOK, NEW ends \in BOOLEAN, ScrollTail(ends)
  PROVE  (KeepsScroll \/ EndsScroll) /\ NoWheel
  BY DEF ScrollTail, Quiet, Emit, KeepsScroll, EndsScroll, NoWheel, TypeOK, States

(* One finger never measures travel. *)
LEMMA DownScroll ==
  ASSUME TypeOK, NEW p, NEW near, Down(p, near)
  PROVE  (KeepsScroll \/ EndsScroll) /\ NoWheel
  <1>1. MouseDown(near) => KeepsScroll /\ NoWheel
    BY DEF MouseDown, Emit, KeepsScroll, NoWheel, TypeOK, States
  <1>2. DirectDown(p) => KeepsScroll /\ NoWheel
    BY DirectScroll DEF DirectDown
  <1> QED BY <1>1, <1>2, IgnoredScroll, ScrollTailScroll DEF Down, OneFinger

LEMMA OneFingerMoveScroll ==
  ASSUME TypeOK, NEW p, NEW far, NEW to, OneFingerMove(p, far, to)
  PROVE  KeepsScroll /\ NoWheel
  <1>1. MouseMove(far, to) => KeepsScroll /\ NoWheel
    BY DEF MouseMove, Emit, KeepsScroll, NoWheel, TypeOK, States
  <1>2. DirectMove(p) => KeepsScroll /\ NoWheel
    BY DirectScroll DEF DirectMove
  <1>3. ScrollTail(FALSE) => KeepsScroll /\ NoWheel
    BY DEF ScrollTail, Quiet, Emit, KeepsScroll, NoWheel
  <1> QED BY <1>1, <1>2, <1>3, IgnoredScroll DEF OneFingerMove, OneFinger

LEMMA UpScroll ==
  ASSUME TypeOK, NEW p, Up(p)
  PROVE  (KeepsScroll \/ EndsScroll) /\ NoWheel
  <1>1. MouseUp => KeepsScroll /\ NoWheel
    BY DEF MouseUp, Emit, KeepsScroll, NoWheel, TypeOK, States
  <1>2. DirectUp(p) => KeepsScroll /\ NoWheel
    BY DirectScroll DEF DirectUp
  <1> QED BY <1>1, <1>2, IgnoredScroll, ScrollTailScroll DEF Up, OneFinger

(* The end of two fingers: without a client nothing changes. *)
LEMMA TwoFingersEndScroll ==
  ASSUME TypeOK, TwoFingers(ScrollEnd)
  PROVE  IF link = "none" THEN KeepsScroll ELSE EndsScroll
  BY DEF TwoFingers, ScrollEnd, OneFingerDropped, KeepsScroll, EndsScroll, TypeOK, States

LEMMA CancelScroll ==
  ASSUME TypeOK, NEW p, Cancel(p)
  PROVE  /\ KeepsScroll \/ EndsScroll
         /\ Several /\ link # "none" => EndsScroll
  <1>1. MouseCancel => KeepsScroll
    BY DEF MouseCancel, KeepsScroll, TypeOK, States
  <1>2. DirectUp(p) => KeepsScroll
    BY DirectScroll DEF DirectUp
  <1> QED
    BY <1>1, <1>2, IgnoredScroll, ScrollTailScroll, TwoFingersEndScroll
    DEF Cancel, OneFinger

LEMMA PointerDownScroll ==
  ASSUME TypeOK, NEW f, PointerDown(f)
  PROVE  IF link = "none" THEN KeepsScroll
         ELSE state'.scrolling = TRUE /\ state'.scrollAccum = 0
  BY DEF PointerDown, TwoFingers, ScrollPointerDown, OneFingerDropped, KeepsScroll,
         TypeOK, States

(* Travel counts only for a scroll under way that has not right-clicked. *)
LEMMA TwoFingerMoveScroll ==
  ASSUME TypeOK, NEW dy \in Int, NEW far, TwoFingerMove(dy, far)
  PROVE  /\ link = "none" => KeepsScroll /\ NoWheel
         /\ link # "none" =>
              /\ state'.scrolling = TRUE
              /\ state'.twoFingerRightClicked = state.twoFingerRightClicked
              /\ IF state.scrolling /\ ~state.twoFingerRightClicked
                 THEN state'.scrollAccum = Remainder(state.scrollAccum + dy)
                 ELSE state'.scrollAccum = state.scrollAccum /\ NoWheel
  <1>1. CASE link = "none"
    BY <1>1 DEF TwoFingerMove, TwoFingers, Quiet, Emit, KeepsScroll, NoWheel
  <1>2. CASE link # "none"
    <2>1. ScrollMove(dy, far)
      BY <1>2 DEF TwoFingerMove, TwoFingers
    <2>2. /\ state'.scrolling = TRUE
          /\ state'.twoFingerRightClicked = state.twoFingerRightClicked
          /\ state'.scrollAccum = IF state.scrolling /\ ~state.twoFingerRightClicked
                                  THEN Remainder(state.scrollAccum + dy)
                                  ELSE state.scrollAccum
      BY <2>1 DEF ScrollMove, OneFingerDropped, TypeOK, States
    <2>3. ~(state.scrolling /\ ~state.twoFingerRightClicked) => NoWheel
      BY <2>1 DEF ScrollMove, Emit, DropEffects, NoWheel
    <2> QED BY <1>2, <2>2, <2>3
  <1> QED BY <1>1, <1>2

(* Timers, the mode button, the settings and the session never scroll. *)
LEMMA OtherScroll ==
  ASSUME TypeOK,
         \/ LongPressFires \/ TwoFingerHoldFires \/ ToggleMode \/ LinkStep
         \/ OnConnected \/ ApplyViewport
         \/ \E h \in HoldActions : SetHoldAction(h)
  PROVE  /\ KeepsScroll /\ NoWheel
         /\ UNCHANGED <<fingers, scrollBase>>
         /\ link # "none" => link' # "none"
  <1>1. CASE LongPressFires
    BY <1>1 DEF LongPressFires, HoldEffects, Emit, KeepsScroll, NoWheel, TypeOK, States, app
  <1>2. CASE TwoFingerHoldFires
    BY <1>2 DEF TwoFingerHoldFires, Emit, KeepsScroll, NoWheel, TypeOK, States, app
  <1>3. CASE ToggleMode
    BY <1>3 DEF ToggleMode, SetCursor, Quiet, Emit, KeepsScroll, NoWheel, TypeOK, States, app
  <1>4. CASE LinkStep
    BY <1>4 DEF LinkStep, KeepsScroll, NoWheel
  <1>5. CASE OnConnected
    BY <1>5 DEF OnConnected, SetCursor, Quiet, Emit, KeepsScroll, NoWheel, TypeOK, States
  <1>6. CASE ApplyViewport \/ \E h \in HoldActions : SetHoldAction(h)
    BY <1>6 DEF ApplyViewport, SetHoldAction, Quiet, Emit, KeepsScroll, NoWheel
  <1> QED BY <1>1, <1>2, <1>3, <1>4, <1>5, <1>6

(* In every environment less than one notch of travel is carried over, and  *)
(* none when no scroll is under way: no order of touches, timers and mode   *)
(* switches lets the rest of one scroll leak into the next.                 *)
THEOREM CarriesLess == Spec => []ScrollCarriesLess
<1>1. Init => ScrollCarriesLess
  BY DEF Init, InitialState, ScrollCarriesLess
<1>2. TypeOK /\ ScrollCarriesLess /\ [Next]_vars => ScrollCarriesLess'
  <2> SUFFICES ASSUME TypeOK, ScrollCarriesLess, [Next]_vars PROVE ScrollCarriesLess'
    OBVIOUS
  <2>1. ASSUME KeepsScroll \/ EndsScroll PROVE ScrollCarriesLess'
    BY <2>1 DEF KeepsScroll, EndsScroll, ScrollCarriesLess
  <2>2. ASSUME NEW f \in Fingers, PointerDown(f) PROVE ScrollCarriesLess'
    <3>1. CASE link = "none"
      BY <2>1, <2>2, <3>1, PointerDownScroll
    <3>2. CASE link # "none"
      <4>1. state'.scrolling = TRUE /\ state'.scrollAccum = 0
        BY <2>2, <3>2, PointerDownScroll
      <4> QED BY <4>1 DEF ScrollCarriesLess
    <3> QED BY <3>1, <3>2
  <2>3. ASSUME NEW dy \in -MaxDy .. MaxDy, NEW far \in BOOLEAN,
               TwoFingerMove(dy, far)
        PROVE  ScrollCarriesLess'
    <3>1. /\ Remainder(state.scrollAccum + dy) < Notch
          /\ -Notch < Remainder(state.scrollAccum + dy)
      BY RemainderBound DEF TypeOK, States
    <3>2. CASE link = "none"
      BY <2>1, <2>3, <3>2, TwoFingerMoveScroll
    <3>3. CASE link # "none"
      <4>1. /\ state'.scrolling = TRUE
            /\ \/ state'.scrollAccum = Remainder(state.scrollAccum + dy)
               \/ state'.scrollAccum = state.scrollAccum
        <5>1. dy \in Int
          OBVIOUS
        <5> QED BY <2>3, <3>3, <5>1, TwoFingerMoveScroll
      <4> QED BY <3>1, <4>1 DEF ScrollCarriesLess
    <3> QED BY <3>2, <3>3
  <2>4. ASSUME NEW f \in Fingers, PointerUp(f) PROVE ScrollCarriesLess'
    BY <2>1, <2>4, TwoFingersEndScroll DEF PointerUp
  <2>5. CASE UNCHANGED vars
    BY <2>1, <2>5 DEF vars, KeepsScroll
  <2> QED
    BY <2>1, <2>2, <2>3, <2>4, <2>5, DownScroll, OneFingerMoveScroll, UpScroll,
       CancelScroll, OtherScroll DEF Next, TouchStep
<1>3. QED BY <1>1, <1>2, TypeCorrect, PTL DEF Spec

(* A scroll is under way only while several fingers are down and a client   *)
(* exists (the client is never taken away again), and unless it ended in a  *)
(* right click the reference sample is of the pair that is down now.        *)
ScrollInv ==
  state.scrolling =>
    /\ Several /\ link # "none"
    /\ ~state.twoFingerRightClicked => scrollBase = Pair(fingers)

(* The reference sample of a scroll under way, whatever fingers come and go *)
(* in whatever order with the two-finger timer and the client.              *)
THEOREM ScrollInvariant == Spec => []ScrollInv
<1>1. Init => ScrollInv
  BY DEF Init, InitialState, ScrollInv
<1>2. TypeOK /\ ScrollInv /\ [Next]_vars => ScrollInv'
  <2> SUFFICES ASSUME TypeOK, ScrollInv, [Next]_vars PROVE ScrollInv'
    OBVIOUS
  <2>1. ASSUME ~state.scrolling, KeepsScroll \/ EndsScroll PROVE ScrollInv'
    BY <2>1 DEF KeepsScroll, EndsScroll, ScrollInv
  <2>2. ASSUME EndsScroll PROVE ScrollInv'
    BY <2>2 DEF EndsScroll, ScrollInv
  <2>3. ASSUME NEW p \in Touches, NEW near \in BOOLEAN, Down(p, near)
        PROVE  ScrollInv'
    <3>1. ~state.scrolling
      BY <2>3 DEF Down, ScrollInv, Several
    <3> QED BY <2>1, <2>3, <3>1, DownScroll
  <2>4. ASSUME NEW f \in Fingers, PointerDown(f) PROVE ScrollInv'
    <3>1. CASE link = "none"
      BY <2>1, <2>4, <3>1, PointerDownScroll DEF ScrollInv
    <3>2. CASE link # "none"
      <4>1. Several' /\ scrollBase' = Pair(fingers)' /\ link' = link
        BY <2>4, <3>2 DEF PointerDown, Several, Pair, app
      <4> QED BY <3>2, <4>1 DEF ScrollInv
    <3> QED BY <3>1, <3>2
  <2>5. ASSUME NEW p \in Touches, NEW far \in BOOLEAN, NEW to \in Pos,
               OneFingerMove(p, far, to)
        PROVE  ScrollInv'
    <3>1. ~state.scrolling
      BY <2>5 DEF OneFingerMove, ScrollInv, Single
    <3> QED BY <2>1, <2>5, <3>1, OneFingerMoveScroll
  <2>6. ASSUME NEW dy \in -MaxDy .. MaxDy, NEW far \in BOOLEAN,
               TwoFingerMove(dy, far)
        PROVE  ScrollInv'
    <3>1. CASE link = "none"
      BY <2>1, <2>6, <3>1, TwoFingerMoveScroll DEF ScrollInv
    <3>2. CASE link # "none"
      <4>1. state'.twoFingerRightClicked = state.twoFingerRightClicked
        <5>1. dy \in Int
          OBVIOUS
        <5> QED BY <2>6, <3>2, <5>1, TwoFingerMoveScroll
      <4>2. Several' /\ link' = link
        BY <2>6 DEF TwoFingerMove, Several, app
      <4>3. ~state.twoFingerRightClicked => scrollBase' = Pair(fingers)'
        BY <2>6, <3>2 DEF TwoFingerMove, Pair
      <4> QED BY <3>2, <4>1, <4>2, <4>3 DEF ScrollInv
    <3> QED BY <3>1, <3>2
  <2>7. ASSUME NEW f \in Fingers, PointerUp(f) PROVE ScrollInv'
    <3>1. IF link = "none" THEN KeepsScroll ELSE EndsScroll
      BY <2>7, TwoFingersEndScroll DEF PointerUp
    <3> QED BY <2>1, <2>2, <3>1 DEF ScrollInv
  <2>8. ASSUME NEW p \in Touches, Up(p) PROVE ScrollInv'
    <3>1. ~state.scrolling
      BY <2>8 DEF Up, ScrollInv, Single
    <3> QED BY <2>1, <2>8, <3>1, UpScroll
  <2>9. ASSUME NEW p \in Touches, Cancel(p) PROVE ScrollInv'
    <3>1. EndsScroll \/ (~state.scrolling /\ KeepsScroll)
      BY <2>9, CancelScroll DEF ScrollInv
    <3> QED BY <2>1, <2>2, <3>1
  <2>10. ASSUME KeepsScroll, UNCHANGED <<fingers, scrollBase>>,
                link # "none" => link' # "none"
         PROVE  ScrollInv'
    <3>1. Several' = Several /\ Pair(fingers)' = Pair(fingers)
      BY <2>10 DEF Several, Pair
    <3> QED BY <2>10, <3>1 DEF KeepsScroll, ScrollInv
  <2>11. CASE UNCHANGED vars
    BY <2>10, <2>11 DEF vars, KeepsScroll
  <2> QED
    BY <2>3, <2>4, <2>5, <2>6, <2>7, <2>8, <2>9, <2>10, <2>11, OtherScroll
    DEF Next, TouchStep
<1>3. QED BY <1>1, <1>2, TypeCorrect, PTL DEF Spec

(* In every environment, wheel clicks and carry come only from travel       *)
(* against the previous sample of the same two pointers.                    *)
THEOREM MeasuresSameFingers == Spec => ScrollMeasuresSameFingers
<1> DEFINE Measures == /\ fingers' = fingers
                       /\ \/ sent' \intersect {"wheelUp", "wheelDown"} # {}
                          \/ state'.scrollAccum # state.scrollAccum
<1>1. TypeOK /\ ScrollInv /\ [Next]_vars
        => [Measures => scrollBase = Pair(fingers)]_vars
  <2> SUFFICES ASSUME TypeOK, ScrollInv, Next, Measures
               PROVE  scrollBase = Pair(fingers)
    OBVIOUS
  <2>1. ~(KeepsScroll /\ NoWheel)
    BY DEF KeepsScroll, NoWheel
  <2>2. ASSUME NEW dy \in -MaxDy .. MaxDy, NEW far \in BOOLEAN,
               TwoFingerMove(dy, far)
        PROVE  scrollBase = Pair(fingers)
    <3>1. state.scrolling /\ ~state.twoFingerRightClicked
      <4>1. dy \in Int
        OBVIOUS
      <4>2. link # "none"
        BY <2>1, <2>2, <4>1, TwoFingerMoveScroll
      <4>3. ~(state'.scrollAccum = state.scrollAccum /\ NoWheel)
        BY DEF NoWheel
      <4> QED BY <2>2, <4>1, <4>2, <4>3, TwoFingerMoveScroll
    <3> QED BY <3>1 DEF ScrollInv
  <2>3. ASSUME NEW p \in Touches, NEW near \in BOOLEAN, Down(p, near) PROVE FALSE
    BY <2>3 DEF Down
  <2>4. ASSUME NEW f \in Fingers, PointerDown(f) PROVE FALSE
    BY <2>4 DEF PointerDown
  <2>5. ASSUME NEW f \in Fingers, PointerUp(f) PROVE FALSE
    BY <2>5 DEF PointerUp
  <2>6. ASSUME NEW p \in Touches, Up(p) \/ Cancel(p) PROVE FALSE
    BY <2>6 DEF Up, Cancel, Single
  <2> QED
    BY <2>1, <2>2, <2>3, <2>4, <2>5, <2>6, OneFingerMoveScroll, OtherScroll
    DEF Next, TouchStep
<1>2. QED
  BY <1>1, ScrollInvariant, TypeCorrect, PTL DEF Spec, ScrollMeasuresSameFingers

-----------------------------------------------------------------------------
(* Where an emission leaves the X pointer. *)
LEMMA EmitPointer ==
  ASSUME NEW E, NEW p, Emit(E, p), link = "live"
  PROVE  sent' = E /\ ("motion" \in E => server'.ptr = p)
  BY DEF Emit

(* Presses and right clicks of both modes and both timers land where the    *)
(* pointer is drawn: the handler moves the X pointer there in the same      *)
(* step, and in MOUSE mode the sprite is at the cursor.                     *)
THEOREM ClicksOnSprite ==
  ASSUME CoreEnv
  PROVE  Spec => ClicksLandOnSprite
<1> DEFINE Clicks == link = "live" /\ sent' \intersect {"press", "right"} # {}
<1>1. TypeOK /\ GestureInv /\ [Next]_vars => [Clicks => server'.ptr = sprite']_vars
  <2> SUFFICES ASSUME TypeOK, GestureInv, Next, Clicks PROVE server'.ptr = sprite'
    OBVIOUS
  <2>1. ASSUME NEW p, NEW pressed, NEW E, Direct(p, pressed, E), "motion" \in E
        PROVE  server'.ptr = sprite'
    BY <2>1, EmitPointer DEF Direct, Ignored, Quiet, Emit
  <2>2. sent' # {} /\ ~Ignored /\ ~ScrollTail(TRUE) /\ ~ScrollTail(FALSE) /\ ~Quiet
    BY DEF Ignored, ScrollTail, Quiet, Emit
  <2>3. ASSUME NEW p \in Touches, NEW near \in BOOLEAN, Down(p, near)
        PROVE  server'.ptr = sprite'
    <3>1. CASE MouseDown(near) /\ state.mouseMode
      <4>1. sprite' = state.cursor
        BY <3>1 DEF MouseDown, GestureInv, SpriteInv
      <4> QED BY <3>1, <4>1 DEF MouseDown, Emit
    <3>2. CASE DirectDown(p)
      BY <2>1, <3>2 DEF DirectDown
    <3> QED BY <2>2, <2>3, <3>1, <3>2 DEF Down, OneFinger
  <2>4. ASSUME NEW f \in Fingers, PointerDown(f) PROVE FALSE
    BY <2>4 DEF PointerDown, TwoFingers, ScrollPointerDown, DropEffects, Quiet, Emit
  <2>5. ASSUME NEW p \in Touches, NEW far \in BOOLEAN, NEW to \in Pos,
               OneFingerMove(p, far, to)
        PROVE  server'.ptr = sprite'
    <3>1. ~MouseMove(far, to)
      BY DEF MouseMove, Emit
    <3>2. CASE DirectMove(p)
      BY <2>1, <3>2 DEF DirectMove
    <3> QED BY <2>2, <2>5, <3>1, <3>2 DEF OneFingerMove, OneFinger
  <2>6. ASSUME NEW dy \in -MaxDy .. MaxDy, NEW far \in BOOLEAN,
               TwoFingerMove(dy, far)
        PROVE  FALSE
    BY <2>6 DEF TwoFingerMove, TwoFingers, ScrollMove, DropEffects, Quiet, Emit
  <2>7. ~TwoFingers(ScrollEnd)
    BY DEF TwoFingers, ScrollEnd, DropEffects, Quiet, Emit
  <2>8. ASSUME NEW p \in Touches, Up(p) PROVE server'.ptr = sprite'
    <3>1. CASE MouseUp
      BY <3>1 DEF MouseUp, Emit
    <3>2. CASE DirectUp(p)
      BY <2>1, <3>2 DEF DirectUp
    <3> QED BY <2>2, <2>8, <3>1, <3>2 DEF Up, OneFinger
  <2>9. ASSUME NEW p \in Touches, Cancel(p) PROVE server'.ptr = sprite'
    <3>1. ~MouseCancel
      BY DEF MouseCancel, Emit
    <3>2. CASE DirectUp(p)
      BY <2>1, <3>2 DEF DirectUp
    <3> QED BY <2>2, <2>7, <2>9, <3>1, <3>2 DEF Cancel, OneFinger
  <2>10. CASE LongPressFires
    <3>1. sprite' = state.cursor
      BY <2>10 DEF LongPressFires, GestureInv, TimersInv, SpriteInv
    <3> QED BY <2>10, <3>1 DEF LongPressFires, HoldEffects, Emit
  <2>11. CASE TwoFingerHoldFires
    <3>1. sprite' = state.cursor
      BY <2>11 DEF TwoFingerHoldFires, GestureInv, TimersInv, SpriteInv
    <3> QED BY <2>11, <3>1 DEF TwoFingerHoldFires, Emit
  <2>12. ASSUME \/ ToggleMode \/ LinkStep \/ OnConnected \/ ApplyViewport
                \/ \E h \in HoldActions : SetHoldAction(h)
         PROVE  FALSE
    BY <2>2, <2>12 DEF ToggleMode, LinkStep, OnConnected, ApplyViewport, SetHoldAction
  <2> QED
    BY <2>3, <2>4, <2>5, <2>6, <2>7, <2>8, <2>9, <2>10, <2>11, <2>12
    DEF Next, TouchStep, PointerUp
<1>2. QED BY <1>1, GestureInvariant, TypeCorrect, PTL DEF Spec, ClicksLandOnSprite
=============================================================================
