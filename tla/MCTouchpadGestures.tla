------------------------- MODULE MCTouchpadGestures -------------------------
(* Small instances of TouchpadGestures for TLC. *)
EXTENDS TouchpadGestures

(***************************************************************************)
(* What comments of the repository say of the gestures where the code does *)
(* otherwise.                                                              *)
(***************************************************************************)

(* TouchpadInputInterceptor: "Ignore the tail of a scroll gesture once the  *)
(* second finger lifted."  In particular the tail presses no button.        *)
ScrollTailIgnored ==
  [][multi /\ Single /\ TouchStep /\ ~Several' => "press" \notin sent']_vars

(* TouchpadPointerState.directPressed: "True while TOUCH mode holds the     *)
(* left button (finger on screen)."                                         *)
DirectPressedHasFinger == state.directPressed => fingers # {}

(* TouchpadPointerState.grabbing: "True while a long-press grab holds the   *)
(* left button down."                                                       *)
GrabbingHoldsButton == state.grabbing /\ link = "live" => server.left

(* Geometry.kt: toFramebuffer is "null when the viewport is not laid out    *)
(* yet or the point falls outside the rendered image" -- it never throws.   *)
TouchNeverThrows == ~crashed
=============================================================================
