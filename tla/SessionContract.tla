--------------------------- MODULE SessionContract ---------------------------
(***************************************************************************)
(* What X11Client.connect promises its Listener and its owner, without the *)
(* sockets and threads: onConnected at most once and before any frame, at  *)
(* most one onError, onDisconnected exactly once and last, and the end     *)
(* always follows an error or a disconnect() that found the session up.    *)
(***************************************************************************)
VARIABLES
  told,  \* the latest callback the listener was given
  asked  \* disconnect() was called while the session was up

cvars == <<told, asked>>

Tell(from, to) == told \in from /\ told' = to /\ UNCHANGED asked

Connected    == Tell({"none"}, "connected")
Frame        == Tell({"connected", "frame"}, "frame")
Failed       == Tell({"none", "connected", "frame"}, "error")
Disconnected == Tell({"none", "connected", "frame", "error"}, "disconnected")

Ask == ~asked /\ asked' = TRUE /\ UNCHANGED told

MustEnd == asked \/ told = "error"

Init == told = "none" /\ asked = FALSE
Next == Connected \/ Frame \/ Failed \/ Disconnected \/ Ask
Spec == Init /\ [][Next]_cvars /\ WF_cvars(MustEnd /\ Disconnected)
==============================================================================
