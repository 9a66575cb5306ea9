----------------------------- MODULE MCX11Session -----------------------------
(* Small instances of X11Session for TLC, and what the comments and texts   *)
(* of the repository say where the code does otherwise.                     *)
EXTENDS X11Session

(* X11Client.connect: "A deliberate disconnect() must not surface as an     *)
(* error."                                                                  *)
DeliberateIsQuiet == ~(net = "report" /\ cause = "local")

(* X11Client.disconnect: "Stops the loops and closes the socket."           *)
DisconnectStops == ui = "stop" ~> net = "ended"

(* LauncherActivity.describeError has a text for a server that cannot be    *)
(* reached, "Cannot reach the X server. Start the desktop inside the guest  *)
(* first": a failed connect is reported as an error.                        *)
UnreachableIsAnError == net = "ended" /\ cause = "unreachable" /\ ~destroyed
                          => hadError \/ \E i \in DOMAIN queue : queue[i] = "error"
===============================================================================
