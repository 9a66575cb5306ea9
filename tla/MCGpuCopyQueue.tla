---------------------------- MODULE MCGpuCopyQueue ----------------------------
(* Small instances of GpuCopyQueue for TLC, and what the native code's       *)
(* comments say where it does otherwise.                                     *)
EXTENDS GpuCopyQueue

CONSTANTS v1, v2, pixmap, win
MCSrc == [v \in Vblanks |-> pixmap]
MCDst == [v \in Vblanks |-> IF v = v1 THEN Root ELSE win]

(* lorie.h, lorie_shared_server_state: drawing the root window while the X   *)
(* server writes it garbles the picture, "so we should block X server while  *)
(* we are drawing".                                                          *)
RootExclusive ==
  ~(alive /\ srv.at = "access" /\ Root \in acc.write /\ At("fence") /\ mode = "draw")

(* A Present is answered also when its copy damages nothing that is seen.    *)
AnsweredUnseen == \A v \in Vblanks : copy[v] # 0 ~> copy[v] = 0
===============================================================================
