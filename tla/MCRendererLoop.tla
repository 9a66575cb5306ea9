---------------------------- MODULE MCRendererLoop ----------------------------
(* Small instances of RendererLoop for TLC, and what the code does not do.  *)
EXTENDS RendererLoop

(* A change is shown even if it came while a picture was being drawn. *)
LateIsShown == mark = "late" ~> mark # "late" \/ ~Visible
================================================================================
