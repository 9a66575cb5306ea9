-------------------------- MODULE MCLorieConnection --------------------------
(* Small instances of LorieConnection for TLC, and what comments of the     *)
(* repository say where the code does otherwise.                            *)
EXTENDS LorieConnection

CONSTANTS c1, c2, r1, r2, p1

(* lorieRegisterBuffer returns with "Already registered" for a buffer in    *)
(* the list: the activity at the other end of conn_fd was sent it.          *)
RegisteredWasSent ==
  Idle /\ conn_fd # None /\ conn_fd \notin closed => registered \subseteq sent[conn_fd]

(* LorieBuffer_recvHandleFromUnixSocket: "Reset process-specific data".     *)
(* The first reference is the activity's own.                               *)
CopyIsFresh == \A b \in added : copied[b] <= 1
===============================================================================
