---------------------------- MODULE MCWorkQueueBurst ----------------------------
(* WorkQueue under one burst of work, with the items that were queued since  *)
(* the running pass began recorded beside it.                                *)
EXTENDS MCWorkQueue

CONSTANT Burst \* bound: calls of QueueWorkProc altogether

VARIABLES
  left,   \* calls of the burst still to come
  during  \* items queued since the pass began

Calling == {t \in Producers : At(t, "idle") /\ pc'[t] = "load"}

Record ==
  /\ left' = left - Cardinality(Calling) /\ left' >= 0
  /\ during' = IF On("idle") /\ pc'[Server] # "idle" THEN {}
               ELSE IF On("idle") THEN during
               ELSE during \union {work'[t] : t \in Calling}

BurstSpec ==
  /\ Init /\ left = Burst /\ during = {}
  /\ [][Next /\ Record]_<<vars, left, during>>
  /\ Fairness

(* workqueue.cpp, ProcessWorkQueue: "Items pushed while this runs are left   *)
(* for the next call."                                                       *)
LeftForNextCall ==
  [][On("finished") /\ overflowLock' = Server => hand \notin during]_<<vars, left, during>>
=================================================================================
