----------------------------- MODULE MCWorkQueue -----------------------------
(* Small instances of WorkQueue for TLC, and what comments of the native    *)
(* code say of it.                                                          *)
EXTENDS WorkQueue

CONSTANTS p1, p2
MCItems == {<<p1, 1>>, <<p1, 2>>, <<p2, 1>>}
MCGone  == {<<p2, 1>>}
MCRetry == {<<p1, 1>>}

(* cmdentrypoint.cpp, EVENT_SYNC: "the reply is a reliable 'the server has  *)
(* applied every event sent so far' barrier": one thread's items are        *)
(* finished in the order in which it queued them.                           *)
SyncIsBarrier ==
  [][\A t \in Producers :
       Len(order'[t]) < Len(order[t]) => order'[t] = Tail(order[t])]_vars
==============================================================================
