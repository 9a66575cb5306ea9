---------------------------- MODULE RendererWakeup ----------------------------
(***************************************************************************)
(* The condition variable with which the server wakes the renderer lives   *)
(* in memory that every connection of an activity maps anew.  The input    *)
(* thread queues the swap for the server's thread, so that no signal meets *)
(* the unmapping; it also handles EVENT_MOUSE, which signals at once.      *)
(***************************************************************************)
EXTENDS Naturals, Sequences

CONSTANT MaxConds  \* bound: EVENT_RENDERER_WAKEUP_COND received altogether

VARIABLES
  rendererCond,  \* 0 is rendererCondPlaceholder
  mapped,        \* the condition variables that are in memory
  work,          \* the work procedures queued: file descriptors to map
  received,      \* EVENT_RENDERER_WAKEUP_COND so far
  swap,          \* the server's thread: where it is in the work procedure
  old,           \* its local variable
  signals        \* per thread: the variable it passes to pthread_cond_signal, or none

vars == <<rendererCond, mapped, work, received, swap, old, signals>>

NoCond == MaxConds + 1

Init ==
  /\ rendererCond = 0 /\ mapped = {0} /\ work = <<>> /\ received = 0
  /\ swap = "idle" /\ old = 0
  /\ signals = [thread \in {"server", "input"} |-> NoCond]

(* The input thread: lorieSetRendererWakeupCond. *)
ReceiveCond ==
  /\ received < MaxConds /\ received' = received + 1 /\ signals["input"] = NoCond
  /\ work' = Append(work, received')
  /\ UNCHANGED <<rendererCond, mapped, swap, old, signals>>

(* lorieSetCursorVisible on the input thread, lorieRedraw and the like on   *)
(* the server's: the pointer is loaded, then the variable signalled.        *)
Load(thread) ==
  /\ signals[thread] = NoCond /\ (thread = "server" => swap = "idle")
  /\ signals' = [signals EXCEPT ![thread] = rendererCond]
  /\ UNCHANGED <<rendererCond, mapped, work, received, swap, old>>

Signal(thread) ==
  /\ signals[thread] # NoCond /\ signals' = [signals EXCEPT ![thread] = NoCond]
  /\ UNCHANGED <<rendererCond, mapped, work, received, swap, old>>

(* lorieSetRendererWakeupCondWorkProc: map, or keep the old one; swap and   *)
(* signal the new one; unmap.                                               *)
MapCond ==
  /\ swap = "idle" /\ signals["server"] = NoCond /\ work # <<>>
  /\ \/ mapped' = mapped \union {Head(work)} /\ swap' = "mapped" /\ UNCHANGED work
     \/ work' = Tail(work) /\ UNCHANGED <<mapped, swap>>
  /\ UNCHANGED <<rendererCond, received, old, signals>>

SwapCond ==
  /\ swap = "mapped" /\ swap' = "swapped" /\ old' = rendererCond
  /\ rendererCond' = Head(work) /\ work' = Tail(work)
  /\ UNCHANGED <<mapped, received, signals>>

UnmapOld ==
  /\ swap = "swapped" /\ swap' = "idle" /\ mapped' = mapped \ ({old} \ {0})
  /\ UNCHANGED <<rendererCond, work, received, old, signals>>

Next ==
  \/ ReceiveCond \/ MapCond \/ SwapCond \/ UnmapOld
  \/ \E thread \in {"server", "input"} : Load(thread) \/ Signal(thread)

Spec == Init /\ [][Next]_vars

--------------------------------------------------------------------------------
(* What the comment above lorieSetRendererWakeupCondWorkProc says: "the     *)
(* swap and the unmap below can never race a signal".  A variable that is   *)
(* about to be signalled is in memory.                                      *)
SignalIsMapped == \A thread \in {"server", "input"} :
                    signals[thread] # NoCond => signals[thread] \in mapped
================================================================================
