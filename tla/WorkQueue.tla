------------------------------- MODULE WorkQueue -------------------------------
(***************************************************************************)
(* lorie/workqueue.cpp: the X server's work queue as a bounded lock-free   *)
(* ring with an overflow list under a spinlock.  Any thread pushes; only   *)
(* the server's own thread pops.  One action is one atomic access (or a    *)
(* critical section of the spinlock), so pushes, pops and walks interleave *)
(* as on the machine.  Positions are size_t: they wrap at Modulus.         *)
(***************************************************************************)
EXTENDS Integers, Sequences, FiniteSets

CONSTANTS
  Producers,  \* threads that queue work: input thread, binder, choreographer
  Server,     \* the server's own thread
  Kinds,      \* tells a producer's work items apart
  Items,      \* the work items that may be queued at once
  RingSize,   \* kRingSize
  Modulus,    \* size_t wraps here
  MaxStall,   \* bound: pushes that a thread inside ringPush may sleep through
  Gone,       \* items whose client is gone
  Retry,      \* items whose work function may return FALSE, to be called again
  Oom,        \* may malloc fail?
  Passes,     \* passes the server runs: process, zombies, clear
  ListHead, Null, Freed \* overflowHead's own address, nullptr, a node that is not allocated

Threads == Producers \union {Server}
Nodes   == Items \union {ListHead}

ASSUME SizesAssumption ==
  /\ RingSize \in Nat /\ RingSize >= 2
  /\ Modulus \in Nat /\ Modulus % RingSize = 0 /\ Modulus >= 4 * RingSize
  /\ MaxStall \in Nat /\ RingSize < MaxStall /\ 2 * MaxStall <= Modulus
ASSUME ItemsAssumption ==
  /\ Server \notin Producers /\ Items \subseteq Producers \X Kinds
  /\ Gone \subseteq Items /\ Retry \subseteq Items /\ Oom \in BOOLEAN
  /\ Passes \subseteq {"process", "zombies", "clear"} /\ "process" \in Passes
ASSUME PointersAssumption ==
  /\ {ListHead, Null, Freed} \cap (Items \union Threads) = {}
  /\ ListHead # Null /\ ListHead # Freed /\ Null # Freed

VARIABLES
  sequence, item,         \* ring[i].sequence, ring[i].item
  enqueuePos, dequeuePos,
  next,                   \* next pointer of a node (and of overflowHead)
  overflowLast,           \* whose next pointer the list ends in
  overflowLock,           \* the thread that holds the spinlock, or Null
  pc, work, pos,          \* of each thread in ringPush / overflowPush
  pass, remaining, hand,  \* of the server's pass over the queue
  p,                      \* its place in the overflow list
  wake,                   \* the eventfd of lorieWakeServer
  order                   \* history: each producer's unfinished items, in order

ring     == <<sequence, item, enqueuePos, dequeuePos>>
overflow == <<next, overflowLast, overflowLock>>
local    == <<work, pos>>
serving  == <<pass, remaining, hand, p>>
vars     == <<ring, overflow, local, pc, serving, wake, order>>

Slot(n) == n % RingSize
Wrap(n) == n % Modulus

(* (ptrdiff_t) a - (ptrdiff_t) b *)
Diff(a, b) == LET d == (a - b) % Modulus
              IN  IF 2 * d >= Modulus THEN d - Modulus ELSE d

Init ==
  /\ sequence = [i \in 0 .. RingSize - 1 |-> i]
  /\ item = [i \in 0 .. RingSize - 1 |-> Null]
  /\ enqueuePos = 0 /\ dequeuePos = 0
  /\ next = [n \in Nodes |-> IF n = ListHead THEN Null ELSE Freed]
  /\ overflowLast = ListHead /\ overflowLock = Null
  /\ pc = [t \in Threads |-> "idle"]
  /\ work = [t \in Threads |-> Null] /\ pos = [t \in Threads |-> 0]
  /\ pass = "process" /\ remaining = 0 /\ hand = Null /\ p = ListHead
  /\ wake = FALSE
  /\ order = [t \in Producers |-> <<>>]

-------------------------------------------------------------------------------
(***************************************************************************)
(* Where an item is; in the overflow list, by the pointers to its node.    *)
(***************************************************************************)
Pushing == {"load", "look", "cas", "fill", "publish", "spill", "append"}

(* Published ring positions from dequeuePos on, claimed ones excluded. *)
RingPlaces(i) ==
  {n \in 0 .. Modulus - 1 :
     /\ (n - dequeuePos) % Modulus < (enqueuePos - dequeuePos) % Modulus
     /\ sequence[Slot(n)] = Wrap(n + 1) /\ item[Slot(n)] = i}

Places(i) ==
  {<<"ring", n>> : n \in RingPlaces(i)}
    \union {<<"thread", t>> : t \in {t \in Threads : work[t] = i /\ pc[t] \in Pushing}}
    \union {<<"hand", s>> : s \in {s \in {Server} : hand = i /\ pc[s] \in {"release", "call"}}}
    \union {<<"slot", s>> : s \in {s \in {Server} : pc[s] = "copy"
                                     /\ item[Slot(dequeuePos - 1)] = i}}
    \union {<<"node", n>> : n \in {n \in Nodes : next[n] = i}}

Pending == {i \in Items : Places(i) # {}}

-------------------------------------------------------------------------------
(***************************************************************************)
(* ringPush and overflowPush, by any thread.  A compare-exchange that      *)
(* fails reloads pos; when it fails spuriously (it is the weak one) pos is *)
(* as before and nobody else can have touched the cell: a stutter.         *)
(***************************************************************************)
At(t, here)    == pc[t] = here
Goto(t, there) == pc' = [pc EXCEPT ![t] = there]

(* A thread's locals are dead once its call returned. *)
Return(t) ==
  /\ Goto(t, IF t = Server THEN "pop" ELSE "wake")
  /\ work' = [work EXCEPT ![t] = Null] /\ pos' = [pos EXCEPT ![t] = 0]

(* The sequence s without its (only) entry i. *)
Without(s, i) ==
  IF \A k \in 1 .. Len(s) : s[k] # i THEN s
  ELSE LET k == CHOOSE k \in 1 .. Len(s) : s[k] = i
       IN  [j \in 1 .. Len(s) - 1 |-> IF j < k THEN s[j] ELSE s[j + 1]]

(* An item leaves for good: its function returned TRUE, or it is dropped. *)
Finished(i) == order' = [order EXCEPT ![i[1]] = Without(@, i)]

PushLoad(t) ==
  /\ At(t, "load") /\ Goto(t, "look")
  /\ pos' = [pos EXCEPT ![t] = enqueuePos]
  /\ UNCHANGED <<ring, overflow, work, serving, wake, order>>

Look(t) ==
  LET d == Diff(sequence[Slot(pos[t])], pos[t])
  IN  Goto(t, IF d = 0 THEN "cas" ELSE IF d < 0 THEN "spill" ELSE "load")

PushLook(t) ==
  /\ At(t, "look") /\ Look(t)
  /\ UNCHANGED <<ring, overflow, local, serving, wake, order>>

(* A thread that slept through 2^w pushes after it looked at its cell would *)
(* win its compare-exchange on a cell that is no longer free.               *)
NobodyStalls ==
  \A t \in Threads : pc[t] \in {"look", "cas"} => (enqueuePos - pos[t]) % Modulus < MaxStall

PushCas(t) ==
  /\ At(t, "cas")
  /\ \/ /\ NobodyStalls
        /\ enqueuePos = pos[t] /\ enqueuePos' = Wrap(pos[t] + 1)
        /\ Goto(t, "fill") /\ UNCHANGED pos
     \/ /\ enqueuePos # pos[t] /\ pos' = [pos EXCEPT ![t] = enqueuePos]
        /\ Goto(t, "look") /\ UNCHANGED enqueuePos
  /\ UNCHANGED <<sequence, item, dequeuePos, overflow, work, serving, wake, order>>

PushFill(t) ==
  /\ At(t, "fill") /\ Goto(t, "publish")
  /\ item' = [item EXCEPT ![Slot(pos[t])] = work[t]]
  /\ UNCHANGED <<sequence, enqueuePos, dequeuePos, overflow, local, serving, wake, order>>

PushPublish(t) ==
  /\ At(t, "publish") /\ Return(t)
  /\ sequence' = [sequence EXCEPT ![Slot(pos[t])] = Wrap(pos[t] + 1)]
  /\ UNCHANGED <<item, enqueuePos, dequeuePos, overflow, serving, wake, order>>

(* malloc; a push that fails is dropped, and its callers do not look. *)
Spill(t) ==
  /\ At(t, "spill")
  /\ \/ Goto(t, "append") /\ UNCHANGED <<local, order>>
     \/ /\ Oom /\ Return(t)
        /\ Finished(work[t])
  /\ UNCHANGED <<ring, overflow, serving, wake>>

Link(t) ==
  /\ At(t, "append") /\ overflowLock = Null /\ Return(t)
  /\ next' = [next EXCEPT ![overflowLast] = work[t], ![work[t]] = Null]
  /\ overflowLast' = work[t]
  /\ UNCHANGED <<ring, overflowLock, serving, wake, order>>

PushStep(t) ==
  \/ PushLoad(t) \/ PushLook(t) \/ PushCas(t) \/ PushFill(t) \/ PushPublish(t)
  \/ Spill(t) \/ Link(t)

(* A caller of QueueWorkProc, and the lorieWakeServer that follows. *)
QueueWorkProc(i) ==
  LET t == i[1]
  IN  /\ At(t, "idle") /\ i \notin Pending
      /\ Goto(t, "load")
      /\ work' = [work EXCEPT ![t] = i]
      /\ order' = [order EXCEPT ![t] = Append(@, i)]
      /\ UNCHANGED <<ring, overflow, pos, serving, wake>>

WakeNobody(t) ==
  /\ At(t, "wake") /\ Goto(t, "idle")
  /\ UNCHANGED <<ring, overflow, local, serving, wake, order>>

WakeServer(t) ==
  /\ At(t, "wake") /\ Goto(t, "idle")
  /\ wake' = TRUE
  /\ UNCHANGED <<ring, overflow, local, serving, order>>

-------------------------------------------------------------------------------
(***************************************************************************)
(* The server's thread: a pass over the ring, then over the overflow list. *)
(***************************************************************************)
On(here) == At(Server, here)
Do(there) == Goto(Server, there)

(* WaitForSomething runs a pass whenever it wakes, CloseDownClient and the *)
(* end of a server generation run the other two.                           *)
BeginPass(kind) ==
  /\ On("idle") /\ Do("pop")
  /\ pass' = kind
  /\ remaining' = IF kind = "clear" THEN 0 ELSE (enqueuePos - dequeuePos) % Modulus
  /\ wake' = (wake /\ kind # "process")
  /\ UNCHANGED <<ring, overflow, local, hand, p, order>>

PopLook ==
  LET d == Diff(sequence[Slot(dequeuePos)], Wrap(dequeuePos + 1))
  IN  /\ On("pop")
      /\ Do(IF (pass = "clear" \/ remaining > 0) /\ d = 0 THEN "claim" ELSE "lock")
      /\ remaining' = IF pass = "clear" \/ remaining = 0 \/ d # 0 THEN 0 ELSE remaining - 1
      /\ UNCHANGED <<ring, overflow, local, pass, hand, p, wake, order>>

ClaimUnwrapped ==
  /\ On("claim") /\ Do("copy")
  /\ dequeuePos' = dequeuePos + 1
  /\ UNCHANGED <<sequence, item, enqueuePos, overflow, local, serving, wake, order>>

ClaimAndRelease ==
  /\ On("claim") /\ Do("copy")
  /\ dequeuePos' = Wrap(dequeuePos + 1)
  /\ sequence' = [sequence EXCEPT ![Slot(dequeuePos)] = Wrap(dequeuePos + RingSize)]
  /\ UNCHANGED <<item, enqueuePos, overflow, local, serving, wake, order>>

Claim ==
  /\ On("claim") /\ Do("copy")
  /\ dequeuePos' = Wrap(dequeuePos + 1)
  /\ UNCHANGED <<sequence, item, enqueuePos, overflow, local, serving, wake, order>>

Copy ==
  /\ On("copy") /\ Do("release")
  /\ hand' = item[Slot(dequeuePos - 1)]
  /\ UNCHANGED <<ring, overflow, local, pass, remaining, p, wake, order>>

(* The cell's old item is dead from here on: nothing reads it again. *)
Release ==
  /\ On("release") /\ Do("call")
  /\ item' = [item EXCEPT ![Slot(dequeuePos - 1)] = Null]
  /\ sequence' = [sequence EXCEPT ![Slot(dequeuePos - 1)]
                                    = Wrap(dequeuePos - 1 + RingSize)]
  /\ UNCHANGED <<enqueuePos, dequeuePos, overflow, local, serving, wake, order>>

Requeue ==
  /\ Do("load") /\ work' = [work EXCEPT ![Server] = hand] /\ hand' = Null
  /\ UNCHANGED order

Done == Do("pop") /\ hand' = Null /\ Finished(hand) /\ UNCHANGED work

(* The work function of an item from the ring, and what is done with it. *)
Call ==
  /\ On("call")
  /\ CASE pass = "process" -> Done \/ (hand \in Retry /\ Requeue)
       [] pass = "zombies" -> IF hand \in Gone THEN Done ELSE Requeue
       [] pass = "clear"   -> Done
  /\ UNCHANGED <<ring, overflow, pos, pass, remaining, p, wake>>

Lock ==
  /\ On("lock") /\ overflowLock = Null /\ Do("walk")
  /\ overflowLock' = Server /\ p' = ListHead
  /\ UNCHANGED <<ring, next, overflowLast, local, pass, remaining, hand, wake, order>>

UnlinkTail(q) == next' = [next EXCEPT ![p] = Null, ![q] = Freed]

Unlink(q) == next' = [next EXCEPT ![p] = next[q], ![q] = Freed]

EndWalkForgetsLast ==
  /\ On("walk") /\ next[p] = Null /\ Do("idle")
  /\ overflowLock' = Null /\ p' = ListHead /\ pass' = "process"
  /\ UNCHANGED <<ring, next, overflowLast, local, remaining, hand, wake, order>>

EndWalk ==
  /\ On("walk") /\ next[p] = Null /\ Do("idle")
  /\ overflowLast' = p /\ overflowLock' = Null /\ p' = ListHead /\ pass' = "process"
  /\ UNCHANGED <<ring, next, local, remaining, hand, wake, order>>

(* ProcessWorkQueue lets go of the lock for the call; the other two passes *)
(* keep it.                                                                *)
WalkUnlock ==
  /\ On("walk") /\ next[p] # Null /\ pass = "process" /\ Do("listCall")
  /\ overflowLock' = Null /\ hand' = next[p]
  /\ UNCHANGED <<ring, next, overflowLast, local, pass, remaining, p, wake, order>>

WalkLocked ==
  LET q == next[p]
  IN  /\ On("walk") /\ q # Null /\ pass # "process" /\ UNCHANGED pc
      /\ IF pass = "clear" \/ q \in Gone
         THEN Unlink(q) /\ Finished(q) /\ UNCHANGED p
         ELSE p' = q /\ UNCHANGED <<next, order>>
      /\ UNCHANGED <<ring, overflowLast, overflowLock, local, pass, remaining, hand, wake>>

ListCall ==
  /\ On("listCall")
  /\ Do("finished") \/ (hand \in Retry /\ Do("kept"))
  /\ UNCHANGED <<ring, overflow, local, serving, wake, order>>

Relock ==
  /\ On("finished") \/ On("kept")
  /\ overflowLock = Null /\ overflowLock' = Server /\ Do("walk") /\ hand' = Null
  /\ IF On("finished") THEN Unlink(hand) /\ Finished(hand) /\ UNCHANGED p
     ELSE p' = hand /\ UNCHANGED <<next, order>>
  /\ UNCHANGED <<ring, overflowLast, local, pass, remaining, wake>>

PassStep ==
  \/ PopLook \/ Claim \/ Copy \/ Release \/ Call
  \/ Lock \/ EndWalk \/ WalkUnlock \/ WalkLocked \/ ListCall \/ Relock

Woken == wake /\ BeginPass("process")

Next ==
  \/ \E t \in Threads : PushStep(t)
  \/ \E t \in Producers : WakeServer(t)
  \/ \E i \in Items : QueueWorkProc(i)
  \/ \E kind \in Passes : BeginPass(kind)
  \/ PassStep

(* Every thread that has begun a call is scheduled until it returns, and    *)
(* the poll of the eventfd returns.  Strong, since a thread may find the    *)
(* spinlock busy again and again.                                           *)
Fairness ==
  /\ \A t \in Threads : SF_vars(PushStep(t))
  /\ \A t \in Producers : WF_vars(WakeServer(t))
  /\ WF_vars(Woken) /\ SF_vars(PassStep)

Spec == Init /\ [][Next]_vars /\ Fairness

-------------------------------------------------------------------------------
(* Ring positions are size_t values, cells and pointers hold items. *)
TypeOK ==
  /\ sequence \in [0 .. RingSize - 1 -> 0 .. Modulus - 1]
  /\ item \in [0 .. RingSize - 1 -> Items \union {Null}]
  /\ enqueuePos \in 0 .. Modulus - 1 /\ dequeuePos \in 0 .. Modulus - 1
  /\ next \in [Nodes -> Items \union {Null, Freed}]
  /\ overflowLast \in Nodes /\ p \in Nodes
  /\ overflowLock \in {Null, Server}
  /\ pc \in [Threads -> {"idle", "wake", "pop", "claim", "copy", "release", "call",
                         "lock", "walk", "listCall", "finished", "kept"} \union Pushing]
  /\ work \in [Threads -> Items \union {Null}]
  /\ pos \in [Threads -> 0 .. Modulus - 1]
  /\ pass \in {"process", "zombies", "clear"}
  /\ remaining \in 0 .. RingSize
  /\ hand \in Items \union {Null}
  /\ wake \in BOOLEAN
  /\ order \in [Producers -> Seq(Items)]

Unfinished == {i \in Items : \E n \in 1 .. Len(order[i[1]]) : order[i[1]][n] = i}

(* Nothing is lost and nothing is run twice: an unfinished item is in       *)
(* exactly one place (a cell, a node, the hands of one thread), a finished  *)
(* one nowhere, through wrap-around, spills, requeues and walks that give   *)
(* up the lock.  Only ClearWorkQueue and a failed malloc drop items.        *)
OnePlace == \A i \in Items : Cardinality(Places(i)) = IF i \in Unfinished THEN 1 ELSE 0

(* No two threads are between claiming a cell and publishing it on the same *)
(* cell, and no producer fills the cell that the server is reading.         *)
CellsExclusive ==
  /\ \A t, u \in Threads :
       t # u /\ pc[t] \in {"fill", "publish"} /\ pc[u] \in {"fill", "publish"}
         => Slot(pos[t]) # Slot(pos[u])
  /\ \A t \in Producers :
       pc[t] \in {"fill", "publish"} /\ pc[Server] \in {"copy", "release"}
         => Slot(pos[t]) # Slot(dequeuePos - 1)

(* Whenever the spinlock is free, overflowLast points into the end of the   *)
(* list and never into a freed node, so an overflowPush between two calls   *)
(* of a walk, or after it, is linked where the next walk finds it.          *)
AppendIsSafe == overflowLock = Null => next[overflowLast] = Null

(* Every queued item is eventually taken out of the queue and run: no       *)
(* interleaving of pushes, the early end of the ring scan at an unpublished *)
(* cell, and the wake-up strands an item.                                   *)
EventuallyRun == \A i \in Items : i \in Pending ~> i \notin Pending
================================================================================
