----------------------------- MODULE GpuCopyQueue -----------------------------
(***************************************************************************)
(* Present copies offloaded to the renderer.  The X server (one thread)    *)
(* queues a copy in shared memory, keeps the vblank pending, and polls a   *)
(* serial at every frame; the renderer thread of the activity's process    *)
(* drains the queue on the GPU under state->lock and publishes the serial. *)
(*                                                                         *)
(* Rectangles, pixels and formats are left out; the mouse cursor, flips    *)
(* and a second connection are not part of this module.                    *)
(***************************************************************************)
EXTENDS Integers, FiniteSets

CONSTANTS
  Vblanks,   \* vblank records of the Present extension
  Buffers,   \* LorieBuffers that both processes know
  Root,      \* the root window's buffer
  Src, Dst,  \* vblank -> the buffer it is copied from, and into
  Capacity,  \* LORIE_GPU_COPY_QUEUE_CAPACITY
  Modulus,   \* 2^32: writeIndex and readIndex are uint32_t
  MaxSerial, \* bound: copies offloaded altogether
  MaxFaults  \* bound: failed requeues, scraps, window changes, closes and deaths

ASSUME CopyAssumption ==
  /\ Root \in Buffers
  /\ Src \in [Vblanks -> Buffers \ {Root}] /\ Dst \in [Vblanks -> Buffers]
  /\ \A v \in Vblanks : Src[v] # Dst[v]
  /\ Capacity \in Nat \ {0} /\ Modulus \in Nat \ {0}
  /\ Modulus % Capacity = 0 /\ Modulus > Capacity
  /\ MaxSerial \in Nat /\ MaxFaults \in Nat

Serials == 0..MaxSerial
Entry   == [serial : Serials, src : Buffers, dst : Buffers]
Access  == [read : SUBSET Buffers, write : SUBSET Buffers]
NoAccess == [read |-> {}, write |-> {}]

VARIABLES
  entries, writeIndex, readIndex, completedSerial, \* state->gpuCopyQueue
  lock,              \* who holds state->lock: "free", "server", "renderer"
  surfaceAvailable, drawRequested, waitForNextFrame, \* the rest of the shared state
  copy,              \* the server: gpu_copy_serial of each vblank, 0 when none is pending
  counter,           \* gpuCopySerialCounter
  pend,              \* gpuCopyPending of each buffer, rootGpuCopyPending for Root
  damage,            \* RegionNotEmpty(DamageRegion(pvfb->damage))
  alive,             \* lorieConnectionAlive()
  srv,               \* where the server thread is
  acc,               \* the buffers the CPU is using, or is about to use
  todo,              \* vblanks the current walk has still to look at
  notice,            \* an EVENT_GPU_COPY_DONE is under way
  rpc,               \* the renderer thread: where it is
  mode,              \* why it drains: "apply", "first" of a redraw, "draw"
  last,              \* lastSerial
  inflight,          \* copies submitted to the GPU and not known finished
  window,            \* pendingWin # nullptr
  windowChanged, stateChanged, viewportChanged, waitingForBuffers,
  fits,              \* the root buffer has the size expectedW x expectedH
  givenUp,           \* history: serials acknowledged although not finished
  faults             \* history: faults so far

queue    == <<entries, writeIndex, readIndex, completedSerial>>
flags    == <<surfaceAvailable, drawRequested, waitForNextFrame>>
books    == <<copy, counter, pend, givenUp, faults>>
server   == <<books, damage, srv, acc, todo>>
ren      == <<mode, last, inflight, waitingForBuffers>>
renderer == <<rpc, ren>>
wnd      == <<window, windowChanged, stateChanged, viewportChanged, fits>>
activity == <<alive, wnd>>
vars     == <<queue, lock, flags, server, notice, renderer, activity>>

ServerAt == {"idle", "publish", "poll", "recheck", "lock", "access"}
RendererAt == {"check", "sleep", "waiting", "work", "choose", "lock", "drain", "drained",
               "fence", "done", "unlock", "draw", "dead", "gone"}

TypeOK ==
  /\ entries \in [0..Capacity - 1 -> Entry]
  /\ writeIndex \in 0..Modulus - 1 /\ readIndex \in 0..Modulus - 1
  /\ completedSerial \in Serials /\ counter \in Serials /\ last \in Serials
  /\ lock \in {"free", "server", "renderer"}
  /\ surfaceAvailable \in BOOLEAN /\ drawRequested \in BOOLEAN /\ waitForNextFrame \in BOOLEAN
  /\ copy \in [Vblanks -> Serials] /\ pend \in [Buffers -> Nat]
  /\ damage \in BOOLEAN /\ alive \in BOOLEAN /\ notice \in BOOLEAN
  /\ srv \in [at : ServerAt, stalled : BOOLEAN]
  /\ acc \in Access /\ todo \in SUBSET Vblanks
  /\ rpc \in RendererAt /\ mode \in {"apply", "first", "draw"}
  /\ inflight \in SUBSET Entry /\ givenUp \in SUBSET Serials
  /\ window \in BOOLEAN /\ windowChanged \in BOOLEAN /\ stateChanged \in BOOLEAN
  /\ viewportChanged \in BOOLEAN /\ waitingForBuffers \in BOOLEAN /\ fits \in BOOLEAN
  /\ faults \in 0..MaxFaults

(* A connected activity with a surface and its viewport applied.            *)
Init ==
  /\ entries = [i \in 0..Capacity - 1 |-> [serial |-> 0, src |-> Root, dst |-> Root]]
  /\ writeIndex = 0 /\ readIndex = 0 /\ completedSerial = 0 /\ counter = 0 /\ last = 0
  /\ lock = "free"
  /\ surfaceAvailable = TRUE /\ drawRequested = TRUE /\ waitForNextFrame = FALSE
  /\ copy = [v \in Vblanks |-> 0] /\ pend = [b \in Buffers |-> 0]
  /\ damage = FALSE /\ alive = TRUE /\ notice = FALSE
  /\ srv = [at |-> "idle", stalled |-> FALSE] /\ acc = NoAccess /\ todo = {}
  /\ rpc = "check" /\ mode = "apply" /\ inflight = {} /\ givenUp = {}
  /\ window = TRUE /\ windowChanged = FALSE /\ stateChanged = FALSE
  /\ viewportChanged = FALSE /\ waitingForBuffers = FALSE /\ fits = TRUE
  /\ faults = 0

-----------------------------------------------------------------------------
(* Shared pieces.                                                           *)

Idle     == srv.at = "idle"
Goto(at) == srv' = [srv EXCEPT !.at = at]
IsDone(serial) == completedSerial >= serial
Stalled  == ~alive \/ ~surfaceAvailable
Pending  == {v \in Vblanks : copy[v] # 0}
FullLate == (writeIndex - readIndex) % Modulus > Capacity  \* mutant: one entry too many
Full     == (writeIndex - readIndex) % Modulus >= Capacity
Waiting  == readIndex # writeIndex  \* copies the renderer has to drain

(* Something goes wrong that need not. *)
Fault == faults < MaxFaults /\ faults' = faults + 1

Uses(v, b) == IF b \in {Src[v], Dst[v]} THEN 1 ELSE 0

(* pthread_cond_signal(rendererCond), without the renderer's stateLock: it  *)
(* only reaches a renderer that already sleeps.                             *)
Signal == rpc' = IF rpc = "waiting" THEN "check" ELSE rpc

(* The threads of the activity's process signal with stateLock held, which  *)
(* the renderer has from shouldWait until it sleeps or starts to draw.      *)
StateLockFree == rpc \notin {"check", "sleep", "work", "dead", "gone"}

-----------------------------------------------------------------------------
(* The server: present_execute_copy.                                        *)

(* The queue has room: the entry is written and both buffers are marked.    *)
TryScheduleGpuCopy(v) ==
  /\ Idle /\ copy[v] = 0 /\ ~Stalled /\ ~Full /\ counter < MaxSerial
  /\ counter' = counter + 1
  /\ entries' = [entries EXCEPT ![writeIndex % Capacity] =
                   [serial |-> counter', src |-> Src[v], dst |-> Dst[v]]]
  /\ pend' = [b \in Buffers |-> pend[b] + Uses(v, b)]
  /\ todo' = {v} /\ Goto("publish")
  /\ UNCHANGED <<writeIndex, readIndex, completedSerial, lock,
                 flags, copy, givenUp, damage, activity, acc, notice,
                 renderer, faults>>

(* lorieGpuCopyAck, and what is remembered of a copy that is not finished.  *)
Ack(v, serial) ==
  /\ pend' = [b \in Buffers |-> pend[b] - Uses(v, b)]
  /\ givenUp' = givenUp \union (IF IsDone(serial) THEN {} ELSE {serial})

(* The entry becomes visible and the renderer is signalled.  What of the    *)
(* update lies in the window's clip list is damaged: some of it, or nothing *)
(* when the window is covered.  The vblank polls from the next frame on,    *)
(* or, when it cannot be queued, is treated as done.                        *)
PublishGpuCopy ==
  /\ srv.at = "publish" /\ Goto("idle") /\ todo' = {}
  /\ writeIndex' = (writeIndex + 1) % Modulus /\ Signal
  /\ \E v \in todo :
       /\ (Dst[v] = Root /\ damage' = TRUE) \/ UNCHANGED damage
       /\ \/ /\ copy' = [copy EXCEPT ![v] = counter]
             /\ UNCHANGED <<pend, givenUp, faults>>
          \/ Fault /\ Ack(v, counter) /\ UNCHANGED copy
  /\ UNCHANGED <<entries, readIndex, completedSerial, lock, flags,
                 counter, activity, acc, notice, ren>>

(* A pending vblank is executed again: it stays queued while its copy can   *)
(* still finish, else it is acknowledged and presented, or skipped.         *)
ExecutePending(v) ==
  \/ ~IsDone(copy[v]) /\ ~Stalled /\ UNCHANGED <<copy, pend, givenUp, faults>>
  \/ /\ IF IsDone(copy[v]) \/ Stalled THEN UNCHANGED faults ELSE Fault
     /\ Ack(v, copy[v]) /\ copy' = [copy EXCEPT ![v] = 0]

(* Mutant: a scrapped vblank stays marked, and is acknowledged once more.    *)
ScrapStaysPending(v) ==
  /\ Fault /\ Idle /\ copy[v] # 0
  /\ Ack(v, copy[v]) /\ UNCHANGED copy
  /\ UNCHANGED <<queue, lock, flags, counter, damage, activity,
                 srv, acc, todo, notice, renderer>>

(* present_vblank_scrap and present_vblank_destroy: a newer Present of the  *)
(* same frame, or the end of the window, drops a vblank.                    *)
Scrap(v) ==
  /\ Fault /\ Idle /\ copy[v] # 0
  /\ Ack(v, copy[v]) /\ copy' = [copy EXCEPT ![v] = 0]
  /\ UNCHANGED <<queue, lock, flags, counter, damage, activity,
                 srv, acc, todo, notice, renderer>>

(* lorieRedraw: the choreographer's frame. First all queued vblanks ...     *)
PerformVblanks ==
  /\ Idle /\ todo' = Pending /\ Goto("poll")
  /\ UNCHANGED <<queue, lock, flags, books, damage, activity, acc,
                 notice, renderer>>

PollOne ==
  /\ srv.at = "poll"
  /\ \E v \in todo : ExecutePending(v) /\ todo' = todo \ {v}
  /\ UNCHANGED <<queue, lock, flags, counter, damage, activity,
                 srv, acc, notice, renderer>>

(* Mutant: the renderer is only signalled when new damage came.              *)
RedrawOnce ==
  /\ srv.at = "poll" /\ todo = {} /\ Goto("idle")
  /\ waitForNextFrame' = FALSE
  /\ IF Stalled
     THEN UNCHANGED <<damage, drawRequested, rpc>>
     ELSE /\ damage' = FALSE /\ drawRequested' = (drawRequested \/ damage)
          /\ IF damage THEN Signal ELSE UNCHANGED rpc
  /\ UNCHANGED <<queue, lock, surfaceAvailable, books, activity,
                 acc, todo, notice, ren>>

(* ... then the renderer may draw again, and is told of damage.             *)
Redraw ==
  /\ srv.at = "poll" /\ todo = {} /\ Goto("idle")
  /\ waitForNextFrame' = FALSE
  /\ IF Stalled
     THEN UNCHANGED <<damage, drawRequested, rpc>>
     ELSE /\ damage' = FALSE /\ drawRequested' = (drawRequested \/ damage)
          /\ IF drawRequested' THEN Signal ELSE UNCHANGED rpc
  /\ UNCHANGED <<queue, lock, surfaceAvailable, books, activity,
                 acc, todo, notice, ren>>

(* lorieRecheckGpuCopies, the work item of a notice. Notices are merged: a  *)
(* further one may still be under way.                                      *)
Recheck ==
  /\ Idle /\ notice /\ notice' \in BOOLEAN
  /\ srv' = [at |-> "recheck", stalled |-> Stalled] /\ todo' = Pending
  /\ UNCHANGED <<queue, lock, flags, books, damage, activity, acc, renderer>>

RecheckOne ==
  /\ srv.at = "recheck"
  /\ \E v \in todo :
       /\ todo' = todo \ {v}
       /\ IF IsDone(copy[v]) \/ srv.stalled THEN ExecutePending(v)
          ELSE UNCHANGED <<copy, pend, givenUp, faults>>
  /\ UNCHANGED <<queue, lock, flags, counter, damage, activity,
                 srv, acc, notice, renderer>>

RecheckEnd ==
  /\ srv.at = "recheck" /\ todo = {} /\ Goto("idle")
  /\ UNCHANGED <<queue, lock, flags, books, damage, activity, acc,
                 todo, notice, renderer>>

(* Mutant: only the root window's accesses are locked.                       *)
NeedsRootLock(a) == Root \in a.write \/ (Root \in a.read /\ pend[Root] > 0)

-----------------------------------------------------------------------------
(* The server's CPU accesses, loriePrepareAccess and lorieFinishAccess.     *)

NeedsGpuLock(a) == Root \in a.write \/ \E b \in a.read \union a.write : pend[b] > 0

(* What the CPU may be asked to do: present_copy_region of a Present that   *)
(* is not offloaded, or any other reading or drawing.                       *)
CpuWork == {[read |-> {Src[v]}, write |-> {Dst[v]}] : v \in {u \in Vblanks : copy[u] = 0}}
           \union {[read |-> {b}, write |-> {}] : b \in Buffers}
           \union {[read |-> {}, write |-> {b}] : b \in Buffers}

PrepareAccess ==
  /\ Idle /\ acc' \in CpuWork
  /\ Goto(IF NeedsGpuLock(acc') THEN "lock" ELSE "access")
  /\ UNCHANGED <<queue, lock, flags, books, damage, activity,
                 todo, notice, renderer>>

(* lorie_mutex_lock in the server: a mutex that stays locked after the      *)
(* connection is lost is initialized anew.                                  *)
LockForAccess ==
  /\ srv.at = "lock" /\ lock = "free" /\ lock' = "server" /\ Goto("access")
  /\ UNCHANGED <<queue, flags, books, damage, activity, acc, todo,
                 notice, renderer>>

ServerReinit ==
  /\ srv.at = "lock" /\ lock = "renderer" /\ ~alive /\ lock' = "free"
  /\ UNCHANGED <<queue, flags, server, activity, notice, renderer>>

(* Unlocking a mutex that is no longer the server's fails without effect.   *)
FinishAccess ==
  /\ srv.at = "access" /\ Goto("idle") /\ acc' = NoAccess
  /\ damage' = (damage \/ Root \in acc.write)
  /\ lock' = IF NeedsGpuLock(acc) /\ lock = "server" THEN "free" ELSE lock
  /\ UNCHANGED <<queue, flags, books, activity, todo, notice, renderer>>

-----------------------------------------------------------------------------
(* The renderer thread: threadLoop.                                         *)

At(pc) == rpc = pc

(* shouldWait, with stateLock held.                                         *)
ShouldWait ==
  /\ ~stateChanged /\ ~windowChanged /\ ~Waiting
  /\ \/ ~surfaceAvailable \/ waitForNextFrame \/ waitingForBuffers'
     \/ ~drawRequested

Check ==
  /\ At("check") /\ viewportChanged' = FALSE
  /\ waitingForBuffers' = (waitingForBuffers /\ ~viewportChanged)
  /\ rpc' = IF ShouldWait THEN "sleep" ELSE "work"
  /\ UNCHANGED <<queue, lock, flags, server, alive, notice, mode,
                 last, inflight, window, windowChanged, stateChanged, fits>>

(* pthread_cond_wait; a signal between Check and here is lost.              *)
Sleep ==
  /\ At("sleep") /\ rpc' = "waiting"
  /\ UNCHANGED <<queue, lock, flags, server, activity, notice, ren>>

SpuriousWakeup ==
  /\ At("waiting") /\ rpc' = "check"
  /\ UNCHANGED <<queue, lock, flags, server, activity, notice, ren>>

(* refreshContext: the new window is taken, found invalid, or EGL fails.    *)
RefreshContext ==
  \/ window /\ surfaceAvailable' = TRUE /\ drawRequested' = TRUE /\ UNCHANGED notice
  \/ surfaceAvailable' = FALSE /\ notice' = TRUE /\ UNCHANGED drawRequested
  \/ window /\ UNCHANGED <<surfaceAvailable, drawRequested, notice>>

(* A new state or window is applied; without a state the renderer no longer *)
(* touches the shared memory.                                               *)
Work ==
  /\ At("work")
  /\ windowChanged' = FALSE /\ stateChanged' = FALSE
  /\ rpc' = IF stateChanged THEN "gone" ELSE "choose"
  /\ IF windowChanged /\ ~stateChanged THEN RefreshContext
     ELSE UNCHANGED <<surfaceAvailable, drawRequested, notice>>
  /\ UNCHANGED <<queue, lock, waitForNextFrame, server, alive,
                 ren, window, viewportChanged, fits>>

(* A redraw that shares one fence with the copies, or the copies alone. The *)
(* redraw first drains the copies that are already waiting.                 *)
Choose ==
  /\ At("choose")
  /\ LET redraw == surfaceAvailable /\ ~waitForNextFrame /\ (drawRequested \/ Waiting)
     IN  /\ rpc'  = IF Waiting THEN "lock" ELSE IF redraw THEN "draw" ELSE "check"
         /\ mode' = IF redraw THEN "first" ELSE "apply"
  /\ UNCHANGED <<queue, lock, flags, server, activity, notice,
                 last, inflight, waitingForBuffers>>

(* redrawLocked: a root buffer of another size is not drawn.                *)
RedrawLocked ==
  /\ At("draw") /\ mode' = "draw"
  /\ rpc' = IF fits THEN "lock" ELSE "check"
  /\ drawRequested' = (drawRequested /\ fits)
  /\ waitingForBuffers' = (waitingForBuffers \/ ~fits)
  /\ UNCHANGED <<queue, lock, surfaceAvailable, waitForNextFrame,
                 server, activity, notice, last, inflight>>

(* lorie_mutex_lock in the renderer. conn_fd is only set in the server's    *)
(* process, so lorieConnectionAlive() is false here and every timeout       *)
(* initializes the mutex anew.                                              *)
Lock ==
  /\ At("lock") /\ lock = "free" /\ lock' = "renderer" /\ rpc' = "drain" /\ last' = 0
  /\ UNCHANGED <<queue, flags, server, activity, notice, mode,
                 inflight, waitingForBuffers>>

RendererReinit ==
  /\ At("lock") /\ lock = "server" /\ lock' = "free"
  /\ UNCHANGED <<queue, flags, server, activity, notice, renderer>>

(* applyPendingGpuCopiesLocked, one entry; a copy whose buffers are not     *)
(* found within 100 ms is skipped.                                          *)
Drain ==
  /\ At("drain") /\ Waiting
  /\ LET entry == entries[readIndex % Capacity]
     IN  /\ last' = entry.serial
         /\ \E found \in BOOLEAN : inflight' = inflight \union (IF found THEN {entry} ELSE {})
  /\ readIndex' = (readIndex + 1) % Modulus
  /\ UNCHANGED <<entries, writeIndex, completedSerial, lock,
                 flags, server, activity, notice, rpc, mode,
                 waitingForBuffers>>

Drained ==
  /\ At("drain") /\ ~Waiting
  /\ rpc' = IF mode = "draw" THEN "drained" ELSE IF last # 0 THEN "fence" ELSE "unlock"
  /\ UNCHANGED <<queue, lock, flags, server, activity, notice, ren>>

(* redrawLocked goes on: the root texture is drawn behind the copies.       *)
DrawRoot ==
  /\ At("drained") /\ rpc' = "fence" /\ drawRequested' = FALSE
  /\ UNCHANGED <<queue, lock, surfaceAvailable, waitForNextFrame,
                 server, activity, notice, ren>>

(* Mutant: the fence is not waited for.                                      *)
FenceIgnored ==
  /\ At("fence") /\ UNCHANGED inflight /\ rpc' = "done"
  /\ UNCHANGED <<queue, lock, flags, server, activity, notice,
                 mode, last, waitingForBuffers>>

(* eglClientWaitSyncKHR: the GPU has finished what was submitted.           *)
Fence ==
  /\ At("fence") /\ inflight' = {} /\ rpc' = "done"
  /\ UNCHANGED <<queue, lock, flags, server, activity, notice,
                 mode, last, waitingForBuffers>>

(* The serial is published, and the server notified.                        *)
Complete ==
  /\ At("done") /\ rpc' = "unlock"
  /\ IF last # 0 THEN completedSerial' = last /\ notice' = (notice \/ alive)
                 ELSE UNCHANGED <<completedSerial, notice>>
  /\ waitForNextFrame' = (waitForNextFrame \/ mode = "draw")
  /\ UNCHANGED <<entries, writeIndex, readIndex, lock,
                 surfaceAvailable, drawRequested, server, activity, ren>>

Unlock ==
  /\ At("unlock")
  /\ lock' = IF lock = "renderer" THEN "free" ELSE lock
  /\ rpc' = IF mode = "first" THEN "draw" ELSE "check"
  /\ UNCHANGED <<queue, flags, server, activity, notice, ren>>

-----------------------------------------------------------------------------
(* The activity: window, viewport and connection.                           *)

ActivityFree == StateLockFree /\ ~windowChanged /\ ~stateChanged

SetWindow ==
  /\ Fault /\ ActivityFree
  /\ window' \in BOOLEAN /\ windowChanged' = TRUE /\ fits' = FALSE /\ Signal
  /\ UNCHANGED <<queue, lock, flags, copy, counter, pend, givenUp,
                 damage, alive, srv, acc, todo, notice, ren, stateChanged,
                 viewportChanged>>

SetViewport ==
  /\ ActivityFree /\ ~fits
  /\ fits' = TRUE /\ viewportChanged' = TRUE /\ drawRequested' = TRUE /\ Signal
  /\ UNCHANGED <<queue, lock, surfaceAvailable, waitForNextFrame,
                 server, alive, notice, ren, window, windowChanged,
                 stateChanged>>

(* connect(-1): the socket is closed first, the state taken away next.      *)
CloseConnection ==
  /\ Fault /\ alive /\ alive' = FALSE
  /\ UNCHANGED <<queue, lock, flags, copy, counter, pend, givenUp,
                 damage, srv, acc, todo, notice, renderer, wnd>>

DropSharedState ==
  /\ ~alive /\ ActivityFree /\ stateChanged' = TRUE /\ Signal
  /\ UNCHANGED <<queue, lock, flags, server, alive, notice, ren,
                 window, windowChanged, viewportChanged, fits>>

(* The activity's process is killed; its socket closes with it.             *)
Die ==
  /\ Fault /\ rpc \notin {"dead", "gone"}
  /\ rpc' = "dead" /\ alive' = FALSE /\ inflight' = {}
  /\ UNCHANGED <<queue, lock, flags, copy, counter, pend, givenUp,
                 damage, srv, acc, todo, notice, mode, last,
                 waitingForBuffers, wnd>>

-----------------------------------------------------------------------------
ServerStep ==
  \/ PublishGpuCopy \/ PollOne \/ Redraw \/ RecheckOne \/ RecheckEnd \/ FinishAccess
  \/ ServerReinit

RendererStep ==
  \/ Check \/ Sleep \/ Work \/ Choose \/ RedrawLocked \/ RendererReinit \/ Drain \/ Drained
  \/ DrawRoot \/ Fence \/ Complete \/ Unlock

Next ==
  \/ \E v \in Vblanks : TryScheduleGpuCopy(v) \/ Scrap(v)
  \/ ServerStep \/ PerformVblanks \/ Recheck \/ PrepareAccess \/ LockForAccess
  \/ RendererStep \/ Lock \/ SpuriousWakeup
  \/ SetWindow \/ SetViewport \/ CloseConnection \/ DropSharedState \/ Die

(* The server's loop never blocks except on the lock, frames keep coming    *)
(* from the choreographer, and the renderer thread runs. Strong fairness of *)
(* the lock: who keeps asking for a mutex that keeps being free gets it.    *)
Fairness ==
  /\ WF_vars(ServerStep) /\ SF_vars(PerformVblanks) /\ SF_vars(LockForAccess)
  /\ WF_vars(RendererStep) /\ SF_vars(Lock)

Spec == Init /\ [][Next]_vars /\ Fairness

-----------------------------------------------------------------------------
(* Properties.                                                              *)

Queued == {entries[((readIndex + i) % Modulus) % Capacity] :
             i \in 0..((writeIndex - readIndex) % Modulus) - 1}

(* lorieGpuCopyIsDone tells the truth: a serial that counts as done belongs *)
(* to no copy that is queued or still under way on the GPU. It takes the    *)
(* fence before the store, and serials that leave the queue in order.       *)
DoneIsFinished == \A e \in Queued \union inflight : ~IsDone(e.serial)

(* The ring never loses or repeats an entry: the copies between readIndex   *)
(* and writeIndex are the newest ones, one entry for each serial.           *)
QueueIntact ==
  {e.serial : e \in Queued} =
    LET newest == IF srv.at = "publish" THEN counter - 1 ELSE counter
    IN  newest - ((writeIndex - readIndex) % Modulus) + 1 .. newest

(* GPU operations that an access of the CPU would disturb.                  *)
Conflict(a) ==
  \/ \E e \in {c \in inflight : c.serial \notin givenUp} :
       {e.src, e.dst} \intersect a.write # {} \/ e.dst \in a.read
  \/ At("fence") /\ mode = "draw" /\ Root \in a.write

(* While the connection lives, the CPU starts to use a buffer only when the *)
(* GPU is not using it: the pending counters lead it to the lock exactly    *)
(* when a copy that was not given up can be under way.                      *)
AccessWaitsForGpu ==
  [][srv.at # "access" /\ srv'.at = "access" /\ alive => ~Conflict(acc')]_vars

(* Every Present that is pending while the root window has damage is        *)
(* answered: copied, or given up when the renderer loses its surface, its   *)
(* connection or its life, although signals and notices may be lost.  The   *)
(* damage, its own or another's, makes every frame signal again until the   *)
(* renderer draws.  A copy that damages nothing, into a covered or a        *)
(* redirected window, has only the one signal of its publication.           *)
EventuallyAnswered == \A v \in Vblanks : copy[v] # 0 /\ damage ~> copy[v] = 0
===============================================================================
