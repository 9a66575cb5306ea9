# TLA+ models of the X launcher

The repository is an Android app that shows and controls the X desktop of a Linux
guest. It has two halves:

- the **launcher** (Kotlin, `src/app/src/main/java/com/linux_core/xlauncher`): an X11
  client that fetches the root window over TCP, draws it with OpenGL and turns touches
  into mouse events;
- **lorie** (C and C++, `src/app/src/main/linux-x11/src/main/cpp/lorie`, with a patch to
  the X server's Present extension): an X server that shares memory with a renderer
  thread in the activity's process.

Everything else under `linux-x11` (X.Org, Xlib, pixman and their build recipes) is
vendored. Paths below are relative to those two directories.

## Inventory

| Component | State it keeps | Operations | Hard behaviour | What makes it correct |
|---|---|---|---|---|
| Touch gestures, `input/touchpad/*` | `TouchpadPointerState`; two timers; `holdPending` | each touch sample, two timers, mode button, settings | timers against touches, fingers that come and go, a session that starts or ends mid-gesture | a gesture leaves nothing pressed, armed or scrolling; clicks land where the pointer is drawn |
| X11 session, `X11Client.kt`, and the listener in `LauncherActivity.kt` | fields `socket`, `input`, `output`; atomic `running`; the socket; the UI thread's queue; the status line | `connect`, `handshake`, `frameLoop`, `inject`, `disconnect`, the callbacks | `disconnect()` on another thread at any moment; events and errors between a request and its reply; delayed runnables | callbacks in order, one end, no leaked socket, errors shown and deliberate stops quiet |
| GL renderer, `X11Renderer.kt` | viewport, texture, the current frame | draw, `toFramebuffer` | two frame buffers shared with the network thread | a frame is not overwritten while it is uploaded |
| Activity, `LauncherActivity.kt` | `client`, `hadError`, status line, keyboard | touch conversion, lifecycle, keys | callbacks after `onDestroy` | see gestures and session |
| Key table, settings | tables, two preferences | lookups | none | pure |
| Work queue, `workqueue.cpp` | ring of cells, overflow list, spinlock, eventfd | `QueueWorkProc`, `ProcessWorkQueue`, `...Zombies`, `ClearWorkQueue` | several lock-free producers, wrapping positions, a full ring | every item runs once; nobody shares a cell; nothing is forgotten |
| GPU copies: `InitOutput.c`, `renderer.cpp`, `lorie.h`, `patches/xserver.patch` | a ring in shared memory, serials, pending counters, `state->lock` | schedule, poll, acknowledge, drop, drain, draw; CPU access | two processes, lost signals, a lock whose owner can die, serials polled while they change | "done" means finished; CPU and GPU do not use one buffer at once; every Present is answered |
| Renderer loop, `renderer.cpp` | window, viewport, cursor, buffers, flags | wait, refresh, redraw | flags cleared after they were read | what was last drawn is what was last asked for |
| Connection, `cmdentrypoint.cpp`, `activity.cpp` | `conn_fd`, registered buffers, half-read events | events in both directions, reconnect, registration | an old connection's error after a new one was accepted; short reads | the stream stays in step; both sides know the same buffers |
| Clipboard, `clipboard.c` | owner, cache, waiting requests | selection requests, data from the activity | a client or activity that leaves while a request waits | every request is answered once |
| Buffers and fences, `buffer.c`, `xshmfence.c` | reference counts, fence word | allocate, share, release, trigger, await | two processes | no use after the last release |
| Screen, input devices, XKB, `shm/shmem.c` | X server tables | set-up | none of their own | set-up code |

How they meet: a touch goes Activity → gestures → `X11Client.inject` → X server; a frame
goes X server → `X11Client` → renderer; session callbacks are posted to the UI thread.
In lorie the input thread and the choreographer hand work to the server's thread through
the work queue; the server hands copies to the renderer through shared memory; the
activity and the server exchange events on a socket. `PROJECT.json` lists the hazards
with their lines, and which property stands guard over which.

## Modules

| Module | Models | Theorems in |
|---|---|---|
| `TouchpadGestures` | the gesture layer, its timers, and the X server's button and pointer | `TouchpadGesturesProofs` |
| `X11Session` | client thread, UI thread, server and TCP connection | `X11SessionProofs` |
| `SessionContract` | what the session promises its listener (abstract) | |
| `WorkQueue` | the native work queue, one action per atomic access | `WorkQueueProofs` |
| `GpuCopyQueue` | offloaded Present copies: server, renderer thread, activity | `GpuCopyQueueProofs` |
| `LorieConnection` | the socket between server and activity, and which buffers both sides share | `LorieConnectionProofs` |
| `LorieClipboard` | the CLIPBOARD selection between X clients and Android | `LorieClipboardProofs` |
| `RendererLoop` | how a change gets to the screen: server, renderer thread, UI thread | `RendererLoopProofs` |
| `RendererWakeup` | the replacement of the condition variable that wakes the renderer | |
| `WrapAround` | nothing: lemmas about counters that wrap, for the proofs | itself |
| `MC...` | instances for TLC, and formulas that quote a comment the code does not honour | |

`X11Session` composes its two threads with the server and the network;
`GpuCopyQueue` composes the server's thread, the renderer's thread and the activity's
lifecycle. `LorieConnection` composes the five threads that touch a connection,
`LorieClipboard` the clients, the server's and the input thread and the activity, and
`RendererLoop` the server, the renderer and the UI thread. They overlap where the code does
and each leaves out what another has: a connection is one step in `RendererLoop` and in
`LorieClipboard`, and the drawing is one step in `LorieConnection`. `MCWorkQueueBurst` adds history variables to `WorkQueue` to count one burst.

Operators that no action uses, such as `MouseCancelKeepsGrab` or `FenceIgnored`, are
deliberately wrong versions of the definition after them. They serve to show that a
property notices that mistake (`PROJECT.json`, "mutants").

### TouchpadGestures

`state` is `TouchpadPointerState` field by field; `longPress`, `twoFingerHold` are the two
scheduled runnables. A touch sample is one action, because samples and timers run on the
UI thread: `Down`, `PointerDown`, `OneFingerMove`, `TwoFingerMove`, `PointerUp`, `Up`,
`Cancel` route through `OneFinger` and `TwoFingers` (the interceptor) to the operators of
the mouse, direct and scroll handlers. `LinkStep`, `OnConnected`, `ApplyViewport` are the
session and the renderer as far as they change what a handler sees. What the handlers
send is collected in `sent` and applied to `server` if the session is live.

Positions are abstract, and distances are reduced to the two questions the handlers ask
(`far`: past the slop; `near`: close to the last tap). Scroll travel keeps its arithmetic,
because the remainder carried to the next sample matters.

Two switches select the environment: `ToggleMidGesture` lets the mode button be hit while
a finger is down, `TouchOutside` lets touches fall on the letterbox bars. Both happen; the
properties of `gestures_core` do not survive them (see the deviations), so they are
separated from those that hold everywhere (`gestures_any_env`).

### X11Session

`net` is the program counter of the client thread; an action is one access to something
another thread can see. So `connect()` is `Assign`, `Dial`, `SetSocket`, `OpenStreams`,
`SetRunning`, then the handshake and the loop, and the catch and finally blocks are
`Catch`, `TellError`, `CloseOwn`, `ClearOwn`, `TellDisconnected`. On the UI thread
`disconnect()` is `DisconnectStop`, `DisconnectClose`, `DisconnectClear`; `socket` is not
volatile, so its value may have been read early (`seen`). `Serve`, `SendEvent` and
`LoseConnection` are the server and the network, which are external. Pixels, header
layouts and keycodes are left out; which packet answers which request is kept.
`RaceConnect` says whether the activity may be destroyed while `connect()` still dials.

### WorkQueue

Every load, compare-exchange and store of `ringPush` and `ringPop` is an action; a critical
section of the spinlock is one action. Positions wrap at `Modulus`, and `Diff` is the signed
difference the code computes. Cells and nodes hold items; `next` is the list's pointers,
with `Freed` for a node that is not allocated, so that a use after free would show. The
memory model is sequential consistency: the code pairs acquire loads with release stores
at every hand-over, and no decision rests on a relaxed read of another thread's cell.

### GpuCopyQueue

The server's thread is at `srv.at`, the renderer's at `rpc`. The server schedules
(`TryScheduleGpuCopy`, `PublishGpuCopy`), polls at each frame (`PerformVblanks`, `PollOne`,
`Redraw`), re-checks on a notice (`Recheck...`), drops vblanks (`Scrap`) and uses buffers on
the CPU (`PrepareAccess`, `LockForAccess`, `FinishAccess`). The renderer checks, sleeps,
refreshes its context, locks, drains, waits for the fence, publishes the serial and
unlocks. `ServerReinit` and `RendererReinit` are the two ways in which `lorie_mutex_lock`
initializes a mutex anew after a timeout. A vblank's two buffers are constants; regions,
formats, flips, the cursor and a second connection are left out. The shared memory is
unmapped only after the renderer has dropped it, which is why `gone` is a final state.

`PublishGpuCopy` damages the root or not: the patch damages what of the update lies in the
window's clip list, which may be nothing, while the entry is queued from the update as it
came. Only damage makes later frames signal the renderer again, so `EventuallyAnswered` is
about Presents that are pending while the root has damage; for the others see the
deviations.

### LorieConnection

Three threads of the server's process meet here. The binder thread hands out a socket pair
(`GetXConnection`); the server's thread accepts it (`RegisterDev`, `AcceptStep`) and
registers buffers; the input thread finds out that a connection broke (`Broken`, `EmptyList`).
A call of the server's thread puts its steps in `plan`, and `ServerStep` does one at a time,
reading `conn_fd` anew each time as the code does: so `lorieRegisterBuffer` is `CheckRegister`,
`SendAdd`, `AddToList`, and the input thread may run between any two. `SetSize`,
`CreatePixmap`, `Flip`, `SchedulePresent`, `AckPresent`, `DestroyPixmap` are the calls that
lead there, with the reference counts they keep. In the activity the UI thread reads
(`Receive...`), and `RendererRound` is one round of the renderer's loop as far as it moves
buffers between lists.

The UI thread gives a connection up in the steps of the code, and the renderer and the server
may run between any two. After a hangup these are `Hangup` (the socket is closed and `connFd`
is -1), `Unmap` (`setSharedState(nullptr)`, which returns when the renderer has let go of the
state) and `Forget` (`removeAllBuffers`, under its spinlock). `connect(fd)` with a connection
open is `BeginConnect`, `Unmap`, `Forget`, `Adopt`, and `connFd` names the closed connection
until the last. `leaving` remembers whose buffers are still there in between, and
`HeldIsCurrent` is stated for every such state: the renderer never has buffers of one
connection with the state of another. `connect(-1)` is left out because its only caller in the repository is the
constructor, with no connection open, and so is the destructor, after which there is no
renderer. `DestroyPixmap` takes pixmaps whose copies were all acknowledged; a redirected
window's pixmap that is destroyed with copies pending is left out.

`clean` remembers connections that were accepted when no error of an older connection was
outstanding and the list was empty, which is how a user connects; `lent` remembers buffers
that arrived with a reference count above one. Both name the cases in which the code does
not keep its books (see the deviations).

### LorieClipboard

A text is the number of the copy that made it. `wire`, `work` and `back` are the three queues
(socket to the server, work queue, socket to the activity); `stamp` counts what happened
to Android's clipboard, so that "older" has a meaning. Android to X: `AndroidCopy`,
`InputThread`, `HandleAnnounce`, `ConvertSelection`, `ActivityReads`, `HandleData`. X to
Android: `SetSelectionOwner`, then the client's two requests `ChangeProperty` and `SendEvent`,
first for the targets and then for the text. `Disconnect`, `Connect`, `EnableSync`,
`ClearSelection` (owner None) and `ClientLeaves` happen at any time. `crashed` is the write to a client that was freed.
`Overtake` allows work items of one thread to overtake each other, which `WorkQueue` shows
to be possible when the ring is full.

The socket to the activity is a stream, and `xcallback` reads `count + 1` bytes for a text of
`count` (`activity.cpp:215-217`). If a message is already behind the text, its first byte goes
with the text (`ReadMessage`), and from then on the reader is one byte ahead: `skewed`.
A message read so is torn. Its type is not known and nothing is done; the characters of a
torn text are read as events, so that anything may come of them (`ReadTorn`). The reader is
in step again at the latest when the socket is empty, because a short read is dropped.
`torn` remembers this until the reader is in step and nobody waits any more: `PasteIsAnswered`
and `CopyArrives` hold otherwise. A text of `count` 0 is dropped (`Empty`). The server reads
exactly `count` bytes, so `wire` needs none of this. Messages other than the clipboard's can
be torn too; `LorieConnection` leaves that out.

### RendererLoop

`page` is the shared memory, `pc` the renderer's place in `threadLoop` and `redrawLocked`, one
action for each access to the page that the server or the UI thread can come between.
`Wake` is a signal: it is lost unless the renderer sleeps. Any one change may be marked;
`mark` says what the change is about until the renderer has read it. That gives liveness of each
change without counting changes. Root buffers are told apart only by how they stand to the
present root. The server runs without GPU copies here, as it does with
`gpuPresentDisabled` or `legacyDrawing`. When a new root replaces the old one (`Replace`) the
mark is given up whatever it is about, because roots that follow each other faster than they are
drawn can keep any one change from the screen: `ChangeIsShown` speaks of changes after
the last such replacement.

### RendererWakeup

The server's thread swaps `rendererCond` in three steps; a signal is a load and a call. Two
threads signal.

## Runs

| Run | Instance | Shows |
|---|---|---|
| `gestures_core` | 3 fingers, 2 positions, notch 2 | nothing is left behind; a held button is remembered by the flag of its mode; timers belong to their gesture; clicks land on the drawn pointer; no right click in a drag |
| `gestures_any_env` | the same, with toggles mid-gesture and touches on the bars | the hold flag agrees with the scheduler; less than a notch is carried; wheel clicks are measured on one pair of fingers |
| `session_core` | no race with the dial, 2 inputs, 1 event, 1 text | own closes are quiet, sockets closed, errors stay visible, the status tells the end, a frame answers its own request |
| `session_contract` | with the race, 1 input, 1 event | the session implements `SessionContract`, its liveness included |
| `queue_safety` | 2 producers, 3 items, ring of 2, all passes | each unfinished item is in exactly one place, cells have one user, the tail pointer survives |
| `queue_liveness` | a burst of 4 calls | each item is run |
| `gpu_copy` | 2 vblanks (root and a redirected window) with one source pixmap, 3 copies, 1 fault | done means finished, the ring keeps its entries, CPU access waits for the GPU, the pending counters stay counts of pending copies |
| `gpu_answered` | 1 vblank into the root, 2 copies that damage it or not, 1 fault | a Present that is pending while the root has damage is answered |
| `connection` | 2 connections, 2 roots, 1 pixmap, up to 2 references | at every step of a hangup and a reconnect the renderer has buffers and state of one connection only; on a clean one each buffer is sent once, nothing the server dropped stays, the root arrives |
| `clipboard` | 2 clients (one offers STRING only), 2 copies (one of them bad: not UTF-8, or empty as STRING), 2 connections, 2 waiting requests | pastes are fresh, nobody is missed or left waiting, copies reach Android, unless a message is torn |
| `renderer_loop` | 1 surface, all kinds of changes | changes get to the screen, the renderer draws on a living surface, the UI thread's calls return |
| `renderer_wakeup` (violation) | 2 condition variables | a signal of the input thread races the unmapping |

### Bounds

- `MaxFingers = 3`: the handlers look at pointers 0 and 1 only, so a third finger is the
  least that changes the pair. `Notch = 2`, `MaxDy = 3`: travel below, at and above one
  notch, in both directions, with a remainder of 0 and 1.
- `MaxInputs`, `MaxEvents`, `MaxTexts`: one packet of each kind between a request and its
  reply is what can shift replies; two inputs let one be written before and one after a
  disconnect.
- `RingSize = 2` with 3 items makes the ring full and spills; `Modulus = 8` makes the
  positions wrap. `MaxStall` says how many pushes a thread can sleep through inside
  `ringPush`: the signed difference needs less than half the modulus. With 64-bit positions
  nothing else is possible; with 32 bits it is an assumption.
- `Burst = 4`: one more call than there are items, so that an item is queued again.
- `Capacity = 2`, `Modulus = 4`, `MaxSerial = 3`: the ring fills and the indices wrap while
  entries are in it. Serials are 64 bits in the code and do not wrap.
- `MaxFaults = 1`: one failed requeue, scrap, window change, close or death, at any point.
  Lost signals, skipped copies, spurious wake-ups and mutex timeouts are not faults and
  happen at will.
- `Conns` of 2: the least with which one connection replaces another, breaks after it or is
  accepted before the first one's error. Two roots make one resize. One pixmap is enough,
  because buffers do not affect each other; `MaxRefs = 2` gives one pending copy of it.
- `MaxCopies = 2`: a second copy makes the first one stale, in both directions; `MaxConns = 2`
  gives one reconnect; `MaxWaits = 2` two clients, or one twice, in the list. `Malformed` and
  `Empty` are both {1}: an owner answers each target with bytes of its own, so the bad copy is
  refused by the server as UTF-8 and dropped by the activity as STRING, and the second copy
  must arrive either way.
- `Windows` of 1 surface: it comes and goes without end. With two surfaces, one replacing
  the other, the invariants were checked apart (`Tracked = {}`).

Sessions, gestures, connections and clipboards may stop for good (the session has ended, a process
crashed, the bounds are used up), so their runs do not check for deadlock. The queue, GPU
and renderer runs do.

### Fairness

- `X11Session`: weak fairness of the client thread and of the UI thread. Android schedules
  both; a read ends by data, by the read timeout or by the close of the socket, so it is a
  step of the thread. The user, the server and the network have none.
- `WorkQueue`: a thread inside a call and the server inside a pass are scheduled, strongly
  fair because they may find the spinlock busy again and again; weak fairness of the write
  to the eventfd and of the pass that follows it. Starting a call has none.
- `GpuCopyQueue`: weak fairness of the two threads, strong fairness of taking the mutex
  and of the choreographer's frames (which come again and again whenever the server is
  idle). Notices have none: the code calls them best-effort, and the frame's poll alone
  must suffice.

- `LorieConnection`: weak fairness of a thread inside a call, of the looper that reads, of the
  renderer's loop and of the input thread, of each step in which a connection is given up; the
  activity passes on the descriptor it asked for; a hangup has none; strong fairness of the accept, which needs a lock that the input thread takes.
- `LorieClipboard`: weak fairness of the four readers of queues, and of a client's answer to
  what it was asked. Nobody has to copy, paste, connect or leave.
- `RendererLoop`: weak fairness of the frames (the choreographer's callback), of the
  renderer and of the rest of a frame; strong fairness of the UI thread where it needs
  `stateLock`, which the renderer gives up again and again. No signal is assumed to arrive.

## What is proved

All theorems hold for every value of the constants that satisfies the named assumptions.

**Gestures** (`TouchpadGesturesProofs`). `TypeCorrect` and `HoldFlag` hold in every
environment. The others assume `CoreEnv`: no toggle while a finger is down, no touch on
the bars. None of the safety properties is inductive: that no button is left behind when the last
finger lifts depends on which handler owns it before. `GestureInv` has three parts:
`OwnersInv` (who may hold the left button, by mode, link and number of fingers, and when
a scroll may be on), `TimersInv` (who may have a timer armed, and that no button is held
then), `SpriteInv` (the drawn pointer is the remembered one). Each action is shown to keep
it; `NothingLeft`, `HeldRemembered` and `TimersOwned` follow by `GestureInvImplies`, and
`NoRightClickInDrag`, an action property, from `TimersInv` at the two timers.

The scroll needs less and holds in every environment. `CarriesLess` is inductive as it stands,
with lemmas about the handler's division. `MeasuresSameFingers` is an action property; its
invariant `ScrollInv` says that a scroll has several fingers down and a client, and that its
reference sample is of the pair now down unless it ended in a right click. `ClicksOnSprite`
follows from `GestureInv` under `CoreEnv`.

**Session** (`X11SessionProofs`). `SessionTypes` is type correctness.
`SessionImplementsContract` shows that each step is a step of `SessionContract` or leaves
it alone, also when `disconnect()` races `connect()`; its invariant `ToldInv` relates the
client thread's place to the last callback. `OwnCloseQuiet` and `SocketClosed` assume that
`disconnect()` does not race the dial. `StopInv` follows the stop through both threads
(after the stop flag is cleared no path sets it again, and only then can our own close
cause an exception), and `ClosedInv` says where an open socket can be while either thread
has passed its `closeQuietly`.

`ErrorStaysAlways` is inductive as it stands. `StatusTells` needs `EndInv`: while no other
text was written the last callback in the queue of an ended session is `onDisconnected`,
and once it ran the line tells the end. `FrameAnswers` assumes that the server has XTEST
(without it the property fails, see the deviations); `TrafficInv` says at each place of
the client thread that no request of a kind is open, or exactly one, as a request on its
way or as an answer on its way back.

**Renderer** (`RendererLoopProofs`). `TypeCorrect`, and `DrawsOnLivingSurface` for any number
of surfaces. That the renderer draws on a living surface is decided earlier than it draws:
`SurfaceInv` says that the windows held and announced are alive (`WindowsLive`), that
`surfaceAvailable` is true only while a mapped renderer has a window (`FlagTrue`), and that
what let it draw stays true until it has drawn (`DrawsMapped`). Only `Apply`, `Decide`,
`SetWindow` and `UiReturn` touch it; for the other actions `SameSurface` suffices.

**Work queue** (`WorkQueueProofs`, for any number of threads and items, every ring size, every
width of the positions that is a multiple of it, and a list of any length; the assumptions are
`SizesAssumption`, `ItemsAssumption`, `PointersAssumption`). The four safety properties need each other, so
there is one joint invariant `Inv`, and each action has a lemma that it keeps every part.
- `RingInv`: the wrapped positions stand for positions d and e without a limit, at most a
  ring apart. A cell between them was claimed: it is not published yet (`Free`) or it is, with
  an item (`Ready`); the others are free for the next round, except the one that the
  server holds. Who has claimed has a cell that is not published, and who can still win
  the compare-exchange has seen the cell at e free.
- `Carried`: what each thread has in its locals, that no two have claimed the same position,
  and that a position looked at is at most `MaxStall` pushes old. That bound is what makes a
  successful compare-exchange mean that the cell is still free: without it a thread that slept
  through a whole turn of `size_t` breaks the ring.
- `ListInv`: the list is `Chained` (allocated nodes have a predecessor, nothing points to a
  freed node, and a rank excludes circles), the lock is held exactly during the walk, and the list ends in
  `overflowLast` or, under the lock, at the server's own node.
- `PlaceInv`: cells, threads, the hand and the nodes are spots; no item is in two of them
  and the items in one are the unfinished ones. Each action moves, adds or drops one item,
  by the lemmas `PlacedMoves`, `PlacedAdds`, `PlacedDrops`, `PlacedUnlinks`.

`OnePlaceAlways` counts places, which for the ring are wrapped positions; `PlaceToSpot`,
`SpotToPlace` and `OneOfSpot` match them with the spots. `CellsExclusiveAlways` follows from `RingInv`
and `Carried` by `ClaimedCell`, `AppendIsSafeAlways` from `ListInv`.

**GPU copies** (`GpuCopyQueueProofs`, for all sets of vblanks and buffers, every capacity,
every width of the indices and any number of copies and faults; the assumption is
`CopyAssumption`). `CountInv` says that a pending counter is the number of unacknowledged
vblanks that use the buffer, which is also why it never goes below 0 (`TypeCorrect`).
`RingInv` reads the wrapped indices off the serials, which do not wrap: so many copies
were published, so many taken, the difference is at most the capacity, and the cells between hold
the serials in order. `QueueIntactAlways` follows. `DrainInv` ties what is under way on the GPU to
the renderer's place between its lock and its fence and to the serial it took last;
`DoneIsFinishedAlways` follows from it and `RingInv`. For `AccessWaits`, `OwnedInv` gives every copy
that can still reach the GPU a vblank that counts in `pend`, or it was given up; so
a CPU access that finds a counter at 0 is safe. One that finds it above 0 takes the lock, and
`LockInv` says that while the connection lives the renderer has it as long as anything is
under way.

**Connection** (`LorieConnectionProofs`, for any number of connections, roots, pixmaps and
references). `Typed` adds to the types what the server's thread can have left to do, with the
references those steps rely on (`PlanOK`), and the references that travel (`Counted`):
without them one cannot tell that a release never takes a count below 0. `Agreed` is the
argument for the three safety properties: a connection lives once (`OneLife`), what travels was
sent on that connection, also between the steps in which it is given up (`Sent`, which contains
`HeldIsCurrent`), on a clean one it
travels once (`Once`), and what the activity was shown is in the server's list or
about to enter it, or is being given up and the activity will be told (`Tracked`).

**Clipboard** (`LorieClipboardProofs`, for any number of clients, copies, reconnections and
waiting requests). `NobodyMissedAlways` follows from the types. For `PasteIsFreshAlways`, `Fresh` says
that the stamps on the wire and in the work queue are in order, from the last
announcement handled to the clipboard of now, so that whatever fills the cache is not older
than an announcement before it. That one queue is emptied into the other needs an induction;
`LeastElement` does it for sets of numbers without a predicate parameter.

**Only model-checked**: all liveness (the contract's end, `EventuallyRun`,
`EventuallyAnswered`, `RootArrives`, `PasteIsAnswered`, `CopyArrives`, `ChangeIsShown`,
`CallsReturn`), which is out of the prover's reach.

## Known deviations

Where the code does otherwise than a text of the repository says, or than one would expect.

The first is the violation run; `PROJECT.json`, "findings", quotes the text.

1. `renderer_wakeup`: "the swap and the unmap below can never race a signal", but the input
   thread signals too, for every mouse event.

The others have formulas and no run, so that the runs are left for what holds. Each can be
reproduced with the constants named:

2. `DirectPressedHasFinger` (`MCTouchpadGestures`, constants of `GesturesCore.cfg` with
   `TouchOutside = TRUE`): a TOUCH-mode finger lifted over a letterbox bar releases nothing,
   against "True while TOUCH mode holds the left button (finger on screen)".
3. `DisconnectStops` (`MCX11Session`, `RaceConnect = TRUE`, no inputs, events or texts):
   `disconnect()` during the dial is lost, against "Stops the loops and closes the socket."
4. `UnreachableIsAnError` (`MCX11Session`, `RaceConnect = FALSE`): a server that cannot be
   reached is taken for a deliberate stop, although `describeError` has a text for it.
5. `RootExclusive` (`MCGpuCopyQueue`, constants of `GpuCopy.cfg` with `MaxSerial` and
   `MaxFaults` 0): after a timeout the renderer initializes a mutex anew that the live
   server holds, against "we should block X server while we are drawing".
6. `ScrollTailIgnored` (`MCTouchpadGestures`, constants of `GesturesCore.cfg`): "Ignore the
   tail of a scroll gesture once the second finger lifted." The end of the scroll clears
   `scrolling`, so the finger that stays down is handled like a fresh gesture and can click.
7. `GrabbingHoldsButton` (`ToggleMidGesture = TRUE`): a toggle during a grab leaves
   `grabbing` set without the button.
8. `TouchNeverThrows` (any): a TOUCH-mode touch between the layout of the surface and the
   first frame makes `coerceIn` throw.
9. `DeliberateIsQuiet` (`MCX11Session`, `RaceConnect = TRUE`): a stop that races the dial can
   be reported as an error.
10. `FrameAnswersRequest` with `XtestOk = FALSE`, `MaxInputs = 1`: the error of an input
   request is taken for that of the pending GetImage.
11. `SyncIsBarrier` (`MCWorkQueue`, constants of `QueueSafety.cfg` with `Retry` empty,
    `Oom` FALSE and `Passes = {"process"}`): ring and overflow list are two queues, so a later item
    of a thread can run before an earlier one.
12. `LeftForNextCall` (`MCWorkQueueBurst`, constants of `QueueLiveness.cfg`): an item spilled
    during a pass is run by that pass.
13. `RegisteredWasSent` (`MCLorieConnection`, constants of `Connection.cfg`): a connection
    accepted before the older one's error was handled finds the root "Already registered"
    and is not sent it; the error then sets `conn_fd` to -1 under the new connection.
14. `CopyIsFresh` (the same): "Reset process-specific data", but the read that follows
    overwrites it; a buffer sent with a copy pending arrives with its reference.
15. `CacheIsAnnounced` (`MCLorieClipboard`, constants of `Clipboard.cfg` with `Overtake =
    TRUE`): when an announcement is overtaken the cache is older than it.
16. `NoDanglingRequest` (constants of `Clipboard.cfg`, as for the next two): the list keeps clients
    that have gone.
17. `AnsweredAfterReconnect`: who waited when the connection was lost waits on; nobody asks
    the new activity.
18. `LastOwnerWins`: a former owner's late answer is taken for the present owner's.
19. `AnsweredBehindText` (constants of `Clipboard.cfg`): a request that is in the socket
    right behind a text loses its first byte to the text and is not answered; a text right
    behind a text does not arrive, and an empty text never does.
20. `AnsweredUnseen` (`MCGpuCopyQueue`, constants of `GpuLiveness.cfg`): a Present into a
    covered or a redirected window whose one signal is lost stays pending until something is
    drawn.
21. `LateIsShown` (`MCRendererLoop`, `Tracked = {"late", "view", "place"}`): a viewport, a
    zoom, a cursor place or a root that changes between the renderer's reading and its
    clearing of the flag waits for the next change.

## Not modelled

- The bytes of the event stream, but for the one read too many behind a clipboard text
  (`LorieClipboard`): elsewhere messages are whole. The code writes header and payload in two
  calls and reads a payload with one `read`, so a long text or a second writer
  (`notifyGpuCopyDone`) can put the stream out of step; and a buffer or state message right
  behind a clipboard text is torn as well, which `LorieConnection`, without clipboard texts, does not have.
- `X11Session`: `isFinishing` is taken for "`onDestroy` has begun". Between the two an
  activity does not write "disconnected" in the code; nobody sees its status line then.
- `WorkQueue`: the retry of `ringPop` when another consumer was faster (`workqueue.cpp:107`);
  there is one consumer.
- `TouchpadGestures`: `ApplyViewport` is the renderer's first frame and `updateFramebuffer`
  together, and happens while the session is live.
- The hand-over of frames between `X11Client.publishFrame` and `X11Renderer.onDrawFrame`.
- GPU copies together with the drawing flags: `GpuCopyQueue` has the copies, `RendererLoop`
  the flags, and the instance with both is out of TLC's reach at these bounds.
- Pan and zoom (floating-point arithmetic), GL and EGL set-up and errors.
- `LauncherActivity`'s keyboard, the key table and the settings: lookups on one thread.
- Input devices, XKB, screen set-up: calls into the vendored server. `shm/shmem.c`: calls to
  a daemon. `xshmfence.c`: a futex whose users are in the vendored server.
- Vendored code: X.Org, Xlib, pixman, libxkbfile and their recipes are nearly all of the
  repository's 849,000 lines. They are other projects' logic, unchanged but for the patch to
  Present, which `GpuCopyQueue` models. The modules cover a large part of the repository's
  own stateful code and a very small part of all its lines.

## Plan

The order is by what can go wrong and how hard it is to test. Done: `TouchpadGestures`,
`X11Session`, `WorkQueue`, `GpuCopyQueue`, `LorieConnection`, `LorieClipboard` and `RendererLoop`
with their proofs, `SessionContract`, `RendererWakeup`. Left, in this order:

1. `FrameHandoff`: the two frame buffers between `X11Client` and `X11Renderer`.
2. Pieces of messages: a refinement of `LorieConnection`'s `pipe` to bytes.
3. Keyboard visibility and `X11KeyTable` with `xKeycode`, against a reference definition.

Every safety property that a passing run checks is also a theorem; the modules to come get
theirs when they are written.
