----------------------------- MODULE RendererLoop -----------------------------
(***************************************************************************)
(* How a change on the server reaches the screen.  The server and the      *)
(* activity's renderer share a page of flags without a lock; the server    *)
(* signals the renderer's condition variable without holding its mutex, so *)
(* a signal sent between the renderer's last look at the flags and its     *)
(* sleep is lost, and a flag set while the renderer draws may be cleared.  *)
(* The UI thread changes the window, the viewport and the connection.      *)
(*                                                                         *)
(* Changes are unlimited; any one may be marked, and the mark stays until  *)
(* the change is on the screen.  Of the root buffers' ids and sizes only   *)
(* matters how they stand to the present root: rootWindowTextureID names   *)
(* it or an older one, expectedW and expectedH are its size or are wrong.  *)
(*                                                                         *)
(* GPU copies are not part of this module (GpuCopyQueue has them): the     *)
(* server runs with gpuPresentDisabled or legacyDrawing.  Neither are EGL  *)
(* errors.                                                                 *)
(***************************************************************************)
CONSTANTS
  Windows,  \* surfaces that Android gives the view
  Tracked,  \* which kinds of changes may be marked
  None      \* no window

Kinds == {"scene", "view", "place", "image", "visible", "late"}

ASSUME LoopAssumption == None \notin Windows /\ Tracked \subseteq Kinds

VARIABLES
  page,     \* lorie_shared_server_state
  server,   \* the server's thread and what it keeps
  pc,       \* the renderer's thread
  rend,     \* what the renderer keeps, guarded by stateLock
  bufs,     \* the renderer's buffers
  act,      \* the UI thread: surfaces, connection, messages not read yet
  mark      \* history: what the marked change is about, until it is drawn

vars == <<page, server, pc, rend, bufs, act, mark>>

(* The server runs, the renderer's thread has started; no surface, no       *)
(* connection.                                                              *)
Init ==
  /\ page = [drawRequested |-> FALSE, moved |-> FALSE, updated |-> FALSE,
             waitForNextFrame |-> FALSE, surfaceAvailable |-> FALSE, named |-> FALSE]
  /\ server = [at |-> "idle", alive |-> FALSE, damage |-> TRUE]
  /\ pc = "check"
  /\ rend = [state |-> FALSE, pendingState |-> FALSE, stateChanged |-> FALSE,
             win |-> None, pendingWin |-> None, windowChanged |-> FALSE,
             viewportChanged |-> FALSE, expected |-> "none"]
  /\ bufs = [root |-> "unsent", waiting |-> FALSE, lastRequested |-> TRUE, picked |-> FALSE]
  /\ act = [waits |-> "no", surfaces |-> {}, stateSent |-> FALSE]
  /\ mark = "nothing"

(* A change, which becomes the marked one if there is none and chance wants *)
(* it; and the renderer reading what it is about.                           *)
Touch(item) ==
  \/ UNCHANGED mark
  \/ mark = "nothing" /\ item \in Tracked /\ mark' = item

(* A new root: what was to be seen with the old one is no longer followed,  *)
(* for roots may replace each other faster than any of them is drawn.       *)
Replace == IF mark = "nothing" THEN Touch("scene") ELSE mark' = "nothing"

(* Some changes are lost when they come between the renderer's reading and  *)
(* its clearing the flag: these are followed apart.                         *)
Lost == IF "late" \in Tracked THEN "late" ELSE "nothing"

Unless(item, late) == IF pc \in late THEN "late" ELSE item

Reads(items) == mark' = IF mark \in items THEN "nothing" ELSE mark

(* pthread_cond_signal: nobody remembers it if nobody sleeps. *)
Wake == pc' = IF pc = "asleep" THEN "check" ELSE pc

(* setWindow and setSharedState return when the renderer has taken the      *)
(* change; until then the UI thread does nothing else.                      *)
UiFree == act.waits = "no"

--------------------------------------------------------------------------------
(***************************************************************************)
(* The server's thread.                                                    *)
(***************************************************************************)
(* What lorieRedraw signals and the renderer stays awake for. *)
Pending == page.drawRequested \/ page.moved \/ page.updated

(* lorieRedraw, once per frame, in two steps. *)
BeginFrame ==
  /\ server.at = "idle"
  /\ IF server.alive /\ page.surfaceAvailable
       THEN /\ server' = [server EXCEPT !.at = "frame", !.damage = FALSE]
            /\ page' = [page EXCEPT !.waitForNextFrame = FALSE,
                                    !.drawRequested = @ \/ server.damage]
       ELSE page' = [page EXCEPT !.waitForNextFrame = FALSE] /\ UNCHANGED server
  /\ UNCHANGED <<pc, rend, bufs, act, mark>>

EndFrame ==
  /\ server.at = "frame" /\ server' = [server EXCEPT !.at = "idle"]
  /\ IF Pending
       THEN /\ page' = [page EXCEPT !.named = TRUE] /\ Wake
            /\ bufs' = [bufs EXCEPT !.lastRequested = @ /\ page.named]
       ELSE UNCHANGED <<page, bufs, pc>>
  /\ UNCHANGED <<rend, act, mark>>

(* A client draws. *)
Draw ==
  /\ server.at = "idle" /\ server' = [server EXCEPT !.damage = TRUE] /\ Touch("scene")
  /\ UNCHANGED <<page, pc, rend, bufs, act>>

(* lorieRRScreenSetSize: a new root, registered if there is a connection;   *)
(* its size is the one the activity expects, or not.                        *)
Resize ==
  /\ server.at = "idle"
  /\ server' = [server EXCEPT !.damage = TRUE] /\ Replace
  /\ page' = [page EXCEPT !.moved = TRUE, !.named = FALSE]
  /\ bufs' = [bufs EXCEPT !.root = IF server.alive THEN "sent" ELSE "unsent", !.picked = FALSE]
  /\ \E size \in {"wrong", "right"} :
       rend' = [rend EXCEPT !.expected = IF @ = "none" THEN @ ELSE size]
  /\ UNCHANGED <<pc, act>>

(* loriePresentFlip and its end: a client's pixmap, of the same size,       *)
(* becomes the root; the renderer may have had it before.                   *)
Flip ==
  /\ server.at = "idle" /\ server.alive
  /\ server' = [server EXCEPT !.damage = TRUE] /\ Replace
  /\ page' = [page EXCEPT !.named = FALSE]
  /\ \E place \in IF rend.state THEN {"sent", "attached"} ELSE {"sent"} :
       bufs' = [bufs EXCEPT !.root = place, !.picked = FALSE]
  /\ UNCHANGED <<pc, rend, act>>

(* lorieMoveCursor, of the mouse's cursor. *)
MoveCursor ==
  /\ server.at = "idle" /\ Touch(Unless("place", {"clear", "root", "cursor", "moved"}))
  /\ page' = [page EXCEPT !.moved = TRUE] /\ Wake
  /\ UNCHANGED <<server, rend, bufs, act>>

(* The image and updated under cursor.lock, then lorieMoveCursor. *)
SetCursor ==
  /\ server.at = "idle" /\ Touch("image")
  /\ page' = [page EXCEPT !.moved = TRUE, !.updated = TRUE] /\ Wake
  /\ UNCHANGED <<server, rend, bufs, act>>

(* EVENT_MOUSE shows the cursor (on the input thread), a touch hides it. *)
SetCursorVisible ==
  /\ Touch("visible") /\ page' = [page EXCEPT !.moved = TRUE] /\ Wake
  /\ UNCHANGED <<server, rend, bufs, act>>

(* A connection is accepted: lorieActivityConnected.  Connections come one  *)
(* after the other, the old one closed before (see LorieConnection), and    *)
(* the renderer's condition variable is the server's by then (see           *)
(* RendererWakeup).                                                         *)
Accept ==
  /\ server.at = "idle" /\ UiFree /\ ~server.alive
  /\ server' = [server EXCEPT !.alive = TRUE]
  /\ page' = [page EXCEPT !.drawRequested = TRUE, !.updated = TRUE]
  /\ act' = [act EXCEPT !.stateSent = TRUE] /\ bufs' = [bufs EXCEPT !.root = "sent"]
  /\ UNCHANGED <<pc, rend, mark>>

ServerChange == Draw \/ Resize \/ Flip \/ MoveCursor \/ SetCursor \/ SetCursorVisible

--------------------------------------------------------------------------------
(***************************************************************************)
(* The renderer's thread.  It holds stateLock at "check", "gap" and        *)
(* "apply", and gives it up when it sleeps and while it draws.             *)
(***************************************************************************)
StateLockFree == pc \notin {"check", "gap", "apply"}
Drawing       == pc \in {"look", "reject", "snapshot", "clear", "root", "cursor", "moved", "pointer"}

(* shouldWait.  removeBuffer leaves older roots to be released. *)
Check ==
  /\ pc = "check"
  /\ \E removed \in BOOLEAN :
       LET changes == \/ rend.stateChanged \/ rend.windowChanged
                      \/ bufs.root = "added" \/ removed
           newRoot == rend.state /\ ~bufs.lastRequested /\ ~changes
           waiting == bufs.waiting /\ ~rend.viewportChanged /\ ~newRoot
           idle    == \/ ~rend.state \/ ~page.surfaceAvailable \/ page.waitForNextFrame
                      \/ waiting \/ ~Pending
       IN  /\ pc' = IF changes \/ ~idle THEN "apply" ELSE "gap"
           /\ bufs' = [bufs EXCEPT !.waiting = waiting, !.lastRequested = @ \/ newRoot]
  /\ rend' = [rend EXCEPT !.viewportChanged = FALSE]
  /\ UNCHANGED <<page, server, act, mark>>

(* Between the check and pthread_cond_wait the server's signals are lost. *)
Sleep ==
  /\ pc = "gap" /\ pc' = "asleep"
  /\ UNCHANGED <<page, server, rend, bufs, act, mark>>

SurfacePointer(w) ==
  IF rend.windowChanged \/ rend.stateChanged
    THEN [page EXCEPT !.surfaceAvailable = w, !.drawRequested = @ \/ rend.windowChanged] ELSE page

(* What the server is told of a surface: refreshContext asks for a picture  *)
(* when it is new, a new state only learns whether there is one.            *)
SurfaceFlags(w) ==
  IF rend.windowChanged /\ w # None
    THEN [page EXCEPT !.surfaceAvailable = TRUE, !.drawRequested = TRUE, !.updated = TRUE]
  ELSE IF rend.windowChanged \/ rend.stateChanged
    THEN [page EXCEPT !.surfaceAvailable = w # None]
  ELSE page

(* threadLoop up to the unlock: the new state, the new window (which may    *)
(* turn out to be invalid), the new buffers.                                *)
Apply ==
  LET mapped == IF rend.stateChanged THEN rend.pendingState ELSE rend.state
  IN  /\ pc = "apply" /\ pc' = "decide"
      /\ \E w \in IF rend.windowChanged THEN {rend.pendingWin, None} ELSE {rend.win} :
           /\ rend' = [rend EXCEPT !.state = mapped, !.pendingState = FALSE, !.stateChanged = FALSE,
                                   !.win = w, !.pendingWin = None, !.windowChanged = FALSE]
           /\ page' = IF mapped THEN SurfaceFlags(w) ELSE page
      /\ IF rend.stateChanged \/ rend.windowChanged THEN Touch("scene") ELSE UNCHANGED mark
      /\ bufs' = [bufs EXCEPT !.root = IF @ = "added" THEN "attached" ELSE @,
                   !.waiting = @ /\ ~rend.stateChanged /\ bufs.root # "added"]
      /\ UNCHANGED <<server, act>>

(* threadLoop after the unlock: draw, or start anew. *)
Decide ==
  /\ pc = "decide"
  /\ pc' = IF rend.state /\ page.surfaceAvailable /\ ~page.waitForNextFrame /\ Pending
             THEN "look" ELSE "check"
  /\ UNCHANGED <<page, server, rend, bufs, act, mark>>

(* redrawLocked: the root's buffer may not have come, or not have the size. *)
(* An older root may be gone, and may have either size.                     *)
Look ==
  LET has  == IF page.named THEN {bufs.root = "attached"} ELSE BOOLEAN
      fits == IF rend.expected = "none" THEN {FALSE}
              ELSE IF page.named THEN {rend.expected = "right"} ELSE BOOLEAN
  IN  /\ pc = "look"
      /\ \E here \in has, fit \in fits :
           /\ pc' = IF ~here THEN "check" ELSE IF ~fit THEN "reject" ELSE "snapshot"
           /\ bufs' = [bufs EXCEPT !.waiting = @ \/ ~here, !.picked = here /\ page.named]
      /\ UNCHANGED <<page, server, rend, act, mark>>

(* drawRequested is cleared.  A request for a root that is not shown now is *)
(* lost.                                                                    *)
ClearDrawRequested(shown) ==
  /\ page' = [page EXCEPT !.drawRequested = FALSE]
  /\ mark' = IF mark \in {"scene", "view"} /\ ~shown /\ ~server.damage THEN Lost ELSE mark

Reject ==
  /\ pc = "reject" /\ pc' = "check"
  /\ ClearDrawRequested(bufs.picked /\ rend.expected # "right")
  /\ bufs' = [bufs EXCEPT !.waiting = TRUE, !.picked = FALSE]
  /\ UNCHANGED <<server, rend, act>>

(* The viewport and the cursor's place are read; then, under state->lock,   *)
(* drawRequested is cleared and the root is drawn.                          *)
Snapshot ==
  /\ pc = "snapshot" /\ pc' = "clear" /\ Reads({"view", "place", "late"})
  /\ UNCHANGED <<page, server, rend, bufs, act>>

ClearRequest ==
  /\ pc = "clear" /\ pc' = "root" /\ ClearDrawRequested(bufs.picked)
  /\ UNCHANGED <<server, rend, bufs, act>>

DrawRoot ==
  /\ pc = "root" /\ pc' = "cursor"
  /\ IF bufs.picked THEN Reads({"scene"}) ELSE UNCHANGED mark
  /\ bufs' = [bufs EXCEPT !.picked = FALSE]
  /\ UNCHANGED <<page, server, rend, act>>

(* updated is cleared and the image read under cursor.lock. *)
UploadCursor ==
  /\ pc = "cursor" /\ pc' = "moved"
  /\ page' = [page EXCEPT !.updated = FALSE]
  /\ IF page.updated THEN Reads({"image"}) ELSE UNCHANGED mark
  /\ UNCHANGED <<server, rend, bufs, act>>

ClearMoved ==
  /\ pc = "moved" /\ pc' = "pointer"
  /\ page' = [page EXCEPT !.moved = FALSE]
  /\ UNCHANGED <<server, rend, bufs, act, mark>>

(* drawCursor reads whether it is visible; then the swap. *)
Finish ==
  /\ pc = "pointer" /\ pc' = "check"
  /\ page' = [page EXCEPT !.waitForNextFrame = TRUE]
  /\ Reads({"visible"})
  /\ UNCHANGED <<server, rend, bufs, act>>

Renderer ==
  \/ Check \/ Sleep \/ Apply \/ Decide \/ Look \/ Reject
  \/ Snapshot \/ ClearRequest \/ DrawRoot \/ UploadCursor \/ ClearMoved \/ Finish

--------------------------------------------------------------------------------
(***************************************************************************)
(* The UI thread.                                                          *)
(***************************************************************************)
(* setWindow with a surface, a new one or the one that is shown, or, when   *)
(* it is destroyed, with none.                                              *)
SetWindow ==
  /\ UiFree /\ StateLockFree
  /\ \/ \E w \in Windows :
          /\ rend' = [rend EXCEPT !.pendingWin = w, !.windowChanged = TRUE, !.expected = "none"]
          /\ act' = [act EXCEPT !.surfaces = @ \union {w}, !.waits = "window"]
     \/ /\ act.surfaces # {} /\ act' = [act EXCEPT !.waits = "window"]
        /\ rend' = [rend EXCEPT !.pendingWin = None, !.windowChanged = TRUE, !.expected = "none"]
  /\ Wake
  /\ UNCHANGED <<page, server, bufs, mark>>

SetViewportQuietly(size) ==
  /\ UiFree /\ StateLockFree /\ Touch(Unless("view", {"reject", "clear"}))
  /\ rend' = [rend EXCEPT !.expected = size]
  /\ page' = [page EXCEPT !.drawRequested = @ \/ rend.state]
  /\ Wake
  /\ UNCHANGED <<server, bufs, act>>

(* setViewport.  The renderer may be past reading it, or about to refuse    *)
(* the old size.                                                            *)
SetViewport(size) ==
  /\ UiFree /\ StateLockFree /\ Touch(Unless("view", {"reject", "clear"}))
  /\ rend' = [rend EXCEPT !.expected = size, !.viewportChanged = TRUE]
  /\ page' = [page EXCEPT !.drawRequested = @ \/ rend.state]
  /\ Wake
  /\ UNCHANGED <<server, bufs, act>>

(* setZoom, setZoomAnchor, clearZoomAnchor: the size expected stays.  *)
SetZoom ==
  /\ UiFree /\ StateLockFree /\ Touch(Unless("view", {"reject", "clear"}))
  /\ page' = [page EXCEPT !.drawRequested = @ \/ rend.state]
  /\ Wake
  /\ UNCHANGED <<server, rend, bufs, act>>

SetSharedStateUnsignalled(mapped) ==
  /\ UiFree /\ StateLockFree
  /\ rend' = [rend EXCEPT !.pendingState = mapped, !.stateChanged = TRUE]
  /\ UNCHANGED <<page, pc, mark>>

SetSharedState(mapped) ==
  /\ UiFree /\ StateLockFree
  /\ rend' = [rend EXCEPT !.pendingState = mapped, !.stateChanged = TRUE] /\ Wake
  /\ UNCHANGED <<page, mark>>

(* The connection ends: both sides see it (LorieConnection has the delay). *)
Disconnect ==
  /\ server.alive /\ server' = [server EXCEPT !.alive = FALSE]
  /\ act' = [act EXCEPT !.stateSent = FALSE, !.waits = "leave"]
  /\ bufs' = [bufs EXCEPT !.root = IF @ = "sent" THEN "unsent" ELSE @]
  /\ SetSharedState(FALSE)

(* The activity's looper reads the shared state, then the root's buffer. *)
ReceiveState ==
  /\ act.stateSent /\ act' = [act EXCEPT !.stateSent = FALSE, !.waits = "state"]
  /\ SetSharedState(TRUE) /\ UNCHANGED <<server, bufs>>

(* addBuffer signals without stateLock. *)
ReceiveBuffer ==
  /\ UiFree /\ ~act.stateSent /\ bufs.root = "sent"
  /\ bufs' = [bufs EXCEPT !.root = "added"] /\ Wake
  /\ UNCHANGED <<page, server, rend, act, mark>>

UiReturnAtOnce ==
  /\ ~UiFree /\ StateLockFree /\ ~rend.stateChanged
  /\ act' = [act EXCEPT !.waits = "no",
              !.surfaces = IF act.waits = "window" THEN {rend.pendingWin} \ {None} ELSE @]
  /\ bufs' = IF act.waits = "leave" THEN [bufs EXCEPT !.root = "unsent"] ELSE bufs
  /\ UNCHANGED <<page, server, pc, rend, mark>>

(* The call returns: a surface that was replaced is destroyed; after a      *)
(* disconnect the buffers are dropped.                                      *)
UiReturn ==
  /\ ~UiFree /\ StateLockFree /\ ~rend.windowChanged /\ ~rend.stateChanged
  /\ act' = [act EXCEPT !.waits = "no",
              !.surfaces = IF act.waits = "window" THEN @ \cap {rend.win} ELSE @]
  /\ bufs' = IF act.waits = "leave" THEN [bufs EXCEPT !.root = "unsent"] ELSE bufs
  /\ UNCHANGED <<page, server, pc, rend, mark>>

UiChange ==
  SetWindow \/ (\E size \in {"wrong", "right"} : SetViewport(size)) \/ SetZoom \/ Disconnect
Receive  == ReceiveState \/ ReceiveBuffer

Next ==
  \/ BeginFrame \/ EndFrame \/ Accept \/ ServerChange
  \/ Renderer \/ UiChange \/ Receive \/ UiReturn

(* Frames keep coming and threads are scheduled; a thread that finds the    *)
(* mutex free again and again gets it, and the server's thread comes back   *)
(* to its work queue.  Nobody has to draw, move, connect or resize.         *)
Fairness ==
  /\ WF_vars(BeginFrame) /\ WF_vars(EndFrame) /\ WF_vars(Renderer)
  /\ SF_vars(Receive) /\ SF_vars(UiReturn)

Spec == Init /\ [][Next]_vars /\ Fairness

--------------------------------------------------------------------------------
Pages   == [drawRequested : BOOLEAN, moved : BOOLEAN, updated : BOOLEAN,
            waitForNextFrame : BOOLEAN, surfaceAvailable : BOOLEAN, named : BOOLEAN]
Servers == [at : {"idle", "frame"}, alive : BOOLEAN, damage : BOOLEAN]
Rends   == [state : BOOLEAN, pendingState : BOOLEAN, stateChanged : BOOLEAN,
            win : Windows \union {None}, pendingWin : Windows \union {None},
            windowChanged : BOOLEAN, viewportChanged : BOOLEAN,
            expected : {"none", "wrong", "right"}]
Bufs    == [root : {"unsent", "sent", "added", "attached"},
            waiting : BOOLEAN, lastRequested : BOOLEAN, picked : BOOLEAN]
Acts    == [waits : {"no", "window", "state", "leave"}, surfaces : SUBSET Windows,
            stateSent : BOOLEAN]

(* The shared page holds flags and the threads' fields are of their kinds. *)
TypeOK ==
  /\ page \in Pages /\ server \in Servers /\ rend \in Rends
  /\ bufs \in Bufs /\ act \in Acts /\ mark \in Tracked \union {"nothing"}

(* The renderer never draws without a surface, nor to one whose destruction *)
(* Android has been allowed to finish (setWindow waits for the renderer).   *)
DrawsOnSurface == Drawing => rend.win \in act.surfaces

Visible == /\ rend.state /\ server.alive /\ rend.win # None /\ rend.expected = "right"
           /\ ~rend.windowChanged /\ ~rend.stateChanged

(* A change gets to the screen: of the root's content, the cursor or the    *)
(* viewport, or the whole picture after a new surface or connection, in     *)
(* spite of lost signals, buffers that come late, refused sizes and frames  *)
(* that begin while the renderer draws; as long as there is a surface and   *)
(* the server's size is the one expected.  Excepted are the changes whose   *)
(* flag is cleared by a renderer that is past reading them (Lost, Unless).  *)
ChangeIsShown ==
  mark \notin {"nothing", "late"} ~> mark \in {"nothing", "late"} \/ ~Visible

(* The UI thread, which setWindow and setSharedState block, goes on: the    *)
(* renderer notices the change although it may be about to sleep.           *)
CallsReturn == ~UiFree ~> UiFree
================================================================================
