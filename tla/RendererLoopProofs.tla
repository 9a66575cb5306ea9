-------------------------- MODULE RendererLoopProofs --------------------------
(***************************************************************************)
(* Proofs about RendererLoop, for any set of surfaces and whatever changes *)
(* are followed.                                                           *)
(***************************************************************************)
EXTENDS RendererLoop, TLAPS

USE LoopAssumption DEF Kinds

(***************************************************************************)
(* The updates of one field keep the type of the record.                   *)
(***************************************************************************)
LEMMA PageFields ==
  \A q \in Pages, b \in BOOLEAN :
    /\ [q EXCEPT !.drawRequested = b] \in Pages
    /\ [q EXCEPT !.moved = b] \in Pages
    /\ [q EXCEPT !.updated = b] \in Pages
    /\ [q EXCEPT !.waitForNextFrame = b] \in Pages
    /\ [q EXCEPT !.surfaceAvailable = b] \in Pages
    /\ [q EXCEPT !.named = b] \in Pages
  BY DEF Pages

LEMMA ServerFields ==
  \A q \in Servers :
    /\ \A at \in {"idle", "frame"} : [q EXCEPT !.at = at] \in Servers
    /\ \A b \in BOOLEAN : [q EXCEPT !.alive = b] \in Servers
    /\ \A b \in BOOLEAN : [q EXCEPT !.damage = b] \in Servers
  BY DEF Servers

LEMMA BufsFields ==
  \A q \in Bufs :
    /\ \A r \in {"unsent", "sent", "added", "attached"} : [q EXCEPT !.root = r] \in Bufs
    /\ \A b \in BOOLEAN : [q EXCEPT !.waiting = b] \in Bufs
    /\ \A b \in BOOLEAN : [q EXCEPT !.lastRequested = b] \in Bufs
    /\ \A b \in BOOLEAN : [q EXCEPT !.picked = b] \in Bufs
  BY DEF Bufs

LEMMA RendFields ==
  \A q \in Rends :
    /\ \A b \in BOOLEAN :
         /\ [q EXCEPT !.state = b] \in Rends
         /\ [q EXCEPT !.pendingState = b] \in Rends
         /\ [q EXCEPT !.stateChanged = b] \in Rends
         /\ [q EXCEPT !.windowChanged = b] \in Rends
         /\ [q EXCEPT !.viewportChanged = b] \in Rends
    /\ \A w \in Windows \union {None} :
         [q EXCEPT !.win = w] \in Rends /\ [q EXCEPT !.pendingWin = w] \in Rends
    /\ \A e \in {"none", "wrong", "right"} : [q EXCEPT !.expected = e] \in Rends
  BY DEF Rends

LEMMA ActFields ==
  \A q \in Acts :
    /\ \A w \in {"no", "window", "state", "leave"} : [q EXCEPT !.waits = w] \in Acts
    /\ \A S \in SUBSET Windows : [q EXCEPT !.surfaces = S] \in Acts
    /\ \A b \in BOOLEAN : [q EXCEPT !.stateSent = b] \in Acts
  BY DEF Acts

(* The server's steps, the renderer's and the UI thread's keep the types. *)
LEMMA ServerKeepsTypes ==
  ASSUME TypeOK, BeginFrame \/ EndFrame \/ Accept \/ ServerChange
  PROVE  TypeOK'
  <1>1. CASE BeginFrame
    <2>1. page' \in Pages
      <3>1. (page.drawRequested \/ server.damage) \in BOOLEAN
        OBVIOUS
      <3> QED BY <1>1, <3>1, PageFields DEF BeginFrame, TypeOK
    <2>2. server' \in Servers BY <1>1, ServerFields DEF BeginFrame, TypeOK
    <2> QED BY <1>1, <2>1, <2>2 DEF BeginFrame, TypeOK
  <1>2. CASE EndFrame
    <2>1. page' \in Pages BY <1>2, PageFields DEF EndFrame, Pending, TypeOK
    <2>2. server' \in Servers BY <1>2, ServerFields DEF EndFrame, Pending, TypeOK
    <2>3. bufs' \in Bufs BY <1>2, BufsFields DEF EndFrame, Pending, TypeOK
    <2> QED BY <1>2, <2>1, <2>2, <2>3 DEF EndFrame, Pending, TypeOK
  <1>3. CASE Accept
    <2>1. page' \in Pages BY <1>3, PageFields DEF Accept, TypeOK
    <2>2. server' \in Servers BY <1>3, ServerFields DEF Accept, TypeOK
    <2>3. bufs' \in Bufs BY <1>3, BufsFields DEF Accept, TypeOK
    <2>4. act' \in Acts BY <1>3, ActFields DEF Accept, TypeOK
    <2> QED BY <1>3, <2>1, <2>2, <2>3, <2>4 DEF Accept, TypeOK
  <1>4. CASE Draw
    <2>1. server' \in Servers BY <1>4, ServerFields DEF Draw, TypeOK
    <2>2. mark' \in Tracked \union {"nothing"}
      BY <1>4 DEF Draw, Touch, TypeOK
    <2> QED BY <1>4, <2>1, <2>2 DEF Draw, TypeOK
  <1>5. CASE Resize
    <2>1. page' \in Pages BY <1>5, PageFields DEF Resize, TypeOK
    <2>2. server' \in Servers BY <1>5, ServerFields DEF Resize, TypeOK
    <2>3. bufs' \in Bufs BY <1>5, BufsFields DEF Resize, TypeOK
    <2>4. rend' \in Rends BY <1>5, RendFields DEF Resize, TypeOK
    <2>5. mark' \in Tracked \union {"nothing"}
      BY <1>5 DEF Resize, Replace, Touch, TypeOK
    <2> QED BY <1>5, <2>1, <2>2, <2>3, <2>4, <2>5 DEF Resize, TypeOK
  <1>6. CASE Flip
    <2>1. page' \in Pages BY <1>6, PageFields DEF Flip, TypeOK
    <2>2. server' \in Servers BY <1>6, ServerFields DEF Flip, TypeOK
    <2>3. bufs' \in Bufs BY <1>6, BufsFields DEF Flip, TypeOK
    <2>4. mark' \in Tracked \union {"nothing"}
      BY <1>6 DEF Flip, Replace, Touch, TypeOK
    <2> QED BY <1>6, <2>1, <2>2, <2>3, <2>4 DEF Flip, TypeOK
  <1>7. CASE MoveCursor
    <2>1. page' \in Pages BY <1>7, PageFields DEF MoveCursor, TypeOK
    <2>2. mark' \in Tracked \union {"nothing"}
      BY <1>7 DEF MoveCursor, Touch, TypeOK
    <2> QED BY <1>7, <2>1, <2>2 DEF MoveCursor, TypeOK
  <1>8. CASE SetCursor
    <2>1. page' \in Pages BY <1>8, PageFields DEF SetCursor, TypeOK
    <2>2. mark' \in Tracked \union {"nothing"}
      BY <1>8 DEF SetCursor, Touch, TypeOK
    <2> QED BY <1>8, <2>1, <2>2 DEF SetCursor, TypeOK
  <1>9. CASE SetCursorVisible
    <2>1. page' \in Pages BY <1>9, PageFields DEF SetCursorVisible, TypeOK
    <2>2. mark' \in Tracked \union {"nothing"}
      BY <1>9 DEF SetCursorVisible, Touch, TypeOK
    <2> QED BY <1>9, <2>1, <2>2 DEF SetCursorVisible, TypeOK
  <1> QED BY <1>1, <1>2, <1>3, <1>4, <1>5, <1>6, <1>7, <1>8, <1>9
          DEF ServerChange

LEMMA RendererKeepsTypes ==
  ASSUME TypeOK, Renderer
  PROVE  TypeOK'
  <1>1. CASE Check
    <2>1. bufs' \in Bufs
      <3>1. PICK waiting \in BOOLEAN, asked \in BOOLEAN :
              bufs' = [bufs EXCEPT !.waiting = waiting, !.lastRequested = asked]
        BY <1>1 DEF Check
      <3> QED BY <3>1, BufsFields DEF TypeOK
    <2>2. rend' \in Rends BY <1>1, RendFields DEF Check, TypeOK
    <2> QED BY <1>1, <2>1, <2>2 DEF Check, TypeOK
  <1>2. CASE Sleep BY <1>2 DEF Sleep, TypeOK
  <1>3. CASE Apply
    <2>1. page' \in Pages BY <1>3, PageFields DEF Apply, SurfaceFlags, TypeOK
    <2>2. rend' \in Rends
      <3>1. PICK w \in IF rend.windowChanged THEN {rend.pendingWin, None} ELSE {rend.win} :
              rend' = [rend EXCEPT
                         !.state = IF rend.stateChanged THEN rend.pendingState ELSE rend.state,
                         !.pendingState = FALSE, !.stateChanged = FALSE,
                         !.win = w, !.pendingWin = None, !.windowChanged = FALSE]
        BY <1>3 DEF Apply
      <3>2. w \in Windows \union {None}
        BY DEF TypeOK, Rends
      <3>3. (IF rend.stateChanged THEN rend.pendingState ELSE rend.state) \in BOOLEAN
        BY DEF TypeOK, Rends
      <3> QED BY <3>1, <3>2, <3>3, RendFields DEF TypeOK
    <2>3. bufs' \in Bufs BY <1>3, BufsFields DEF Apply, SurfaceFlags, TypeOK
    <2>4. mark' \in Tracked \union {"nothing"}
      BY <1>3 DEF Apply, Touch, TypeOK
    <2> QED BY <1>3, <2>1, <2>2, <2>3, <2>4 DEF Apply, SurfaceFlags, TypeOK
  <1>4. CASE Decide BY <1>4 DEF Decide, TypeOK
  <1>5. CASE Look
    <2>1. bufs' \in Bufs
      <3>1. PICK waiting \in BOOLEAN, picked \in BOOLEAN :
              bufs' = [bufs EXCEPT !.waiting = waiting, !.picked = picked]
        BY <1>5 DEF Look
      <3> QED BY <3>1, BufsFields DEF TypeOK
    <2> QED BY <1>5, <2>1 DEF Look, TypeOK
  <1>6. CASE Reject
    <2>1. page' \in Pages BY <1>6, PageFields DEF Reject, ClearDrawRequested, TypeOK
    <2>2. bufs' \in Bufs BY <1>6, BufsFields DEF Reject, ClearDrawRequested, TypeOK
    <2>3. mark' \in Tracked \union {"nothing"}
      BY <1>6 DEF Reject, ClearDrawRequested, Lost, TypeOK
    <2> QED BY <1>6, <2>1, <2>2, <2>3 DEF Reject, ClearDrawRequested, TypeOK
  <1>7. CASE Snapshot
    <2>1. mark' \in Tracked \union {"nothing"}
      BY <1>7 DEF Snapshot, Reads, TypeOK
    <2> QED BY <1>7, <2>1 DEF Snapshot, TypeOK
  <1>8. CASE ClearRequest
    <2>1. page' \in Pages BY <1>8, PageFields DEF ClearRequest, ClearDrawRequested, TypeOK
    <2>2. mark' \in Tracked \union {"nothing"}
      BY <1>8 DEF ClearRequest, ClearDrawRequested, Lost, TypeOK
    <2> QED BY <1>8, <2>1, <2>2 DEF ClearRequest, ClearDrawRequested, TypeOK
  <1>9. CASE DrawRoot
    <2>1. bufs' \in Bufs BY <1>9, BufsFields DEF DrawRoot, TypeOK
    <2>2. mark' \in Tracked \union {"nothing"}
      BY <1>9 DEF DrawRoot, Reads, TypeOK
    <2> QED BY <1>9, <2>1, <2>2 DEF DrawRoot, TypeOK
  <1>10. CASE UploadCursor
    <2>1. page' \in Pages BY <1>10, PageFields DEF UploadCursor, TypeOK
    <2>2. mark' \in Tracked \union {"nothing"}
      BY <1>10 DEF UploadCursor, Reads, TypeOK
    <2> QED BY <1>10, <2>1, <2>2 DEF UploadCursor, TypeOK
  <1>11. CASE ClearMoved
    <2>1. page' \in Pages BY <1>11, PageFields DEF ClearMoved, TypeOK
    <2> QED BY <1>11, <2>1 DEF ClearMoved, TypeOK
  <1>12. CASE Finish
    <2>1. page' \in Pages BY <1>12, PageFields DEF Finish, TypeOK
    <2>2. mark' \in Tracked \union {"nothing"}
      BY <1>12 DEF Finish, Reads, TypeOK
    <2> QED BY <1>12, <2>1, <2>2 DEF Finish, TypeOK
  <1> QED BY <1>1, <1>2, <1>3, <1>4, <1>5, <1>6, <1>7, <1>8, <1>9, <1>10, <1>11, <1>12
          DEF Renderer

LEMMA UiKeepsTypes ==
  ASSUME TypeOK, UiChange \/ Receive \/ UiReturn
  PROVE  TypeOK'
  <1>1. CASE SetWindow
    <2>1. rend' \in Rends
      <3>1. PICK w \in Windows \union {None} :
              rend' = [rend EXCEPT !.pendingWin = w, !.windowChanged = TRUE, !.expected = "none"]
        BY <1>1 DEF SetWindow
      <3> QED BY <3>1, RendFields DEF TypeOK
    <2>2. act' \in Acts
      <3>1. CASE \E w \in Windows :
                   act' = [act EXCEPT !.surfaces = @ \union {w}, !.waits = "window"]
        <4>1. PICK w \in Windows :
                act' = [act EXCEPT !.surfaces = act.surfaces \union {w}, !.waits = "window"]
          BY <3>1
        <4>2. act.surfaces \union {w} \in SUBSET Windows
          BY DEF TypeOK, Acts
        <4> QED BY <4>1, <4>2, ActFields DEF TypeOK
      <3>2. CASE act' = [act EXCEPT !.waits = "window"]
        BY <3>2, ActFields DEF TypeOK
      <3> QED BY <1>1, <3>1, <3>2 DEF SetWindow
    <2> QED BY <1>1, <2>1, <2>2 DEF SetWindow, TypeOK
  <1>2. ASSUME NEW size \in {"wrong", "right"}, SetViewport(size) PROVE TypeOK'
    <2>1. page' \in Pages BY <1>2, PageFields DEF SetViewport, TypeOK
    <2>2. rend' \in Rends BY <1>2, RendFields DEF SetViewport, TypeOK
    <2>3. mark' \in Tracked \union {"nothing"}
      BY <1>2 DEF SetViewport, Touch, TypeOK
    <2> QED BY <1>2, <2>1, <2>2, <2>3 DEF SetViewport, TypeOK
  <1>3. CASE Disconnect
    <2>1. server' \in Servers BY <1>3, ServerFields DEF Disconnect, SetSharedState, TypeOK
    <2>2. act' \in Acts BY <1>3, ActFields DEF Disconnect, SetSharedState, TypeOK
    <2>3. bufs' \in Bufs
      <3>1. (IF bufs.root = "sent" THEN "unsent" ELSE bufs.root)
              \in {"unsent", "sent", "added", "attached"}
        BY DEF TypeOK, Bufs
      <3> QED BY <1>3, <3>1, BufsFields DEF Disconnect, TypeOK
    <2>4. rend' \in Rends BY <1>3, RendFields DEF Disconnect, SetSharedState, TypeOK
    <2> QED BY <1>3, <2>1, <2>2, <2>3, <2>4 DEF Disconnect, SetSharedState, TypeOK
  <1>4. CASE ReceiveState
    <2>1. act' \in Acts BY <1>4, ActFields DEF ReceiveState, SetSharedState, TypeOK
    <2>2. rend' \in Rends BY <1>4, RendFields DEF ReceiveState, SetSharedState, TypeOK
    <2> QED BY <1>4, <2>1, <2>2 DEF ReceiveState, SetSharedState, TypeOK
  <1>5. CASE ReceiveBuffer
    <2>1. bufs' \in Bufs BY <1>5, BufsFields DEF ReceiveBuffer, TypeOK
    <2> QED BY <1>5, <2>1 DEF ReceiveBuffer, TypeOK
  <1>6. CASE UiReturn
    <2>1. act' \in Acts
      <3>1. (IF act.waits = "window" THEN act.surfaces \cap {rend.win} ELSE act.surfaces)
              \in SUBSET Windows
        BY DEF TypeOK, Acts
      <3> QED BY <1>6, <3>1, ActFields DEF UiReturn, TypeOK
    <2>2. bufs' \in Bufs BY <1>6, BufsFields DEF UiReturn, TypeOK
    <2> QED BY <1>6, <2>1, <2>2 DEF UiReturn, TypeOK
  <1>7. CASE SetZoom
    <2>1. page' \in Pages BY <1>7, PageFields DEF SetZoom, TypeOK
    <2>2. mark' \in Tracked \union {"nothing"}
      BY <1>7 DEF SetZoom, Touch, TypeOK
    <2> QED BY <1>7, <2>1, <2>2 DEF SetZoom, TypeOK
  <1> QED BY <1>1, <1>2, <1>3, <1>4, <1>5, <1>6, <1>7
          DEF UiChange, Receive

(* Type correctness: the flags of the shared page, the renderer's fields    *)
(* and the marks keep their types, for any set of surfaces.                 *)
THEOREM TypeCorrect == Spec => []TypeOK
  <1>1. Init => TypeOK
    BY DEF Init, TypeOK, Pages, Servers, Rends, Bufs, Acts
  <1>2. TypeOK /\ [Next]_vars => TypeOK'
    <2> SUFFICES ASSUME TypeOK, [Next]_vars PROVE TypeOK'
      OBVIOUS
    <2>1. CASE UNCHANGED vars
      BY <2>1 DEF vars, TypeOK
    <2>2. CASE Next
      BY <2>2, ServerKeepsTypes, RendererKeepsTypes, UiKeepsTypes DEF Next
    <2> QED BY <2>1, <2>2
  <1> QED BY <1>1, <1>2, PTL DEF Spec

--------------------------------------------------------------------------------
(***************************************************************************)
(* What makes DrawsOnSurface inductive.  The windows the renderer has and  *)
(* is about to get are ones Android has not destroyed; the second is       *)
(* forgotten when it is taken; the server is told of a surface only while  *)
(* there is one; and what was true when the renderer decided to draw stays *)
(* true until it has drawn.                                                *)
(***************************************************************************)
WindowsLive ==
  /\ rend.win # None => rend.win \in act.surfaces
  /\ rend.pendingWin # None => rend.pendingWin \in act.surfaces
  /\ ~rend.windowChanged => rend.pendingWin = None

FlagTrue == rend.state /\ page.surfaceAvailable => rend.win # None

DrawsMapped == Drawing => rend.state /\ rend.win # None

SurfaceInv == WindowsLive /\ FlagTrue /\ DrawsMapped

(* Steps that leave the fields alone on which SurfaceInv depends. *)
SameSurface ==
  /\ rend'.win = rend.win /\ rend'.pendingWin = rend.pendingWin
  /\ rend'.windowChanged = rend.windowChanged /\ rend'.state = rend.state
  /\ page'.surfaceAvailable = page.surfaceAvailable
  /\ act'.surfaces = act.surfaces
  /\ Drawing' => Drawing

LEMMA SameSurfaceKeeps == SurfaceInv /\ SameSurface => SurfaceInv'
  BY DEF SurfaceInv, SameSurface, WindowsLive, FlagTrue, DrawsMapped

LEMMA ServerLeavesSurface ==
  ASSUME TypeOK, BeginFrame \/ EndFrame \/ Accept \/ ServerChange
  PROVE  SameSurface
  <1>1. CASE BeginFrame BY <1>1 DEF BeginFrame, TypeOK, Pages, SameSurface, Drawing
  <1>2. CASE EndFrame BY <1>2 DEF EndFrame, Wake, TypeOK, Pages, SameSurface, Drawing
  <1>3. CASE Accept BY <1>3 DEF Accept, TypeOK, SameSurface, Drawing
  <1>4. CASE Draw BY <1>4 DEF Draw, TypeOK, SameSurface, Drawing
  <1>5. CASE Resize BY <1>5 DEF Resize, TypeOK, SameSurface, Drawing
  <1>6. CASE Flip BY <1>6 DEF Flip, TypeOK, SameSurface, Drawing
  <1>7. CASE MoveCursor BY <1>7 DEF MoveCursor, Wake, TypeOK, SameSurface, Drawing
  <1>8. CASE SetCursor BY <1>8 DEF SetCursor, Wake, TypeOK, SameSurface, Drawing
  <1>9. CASE SetCursorVisible
    BY <1>9 DEF SetCursorVisible, Wake, TypeOK, SameSurface, Drawing
  <1> QED BY <1>1, <1>2, <1>3, <1>4, <1>5, <1>6, <1>7, <1>8, <1>9 DEF ServerChange

(* Of the renderer's own steps only two matter: Apply takes the new window  *)
(* and state and tells the server, Decide looks at what the server is told. *)
LEMMA RendererKeepsSurface ==
  ASSUME TypeOK, SurfaceInv, Renderer
  PROVE  SurfaceInv'
  <1>1. CASE Apply
    <2> DEFINE mapped == IF rend.stateChanged THEN rend.pendingState ELSE rend.state
    <2>1. PICK w \in IF rend.windowChanged THEN {rend.pendingWin, None} ELSE {rend.win} :
            /\ rend' = [rend EXCEPT !.state = mapped, !.pendingState = FALSE,
                                    !.stateChanged = FALSE, !.win = w, !.pendingWin = None,
                                    !.windowChanged = FALSE]
            /\ page' = IF mapped THEN SurfaceFlags(w) ELSE page
      BY <1>1 DEF Apply
    <2>2. /\ rend'.win = w /\ rend'.pendingWin = None /\ rend'.state = mapped
          /\ act' = act /\ pc' = "decide"
      BY <1>1, <2>1 DEF Apply, TypeOK, Rends
    <2>3. WindowsLive'
      BY <2>1, <2>2 DEF SurfaceInv, WindowsLive
    <2>4. FlagTrue'
      BY <2>1, <2>2 DEF SurfaceInv, FlagTrue, SurfaceFlags, TypeOK, Pages, Rends
    <2>5. DrawsMapped'
      BY <2>2 DEF DrawsMapped, Drawing
    <2> QED BY <2>3, <2>4, <2>5 DEF SurfaceInv
  <1>2. CASE Decide
    BY <1>2 DEF Decide, SurfaceInv, WindowsLive, FlagTrue, DrawsMapped, Drawing
  <1>3. CASE Check BY <1>3, SameSurfaceKeeps DEF Check, TypeOK, SameSurface, Drawing
  <1>4. CASE Sleep BY <1>4, SameSurfaceKeeps DEF Sleep, TypeOK, SameSurface, Drawing
  <1>5. CASE Look BY <1>5, SameSurfaceKeeps DEF Look, TypeOK, SameSurface, Drawing
  <1>6. CASE Reject
    BY <1>6, SameSurfaceKeeps DEF Reject, ClearDrawRequested, TypeOK, SameSurface, Drawing
  <1>7. CASE Snapshot BY <1>7, SameSurfaceKeeps DEF Snapshot, TypeOK, SameSurface, Drawing
  <1>8. CASE ClearRequest
    BY <1>8, SameSurfaceKeeps DEF ClearRequest, ClearDrawRequested, TypeOK, SameSurface, Drawing
  <1>9. CASE DrawRoot BY <1>9, SameSurfaceKeeps DEF DrawRoot, TypeOK, SameSurface, Drawing
  <1>10. CASE UploadCursor
    BY <1>10, SameSurfaceKeeps DEF UploadCursor, TypeOK, SameSurface, Drawing
  <1>11. CASE ClearMoved BY <1>11, SameSurfaceKeeps DEF ClearMoved, TypeOK, SameSurface, Drawing
  <1>12. CASE Finish BY <1>12, SameSurfaceKeeps DEF Finish, TypeOK, SameSurface, Drawing
  <1> QED BY <1>1, <1>2, <1>3, <1>4, <1>5, <1>6, <1>7, <1>8, <1>9, <1>10, <1>11, <1>12
          DEF Renderer

(* SetWindow announces a window that is there; UiReturn lets the others be  *)
(* destroyed, after the renderer has taken the announced one.               *)
LEMMA UiKeepsSurface ==
  ASSUME TypeOK, SurfaceInv, UiChange \/ Receive \/ UiReturn
  PROVE  SurfaceInv'
  <1>1. CASE SetWindow
    <2>1. WindowsLive'
      <3>1. rend'.win = rend.win /\ rend'.windowChanged = TRUE
        BY <1>1 DEF SetWindow, TypeOK, Rends
      <3>2. act.surfaces \subseteq act'.surfaces
        BY <1>1 DEF SetWindow, TypeOK, Acts
      <3>3. rend'.pendingWin # None => rend'.pendingWin \in act'.surfaces
        <4>1. CASE \E w \in Windows :
                     /\ rend' = [rend EXCEPT !.pendingWin = w, !.windowChanged = TRUE,
                                             !.expected = "none"]
                     /\ act' = [act EXCEPT !.surfaces = @ \union {w}, !.waits = "window"]
          BY <4>1 DEF TypeOK, Rends, Acts
        <4>2. CASE rend' = [rend EXCEPT !.pendingWin = None, !.windowChanged = TRUE,
                                        !.expected = "none"]
          BY <4>2 DEF TypeOK, Rends
        <4> QED BY <1>1, <4>1, <4>2 DEF SetWindow
      <3> QED BY <3>1, <3>2, <3>3 DEF SurfaceInv, WindowsLive
    <2>2. FlagTrue' /\ DrawsMapped'
      BY <1>1 DEF SetWindow, Wake, TypeOK, Rends, SurfaceInv, FlagTrue, DrawsMapped, Drawing
    <2> QED BY <2>1, <2>2 DEF SurfaceInv
  <1>2. ASSUME NEW size \in {"wrong", "right"}, SetViewport(size) PROVE SurfaceInv'
    BY <1>2, SameSurfaceKeeps DEF SetViewport, Wake, TypeOK, SameSurface, Drawing
  <1>3. CASE Disconnect
    BY <1>3, SameSurfaceKeeps DEF Disconnect, SetSharedState, Wake, TypeOK, SameSurface, Drawing
  <1>4. CASE ReceiveState
    BY <1>4, SameSurfaceKeeps DEF ReceiveState, SetSharedState, Wake, TypeOK, SameSurface, Drawing
  <1>5. CASE ReceiveBuffer
    BY <1>5, SameSurfaceKeeps DEF ReceiveBuffer, Wake, TypeOK, SameSurface, Drawing
  <1>6. CASE UiReturn
    BY <1>6 DEF UiReturn, TypeOK, SurfaceInv, WindowsLive, FlagTrue, DrawsMapped, Drawing
  <1>7. CASE SetZoom
    BY <1>7, SameSurfaceKeeps DEF SetZoom, Wake, TypeOK, SameSurface, Drawing
  <1> QED BY <1>1, <1>2, <1>3, <1>4, <1>5, <1>6, <1>7 DEF UiChange, Receive

(* The inductive invariant behind the next theorem. *)
THEOREM SurfaceInvariant == Spec => []SurfaceInv
  <1>1. Init => SurfaceInv
    BY DEF Init, SurfaceInv, WindowsLive, FlagTrue, DrawsMapped, Drawing
  <1>2. TypeOK /\ SurfaceInv /\ [Next]_vars => SurfaceInv'
    <2> SUFFICES ASSUME TypeOK, SurfaceInv, [Next]_vars PROVE SurfaceInv'
      OBVIOUS
    <2>1. CASE UNCHANGED vars
      BY <2>1, SameSurfaceKeeps DEF vars, SameSurface, Drawing
    <2>2. CASE Next
      BY <2>2, ServerLeavesSurface, SameSurfaceKeeps, RendererKeepsSurface, UiKeepsSurface
         DEF Next
    <2> QED BY <2>1, <2>2
  <1> QED BY <1>1, <1>2, TypeCorrect, PTL DEF Spec

(* setWindow's promise to Android: while the renderer draws it has a        *)
(* surface, and one whose destruction has not been allowed to finish, for   *)
(* any number of surfaces that come and go.                                 *)
THEOREM DrawsOnLivingSurface == Spec => []DrawsOnSurface
  <1>1. SurfaceInv => DrawsOnSurface
    BY DEF SurfaceInv, WindowsLive, DrawsMapped, DrawsOnSurface
  <1> QED BY <1>1, SurfaceInvariant, PTL
================================================================================
