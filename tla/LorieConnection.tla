---------------------------- MODULE LorieConnection ----------------------------
(***************************************************************************)
(* The socket between the activity and the X server, and which buffers the *)
(* two sides think they share.  In the server process the binder thread    *)
(* hands out connections, the server's own thread accepts them and         *)
(* registers buffers, and the input thread notices that one broke; in the  *)
(* activity the UI thread reads the events and the renderer's thread       *)
(* attaches and releases the buffers.                                      *)
(***************************************************************************)
EXTENDS Integers, Sequences, FiniteSets

CONSTANTS
  Conns,     \* the socket pairs
  Roots,     \* buffers of the screen pixmap, one after each resize
  Pixmaps,   \* buffers of clients' pixmaps
  FirstRoot, \* the one the server starts with
  MaxRefs,   \* bound: references the server holds on one buffer
  None       \* -1

Buffers == Roots \union Pixmaps

ASSUME IdsAssumption ==
  /\ Conns \cap Buffers = {} /\ Roots \cap Pixmaps = {}
  /\ None \notin Conns /\ FirstRoot \in Roots
ASSUME RefsAssumption == MaxRefs \in Nat /\ MaxRefs >= 1

VARIABLES
  fresh,      \* socket pairs and buffer ids not given out yet
  work,       \* connections in the work queue, to be accepted
  conn_fd,    \* the server's end of the current connection
  devs,       \* connections the input thread listens to
  emptying,   \* the input thread is between conn_fd = -1 and its return
  registered, \* registeredBuffers
  root,       \* the buffer of the screen pixmap
  refcount,   \* of each buffer in the server, 0 if not allocated
  plan,       \* what the server's thread has left to do in its present call
  pipe,       \* sent by the server and not yet read, per connection
  inHand,     \* returned by getXConnection and not yet passed to connect
  ui,         \* what the UI thread does next: back in its looper ("ready"), or in
              \*   xcallback or connect, after close
  connFd,     \* the activity's end
  closed,     \* connections the activity has closed
  mapped,     \* the renderer has the shared server state
  added, attached, removed, \* the renderer's lists of buffers
  copied,     \* refcount of the activity's copies that are not attached yet
  sent,       \* history: buffers sent on each connection that is not given up
  leaving,    \* history: the connection whose state and buffers ui gives up
  lent,       \* history: buffers that came with a refcount above 1
  clean       \* history: connections accepted when the list was empty and no
              \*   error of an older connection outstanding

server   == <<work, conn_fd, devs, registered, root, refcount, plan>>
lists    == <<added, attached, removed, copied, lent>>
activity == <<inHand, ui, connFd, leaving, closed, mapped, lists>>
vars     == <<fresh, server, emptying, pipe, sent, clean, activity>>

Do(op, arg)   == [op |-> op, arg |-> arg]
Msg(type, b)  == [type |-> type, buffer |-> b, refcount |-> refcount[b]]

Idle == plan = <<>>
Held == added \union attached

(* The server runs and nobody has connected yet. *)
Init ==
  /\ fresh = Conns \union (Buffers \ {FirstRoot})
  /\ work = <<>> /\ conn_fd = None /\ devs = {} /\ emptying = FALSE
  /\ registered = {} /\ root = FirstRoot
  /\ refcount = [b \in Buffers |-> IF b = FirstRoot THEN 1 ELSE 0]
  /\ plan = <<>>
  /\ pipe = [c \in Conns |-> <<>>] /\ sent = [c \in Conns |-> {}]
  /\ inHand = None /\ ui = "ready" /\ connFd = None /\ leaving = None /\ closed = {}
  /\ mapped = FALSE
  /\ added = {} /\ attached = {} /\ removed = {}
  /\ copied = [b \in Buffers |-> 0] /\ lent = {} /\ clean = {}

--------------------------------------------------------------------------------
(***************************************************************************)
(* Handing out and accepting a connection.  QueueWorkProc runs the second  *)
(* half on the server's thread.  InputThreadRegisterDev takes the lock     *)
(* that the input thread holds while it handles an event.  The activity    *)
(* asks, and later connects, from its UI thread.                           *)
(***************************************************************************)
GetXConnection(c) ==
  /\ c \in fresh /\ inHand = None /\ ui = "ready"
  /\ fresh' = fresh \ {c} /\ inHand' = c
  /\ work' = Append(work, c)
  /\ UNCHANGED <<conn_fd, devs, registered, root, refcount, plan, emptying, pipe, sent, clean,
                 ui, connFd, leaving, closed, mapped, lists>>

RegisterDev ==
  /\ Idle /\ work # <<>> /\ ~emptying
  /\ work' = Tail(work)
  /\ devs' = devs \union {Head(work)}
  /\ plan' = <<Do("accept", Head(work))>>
  /\ UNCHANGED <<fresh, conn_fd, registered, root, refcount, emptying, pipe, sent, clean, activity>>

(***************************************************************************)
(* The server's thread inside a call.  Each step reads conn_fd anew; what  *)
(* is written to a closed descriptor, or to -1, is lost.                   *)
(***************************************************************************)
Next1 == Head(plan)
Then(steps) == plan' = steps \o Tail(plan)

Send(msg) ==
  IF conn_fd # None /\ conn_fd \notin closed
    THEN /\ pipe' = [pipe EXCEPT ![conn_fd] = Append(@, msg)]
         /\ sent' = IF msg.type = "add" THEN [sent EXCEPT ![conn_fd] = @ \union {msg.buffer}]
                    ELSE sent
    ELSE UNCHANGED <<pipe, sent>>

AcceptWithoutRoot ==
  /\ Next1.op = "accept" /\ conn_fd' = Next1.arg
  /\ Then(<<Do("state", root)>>)
  /\ clean' = clean \union {c \in {Next1.arg} :
                               devs = {c} /\ ~emptying /\ registered = {}}
  /\ UNCHANGED <<registered, refcount, pipe, sent>>

(* conn_fd is set, then lorieActivityConnected. *)
AcceptStep ==
  /\ Next1.op = "accept" /\ conn_fd' = Next1.arg
  /\ Then(<<Do("state", root), Do("register", root)>>)
  /\ clean' = clean \union {c \in {Next1.arg} :
                               devs = {c} /\ ~emptying /\ registered = {}}
  /\ UNCHANGED <<registered, refcount, pipe, sent>>

SendState ==
  /\ Next1.op = "state" /\ Send(Msg("state", Next1.arg)) /\ Then(<<>>)
  /\ UNCHANGED <<conn_fd, registered, refcount>>

RegisterAgain ==
  /\ Next1.op = "register"
  /\ Then(IF conn_fd = None THEN <<>>
          ELSE <<Do("add", Next1.arg), Do("list", Next1.arg)>>)
  /\ UNCHANGED <<conn_fd, registered, refcount, pipe, sent>>

(* lorieRegisterBuffer: the check, the write, the list. *)
CheckRegister ==
  /\ Next1.op = "register"
  /\ Then(IF conn_fd = None \/ Next1.arg \in registered THEN <<>>
          ELSE <<Do("add", Next1.arg), Do("list", Next1.arg)>>)
  /\ UNCHANGED <<conn_fd, registered, refcount, pipe, sent>>

SendAdd ==
  /\ Next1.op = "add"
  /\ IF conn_fd = None THEN plan' = Tail(Tail(plan)) /\ UNCHANGED <<pipe, sent>>
     ELSE Send(Msg("add", Next1.arg)) /\ Then(<<>>)
  /\ UNCHANGED <<conn_fd, registered, refcount>>

AddToList ==
  /\ Next1.op = "list" /\ registered' = registered \union {Next1.arg} /\ Then(<<>>)
  /\ UNCHANGED <<conn_fd, refcount, pipe, sent>>

(* lorieUnregisterBuffer: not registered, nothing to do. *)
CheckUnregister ==
  /\ Next1.op = "unregister"
  /\ Then(IF Next1.arg \in registered THEN <<Do("remove", Next1.arg)>> ELSE <<>>)
  /\ UNCHANGED <<conn_fd, registered, refcount, pipe, sent>>

SendRemoveUnsent ==
  /\ Next1.op = "remove" /\ Then(<<>>)
  /\ registered' = registered \ {Next1.arg}
  /\ UNCHANGED <<conn_fd, refcount, pipe, sent>>

SendRemove ==
  /\ Next1.op = "remove" /\ Then(<<>>)
  /\ IF conn_fd = None THEN UNCHANGED <<registered, pipe, sent>>
     ELSE Send(Msg("remove", Next1.arg)) /\ registered' = registered \ {Next1.arg}
  /\ UNCHANGED <<conn_fd, refcount>>

(* LorieBuffer_acquire, and LorieBuffer_release of the last reference,      *)
(* which unlinks the buffer from the list it is in.                         *)
Acquire ==
  /\ Next1.op = "acquire" /\ refcount' = [refcount EXCEPT ![Next1.arg] = @ + 1] /\ Then(<<>>)
  /\ UNCHANGED <<conn_fd, registered, pipe, sent>>

Release ==
  /\ Next1.op = "release" /\ refcount' = [refcount EXCEPT ![Next1.arg] = @ - 1] /\ Then(<<>>)
  /\ registered' = IF refcount[Next1.arg] = 1 THEN registered \ {Next1.arg} ELSE registered
  /\ UNCHANGED <<conn_fd, pipe, sent>>

ServerStep ==
  /\ ~Idle
  /\ \/ AcceptStep
     \/ /\ \/ SendState \/ CheckRegister \/ SendAdd \/ AddToList
           \/ CheckUnregister \/ SendRemove \/ Acquire \/ Release
        /\ UNCHANGED clean
  /\ UNCHANGED <<fresh, work, devs, root, emptying, activity>>

(***************************************************************************)
(* The calls that reach them: lorieRRScreenSetSize (a new root, the old    *)
(* one destroyed), creating a client's pixmap, offloading a Present of it  *)
(* (lorieTryScheduleGpuCopy, lorieGpuCopyAck), destroying it.              *)
(***************************************************************************)
Call(steps) == Idle /\ plan' = steps

Begin(b) == fresh' = fresh \ {b} /\ refcount' = [refcount EXCEPT ![b] = 1]

SetSize(b) ==
  /\ b \in fresh \cap Roots /\ Begin(b) /\ root' = b
  /\ Call(<<Do("unregister", root), Do("release", root), Do("register", b)>>)

CreatePixmap(b) == b \in fresh \cap Pixmaps /\ Begin(b) /\ Call(<<>>) /\ UNCHANGED root

(* loriePresentFlip *)
Flip(b) ==
  /\ refcount[b] > 0 /\ Call(<<Do("register", b)>>)
  /\ UNCHANGED <<fresh, refcount, root>>

SchedulePresent(b) ==
  /\ refcount[b] \in 1 .. MaxRefs - 1
  /\ conn_fd # None /\ conn_fd \notin closed   \* lorieConnectionAlive
  /\ Call(<<Do("register", b), Do("acquire", b)>>)
  /\ UNCHANGED <<fresh, refcount, root>>

AckPresentAgain(b) ==
  /\ Call(<<Do("release", b)>>)
  /\ UNCHANGED <<fresh, refcount, root>>

AckPresent(b) ==
  /\ refcount[b] > 1 /\ Call(<<Do("release", b)>>)
  /\ UNCHANGED <<fresh, refcount, root>>

DestroyPixmap(b) ==
  /\ refcount[b] = 1 /\ Call(<<Do("unregister", b), Do("release", b)>>)
  /\ UNCHANGED <<fresh, refcount, root>>

ServerCall ==
  /\ \/ \E b \in Roots : SetSize(b)
     \/ \E b \in Pixmaps :
          \/ CreatePixmap(b) \/ Flip(b) \/ SchedulePresent(b)
          \/ AckPresent(b) \/ DestroyPixmap(b)
  /\ UNCHANGED <<work, conn_fd, devs, registered, emptying, pipe, sent, clean, activity>>

(***************************************************************************)
(* The input thread sees that the other end of c was closed: conn_fd = -1, *)
(* whichever connection conn_fd is, and then the list is emptied.          *)
(***************************************************************************)
Broken(c) ==
  /\ c \in devs \cap closed /\ ~emptying
  /\ devs' = devs \ {c} /\ conn_fd' = None /\ emptying' = TRUE
  /\ UNCHANGED <<fresh, work, registered, root, refcount, plan, pipe, sent, clean, activity>>

EmptyList ==
  /\ emptying /\ emptying' = FALSE /\ registered' = {}
  /\ UNCHANGED <<fresh, work, conn_fd, devs, root, refcount, plan, pipe, sent, clean, activity>>

--------------------------------------------------------------------------------
(***************************************************************************)
(* The activity's UI thread.                                               *)
(***************************************************************************)
RemoveAddedBuffers ==
  /\ added' = {} /\ UNCHANGED <<attached, removed>>
  /\ copied' = [b \in Buffers |-> 0] /\ lent' = {}

RemoveAllBuffers ==
  /\ added' = {} /\ attached' = {} /\ removed' = removed \union attached
  /\ copied' = [b \in Buffers |-> 0] /\ lent' = {}

(* Close the activity's end: what was in the socket is gone. *)
CloseEnd ==
  /\ closed' = closed \union {connFd}
  /\ pipe' = [pipe EXCEPT ![connFd] = <<>>]

(* A connection is given up in steps, with the renderer's thread and the    *)
(* server at work between them: close, setSharedState(nullptr), which waits *)
(* until the renderer has let go of the state, and removeAllBuffers, under  *)
(* its spinlock.  After a hangup connFd is -1 from the first step on; in    *)
(* connect it names the closed connection until the last.                   *)
Leave ==
  /\ ui = "ready" /\ connFd # None
  /\ CloseEnd /\ leaving' = connFd /\ ui' = "unmap"
  /\ UNCHANGED <<fresh, server, emptying, sent, clean, inHand, mapped, lists>>

Hangup       == Leave /\ connFd' = None
BeginConnect == inHand # None /\ Leave /\ UNCHANGED connFd

Unmap ==
  /\ ui = "unmap" /\ mapped' = FALSE /\ ui' = "forget"
  /\ UNCHANGED <<fresh, server, emptying, pipe, sent, clean, inHand, connFd, leaving, closed, lists>>

Forget ==
  /\ ui = "forget" /\ RemoveAllBuffers /\ leaving' = None
  /\ ui' = IF connFd = None THEN "ready" ELSE "adopt"
  /\ sent' = [sent EXCEPT ![leaving] = {}]
  /\ UNCHANGED <<fresh, server, emptying, pipe, clean, inHand, connFd, closed, mapped>>

(* The rest of connect(fd), or all of it when no connection was open.       *)
Adopt ==
  /\ inHand # None
  /\ ui = "adopt" \/ (ui = "ready" /\ connFd = None)
  /\ connFd' = inHand /\ inHand' = None /\ ui' = "ready"
  /\ UNCHANGED <<fresh, server, emptying, pipe, sent, clean, leaving, closed, mapped, lists>>

(* LorieBuffer_recvHandleFromUnixSocket reads the sender's whole struct     *)
(* over the values it has just reset, the reference count included.         *)
ReceiveAdd(msg) ==
  /\ msg.type = "add" /\ added' = added \union {msg.buffer}
  /\ copied' = [copied EXCEPT ![msg.buffer] = msg.refcount]
  /\ lent' = IF msg.refcount > 1 THEN lent \union {msg.buffer} ELSE lent
  /\ UNCHANGED <<mapped, attached, removed>>

(* Renderer::removeBuffer: a buffer not attached yet is released at once,   *)
(* an attached one is left to the renderer's thread.                        *)
ReceiveRemove(msg) ==
  /\ msg.type = "remove"
  /\ \/ /\ msg.buffer \in added
        /\ copied' = [copied EXCEPT ![msg.buffer] = @ - 1]
        /\ added' = IF copied[msg.buffer] = 1 THEN added \ {msg.buffer} ELSE added
        /\ UNCHANGED <<attached, removed>>
     \/ /\ msg.buffer \in attached \ added
        /\ attached' = attached \ {msg.buffer} /\ removed' = removed \union {msg.buffer}
        /\ UNCHANGED <<added, copied>>
     \/ msg.buffer \notin Held /\ UNCHANGED <<added, attached, removed, copied>>
  /\ UNCHANGED <<mapped, lent>>

ReceiveState(msg) == msg.type = "state" /\ mapped' = TRUE /\ UNCHANGED lists

Receive ==
  /\ ui = "ready" /\ connFd # None /\ pipe[connFd] # <<>>
  /\ pipe' = [pipe EXCEPT ![connFd] = Tail(@)]
  /\ LET msg == Head(pipe[connFd])
     IN  ReceiveAdd(msg) \/ ReceiveRemove(msg) \/ ReceiveState(msg)
  /\ UNCHANGED <<fresh, server, emptying, sent, clean, inHand, ui, connFd, leaving, closed>>

(* One round of the renderer's loop: attach what is new, then release what  *)
(* was removed, each until its last reference is gone.                      *)
RendererRound ==
  /\ added # {} \/ removed # {}
  /\ attached' = attached \union added /\ added' = {} /\ removed' = {}
  /\ copied' = [b \in Buffers |-> 0]
  /\ UNCHANGED <<lent, fresh, server, emptying, pipe, sent, clean, inHand, ui, connFd, leaving,
                 closed, mapped>>

Next ==
  \/ \E c \in Conns : GetXConnection(c) \/ Broken(c)
  \/ RegisterDev \/ ServerStep \/ ServerCall \/ EmptyList
  \/ Hangup \/ BeginConnect \/ Unmap \/ Forget \/ Adopt \/ Receive \/ RendererRound

(* Threads are scheduled, the server's dispatch loop comes back to the work *)
(* queue, and the activity passes on the descriptor it was given.           *)
(* Asking for one, hanging up, resizing and presenting happen or not.       *)
Fairness ==
  /\ WF_vars(ServerStep) /\ SF_vars(RegisterDev)
  /\ WF_vars(\E c \in Conns : Broken(c)) /\ WF_vars(EmptyList)
  /\ WF_vars(BeginConnect) /\ WF_vars(Unmap) /\ WF_vars(Forget) /\ WF_vars(Adopt)
  /\ WF_vars(Receive) /\ WF_vars(RendererRound)

Spec == Init /\ [][Next]_vars /\ Fairness

--------------------------------------------------------------------------------
Messages == [type : {"state", "add", "remove"}, buffer : Buffers, refcount : 0 .. MaxRefs]
Steps ==
  [op : {"accept"}, arg : Conns] \union
  [op : {"state", "register", "add", "list", "unregister", "remove", "acquire", "release"},
   arg : Buffers]

(* Descriptors are connections or -1; lists hold buffers; counts are bounded. *)
TypeOK ==
  /\ fresh \subseteq Conns \union Buffers
  /\ work \in Seq(Conns) /\ devs \subseteq Conns /\ closed \subseteq Conns
  /\ conn_fd \in Conns \union {None} /\ inHand \in Conns \union {None}
  /\ connFd \in Conns \union {None} /\ leaving \in Conns \union {None}
  /\ ui \in {"ready", "unmap", "forget", "adopt"}
  /\ emptying \in BOOLEAN /\ mapped \in BOOLEAN
  /\ registered \subseteq Buffers /\ root \in Roots
  /\ refcount \in [Buffers -> 0 .. MaxRefs] /\ copied \in [Buffers -> 0 .. MaxRefs]
  /\ plan \in Seq(Steps)
  /\ pipe \in [Conns -> Seq(Messages)] /\ sent \in [Conns -> SUBSET Buffers]
  /\ added \subseteq Buffers /\ attached \subseteq Buffers /\ removed \subseteq Buffers
  /\ lent \subseteq Buffers /\ clean \subseteq Conns

(* Whose buffers the renderer may have: those of the connection the UI      *)
(* thread is giving up, until removeAllBuffers, or of the one it reads.     *)
Owner == IF leaving # None THEN leaving ELSE IF ui = "ready" THEN connFd ELSE None

(* The renderer never has buffers of one connection with the state of       *)
(* another: what it holds was sent on the connection the activity has, or   *)
(* is just giving up, it has the state only up to setSharedState(nullptr),  *)
(* and nothing is left of the old connection when connFd names the next.    *)
HeldIsCurrent ==
  /\ Held \subseteq IF Owner = None THEN {} ELSE sent[Owner]
  /\ mapped => Owner # None /\ ui \in {"ready", "unmap"}

Adds(c, b) == {i \in DOMAIN pipe[c] : pipe[c][i].type = "add" /\ pipe[c][i].buffer = b}

(* On a connection accepted cleanly (no error of an older one outstanding,  *)
(* no buffer left in the list), a buffer is sent at most once: a second     *)
(* copy under the same id would survive the removal of the first.           *)
SentOnce ==
  \A c \in clean, b \in Buffers :
    Cardinality(Adds(c, b)) <= IF c = connFd /\ b \in Held THEN 0 ELSE 1

(* On such a connection, when all was read, the activity holds no buffer    *)
(* that the server has dropped, unless the buffer was sent while copies     *)
(* from it were pending (the reference count copied with it then outlives   *)
(* removeBuffer).                                                           *)
NothingStale ==
  ui = "ready" /\ connFd \in clean /\ connFd = conn_fd /\ Idle /\ pipe[connFd] = <<>> =>
    Held \subseteq registered \union lent

(* Such a connection brings the activity the shared state and the screen's  *)
(* buffer, whatever is resized or presented meanwhile, or it is closed.     *)
RootArrives ==
  \A c \in Conns :
    c \in clean ~> (connFd = c /\ mapped /\ root \in Held) \/ c \in closed
================================================================================
