------------------------------- MODULE X11Session -------------------------------
(***************************************************************************)
(* One X11 session of the launcher: the x11-client thread that runs        *)
(* X11Client.connect, the UI thread that injects input, runs the posted    *)
(* callbacks and calls disconnect(), and the X server at the other end of  *)
(* the socket.  Threads meet at the fields socket / input / output, at the *)
(* atomic `running', at the socket itself and at the UI thread's queue.    *)
(***************************************************************************)
EXTENDS Integers, Sequences

CONSTANTS
  RaceConnect, \* may the activity be destroyed while connect() still dials?
  XtestOk,     \* does the server know XTEST by the hard-coded opcode?
  MaxInputs,   \* bound: input events the user injects
  MaxEvents,   \* bound: events the server sends of its own accord
  MaxTexts     \* bound: mode toggles and terminal failures that write status

ASSUME SwitchesAssumption == RaceConnect \in BOOLEAN /\ XtestOk \in BOOLEAN
ASSUME BoundsAssumption ==
  MaxInputs \in Nat /\ MaxEvents \in Nat /\ MaxTexts \in Nat

VARIABLES
  net,       \* where the x11-client thread is in connect()
  cause,     \* why the exception it caught was thrown
  running,   \* X11Client.running
  socket,    \* is the field socket set?
  io,        \* are the fields input and output set?
  wire,      \* the TCP connection: none, open, lost (by the peer), shut (by us)
  requests,  \* written and not yet read by the server
  inbox,     \* sent by the server and not yet read by the client
  greeted,   \* the server has answered the setup request
  told,      \* the listener's latest callback
  asked,     \* disconnect() found running = true
  ui,        \* where the UI thread is in onDestroy() / disconnect()
  seen,      \* closeQuietly's read of socket, if it was early
  client,    \* is LauncherActivity.client set?
  destroyed, \* onDestroy has begun
  queue,     \* runnables posted to the UI thread
  hadError,  \* LauncherActivity.hadError
  status,    \* the status line
  hides,     \* delayed hides of the status line that are posted
  inputs, events, texts   \* what is left of the three bounds

netVars    == <<net, cause, told>>
fields     == <<running, socket, io>>
wireVars   == <<wire, requests, inbox, greeted>>
stopVars   == <<asked, ui, seen, client, destroyed>>
statusVars == <<hadError, status, hides>>
budget     == <<inputs, events, texts>>
vars == <<netVars, fields, wireVars, stopVars, queue, statusVars, budget>>

Dialling  == {"start", "dial", "dialled", "socketSet", "ioSet"}
Running   == {"greet", "await", "up", "loop", "request", "reading"}
Ending    == {"caught", "report", "finally", "clear", "farewell", "ended"}
Requests  == {"setup", "image", "input"}
Packets   == {"setup", "refusal", "reply", "imageError", "inputError", "event"}
Callbacks == {"connected", "error", "disconnected", "terminal"}

Init ==
  /\ net = "start" /\ cause = "none" /\ told = "none"
  /\ running = FALSE /\ socket = FALSE /\ io = FALSE
  /\ wire = "none" /\ requests = <<>> /\ inbox = <<>> /\ greeted = FALSE
  /\ asked = FALSE /\ ui = "idle" /\ seen = "unread"
  /\ client = FALSE /\ destroyed = FALSE
  /\ queue = <<>> /\ hadError = FALSE /\ status = "connecting" /\ hides = 0
  /\ inputs = MaxInputs /\ events = MaxEvents /\ texts = MaxTexts

-------------------------------------------------------------------------------
(***************************************************************************)
(* The x11-client thread.                                                  *)
(***************************************************************************)
Goto(pc) == net' = pc /\ UNCHANGED <<cause, told>>

Throw(why) == net' = "caught" /\ cause' = why /\ UNCHANGED told

Post(callback) == queue' = Append(queue, callback)

Assign ==
  /\ net = "start" /\ Goto("dial")
  /\ client' = TRUE
  /\ UNCHANGED <<fields, wireVars, asked, ui, seen, destroyed, queue, statusVars, budget>>

(* Socket.connect succeeds, or is refused or times out. *)
Dial ==
  /\ net = "dial"
  /\ \/ Goto("dialled") /\ wire' = "open"
     \/ Throw("unreachable") /\ UNCHANGED wire
  /\ UNCHANGED <<fields, requests, inbox, greeted, stopVars, queue, statusVars, budget>>

SetSocket ==
  /\ net = "dialled" /\ Goto("socketSet")
  /\ socket' = TRUE
  /\ UNCHANGED <<running, io, wireVars, stopVars, queue, statusVars, budget>>

(* getInputStream / getOutputStream throw on a socket already closed. *)
OpenStreams ==
  /\ net = "socketSet"
  /\ IF wire = "shut" THEN Throw("local") /\ UNCHANGED io
     ELSE Goto("ioSet") /\ io' = TRUE
  /\ UNCHANGED <<running, socket, wireVars, stopVars, queue, statusVars, budget>>

SetRunning ==
  /\ net = "ioSet" /\ Goto("greet")
  /\ running' = TRUE
  /\ UNCHANGED <<socket, io, wireVars, stopVars, queue, statusVars, budget>>

(* A request is written under writeLock: the fields may be null by now     *)
(* (output!! throws), the socket closed, or the peer gone.                 *)
Write(request, next) ==
  /\ \/ io /\ wire = "open" /\ requests' = Append(requests, request) /\ Goto(next)
     \/ io /\ wire = "lost" /\ (Goto(next) \/ Throw("peer")) /\ UNCHANGED requests
     \/ (~io \/ wire = "shut") /\ Throw("local") /\ UNCHANGED requests
  /\ UNCHANGED <<fields, wire, inbox, greeted, stopVars, queue, statusVars, budget>>

WriteSetup == net = "greet" /\ Write("setup", "await")

(* Why a blocking read may throw: the socket was closed under it, the peer *)
(* is gone, or nothing came for READ_TIMEOUT_MS.                           *)
ReadFails ==
  \/ wire = "shut" /\ Throw("local")
  \/ wire = "lost" /\ Throw("peer")
  \/ wire = "open" /\ inbox = <<>> /\ Throw("timeout")

Take == inbox # <<>> /\ inbox' = Tail(inbox)

(* The setup reply, or a refusal; an empty or malformed setup throws too. *)
ReadSetup ==
  /\ net = "await"
  /\ \/ /\ Take
        /\ \/ Head(inbox) = "setup" /\ Goto("up")
           \/ Throw("peer")
     \/ ReadFails /\ UNCHANGED inbox
  /\ UNCHANGED <<fields, wire, requests, greeted, stopVars, queue, statusVars, budget>>

TellConnected ==
  /\ net = "up"
  /\ net' = "loop" /\ told' = "connected" /\ UNCHANGED cause
  /\ Post("connected")
  /\ UNCHANGED <<fields, wireVars, stopVars, statusVars, budget>>

LoopCheck ==
  /\ net = "loop"
  /\ Goto(IF running THEN "request" ELSE "finally")
  /\ UNCHANGED <<fields, wireVars, stopVars, queue, statusVars, budget>>

WriteGetImage == net = "request" /\ Write("image", "reading")

NextPacketEventIsError ==
  /\ Take
  /\ Goto("loop")

(* What getImage and the loop do with the next packet: skip an event, give *)
(* up this round on an error, publish a changed frame on a reply.  A reply *)
(* of an implausible size or depth throws.                                 *)
NextPacket ==
  /\ Take
  /\ CASE Head(inbox) = "event" -> UNCHANGED netVars
       [] Head(inbox) \in {"imageError", "inputError"} -> Goto("loop")
       [] OTHER ->
            \/ Goto("loop")
            \/ net' = "loop" /\ told' = "frame" /\ UNCHANGED cause
            \/ Throw("peer")

ReadImage ==
  /\ net = "reading"
  /\ \/ NextPacket
     \/ ReadFails /\ UNCHANGED inbox
  /\ UNCHANGED <<fields, wire, requests, greeted, stopVars, queue, statusVars, budget>>

ReportAlways == "report"

Report == IF running THEN "report" ELSE "finally"

Catch ==
  /\ net = "caught" /\ Goto(Report)
  /\ UNCHANGED <<fields, wireVars, stopVars, queue, statusVars, budget>>

TellErrorEnds ==
  /\ net = "report"
  /\ net' = "ended" /\ told' = "error" /\ UNCHANGED cause
  /\ Post("error")
  /\ UNCHANGED <<fields, wireVars, stopVars, statusVars, budget>>

TellError ==
  /\ net = "report"
  /\ net' = "finally" /\ told' = "error" /\ UNCHANGED cause
  /\ Post("error")
  /\ UNCHANGED <<fields, wireVars, stopVars, statusVars, budget>>

CloseNothing(found) == UNCHANGED wire

Close(found) == wire' = IF found /\ wire \in {"open", "lost"} THEN "shut" ELSE wire

CloseOwn ==
  /\ net = "finally" /\ Goto("clear")
  /\ Close(socket)
  /\ UNCHANGED <<fields, requests, inbox, greeted, stopVars, queue, statusVars, budget>>

ClearOwn ==
  /\ net = "clear" /\ Goto("farewell")
  /\ socket' = FALSE /\ io' = FALSE
  /\ UNCHANGED <<running, wireVars, stopVars, queue, statusVars, budget>>

TellDisconnected ==
  /\ net = "farewell"
  /\ net' = "ended" /\ told' = "disconnected" /\ UNCHANGED cause
  /\ Post("disconnected")
  /\ UNCHANGED <<fields, wireVars, stopVars, statusVars, budget>>

NetStep ==
  \/ Assign \/ Dial \/ SetSocket \/ OpenStreams \/ SetRunning
  \/ WriteSetup \/ ReadSetup \/ TellConnected
  \/ LoopCheck \/ WriteGetImage \/ ReadImage
  \/ Catch \/ TellError \/ CloseOwn \/ ClearOwn \/ TellDisconnected

-------------------------------------------------------------------------------
(***************************************************************************)
(* The UI thread.                                                          *)
(***************************************************************************)
Free == ui \in {"idle", "done"}

(* sendPointer / sendButton / sendKey; dropped unless the session is up. *)
Inject ==
  /\ ui = "idle" /\ client /\ inputs > 0 /\ inputs' = inputs - 1
  /\ running /\ io /\ wire = "open"
  /\ requests' = Append(requests, "input")
  /\ UNCHANGED <<netVars, fields, wire, inbox, greeted, stopVars, queue, statusVars,
                 events, texts>>

(* client?.disconnect() in onDestroy.  The field socket is not volatile:    *)
(* closeQuietly's read of it may take effect before running.set(false).     *)
OnDestroy ==
  /\ ui = "idle" /\ ~destroyed
  /\ RaceConnect \/ net \notin Dialling
  /\ destroyed' = TRUE
  /\ ui' = IF client THEN "stop" ELSE "done"
  /\ seen' \in {"unread", IF socket THEN "set" ELSE "null"}
  /\ UNCHANGED <<netVars, fields, wireVars, asked, client, queue, statusVars, budget>>

DisconnectStop ==
  /\ ui = "stop" /\ ui' = "close"
  /\ asked' = running /\ running' = FALSE
  /\ UNCHANGED <<netVars, socket, io, wireVars, seen, client, destroyed, queue,
                 statusVars, budget>>

DisconnectClose ==
  /\ ui = "close" /\ ui' = "clear"
  /\ Close(IF seen = "unread" THEN socket ELSE seen = "set")
  /\ UNCHANGED <<netVars, fields, requests, inbox, greeted, asked, seen, client,
                 destroyed, queue, statusVars, budget>>

DisconnectClear ==
  /\ ui = "clear" /\ ui' = "done"
  /\ socket' = FALSE /\ io' = FALSE /\ client' = FALSE
  /\ UNCHANGED <<netVars, running, wireVars, asked, seen, destroyed, queue,
                 statusVars, budget>>

(* The listener's runnables, in the order they were posted. *)
ShowDisconnectedLate ==
  status' = (IF destroyed /\ ~hadError THEN "disconnected" ELSE status) /\ UNCHANGED hadError

ShowDisconnected ==
  /\ status' = IF ~destroyed /\ ~hadError THEN "disconnected" ELSE status
  /\ UNCHANGED hadError

RunCallback ==
  /\ Free /\ queue # <<>> /\ queue' = Tail(queue)
  /\ CASE Head(queue) = "connected"    -> hadError' = FALSE /\ status' = "gone"
       [] Head(queue) = "error"        -> hadError' = TRUE /\ status' = "error"
       [] Head(queue) = "disconnected" -> ShowDisconnected
       [] Head(queue) = "terminal"     -> status' = "terminal" /\ UNCHANGED hadError
  /\ UNCHANGED <<netVars, fields, wireVars, stopVars, hides, budget>>

(* toggleMode shows the new mode and posts a hide; a terminal request that *)
(* failed posts its message.                                               *)
ToggleMode ==
  /\ Free /\ texts > 0 /\ texts' = texts - 1
  /\ status' = "mode" /\ hides' = hides + 1
  /\ UNCHANGED <<netVars, fields, wireVars, stopVars, queue, hadError, inputs, events>>

TerminalFails ==
  /\ texts > 0 /\ texts' = texts - 1
  /\ Post("terminal")
  /\ UNCHANGED <<netVars, fields, wireVars, stopVars, statusVars, inputs, events>>

Hidden == "gone"

HiddenIfFine == IF ~hadError /\ client THEN "gone" ELSE status

HideStatusRepeats ==
  /\ Free /\ hides' = hides - 1
  /\ status' = HiddenIfFine
  /\ UNCHANGED <<netVars, fields, wireVars, stopVars, queue, hadError, budget>>

HideStatus ==
  /\ Free /\ hides > 0 /\ hides' = hides - 1
  /\ status' = HiddenIfFine
  /\ UNCHANGED <<netVars, fields, wireVars, stopVars, queue, hadError, budget>>

UiStep ==
  \/ DisconnectStop \/ DisconnectClose \/ DisconnectClear
  \/ RunCallback \/ HideStatus

UserStep == Inject \/ OnDestroy \/ ToggleMode \/ TerminalFails

-------------------------------------------------------------------------------
(***************************************************************************)
(* The X server and the network.  A client whose first bytes are not a     *)
(* setup request is dropped; a FakeInput is answered only when it is wrong.*)
(***************************************************************************)
Send(packet) == inbox' = Append(inbox, packet)

ServeSetup ==
  /\ Head(requests) = "setup" /\ greeted' = TRUE
  /\ Send("setup") \/ Send("refusal")
  /\ UNCHANGED wire

ServeImage ==
  /\ Head(requests) = "image"
  /\ Send("reply") \/ Send("imageError")
  /\ UNCHANGED <<wire, greeted>>

ServeInput ==
  /\ Head(requests) = "input"
  /\ IF ~greeted THEN wire' = "lost" /\ UNCHANGED inbox
     ELSE UNCHANGED wire /\ IF XtestOk THEN UNCHANGED inbox ELSE Send("inputError")
  /\ UNCHANGED greeted

Serve ==
  /\ wire = "open" /\ requests # <<>> /\ requests' = Tail(requests)
  /\ ServeSetup \/ ServeImage \/ ServeInput
  /\ UNCHANGED <<netVars, fields, stopVars, queue, statusVars, budget>>

SendEvent ==
  /\ wire = "open" /\ greeted /\ events > 0 /\ events' = events - 1
  /\ Send("event")
  /\ UNCHANGED <<netVars, fields, wire, requests, greeted, stopVars, queue, statusVars,
                 inputs, texts>>

LoseConnection ==
  /\ wire = "open" /\ wire' = "lost"
  /\ UNCHANGED <<netVars, fields, requests, inbox, greeted, stopVars, queue, statusVars,
                 budget>>

Next == NetStep \/ UiStep \/ UserStep \/ Serve \/ SendEvent \/ LoseConnection

(* Both threads are scheduled; the user, the server and the network may    *)
(* stay silent for ever (a blocked read then times out).                   *)
Spec == Init /\ [][Next]_vars /\ WF_vars(NetStep) /\ WF_vars(UiStep)

-------------------------------------------------------------------------------
(* Control points, fields and texts keep their types. *)
TypeOK ==
  /\ net \in Dialling \union Running \union Ending
  /\ cause \in {"none", "unreachable", "local", "peer", "timeout"}
  /\ told \in {"none", "connected", "frame", "error", "disconnected"}
  /\ running \in BOOLEAN /\ socket \in BOOLEAN /\ io \in BOOLEAN
  /\ wire \in {"none", "open", "lost", "shut"}
  /\ requests \in Seq(Requests) /\ inbox \in Seq(Packets)
  /\ greeted \in BOOLEAN /\ asked \in BOOLEAN
  /\ ui \in {"idle", "stop", "close", "clear", "done"}
  /\ seen \in {"unread", "null", "set"}
  /\ client \in BOOLEAN /\ destroyed \in BOOLEAN
  /\ queue \in Seq(Callbacks)
  /\ hadError \in BOOLEAN
  /\ status \in {"connecting", "gone", "error", "disconnected", "mode", "terminal"}
  /\ hides \in Nat /\ inputs \in Nat /\ events \in Nat /\ texts \in Nat

Contract == INSTANCE SessionContract WITH told <- told, asked <- asked

(* The session implements the contract of its listener: callbacks come in   *)
(* their order, and a disconnect() that found the session up, or an error,  *)
(* is always followed by the one and last onDisconnected.                   *)
ContractHonoured == Contract!Spec

(* Once connect() was past running.set(true), an exception that our own     *)
(* disconnect() provoked by closing the socket under a read or by nulling   *)
(* the fields is never reported as an error (the check in connect's catch). *)
OwnCloseIsQuiet == ~RaceConnect => ~(net = "report" /\ cause = "local")

(* Likewise both closeQuietly calls together leave no socket open, whoever  *)
(* of the two threads gets to the fields first.                             *)
SocketClosedAtEnd == ~RaceConnect /\ net = "ended" => wire \in {"none", "shut"}

(* The packet that ends getImage is the answer to the GetImage just sent:   *)
(* no other image request or answer is still under way.                     *)
FrameAnswersRequest ==
  [][net = "reading" /\ net' = "loop" =>
       /\ \A i \in DOMAIN requests : requests[i] # "image"
       /\ \A i \in DOMAIN inbox' : inbox'[i] \notin {"reply", "imageError"}]_vars

(* An error message is neither overwritten by "disconnected" nor hidden by  *)
(* the delayed hide of an earlier mode toggle: hadError guards both.        *)
ErrorStays == hadError => status \in {"error", "mode", "terminal"}

(* When the session is over and all callbacks ran, an activity that shows   *)
(* no other text says so: the error if one was reported, else               *)
(* "disconnected".                                                          *)
StatusTellsEnd ==
  net = "ended" /\ queue = <<>> /\ ~destroyed /\ texts = MaxTexts =>
    status = IF hadError THEN "error" ELSE "disconnected"
================================================================================
