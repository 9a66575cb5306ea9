--------------------------- MODULE X11SessionProofs ---------------------------
(***************************************************************************)
(* X11Session for every bound: types, the listener's contract (its safety  *)
(* part), and what holds of disconnect() when it does not race connect().  *)
(***************************************************************************)
EXTENDS X11Session, SequenceTheorems, TLAPS

USE DEF netVars, fields, wireVars, stopVars, statusVars, budget, Dialling, Running,
        Ending

LEMMA Names ==
  /\ "setup" \in Requests /\ "image" \in Requests /\ "input" \in Requests
  /\ \A p \in {"setup", "refusal", "reply", "imageError", "inputError", "event"} :
       p \in Packets
  /\ \A c \in {"connected", "error", "disconnected", "terminal"} : c \in Callbacks
  BY DEF Requests, Packets, Callbacks

LEMMA Queues ==
  ASSUME NEW S
  PROVE  /\ <<>> \in Seq(S)
         /\ \A q \in Seq(S), e \in S : Append(q, e) \in Seq(S)
         /\ \A q \in Seq(S) : q # <<>> => Tail(q) \in Seq(S) /\ Head(q) \in S
  OBVIOUS

NetTypes ==
  /\ net \in Dialling \union Running \union Ending
  /\ cause \in {"none", "unreachable", "local", "peer", "timeout"}
  /\ told \in {"none", "connected", "frame", "error", "disconnected"}

LEMMA MoveTypes ==
  /\ \A pc \in Dialling \union Running \union Ending :
       NetTypes /\ Goto(pc) => NetTypes'
  /\ NetTypes /\ Throw("local") => NetTypes'
  /\ NetTypes /\ Throw("peer") => NetTypes'
  /\ NetTypes /\ Throw("timeout") => NetTypes'
  BY DEF NetTypes, Goto, Throw

(* Every variable of the session keeps its type. *)
THEOREM SessionTypes == Spec => []TypeOK
<1>1. Init => TypeOK
  <2>1. Init => /\ running \in BOOLEAN /\ socket \in BOOLEAN /\ io \in BOOLEAN
                /\ greeted \in BOOLEAN /\ asked \in BOOLEAN /\ client \in BOOLEAN
                /\ destroyed \in BOOLEAN /\ hadError \in BOOLEAN
    BY DEF Init
  <2>2. Init => hides \in Nat /\ inputs \in Nat /\ events \in Nat /\ texts \in Nat
    BY BoundsAssumption DEF Init
  <2>3. Init => /\ requests \in Seq(Requests) /\ inbox \in Seq(Packets)
                /\ queue \in Seq(Callbacks)
    BY Queues DEF Init
  <2>4. Init => NetTypes
    BY DEF Init, NetTypes
  <2> QED BY <2>1, <2>2, <2>3, <2>4 DEF Init, TypeOK, NetTypes
<1>2. TypeOK /\ [Next]_vars => TypeOK'
  <2> SUFFICES ASSUME TypeOK, [Next]_vars PROVE TypeOK'
    OBVIOUS
  <2> USE DEF TypeOK
  <2>1. CASE Assign
    BY <2>1 DEF Assign, Goto
  <2>2. CASE Dial
    BY <2>2 DEF Dial, Goto, Throw
  <2>3. CASE SetSocket
    BY <2>3 DEF SetSocket, Goto
  <2>4. CASE OpenStreams
    <3>1. NetTypes'
      BY <2>4, MoveTypes DEF OpenStreams, NetTypes
    <3>2. io' \in BOOLEAN
      BY <2>4 DEF OpenStreams
    <3> QED BY <2>4, <3>1, <3>2 DEF OpenStreams, NetTypes
  <2>5. CASE SetRunning
    BY <2>5 DEF SetRunning, Goto
  <2>6. CASE WriteSetup
    <3>1. NetTypes'
      BY <2>6, MoveTypes DEF WriteSetup, Write, NetTypes
    <3>2. requests' \in Seq(Requests)
      <4>1. UNCHANGED requests \/ requests' = Append(requests, "setup")
        BY <2>6 DEF WriteSetup, Write
      <4>2. \A r \in Requests : Append(requests, r) \in Seq(Requests)
        BY Queues
      <4> QED BY <4>1, <4>2, Names
    <3> QED BY <2>6, <3>1, <3>2 DEF WriteSetup, Write, NetTypes
  <2>7. CASE ReadSetup
    <3>1. NetTypes'
      <4>1. \/ Goto("up") \/ Throw("peer") \/ Throw("local") \/ Throw("timeout")
        BY <2>7 DEF ReadSetup, ReadFails
      <4> QED BY <4>1, MoveTypes DEF NetTypes
    <3>2. inbox' \in Seq(Packets)
      BY <2>7, Queues DEF ReadSetup, Take
    <3> QED BY <2>7, <3>1, <3>2 DEF ReadSetup, NetTypes
  <2>8. CASE TellConnected
    BY <2>8, Names, Queues DEF TellConnected, Post
  <2>9. CASE LoopCheck
    BY <2>9 DEF LoopCheck, Goto
  <2>10. CASE WriteGetImage
    <3>1. NetTypes'
      BY <2>10, MoveTypes DEF WriteGetImage, Write, NetTypes
    <3>2. requests' \in Seq(Requests)
      <4>1. UNCHANGED requests \/ requests' = Append(requests, "image")
        BY <2>10 DEF WriteGetImage, Write
      <4>2. \A r \in Requests : Append(requests, r) \in Seq(Requests)
        BY Queues
      <4> QED BY <4>1, <4>2, Names
    <3> QED BY <2>10, <3>1, <3>2 DEF WriteGetImage, Write, NetTypes
  <2>11. CASE ReadImage
    <3>1. CASE NextPacket
      <4>1. \/ UNCHANGED netVars \/ Goto("loop") \/ Throw("peer")
            \/ net' = "loop" /\ told' = "frame" /\ UNCHANGED cause
        BY <3>1 DEF NextPacket
      <4>2. NetTypes'
        BY <4>1, MoveTypes DEF NetTypes
      <4>3. inbox' \in Seq(Packets)
        BY <3>1, Queues DEF NextPacket, Take
      <4> QED BY <2>11, <4>2, <4>3 DEF ReadImage, NetTypes
    <3>2. CASE ReadFails /\ UNCHANGED inbox
      <4>1. NetTypes'
        BY <3>2, MoveTypes DEF ReadFails, NetTypes
      <4> QED BY <2>11, <3>2, <4>1 DEF ReadImage, NetTypes
    <3> QED BY <2>11, <3>1, <3>2 DEF ReadImage
  <2>12. CASE Catch
    BY <2>12 DEF Catch, Report, Goto
  <2>13. CASE TellError
    BY <2>13, Names, Queues DEF TellError, Post
  <2>14. CASE CloseOwn
    BY <2>14 DEF CloseOwn, Close, Goto
  <2>15. CASE ClearOwn
    <3>1. NetTypes' /\ socket' \in BOOLEAN /\ io' \in BOOLEAN
      BY <2>15, MoveTypes DEF ClearOwn, NetTypes
    <3> QED BY <2>15, <3>1 DEF ClearOwn, NetTypes
  <2>16. CASE TellDisconnected
    BY <2>16, Names, Queues DEF TellDisconnected, Post
  <2>17. CASE Inject
    BY <2>17, Names, Queues DEF Inject
  <2>18. CASE OnDestroy
    BY <2>18 DEF OnDestroy
  <2>19. CASE DisconnectStop
    <3>1. asked' \in BOOLEAN /\ running' \in BOOLEAN
      BY <2>19 DEF DisconnectStop
    <3> QED BY <2>19, <3>1 DEF DisconnectStop
  <2>20. CASE DisconnectClose
    BY <2>20 DEF DisconnectClose, Close
  <2>21. CASE DisconnectClear
    <3>1. socket' \in BOOLEAN /\ io' \in BOOLEAN /\ client' \in BOOLEAN
      BY <2>21 DEF DisconnectClear
    <3> QED BY <2>21, <3>1 DEF DisconnectClear
  <2>22. CASE RunCallback
    <3>1. queue' \in Seq(Callbacks) /\ Head(queue) \in Callbacks
      BY <2>22, Queues DEF RunCallback
    <3>2. hadError' \in BOOLEAN
      BY <2>22, <3>1 DEF RunCallback, ShowDisconnected, Callbacks
    <3>3. status' \in {"connecting", "gone", "error", "disconnected", "mode", "terminal"}
      BY <2>22, <3>1 DEF RunCallback, ShowDisconnected, Callbacks
    <3> QED BY <2>22, <3>1, <3>2, <3>3 DEF RunCallback
  <2>23. CASE ToggleMode
    BY <2>23 DEF ToggleMode
  <2>24. CASE TerminalFails
    BY <2>24, Names, Queues DEF TerminalFails, Post
  <2>25. CASE HideStatus
    BY <2>25 DEF HideStatus, HiddenIfFine
  <2>26. CASE Serve
    <3>1. requests' \in Seq(Requests)
      BY <2>26, Queues DEF Serve
    <3>2. inbox' \in Seq(Packets)
      <4>1. \/ UNCHANGED inbox
            \/ \E p \in {"setup", "refusal", "reply", "imageError", "inputError"} :
                 inbox' = Append(inbox, p)
        BY <2>26 DEF Serve, ServeSetup, ServeImage, ServeInput, Send
      <4>2. \A p \in Packets : Append(inbox, p) \in Seq(Packets)
        BY Queues
      <4> QED BY <4>1, <4>2, Names
    <3>3. greeted' \in BOOLEAN /\ wire' \in {"none", "open", "lost", "shut"}
      BY <2>26 DEF Serve, ServeSetup, ServeImage, ServeInput
    <3> QED BY <2>26, <3>1, <3>2, <3>3 DEF Serve
  <2>27. CASE SendEvent
    BY <2>27, Names, Queues DEF SendEvent, Send
  <2>28. CASE LoseConnection
    BY <2>28 DEF LoseConnection
  <2>29. CASE UNCHANGED vars
    BY <2>29 DEF vars
  <2> QED
    BY <2>1, <2>2, <2>3, <2>4, <2>5, <2>6, <2>7, <2>8, <2>9, <2>10, <2>11, <2>12,
       <2>13, <2>14, <2>15, <2>16, <2>17, <2>18, <2>19, <2>20, <2>21, <2>22, <2>23,
       <2>24, <2>25, <2>26, <2>27, <2>28, <2>29
    DEF Next, NetStep, UiStep, UserStep
<1>3. QED BY <1>1, <1>2, PTL DEF Spec

-------------------------------------------------------------------------------
(***************************************************************************)
(* The listener's contract.  What was told follows from where the thread   *)
(* is in connect().                                                        *)
(***************************************************************************)
ToldInv ==
  /\ net \in Dialling \union {"greet", "await", "up"} => told = "none"
  /\ net \in {"loop", "request", "reading"} => told \in {"connected", "frame"}
  /\ net \in {"caught", "report"} => told \in {"none", "connected", "frame"}
  /\ net \in {"finally", "clear", "farewell"} => told # "disconnected"
  /\ ui \in {"idle", "stop"} => ~asked

(* A step of the client thread that gives no callback. *)
LEMMA Untold ==
  ASSUME TypeOK, ToldInv, NetStep, told' = told
  PROVE  ToldInv' /\ UNCHANGED asked
<1> USE DEF ToldInv, TypeOK
<1>1. CASE Assign \/ Dial \/ SetSocket \/ OpenStreams \/ SetRunning
  BY <1>1 DEF Assign, Dial, SetSocket, OpenStreams, SetRunning, Goto, Throw
<1>2. CASE WriteSetup \/ WriteGetImage
  BY <1>2 DEF WriteSetup, WriteGetImage, Write, Goto, Throw
<1>3. CASE ReadSetup
  BY <1>3 DEF ReadSetup, ReadFails, Goto, Throw
<1>4. CASE ReadImage
  <2>1. net' \in {"reading", "loop", "caught"} /\ UNCHANGED <<ui, asked>>
    BY <1>4 DEF ReadImage, NextPacket, ReadFails, Goto, Throw
  <2> QED BY <1>4, <2>1 DEF ReadImage
<1>5. CASE LoopCheck \/ Catch
  BY <1>5 DEF LoopCheck, Catch, Report, Goto
<1>6. CASE CloseOwn \/ ClearOwn
  BY <1>6 DEF CloseOwn, ClearOwn, Goto
<1>7. CASE TellConnected \/ TellError \/ TellDisconnected
  BY <1>7 DEF TellConnected, TellError, TellDisconnected
<1> QED BY <1>1, <1>2, <1>3, <1>4, <1>5, <1>6, <1>7 DEF NetStep

(* Every step is a step of the contract or leaves it alone, and keeps the   *)
(* relation between control point and callback.                             *)
LEMMA ContractStep ==
  ASSUME TypeOK, ToldInv, [Next]_vars
  PROVE  ToldInv' /\ [Contract!Next]_<<told, asked>>
<1> USE DEF ToldInv, TypeOK, Contract!Next, Contract!Tell
<1>1. CASE NetStep /\ told' = told
  BY <1>1, Untold
<1>2. CASE TellConnected
  BY <1>2 DEF TellConnected, Contract!Connected
<1>3. CASE TellError
  BY <1>3 DEF TellError, Contract!Failed
<1>4. CASE TellDisconnected
  BY <1>4 DEF TellDisconnected, Contract!Disconnected
<1>5. CASE ReadImage /\ told' # told
  <2>1. net' = "loop" /\ told' = "frame" /\ UNCHANGED <<ui, asked>>
    BY <1>5 DEF ReadImage, NextPacket, ReadFails, Goto, Throw
  <2> QED BY <1>5, <2>1 DEF ReadImage, Contract!Frame
<1>6. CASE NetStep /\ told' # told
  <2>1. TellConnected \/ TellError \/ TellDisconnected \/ ReadImage
    BY <1>6
    DEF NetStep, Assign, Dial, SetSocket, OpenStreams, SetRunning, WriteSetup,
        ReadSetup, ReadFails, LoopCheck, WriteGetImage, Write, Catch, CloseOwn,
        ClearOwn, Goto, Throw
  <2> QED BY <1>2, <1>3, <1>4, <1>5, <1>6, <2>1
<1>7. CASE DisconnectStop
  BY <1>7 DEF DisconnectStop, Contract!Ask
<1>8. CASE DisconnectClose \/ DisconnectClear \/ RunCallback \/ HideStatus
  <2>1. UNCHANGED <<net, told, asked>>
    BY <1>8 DEF DisconnectClose, DisconnectClear, RunCallback, HideStatus
  <2>2. ui' = ui \/ ui' \in {"clear", "done"}
    BY <1>8 DEF DisconnectClose, DisconnectClear, RunCallback, HideStatus
  <2> QED BY <2>1, <2>2
<1>9. CASE UserStep
  BY <1>9 DEF UserStep, Inject, OnDestroy, ToggleMode, TerminalFails
<1>10. CASE Serve \/ SendEvent \/ LoseConnection
  BY <1>10 DEF Serve, SendEvent, LoseConnection
<1>11. CASE UNCHANGED vars
  BY <1>11 DEF vars
<1> QED BY <1>1, <1>6, <1>7, <1>8, <1>9, <1>10, <1>11 DEF Next, UiStep

(* The session implements the safety part of SessionContract: onConnected   *)
(* first, one onError at most, onDisconnected once and last, whatever the   *)
(* UI thread, the server and the network do.                                *)
THEOREM SessionImplementsContract ==
  Spec => Contract!Init /\ [][Contract!Next]_<<told, asked>>
<1>1. Init => ToldInv /\ Contract!Init
  <2>1. Init => net = "start" /\ told = "none" /\ ~asked
    BY DEF Init
  <2>2. Init => told = "none" /\ asked = FALSE
    BY DEF Init
  <2> QED BY <2>1, <2>2 DEF ToldInv, Contract!Init
<1>2. TypeOK /\ ToldInv /\ [Next]_vars => ToldInv' /\ [Contract!Next]_<<told, asked>>
  BY ContractStep
<1>3. QED BY <1>1, <1>2, SessionTypes, PTL DEF Spec

-------------------------------------------------------------------------------
(***************************************************************************)
(* disconnect() after running.set(true).  The invariant says who may have  *)
(* closed the socket or nulled the fields at each point of both threads.   *)
(***************************************************************************)
StopInv ==
  /\ net \in Dialling => ui = "idle" /\ wire # "shut"
  /\ ui = "idle" => seen = "unread"
  /\ net \in {"start", "dial"} => wire = "none"
  /\ net \in Dialling \ {"start"} => client
  /\ ui \in {"idle", "stop"} /\ net \notin Dialling => client
  /\ ui \in {"close", "clear", "done"} => ~running
  /\ net \in Running \union {"ioSet"} /\ ui # "done" => io
  /\ wire = "shut" => ui \in {"clear", "done"} \/ net \in {"clear", "farewell", "ended"}
  /\ net = "caught" /\ cause = "local" => ~running
  /\ ~(net = "report" /\ cause = "local")

ClosedInv ==
  wire \in {"open", "lost"} =>
    /\ net \notin {"start", "dial", "clear", "farewell", "ended"}
    /\ net # "dialled" => socket
    /\ ui \notin {"clear", "done"} /\ seen # "null"

LEMMA StopStep ==
  ASSUME ~RaceConnect, TypeOK, StopInv, [Next]_vars
  PROVE  StopInv'
<1> USE DEF StopInv, TypeOK
<1>1. CASE Assign
  BY <1>1 DEF Assign, Goto
<1>2. CASE Dial
  BY <1>2 DEF Dial, Goto, Throw
<1>3. CASE SetSocket
  BY <1>3 DEF SetSocket, Goto
<1>4. CASE OpenStreams
  BY <1>4 DEF OpenStreams, Goto, Throw
<1>5. CASE SetRunning
  <2>1. /\ net = "ioSet" /\ ui = "idle" /\ io
        /\ net' = "greet" /\ UNCHANGED <<ui, wire, client, seen, io, cause>>
    BY <1>5 DEF SetRunning, Goto
  <2> QED BY <2>1
<1>6. CASE WriteSetup
  BY <1>6 DEF WriteSetup, Write, Goto, Throw
<1>7. CASE ReadSetup
  BY <1>7 DEF ReadSetup, ReadFails, Goto, Throw
<1>8. CASE TellConnected
  BY <1>8 DEF TellConnected
<1>9. CASE LoopCheck
  BY <1>9 DEF LoopCheck, Goto
<1>10. CASE WriteGetImage
  BY <1>10 DEF WriteGetImage, Write, Goto, Throw
<1>11. CASE ReadImage
  <2>1. \/ net' \in {"reading", "loop"}
        \/ wire = "shut" /\ Throw("local")
        \/ Throw("peer")
        \/ Throw("timeout")
    BY <1>11 DEF ReadImage, NextPacket, ReadFails, Goto
  <2> QED BY <1>11, <2>1 DEF ReadImage, Throw
<1>12. CASE Catch
  BY <1>12 DEF Catch, Report, Goto
<1>13. CASE TellError
  BY <1>13 DEF TellError
<1>14. CASE CloseOwn
  BY <1>14 DEF CloseOwn, Close, Goto
<1>15. CASE ClearOwn
  BY <1>15 DEF ClearOwn, Goto
<1>16. CASE TellDisconnected
  BY <1>16 DEF TellDisconnected
<1>17. CASE OnDestroy
  BY <1>17 DEF OnDestroy
<1>18. CASE DisconnectStop
  BY <1>18 DEF DisconnectStop
<1>19. CASE DisconnectClose
  BY <1>19 DEF DisconnectClose, Close
<1>20. CASE DisconnectClear
  BY <1>20 DEF DisconnectClear
<1>21. CASE RunCallback \/ HideStatus \/ Inject \/ ToggleMode \/ TerminalFails
  <2>1. UNCHANGED <<net, cause, running, io, wire, ui, seen, client>>
    BY <1>21 DEF RunCallback, HideStatus, Inject, ToggleMode, TerminalFails
  <2> QED BY <2>1
<1>22. CASE Serve
  <2>1. wire = "open" /\ wire' \in {"open", "lost"}
    BY <1>22 DEF Serve, ServeSetup, ServeImage, ServeInput
  <2> QED BY <1>22, <2>1 DEF Serve
<1>23. CASE SendEvent \/ LoseConnection
  BY <1>23 DEF SendEvent, LoseConnection
<1>24. CASE UNCHANGED vars
  BY <1>24 DEF vars
<1> QED
  BY <1>1, <1>2, <1>3, <1>4, <1>5, <1>6, <1>7, <1>8, <1>9, <1>10, <1>11, <1>12, <1>13,
     <1>14, <1>15, <1>16, <1>17, <1>18, <1>19, <1>20, <1>21, <1>22, <1>23, <1>24
  DEF Next, NetStep, UiStep, UserStep

LEMMA ClosedStep ==
  ASSUME ~RaceConnect, TypeOK, StopInv, ClosedInv, [Next]_vars
  PROVE  ClosedInv'
<1> USE DEF ClosedInv, TypeOK
<1>1. CASE Assign \/ SetSocket \/ OpenStreams \/ SetRunning
  BY <1>1 DEF Assign, SetSocket, OpenStreams, SetRunning, Goto, Throw
<1>2. CASE Dial
  <2>1. ui = "idle" /\ wire = "none" /\ seen = "unread"
    BY <1>2 DEF Dial, StopInv
  <2> QED BY <1>2, <2>1 DEF Dial, Goto, Throw
<1>3. CASE WriteSetup \/ WriteGetImage
  BY <1>3 DEF WriteSetup, WriteGetImage, Write, Goto, Throw
<1>4. CASE ReadSetup
  BY <1>4 DEF ReadSetup, ReadFails, Goto, Throw
<1>5. CASE ReadImage
  <2>1. net' \in {"reading", "loop", "caught"}
    BY <1>5 DEF ReadImage, NextPacket, ReadFails, Goto, Throw
  <2> QED BY <1>5, <2>1 DEF ReadImage
<1>6. CASE TellConnected \/ LoopCheck \/ Catch \/ TellError
  BY <1>6 DEF TellConnected, LoopCheck, Catch, Report, TellError, Goto
<1>7. CASE CloseOwn
  BY <1>7 DEF CloseOwn, Close, Goto
<1>8. CASE ClearOwn \/ TellDisconnected
  BY <1>8 DEF ClearOwn, TellDisconnected, Goto
<1>9. CASE OnDestroy
  BY <1>9 DEF OnDestroy, StopInv
<1>10. CASE DisconnectStop
  BY <1>10 DEF DisconnectStop
<1>11. CASE DisconnectClose
  BY <1>11 DEF DisconnectClose, Close, StopInv
<1>12. CASE DisconnectClear
  BY <1>12 DEF DisconnectClear
<1>13. CASE RunCallback \/ HideStatus \/ Inject \/ ToggleMode \/ TerminalFails
  BY <1>13 DEF RunCallback, HideStatus, Inject, ToggleMode, TerminalFails
<1>14. CASE Serve
  <2>1. wire = "open"
    BY <1>14 DEF Serve
  <2> QED BY <1>14, <2>1 DEF Serve
<1>15. CASE SendEvent \/ LoseConnection
  BY <1>15 DEF SendEvent, LoseConnection
<1>16. CASE UNCHANGED vars
  BY <1>16 DEF vars
<1> QED
  BY <1>1, <1>2, <1>3, <1>4, <1>5, <1>6, <1>7, <1>8, <1>9, <1>10, <1>11, <1>12, <1>13,
     <1>14, <1>15, <1>16
  DEF Next, NetStep, UiStep, UserStep

(* An exception our own disconnect() provoked is never reported, provided   *)
(* disconnect() does not race the dialling part of connect().               *)
THEOREM OwnCloseQuiet ==
  ASSUME ~RaceConnect
  PROVE  Spec => []OwnCloseIsQuiet
<1>1. Init => StopInv
  BY DEF Init, StopInv
<1>2. TypeOK /\ StopInv /\ [Next]_vars => StopInv'
  BY StopStep
<1>3. StopInv => OwnCloseIsQuiet
  BY DEF StopInv, OwnCloseIsQuiet
<1>4. QED BY <1>1, <1>2, <1>3, SessionTypes, PTL DEF Spec

(* And no interleaving of the two closeQuietly calls leaks the socket.      *)
THEOREM SocketClosed ==
  ASSUME ~RaceConnect
  PROVE  Spec => []SocketClosedAtEnd
<1>1. Init => StopInv /\ ClosedInv
  BY DEF Init, StopInv, ClosedInv
<1>2. TypeOK /\ StopInv /\ ClosedInv /\ [Next]_vars => StopInv' /\ ClosedInv'
  BY StopStep, ClosedStep
<1>3. TypeOK /\ ClosedInv => SocketClosedAtEnd
  BY DEF TypeOK, ClosedInv, SocketClosedAtEnd
<1>4. QED BY <1>1, <1>2, <1>3, SessionTypes, PTL DEF Spec

-------------------------------------------------------------------------------
(***************************************************************************)
(* The status line.  Callbacks wait in the UI thread's queue while modes   *)
(* are toggled, hides fire and the session ends.                           *)
(***************************************************************************)

(* While no other text was written: the last callback of an ended session   *)
(* is onDisconnected, and once it ran the line says how the session ended.  *)
EndInv ==
  /\ texts <= MaxTexts
  /\ texts = MaxTexts =>
       /\ hides = 0
       /\ hadError => status = "error"
       /\ \A i \in 1 .. Len(queue) :
            /\ queue[i] # "terminal"
            /\ queue[i] = "disconnected" => net = "ended" /\ i = Len(queue)
       /\ net = "ended" /\ ~destroyed =>
            IF queue = <<>> THEN status = IF hadError THEN "error" ELSE "disconnected"
            ELSE queue[Len(queue)] = "disconnected"

LEMMA AppendFacts ==
  ASSUME NEW S, NEW q \in Seq(S), NEW e \in S
  PROVE  /\ Len(q) \in Nat /\ Len(Append(q, e)) = Len(q) + 1
         /\ Append(q, e)[Len(q) + 1] = e /\ \A i \in 1 .. Len(q) : Append(q, e)[i] = q[i]
         /\ \A i \in 1 .. Len(Append(q, e)) : i = Len(q) + 1 \/ i \in 1 .. Len(q)
         /\ Append(q, e) # <<>>
<1>1. /\ Len(q) \in Nat /\ Len(Append(q, e)) = Len(q) + 1
      /\ Append(q, e)[Len(q) + 1] = e /\ \A i \in 1 .. Len(q) : Append(q, e)[i] = q[i]
  BY AppendProperties, LenProperties
<1>2. Append(q, e) # <<>>
  BY <1>1
<1> QED BY <1>1, <1>2

LEMMA TailFacts ==
  ASSUME NEW S, NEW q \in Seq(S), q # <<>>
  PROVE  /\ Len(q) \in Nat /\ Len(q) >= 1 /\ Len(Tail(q)) = Len(q) - 1 /\ Head(q) = q[1]
         /\ \A i \in 1 .. Len(Tail(q)) : Tail(q)[i] = q[i + 1] /\ i + 1 \in 1 .. Len(q)
         /\ Tail(q) = <<>> <=> Len(q) = 1
<1>1. /\ Len(q) \in Nat /\ Len(Tail(q)) = Len(q) - 1 /\ Tail(q) \in Seq(S)
      /\ \A i \in 1 .. Len(Tail(q)) : Tail(q)[i] = q[i + 1]
  BY HeadTailProperties, LenProperties
<1>2. Head(q) = q[1] /\ Len(q) >= 1
  OBVIOUS
<1>3. Tail(q) = <<>> <=> Len(Tail(q)) = 0
  BY <1>1, EmptySeq
<1> QED BY <1>1, <1>2, <1>3

(* An error message is neither overwritten by "disconnected" nor hidden by  *)
(* a delayed hide, however the callbacks, toggles and hides interleave.     *)
THEOREM ErrorStaysAlways == Spec => []ErrorStays
<1>1. Init => ErrorStays
  BY DEF Init, ErrorStays
<1>2. TypeOK /\ ErrorStays /\ [Next]_vars => ErrorStays'
  <2> SUFFICES ASSUME TypeOK, ErrorStays, [Next]_vars PROVE ErrorStays'
    OBVIOUS
  <2>1. CASE RunCallback
    <3>1. Head(queue) \in Callbacks
      BY <2>1, Queues DEF RunCallback, TypeOK
    <3>2. CASE Head(queue) = "connected"
      BY <2>1, <3>2 DEF RunCallback, ErrorStays
    <3>3. CASE Head(queue) = "error"
      BY <2>1, <3>3 DEF RunCallback, ErrorStays
    <3>4. CASE Head(queue) = "disconnected"
      BY <2>1, <3>4 DEF RunCallback, ShowDisconnected, ErrorStays
    <3>5. CASE Head(queue) = "terminal"
      BY <2>1, <3>5 DEF RunCallback, ErrorStays
    <3> QED BY <3>1, <3>2, <3>3, <3>4, <3>5 DEF Callbacks
  <2>2. CASE ToggleMode
    BY <2>2 DEF ToggleMode, ErrorStays
  <2>3. CASE HideStatus
    BY <2>3 DEF HideStatus, HiddenIfFine, ErrorStays
  <2>4. CASE UNCHANGED <<hadError, status>>
    BY <2>4 DEF ErrorStays
  <2>5. CASE NetStep
    <3>1. UNCHANGED statusVars
      BY <2>5
      DEF NetStep, Assign, Dial, SetSocket, OpenStreams, SetRunning, WriteSetup, Write,
          ReadSetup, TellConnected, LoopCheck, WriteGetImage, ReadImage, Catch, TellError,
          CloseOwn, ClearOwn, TellDisconnected
    <3> QED BY <2>4, <3>1
  <2>6. CASE DisconnectStop \/ DisconnectClose \/ DisconnectClear
    BY <2>4, <2>6 DEF DisconnectStop, DisconnectClose, DisconnectClear
  <2>7. CASE Inject \/ OnDestroy \/ TerminalFails
    BY <2>4, <2>7 DEF Inject, OnDestroy, TerminalFails
  <2>8. CASE Serve \/ SendEvent \/ LoseConnection \/ UNCHANGED vars
    BY <2>4, <2>8 DEF Serve, SendEvent, LoseConnection, vars
  <2> QED
    BY <2>1, <2>2, <2>3, <2>5, <2>6, <2>7, <2>8 DEF Next, UiStep, UserStep
<1>3. QED BY <1>1, <1>2, SessionTypes, PTL DEF Spec

LEMMA EndSame ==
  ASSUME EndInv, UNCHANGED <<queue, hadError, status, hides, texts>>,
         destroyed => destroyed', net' = "ended" <=> net = "ended"
  PROVE  EndInv'
  BY DEF EndInv

(* A callback other than onDisconnected is posted before the session ends. *)
LEMMA EndPost ==
  ASSUME TypeOK, EndInv, NEW c \in {"connected", "error"}, Post(c),
         net # "ended", net' # "ended", UNCHANGED <<hadError, status, hides, texts>>
  PROVE  EndInv'
<1>1. queue \in Seq(Callbacks) /\ c \in Callbacks /\ queue' = Append(queue, c)
  BY Names DEF TypeOK, Post
<1>2. \A i \in 1 .. Len(queue') : queue'[i] = c \/ (i \in 1 .. Len(queue) /\ queue'[i] = queue[i])
  BY <1>1, AppendFacts
<1> QED BY <1>2 DEF EndInv

LEMMA EndTellDisconnected ==
  ASSUME TypeOK, EndInv, TellDisconnected PROVE EndInv'
<1>1. queue \in Seq(Callbacks) /\ queue' = Append(queue, "disconnected")
  BY DEF TypeOK, TellDisconnected, Post
<1>2. /\ Len(queue) \in Nat /\ Len(queue') = Len(queue) + 1 /\ queue' # <<>>
      /\ queue'[Len(queue')] = "disconnected"
      /\ \A i \in 1 .. Len(queue') : i = Len(queue') \/ (i \in 1 .. Len(queue) /\ queue'[i] = queue[i])
  BY <1>1, Names, AppendFacts
<1>3. net = "farewell" /\ net' = "ended" /\ UNCHANGED <<hadError, status, hides, texts>>
  BY DEF TellDisconnected
<1> QED BY <1>2, <1>3 DEF EndInv

LEMMA EndRunCallback ==
  ASSUME TypeOK, EndInv, RunCallback PROVE EndInv'
<1>1. queue \in Seq(Callbacks) /\ queue # <<>> /\ queue' = Tail(queue)
  BY DEF TypeOK, RunCallback
<1>2. /\ Len(queue) \in Nat /\ Len(queue) >= 1 /\ Len(queue') = Len(queue) - 1
      /\ \A i \in 1 .. Len(queue') : queue'[i] = queue[i + 1] /\ i + 1 \in 1 .. Len(queue)
      /\ Head(queue) = queue[1] /\ (queue' = <<>> <=> Len(queue) = 1)
  BY <1>1, TailFacts
<1>3. Head(queue) \in Callbacks /\ 1 \in 1 .. Len(queue) /\ Len(queue) \in 1 .. Len(queue)
  BY <1>1, <1>2, Queues
<1>4. UNCHANGED <<net, destroyed, hides, texts>> /\ texts <= MaxTexts
  BY DEF RunCallback, EndInv
<1> SUFFICES ASSUME texts = MaxTexts
             PROVE  /\ hides' = 0
                    /\ hadError' => status' = "error"
                    /\ \A i \in 1 .. Len(queue') :
                         /\ queue'[i] # "terminal"
                         /\ queue'[i] = "disconnected" => net' = "ended" /\ i = Len(queue')
                    /\ net' = "ended" /\ ~destroyed' =>
                         IF queue' = <<>> THEN status' = IF hadError' THEN "error" ELSE "disconnected"
                         ELSE queue'[Len(queue')] = "disconnected"
  BY <1>4 DEF EndInv
<1>5. hides = 0 /\ (hadError => status = "error") /\ Head(queue) # "terminal"
  BY <1>2, <1>3 DEF EndInv
<1>6. Head(queue) \in {"connected", "error", "disconnected"}
  BY <1>3, <1>5 DEF Callbacks
<1>7. hadError' => status' = "error"
  <2>1. CASE Head(queue) = "connected"
    BY <2>1 DEF RunCallback
  <2>2. CASE Head(queue) = "error"
    BY <2>2 DEF RunCallback
  <2>3. CASE Head(queue) = "disconnected"
    BY <1>5, <2>3 DEF RunCallback, ShowDisconnected
  <2> QED BY <1>6, <2>1, <2>2, <2>3
<1>8. ASSUME NEW i \in 1 .. Len(queue')
      PROVE  /\ queue'[i] # "terminal"
             /\ queue'[i] = "disconnected" => net' = "ended" /\ i = Len(queue')
  <2>1. queue'[i] = queue[i + 1] /\ i + 1 \in 1 .. Len(queue)
    BY <1>2
  <2>2. /\ queue[i + 1] # "terminal"
        /\ queue[i + 1] = "disconnected" => net = "ended" /\ i + 1 = Len(queue)
    BY <2>1 DEF EndInv
  <2>3. i + 1 = Len(queue) => i = Len(queue')
    BY <1>2
  <2> QED BY <1>4, <2>1, <2>2, <2>3
<1>9. ASSUME net = "ended", ~destroyed
      PROVE  IF queue' = <<>> THEN status' = IF hadError' THEN "error" ELSE "disconnected"
             ELSE queue'[Len(queue')] = "disconnected"
  <2>1. queue[Len(queue)] = "disconnected"
    BY <1>1, <1>9 DEF EndInv
  <2>2. CASE queue' = <<>>
    <3>1. Head(queue) = "disconnected"
      BY <1>2, <2>1, <2>2
    <3>2. hadError' = hadError /\ status' = IF ~hadError THEN "disconnected" ELSE status
      BY <1>9, <3>1 DEF RunCallback, ShowDisconnected
    <3> QED BY <1>5, <2>2, <3>2
  <2>3. CASE queue' # <<>>
    <3>1. Len(queue') \in 1 .. Len(queue') /\ Len(queue') + 1 = Len(queue)
      BY <1>2, <2>3
    <3>2. queue'[Len(queue')] = queue[Len(queue)]
      BY <1>2, <3>1
    <3> QED BY <2>1, <2>3, <3>2
  <2> QED BY <2>2, <2>3
<1> QED BY <1>4, <1>5, <1>7, <1>8, <1>9

LEMMA EndStep ==
  ASSUME TypeOK, EndInv, [Next]_vars PROVE EndInv'
<1>1. CASE TellConnected
  BY <1>1, EndPost DEF TellConnected
<1>2. CASE TellError
  BY <1>2, EndPost DEF TellError
<1>3. CASE TellDisconnected
  BY <1>3, EndTellDisconnected
<1>4. CASE RunCallback
  BY <1>4, EndRunCallback
<1>5. CASE ToggleMode \/ TerminalFails
  <2>1. texts' = texts - 1
    BY <1>5 DEF ToggleMode, TerminalFails
  <2>2. texts' < MaxTexts
    BY <2>1, BoundsAssumption DEF EndInv, TypeOK
  <2> QED BY <2>2, BoundsAssumption, <2>1 DEF EndInv, TypeOK
<1>6. CASE HideStatus
  <2>1. texts # MaxTexts /\ texts' = texts
    BY <1>6 DEF HideStatus, EndInv
  <2> QED BY <2>1 DEF EndInv
<1>7. CASE Assign \/ Dial \/ SetSocket \/ OpenStreams \/ SetRunning
  BY <1>7, EndSame DEF Assign, Dial, SetSocket, OpenStreams, SetRunning, Goto, Throw
<1>8. CASE WriteSetup \/ WriteGetImage
  BY <1>8, EndSame DEF WriteSetup, WriteGetImage, Write, Goto, Throw
<1>9. CASE ReadSetup
  BY <1>9, EndSame DEF ReadSetup, ReadFails, Goto, Throw
<1>10. CASE ReadImage
  <2>1. net = "reading" /\ net' \in {"reading", "loop", "caught"}
    BY <1>10 DEF ReadImage, NextPacket, ReadFails, Goto, Throw
  <2> QED BY <1>10, <2>1, EndSame DEF ReadImage
<1>11. CASE LoopCheck \/ Catch \/ CloseOwn \/ ClearOwn
  BY <1>11, EndSame DEF LoopCheck, Catch, Report, CloseOwn, ClearOwn, Goto
<1>12. CASE DisconnectStop \/ DisconnectClose \/ DisconnectClear
  BY <1>12, EndSame DEF DisconnectStop, DisconnectClose, DisconnectClear
<1>13. CASE Inject
  BY <1>13, EndSame DEF Inject
<1>14. CASE OnDestroy
  BY <1>14, EndSame DEF OnDestroy
<1>15. CASE Serve \/ SendEvent \/ LoseConnection \/ UNCHANGED vars
  BY <1>15, EndSame DEF Serve, SendEvent, LoseConnection, vars
<1> QED
  BY <1>1, <1>2, <1>3, <1>4, <1>5, <1>6, <1>7, <1>8, <1>9, <1>10, <1>11, <1>12, <1>13, <1>14, <1>15
  DEF Next, NetStep, UiStep, UserStep

(* When an ended session's callbacks ran, an activity that shows no other   *)
(* text shows the error if one was reported, else "disconnected": also when *)
(* disconnect() races connect(), for any number of inputs and events.       *)
THEOREM StatusTells == Spec => []StatusTellsEnd
<1>1. Init => EndInv
  <2>1. Init => texts = MaxTexts /\ hides = 0 /\ queue = <<>> /\ net = "start" /\ ~hadError
    BY DEF Init
  <2>2. queue = <<>> => Len(queue) = 0
    OBVIOUS
  <2> QED BY <2>1, <2>2, BoundsAssumption DEF EndInv
<1>2. TypeOK /\ EndInv /\ [Next]_vars => EndInv'
  BY EndStep
<1>3. EndInv => StatusTellsEnd
  BY DEF EndInv, StatusTellsEnd
<1>4. QED BY <1>1, <1>2, <1>3, SessionTypes, PTL DEF Spec

-------------------------------------------------------------------------------
(***************************************************************************)
(* Requests and answers on the wire.                                       *)
(***************************************************************************)
NonePending(request, answers) ==
  /\ \A i \in 1 .. Len(requests) : requests[i] # request
  /\ \A i \in 1 .. Len(inbox) : inbox[i] \notin answers

OnePending(request, answers) ==
  /\ \A i, j \in 1 .. Len(requests) : requests[i] = request /\ requests[j] = request => i = j
  /\ \A i, j \in 1 .. Len(inbox) : inbox[i] \in answers /\ inbox[j] \in answers => i = j
  /\ \A i \in 1 .. Len(requests), j \in 1 .. Len(inbox) :
       ~(requests[i] = request /\ inbox[j] \in answers)

SetupAnswers == {"setup", "refusal"}
ImageAnswers == {"reply", "imageError"}

TrafficInv ==
  /\ net \in Dialling \union {"greet", "up", "loop", "request", "reading"} =>
       NonePending("setup", SetupAnswers)
  /\ net = "await" => OnePending("setup", SetupAnswers)
  /\ net \in Dialling \union {"greet", "await", "up", "loop", "request"} =>
       NonePending("image", ImageAnswers)
  /\ net = "reading" => OnePending("image", ImageAnswers)
  /\ \A i \in 1 .. Len(inbox) : inbox[i] # "inputError"

(* A packet is read: it may be the answer that was awaited. *)
LEMMA PendingTake ==
  ASSUME TypeOK, Take, UNCHANGED requests, NEW r, NEW A
  PROVE  /\ NonePending(r, A) => NonePending(r, A)'
         /\ OnePending(r, A) => OnePending(r, A)'
         /\ OnePending(r, A) /\ Head(inbox) \in A => NonePending(r, A)'
<1>1. inbox \in Seq(Packets) /\ inbox # <<>> /\ inbox' = Tail(inbox)
  BY DEF TypeOK, Take
<1>2. /\ Len(inbox) \in Nat /\ Len(inbox) >= 1 /\ Len(inbox') = Len(inbox) - 1
      /\ \A i \in 1 .. Len(inbox') : inbox'[i] = inbox[i + 1] /\ i + 1 \in 1 .. Len(inbox)
      /\ Head(inbox) = inbox[1]
  BY <1>1, TailFacts
<1>3. NonePending(r, A) => NonePending(r, A)'
  BY <1>2 DEF NonePending
<1>4. ASSUME OnePending(r, A) PROVE OnePending(r, A)'
  <2>1. ASSUME NEW i \in 1 .. Len(inbox'), NEW j \in 1 .. Len(inbox'), inbox'[i] \in A, inbox'[j] \in A
        PROVE  i = j
    <3>1. i + 1 = j + 1
      BY <1>2, <1>4, <2>1 DEF OnePending
    <3> QED BY <1>2, <3>1
  <2> QED BY <1>2, <1>4, <2>1 DEF OnePending
<1>5. ASSUME OnePending(r, A), Head(inbox) \in A PROVE NonePending(r, A)'
  <2>1. 1 \in 1 .. Len(inbox) /\ inbox[1] \in A
    BY <1>2, <1>5
  <2>2. \A i \in 1 .. Len(requests) : requests[i] # r
    BY <1>5, <2>1 DEF OnePending
  <2>3. ASSUME NEW i \in 1 .. Len(inbox'), inbox'[i] \in A PROVE FALSE
    <3>1. i + 1 = 1
      BY <1>2, <1>5, <2>1, <2>3 DEF OnePending
    <3> QED BY <1>2, <3>1
  <2> QED BY <2>2, <2>3 DEF NonePending
<1> QED BY <1>3, <1>4, <1>5

(* A request is written. *)
LEMMA PendingWrite ==
  ASSUME TypeOK, NEW q \in Requests, requests' = Append(requests, q), UNCHANGED inbox, NEW r, NEW A
  PROVE  /\ q # r /\ NonePending(r, A) => NonePending(r, A)'
         /\ q # r /\ OnePending(r, A) => OnePending(r, A)'
         /\ q = r /\ NonePending(r, A) => OnePending(r, A)'
<1>1. requests \in Seq(Requests)
  BY DEF TypeOK
<1>2. /\ Len(requests) \in Nat /\ Len(requests') = Len(requests) + 1
      /\ requests'[Len(requests) + 1] = q
      /\ \A i \in 1 .. Len(requests) : requests'[i] = requests[i]
      /\ \A i \in 1 .. Len(requests') : i = Len(requests) + 1 \/ i \in 1 .. Len(requests)
  BY <1>1, AppendFacts
<1>3. q # r /\ NonePending(r, A) => NonePending(r, A)'
  BY <1>2 DEF NonePending
<1>4. q # r /\ OnePending(r, A) => OnePending(r, A)'
  BY <1>2 DEF OnePending
<1>5. q = r /\ NonePending(r, A) => OnePending(r, A)'
  BY <1>2 DEF NonePending, OnePending
<1> QED BY <1>3, <1>4, <1>5

(* The server sends p: what is awaited only if it was asked for last. *)
LEMMA PendingServe ==
  ASSUME TypeOK, requests # <<>>, requests' = Tail(requests), NEW r, NEW A, NEW p \in Packets,
         inbox' = inbox \/ inbox' = Append(inbox, p), p \in A => Head(requests) = r
  PROVE  /\ NonePending(r, A) => NonePending(r, A)'
         /\ OnePending(r, A) => OnePending(r, A)'
<1>1. requests \in Seq(Requests) /\ inbox \in Seq(Packets)
  BY DEF TypeOK
<1>2. /\ Len(requests) \in Nat /\ Len(requests) >= 1 /\ Len(requests') = Len(requests) - 1
      /\ \A i \in 1 .. Len(requests') : requests'[i] = requests[i + 1] /\ i + 1 \in 1 .. Len(requests)
      /\ Head(requests) = requests[1] /\ 1 \in 1 .. Len(requests)
  BY <1>1, TailFacts
<1>3. /\ Len(inbox) \in Nat
      /\ \A i \in 1 .. Len(inbox') :
           \/ i \in 1 .. Len(inbox) /\ inbox'[i] = inbox[i]
           \/ i = Len(inbox) + 1 /\ inbox'[i] = p
  BY <1>1, AppendFacts
<1>4. NonePending(r, A) => NonePending(r, A)'
  BY <1>2, <1>3 DEF NonePending
<1>5. ASSUME OnePending(r, A) PROVE OnePending(r, A)'
  <2>1. ASSUME NEW i \in 1 .. Len(requests'), NEW j \in 1 .. Len(requests'),
               requests'[i] = r, requests'[j] = r
        PROVE  i = j
    <3>1. i + 1 = j + 1
      BY <1>2, <1>5, <2>1 DEF OnePending
    <3> QED BY <1>2, <3>1
  <2>2. p \in A => /\ \A i \in 1 .. Len(inbox) : inbox[i] \notin A
                   /\ \A i \in 1 .. Len(requests') : requests'[i] # r
    <3> SUFFICES ASSUME requests[1] = r
                 PROVE  /\ \A i \in 1 .. Len(inbox) : inbox[i] \notin A
                        /\ \A i \in 1 .. Len(requests') : requests'[i] # r
      BY <1>2
    <3>1. \A i \in 1 .. Len(inbox) : inbox[i] \notin A
      BY <1>2, <1>5 DEF OnePending
    <3>2. ASSUME NEW i \in 1 .. Len(requests'), requests'[i] = r PROVE FALSE
      <4>1. i + 1 = 1
        BY <1>2, <1>5, <3>2 DEF OnePending
      <4> QED BY <1>2, <4>1
    <3> QED BY <3>1, <3>2
  <2>3. \A i, j \in 1 .. Len(inbox') : inbox'[i] \in A /\ inbox'[j] \in A => i = j
    BY <1>3, <1>5, <2>2 DEF OnePending
  <2>4. \A i \in 1 .. Len(requests'), j \in 1 .. Len(inbox') : ~(requests'[i] = r /\ inbox'[j] \in A)
    BY <1>2, <1>3, <1>5, <2>2 DEF OnePending
  <2> QED BY <2>1, <2>3, <2>4 DEF OnePending
<1> QED BY <1>4, <1>5

(* An event is sent. *)
LEMMA PendingEvent ==
  ASSUME TypeOK, Send("event"), UNCHANGED requests, NEW r, NEW A, "event" \notin A
  PROVE  /\ NonePending(r, A) => NonePending(r, A)'
         /\ OnePending(r, A) => OnePending(r, A)'
<1>1. inbox \in Seq(Packets) /\ inbox' = Append(inbox, "event")
  BY DEF TypeOK, Send
<1>2. \A i \in 1 .. Len(inbox') : (i \in 1 .. Len(inbox) /\ inbox'[i] = inbox[i]) \/ inbox'[i] = "event"
  BY <1>1, Names, AppendFacts
<1> QED BY <1>2 DEF NonePending, OnePending

LEMMA PendingSame ==
  ASSUME UNCHANGED <<requests, inbox>>, NEW r, NEW A
  PROVE  /\ NonePending(r, A) => NonePending(r, A)' /\ OnePending(r, A)'
         /\ OnePending(r, A) => OnePending(r, A)'
  BY DEF NonePending, OnePending

(* No answer to a wrong input is in the packets, and none arrives. *)
NoInputError == \A i \in 1 .. Len(inbox) : inbox[i] # "inputError"

LEMMA InputErrorSame ==
  ASSUME TypeOK, NoInputError,
         \/ UNCHANGED inbox \/ Take
         \/ \E p \in Packets \ {"inputError"} : inbox' = Append(inbox, p)
  PROVE  NoInputError'
<1>1. inbox \in Seq(Packets)
  BY DEF TypeOK
<1>2. CASE UNCHANGED inbox
  BY <1>2 DEF NoInputError
<1>3. CASE Take
  <2>1. \A i \in 1 .. Len(inbox') : inbox'[i] = inbox[i + 1] /\ i + 1 \in 1 .. Len(inbox)
    BY <1>1, <1>3, TailFacts DEF Take
  <2> QED BY <2>1 DEF NoInputError
<1>4. ASSUME NEW p \in Packets \ {"inputError"}, inbox' = Append(inbox, p) PROVE NoInputError'
  <2>1. \A i \in 1 .. Len(inbox') : (i \in 1 .. Len(inbox) /\ inbox'[i] = inbox[i]) \/ inbox'[i] = p
    BY <1>1, <1>4, AppendFacts
  <2> QED BY <1>4, <2>1 DEF NoInputError
<1> QED BY <1>2, <1>3, <1>4

(* What each phase of the client thread says of the requests under way. *)
Phases ==
  /\ net \in Dialling \union {"greet", "up", "loop", "request", "reading"} =>
       NonePending("setup", SetupAnswers)
  /\ net = "await" => OnePending("setup", SetupAnswers)
  /\ net \in Dialling \union {"greet", "await", "up", "loop", "request"} =>
       NonePending("image", ImageAnswers)
  /\ net = "reading" => OnePending("image", ImageAnswers)

LEMMA TrafficParts == TrafficInv <=> Phases /\ NoInputError
  BY DEF TrafficInv, Phases, NoInputError

LEMMA PhasesServer ==
  ASSUME XtestOk, TypeOK, Phases, NoInputError, Serve \/ SendEvent
  PROVE  Phases' /\ NoInputError'
<1> USE DEF SetupAnswers, ImageAnswers
<1>1. UNCHANGED net
  BY DEF Serve, SendEvent
<1>2. CASE Serve
  <2>1. PICK p \in Packets \ {"inputError"} :
          /\ inbox' = inbox \/ inbox' = Append(inbox, p)
          /\ p \in SetupAnswers => Head(requests) = "setup"
          /\ p \in ImageAnswers => Head(requests) = "image"
    <3>1. CASE ServeSetup
      <4>1. PICK p \in {"setup", "refusal"} : inbox' = Append(inbox, p)
        BY <3>1 DEF ServeSetup, Send
      <4> QED BY <3>1, <4>1, Names DEF ServeSetup
    <3>2. CASE ServeImage
      <4>1. PICK p \in {"reply", "imageError"} : inbox' = Append(inbox, p)
        BY <3>2 DEF ServeImage, Send
      <4> QED BY <3>2, <4>1, Names DEF ServeImage
    <3>3. CASE ServeInput
      <4>1. inbox' = inbox
        BY <3>3 DEF ServeInput
      <4> QED BY <4>1, Names
    <3> QED BY <1>2, <3>1, <3>2, <3>3 DEF Serve
  <2>2. requests # <<>> /\ requests' = Tail(requests)
    BY <1>2 DEF Serve
  <2>3. NoInputError'
    BY <2>1, InputErrorSame
  <2>4. /\ NonePending("setup", SetupAnswers) => NonePending("setup", SetupAnswers)'
        /\ OnePending("setup", SetupAnswers) => OnePending("setup", SetupAnswers)'
    BY <2>1, <2>2, PendingServe
  <2>5. /\ NonePending("image", ImageAnswers) => NonePending("image", ImageAnswers)'
        /\ OnePending("image", ImageAnswers) => OnePending("image", ImageAnswers)'
    BY <2>1, <2>2, PendingServe
  <2> QED BY <1>1, <2>3, <2>4, <2>5 DEF Phases
<1>3. CASE SendEvent
  <2>1. Send("event") /\ UNCHANGED requests
    BY <1>3 DEF SendEvent
  <2>2. NoInputError'
    BY <2>1, Names, InputErrorSame DEF Send
  <2>3. /\ NonePending("setup", SetupAnswers) => NonePending("setup", SetupAnswers)'
        /\ OnePending("setup", SetupAnswers) => OnePending("setup", SetupAnswers)'
        /\ NonePending("image", ImageAnswers) => NonePending("image", ImageAnswers)'
        /\ OnePending("image", ImageAnswers) => OnePending("image", ImageAnswers)'
    BY <2>1, PendingEvent
  <2> QED BY <1>1, <2>2, <2>3 DEF Phases
<1> QED BY <1>2, <1>3

(* A request is written by the client thread or the UI thread, or lost. *)
LEMMA PhasesWrite ==
  ASSUME TypeOK, Phases, NoInputError, WriteSetup \/ WriteGetImage \/ Inject
  PROVE  Phases' /\ NoInputError'
<1>1. UNCHANGED inbox
  BY DEF WriteSetup, WriteGetImage, Write, Inject
<1>2. NoInputError'
  BY <1>1, InputErrorSame
<1>3. CASE UNCHANGED requests
  <2>1. /\ net' = net \/ net' = "caught" \/ (net = "greet" /\ net' = "await")
                      \/ (net = "request" /\ net' = "reading")
    BY DEF WriteSetup, WriteGetImage, Write, Inject, Goto, Throw
  <2>2. \A r, A : /\ NonePending(r, A) => NonePending(r, A)' /\ OnePending(r, A)'
                  /\ OnePending(r, A) => OnePending(r, A)'
    BY <1>1, <1>3, PendingSame
  <2> QED BY <1>2, <2>1, <2>2 DEF Phases
<1>4. ASSUME NEW q \in Requests, requests' = Append(requests, q),
             \/ q = "setup" /\ net = "greet" /\ net' = "await"
             \/ q = "image" /\ net = "request" /\ net' = "reading"
             \/ q = "input" /\ net' = net
      PROVE  Phases'
  <2>1. /\ q # "setup" /\ NonePending("setup", SetupAnswers) => NonePending("setup", SetupAnswers)'
        /\ q # "setup" /\ OnePending("setup", SetupAnswers) => OnePending("setup", SetupAnswers)'
        /\ q = "setup" /\ NonePending("setup", SetupAnswers) => OnePending("setup", SetupAnswers)'
    BY <1>1, <1>4, PendingWrite
  <2>2. /\ q # "image" /\ NonePending("image", ImageAnswers) => NonePending("image", ImageAnswers)'
        /\ q # "image" /\ OnePending("image", ImageAnswers) => OnePending("image", ImageAnswers)'
        /\ q = "image" /\ NonePending("image", ImageAnswers) => OnePending("image", ImageAnswers)'
    BY <1>1, <1>4, PendingWrite
  <2> QED BY <1>4, <2>1, <2>2 DEF Phases
<1>5. \/ UNCHANGED requests
      \/ requests' = Append(requests, "setup") /\ net = "greet" /\ net' = "await"
      \/ requests' = Append(requests, "image") /\ net = "request" /\ net' = "reading"
      \/ requests' = Append(requests, "input") /\ net' = net
  BY DEF WriteSetup, WriteGetImage, Write, Inject, Goto
<1> QED BY <1>2, <1>3, <1>4, <1>5, Names

LEMMA PhasesRead ==
  ASSUME TypeOK, Phases, NoInputError, ReadSetup \/ ReadImage
  PROVE  /\ Phases' /\ NoInputError'
         /\ net = "reading" /\ net' = "loop" =>
              NonePending("image", ImageAnswers)' /\ UNCHANGED requests
<1>1. UNCHANGED requests /\ (UNCHANGED inbox \/ Take)
  BY DEF ReadSetup, ReadImage, NextPacket
<1>2. NoInputError'
  BY <1>1, InputErrorSame
<1>3. net \in {"await", "reading"}
  BY DEF ReadSetup, ReadImage
<1>4. CASE net' = "caught"
  BY <1>2, <1>3, <1>4 DEF Phases
<1>5. CASE ReadSetup /\ net' # "caught"
  <2>1. net = "await" /\ net' = "up" /\ Take /\ Head(inbox) = "setup"
    BY <1>5 DEF ReadSetup, ReadFails, Goto, Throw
  <2>2. OnePending("setup", SetupAnswers) => NonePending("setup", SetupAnswers)'
    BY <1>1, <2>1, PendingTake DEF SetupAnswers
  <2>3. NonePending("image", ImageAnswers) => NonePending("image", ImageAnswers)'
    BY <1>1, <2>1, PendingTake
  <2> QED BY <1>2, <2>1, <2>2, <2>3 DEF Phases
<1>6. CASE ReadImage /\ net' # "caught"
  <2>1. net = "reading" /\ NextPacket
    BY <1>6 DEF ReadImage, ReadFails, Throw
  <2>2. inbox \in Seq(Packets) /\ Take
    BY <2>1 DEF TypeOK, NextPacket
  <2>3. Head(inbox) \in Packets /\ Head(inbox) = inbox[1] /\ 1 \in 1 .. Len(inbox)
    BY <2>2, Queues, TailFacts DEF Take
  <2>4. Head(inbox) \notin SetupAnswers /\ Head(inbox) # "inputError"
    BY <2>1, <2>3 DEF Phases, NonePending, NoInputError
  <2>5. Head(inbox) = "event" \/ Head(inbox) \in ImageAnswers
    BY <2>3, <2>4 DEF Packets, SetupAnswers, ImageAnswers
  <2>6. /\ NonePending("setup", SetupAnswers) => NonePending("setup", SetupAnswers)'
        /\ OnePending("image", ImageAnswers) => OnePending("image", ImageAnswers)'
        /\ OnePending("image", ImageAnswers) /\ Head(inbox) \in ImageAnswers =>
             NonePending("image", ImageAnswers)'
    BY <1>1, <2>2, PendingTake
  <2>7. CASE Head(inbox) = "event"
    <3>1. net' = "reading"
      BY <2>1, <2>7 DEF NextPacket
    <3> QED BY <1>2, <2>1, <2>6, <3>1 DEF Phases
  <2>8. CASE Head(inbox) \in ImageAnswers
    <3>1. net' = "loop"
      BY <1>6, <2>1, <2>8 DEF NextPacket, ImageAnswers, Goto, Throw
    <3> QED BY <1>1, <1>2, <2>1, <2>6, <2>8, <3>1 DEF Phases
  <2> QED BY <2>5, <2>7, <2>8
<1> QED BY <1>4, <1>5, <1>6

LEMMA TrafficStep ==
  ASSUME XtestOk, TypeOK, TrafficInv, [Next]_vars
  PROVE  /\ TrafficInv'
         /\ net = "reading" /\ net' = "loop" =>
              NonePending("image", ImageAnswers)' /\ UNCHANGED requests
<1>1. Phases /\ NoInputError
  BY TrafficParts
<1>2. CASE Serve \/ SendEvent
  <2>1. UNCHANGED net
    BY <1>2 DEF Serve, SendEvent
  <2> QED BY <1>1, <1>2, <2>1, PhasesServer DEF Phases, NoInputError, TrafficInv
<1>3. CASE WriteSetup \/ WriteGetImage \/ Inject
  <2>1. ~(net = "reading" /\ net' = "loop")
    BY <1>3 DEF WriteSetup, WriteGetImage, Inject
  <2> QED BY <1>1, <1>3, <2>1, PhasesWrite DEF Phases, NoInputError, TrafficInv
<1>4. CASE ReadSetup \/ ReadImage
  BY <1>1, <1>4, PhasesRead DEF Phases, NoInputError, TrafficInv
<1>5. ASSUME UNCHANGED <<requests, inbox>>,
             \/ net' = net
             \/ net \in Dialling /\ net' \in Dialling \union {"greet"}
             \/ net = "up" /\ net' = "loop"
             \/ net = "loop" /\ net' = "request"
             \/ net' \in Ending
      PROVE  TrafficInv' /\ ~(net = "reading" /\ net' = "loop")
  <2>1. \A r, A : /\ NonePending(r, A) => NonePending(r, A)'
                  /\ OnePending(r, A) => OnePending(r, A)'
    BY <1>5, PendingSame
  <2>2. Phases'
    BY <1>1, <1>5, <2>1 DEF Phases
  <2>3. NoInputError'
    BY <1>1, <1>5, InputErrorSame
  <2> QED BY <1>5, <2>2, <2>3 DEF Phases, NoInputError, TrafficInv
<1>6. CASE Assign \/ Dial \/ SetSocket \/ OpenStreams \/ SetRunning
  BY <1>5, <1>6 DEF Assign, Dial, SetSocket, OpenStreams, SetRunning, Goto, Throw
<1>7. CASE TellConnected \/ LoopCheck \/ Catch \/ TellError
  <2>1. UNCHANGED <<requests, inbox>>
    BY <1>7 DEF TellConnected, LoopCheck, Catch, TellError
  <2>2. \/ net = "up" /\ net' = "loop"
        \/ net = "loop" /\ net' = "request"
        \/ net' \in {"report", "finally"}
    BY <1>7 DEF TellConnected, LoopCheck, Catch, Report, TellError, Goto
  <2> QED BY <1>5, <2>1, <2>2
<1>8. CASE CloseOwn \/ ClearOwn \/ TellDisconnected
  BY <1>5, <1>8 DEF CloseOwn, ClearOwn, TellDisconnected, Goto
<1>9. CASE DisconnectStop \/ DisconnectClose \/ DisconnectClear \/ RunCallback \/ HideStatus
  BY <1>5, <1>9 DEF DisconnectStop, DisconnectClose, DisconnectClear, RunCallback, HideStatus
<1>10. CASE OnDestroy \/ ToggleMode \/ TerminalFails \/ LoseConnection \/ UNCHANGED vars
  BY <1>5, <1>10 DEF OnDestroy, ToggleMode, TerminalFails, LoseConnection, vars
<1> QED
  BY <1>2, <1>3, <1>4, <1>6, <1>7, <1>8, <1>9, <1>10 DEF Next, NetStep, UiStep, UserStep

(* If the server knows XTEST, the packet that ends getImage answers the     *)
(* GetImage just sent, for any number of inputs and events that share the   *)
(* wire with it and however the session is stopped.                         *)
THEOREM FrameAnswers ==
  ASSUME XtestOk
  PROVE  Spec => FrameAnswersRequest
<1>1. Init => TrafficInv
  <2>1. Init => requests = <<>> /\ inbox = <<>> /\ net = "start"
    BY DEF Init
  <2>2. /\ requests = <<>> => Len(requests) = 0
        /\ inbox = <<>> => Len(inbox) = 0
    OBVIOUS
  <2> QED BY <2>1, <2>2 DEF TrafficInv, NonePending
<1>2. TypeOK /\ TrafficInv /\ [Next]_vars => TrafficInv'
  BY TrafficStep
<1>3. ASSUME TypeOK, TypeOK', TrafficInv, [Next]_vars
      PROVE  [net = "reading" /\ net' = "loop" =>
                /\ \A i \in DOMAIN requests : requests[i] # "image"
                /\ \A i \in DOMAIN inbox' : inbox'[i] \notin {"reply", "imageError"}]_vars
  <2>1. DOMAIN requests = 1 .. Len(requests) /\ DOMAIN inbox' = 1 .. Len(inbox')
    BY <1>3 DEF TypeOK
  <2>2. net = "reading" /\ net' = "loop" =>
          NonePending("image", ImageAnswers)' /\ UNCHANGED requests
    BY <1>3, TrafficStep
  <2> QED BY <2>1, <2>2 DEF NonePending, ImageAnswers
<1>4. QED BY <1>1, <1>2, <1>3, SessionTypes, PTL DEF Spec, FrameAnswersRequest
===============================================================================
