---------------------------- MODULE LorieClipboard ----------------------------
(***************************************************************************)
(* The CLIPBOARD selection shared between X clients and Android            *)
(* (lorie/clipboard.c), with the two event queues between the server and   *)
(* the activity and the loss of their connection.  When Android announces  *)
(* a text the server takes the selection, asks for the text only when a    *)
(* client wants it, caches it, and answers everybody who waited.  When a   *)
(* client takes the selection the server asks it for its targets, then for *)
(* its text, and passes that on.  A text is the number of the copy that    *)
(* made it; how it is encoded does not matter to the protocol.             *)
(***************************************************************************)
EXTENDS Integers, Sequences

CONSTANTS
  Clients,   \* X clients
  Offers,    \* Offers[x]: the text targets client x offers
  Malformed, \* texts that are not UTF-8
  Empty,     \* texts that reach the activity without a character
  MaxCopies, \* bound: texts copied, by Android's user or in an X client
  MaxConns,  \* bound: connections of the activity
  MaxWaits,  \* bound: requests that wait at once
  Overtake,  \* may work items overtake each other (see WorkQueue)?
  Server,    \* serverClient
  Nobody     \* a selection without owner

ASSUME ClipboardAssumption ==
  /\ Server \notin Clients /\ Nobody \notin Clients /\ Server # Nobody
  /\ Offers \in [Clients -> SUBSET {"UTF8", "STRING"}]
  /\ Malformed \subseteq Nat /\ Empty \subseteq Nat /\ Overtake \in BOOLEAN
  /\ MaxCopies \in Nat /\ MaxConns \in Nat /\ MaxWaits \in Nat

VARIABLES
  enabled,   \* clipboardEnabled
  cache,     \* cachedData: which clipboard of Android's it is, 0 for NULL
  waiting,   \* the list at lorieDataTargetHead
  owner,     \* of the selection CLIPBOARD
  targets, property, \* the properties on the root window, one per target
  up, conn,  \* is the activity connected, and which connection is it?
  wire,      \* from the activity, not yet read
  work,      \* in the work queue
  back,      \* to the activity, not yet read
  skewed,    \* the activity has already read a part of the first message in back
  clip,      \* the text on Android's clipboard
  stamp,     \* counts the changes of clip
  copies,    \* counts the texts copied anywhere
  text,      \* what each client has put on the clipboard
  inbox,     \* SelectionRequests that each client has not answered
  wrote,     \* the client has written the property and not yet sent the event
  gone,      \* clients that have disconnected
  announced, \* history: the stamp of the last announcement handled
  got,       \* history: each client's last answer
  torn,      \* history: a message was torn, and somebody has waited since
  crashed    \* the server has used a client it had freed

selection == <<enabled, cache, waiting, owner, targets, property>>
stream    == <<skewed, torn>>
link      == <<up, conn, wire, work, back, stream>>
android   == <<clip, stamp>>
xclients  == <<text, inbox, wrote, gone>>
history   == <<announced, got>>
vars == <<selection, link, android, copies, xclients, history, crashed>>

Init ==
  /\ enabled = FALSE /\ cache = 0 /\ waiting = <<>> /\ owner = Nobody
  /\ targets = {} /\ property = [t \in {"UTF8", "STRING"} |-> 0]
  /\ up = FALSE /\ conn = 0 /\ wire = <<>> /\ work = <<>> /\ back = <<>>
  /\ clip = 0 /\ stamp = 1 /\ copies = 0
  /\ text = [x \in Clients |-> 0] /\ inbox = [x \in Clients |-> <<>>]
  /\ wrote = [x \in Clients |-> FALSE] /\ gone = {}
  /\ announced = 0 /\ got = [x \in Clients |-> [data |-> 0, since |-> 0]]
  /\ crashed = FALSE /\ skewed = FALSE /\ torn = FALSE

Msg(type, n) == [type |-> type, n |-> n]

(* What was torn no longer matters when the reader is in step and the list  *)
(* is empty.                                                                *)
ForgetTorn == torn' = (skewed' \/ (torn /\ waiting' # <<>>))

--------------------------------------------------------------------------------
(***************************************************************************)
(* The activity, and the input thread that reads from it.  Java decides    *)
(* when to announce and answers a request with what is on the clipboard;   *)
(* it does not announce a text that came from the server.                  *)
(***************************************************************************)
AndroidCopy ==
  /\ copies < MaxCopies /\ copies' = copies + 1
  /\ clip' = copies' /\ stamp' = stamp + 1
  /\ wire' = IF up THEN Append(wire, Msg("announce", stamp')) ELSE wire
  /\ UNCHANGED <<selection, up, conn, work, back, stream, xclients, history, crashed>>

EnableSync(on) ==
  /\ up /\ wire = <<>> /\ enabled # on
  /\ wire' = Append(wire, Msg("enable", IF on THEN 1 ELSE 0))
  /\ UNCHANGED <<selection, up, conn, work, back, stream, android, copies, xclients, history,
                 crashed>>

RequestClipboard ==
  wire' = Append(wire, Msg("data", stamp)) /\ UNCHANGED android

SetClipboardText(n) ==
  clip' = n /\ stamp' = stamp + 1 /\ UNCHANGED wire

(* xcallback takes an event and then, for a text of count bytes, up to      *)
(* count + 1: the first byte of what is behind the text goes with it, and   *)
(* from then on each event is read from its second byte on.                 *)
ReadMessage(msg, behind) ==
  \/ msg.type = "request" /\ RequestClipboard /\ UNCHANGED skewed
  \/ msg.type = "text" /\ msg.n \in Empty /\ UNCHANGED <<wire, android, skewed>>
  \/ msg.type = "text" /\ msg.n \notin Empty /\ SetClipboardText(msg.n) /\ skewed' = behind

(* A torn event has no known type and is ignored.  The characters of a torn *)
(* text are taken for events, which may be anything; after them the reader  *)
(* may by chance be at the start of a message.  It certainly is once the    *)
(* socket is empty, for what is too short for an event is dropped.          *)
ReadTorn(msg, behind) ==
  LET characters == msg.type = "text" /\ msg.n \notin Empty
  IN  /\ skewed' = behind \/ (characters /\ skewed' = FALSE)
      /\ \/ UNCHANGED <<wire, android>>
         \/ characters /\ (RequestClipboard \/ SetClipboardText(0))

ActivityReads ==
  /\ back # <<>> /\ back' = Tail(back)
  /\ LET behind == Tail(back) # <<>>
     IN  IF skewed THEN ReadTorn(Head(back), behind) ELSE ReadMessage(Head(back), behind)
  /\ UNCHANGED <<selection, up, conn, work, copies, xclients, history, crashed>>
  /\ ForgetTorn

InputThreadQueuesAll ==
  /\ wire # <<>> /\ wire' = Tail(wire)
  /\ work' = Append(work, Head(wire)) /\ UNCHANGED enabled
  /\ UNCHANGED <<cache, waiting, owner, targets, property, up, conn, back, stream, android, copies,
                 xclients, history, crashed>>

(* handleLorieEvents *)
InputThread ==
  /\ wire # <<>> /\ wire' = Tail(wire)
  /\ \/ /\ Head(wire).type = "enable" /\ enabled' = (Head(wire).n = 1) /\ UNCHANGED work
     \/ /\ Head(wire).type \in {"announce", "data"}
        /\ work' = Append(work, Head(wire)) /\ UNCHANGED enabled
  /\ UNCHANGED <<cache, waiting, owner, targets, property, up, conn, back, stream, android, copies,
                 xclients, history, crashed>>

Connect ==
  /\ ~up /\ conn < MaxConns /\ up' = TRUE /\ conn' = conn + 1
  /\ UNCHANGED <<selection, wire, work, back, stream, android, copies, xclients, history, crashed>>

Disconnect ==
  /\ up /\ up' = FALSE /\ wire' = <<>> /\ back' = <<>>
  /\ enabled' = FALSE /\ skewed' = FALSE /\ torn' = FALSE
  /\ UNCHANGED <<cache, waiting, owner, targets, property, conn, work, android, copies, xclients,
                 history, crashed>>

--------------------------------------------------------------------------------
(***************************************************************************)
(* Sending: work items, and a client's ConvertSelection while the server   *)
(* owns the selection.                                                     *)
(***************************************************************************)

HandleAnnounceKeepsCache(item) ==
  /\ item.type = "announce"
  /\ owner' = Server /\ announced' = item.n
  /\ UNCHANGED <<cache, waiting, got, crashed>>

(* The cache is stale now; the former owner is sent a SelectionClear.      *)
HandleAnnounce(item) ==
  /\ item.type = "announce"
  /\ cache' = 0 /\ owner' = Server /\ announced' = item.n
  /\ UNCHANGED <<waiting, got, crashed>>

HandleDataForOne(item) ==
  /\ item.type = "data" /\ cache' = item.n
  /\ waiting' = IF waiting = <<>> THEN <<>> ELSE Tail(waiting)
  /\ UNCHANGED <<got, crashed, owner, announced>>

(* Everybody in the list is answered.  An entry of a client that has gone   *)
(* holds a pointer to freed memory.                                         *)
HandleData(item) ==
  LET Entries(x) == {i \in DOMAIN waiting : waiting[i].client = x}
  IN  /\ item.type = "data"
      /\ cache' = item.n /\ waiting' = <<>>
      /\ got' = [x \in Clients |->
                   IF Entries(x) = {} THEN got[x]
                   ELSE [data |-> item.n, since |-> waiting[CHOOSE i \in Entries(x) :
                                                    \A j \in Entries(x) : i <= j].since]]
      /\ crashed' \in {FALSE} \union {\E x \in gone : Entries(x) # {}}
      /\ UNCHANGED <<owner, announced>>

RunWork ==
  /\ work # <<>>
  /\ \E i \in IF Overtake THEN DOMAIN work ELSE {1} :
       /\ work' = SubSeq(work, 1, i - 1) \o SubSeq(work, i + 1, Len(work))
       /\ HandleAnnounce(work[i]) \/ HandleData(work[i])
  /\ UNCHANGED <<enabled, targets, property, up, conn, wire, back, skewed, android, copies,
                 xclients>>
  /\ ForgetTorn

ConvertSelectionAsksOnce(x) ==
  /\ x \notin gone /\ owner = Server /\ cache = 0 /\ Len(waiting) < MaxWaits
  /\ waiting' = <<[client |-> x, via |-> IF up THEN conn ELSE 0, since |-> announced]>> \o waiting
  /\ back' = IF up /\ waiting = <<>> THEN Append(back, Msg("request", 0)) ELSE back
  /\ UNCHANGED <<got, enabled, cache, owner, targets, property, up, conn, wire, work, android,
                 stream, copies, xclients, announced, crashed>>

(* lorieConvertSelection: TARGETS and TIMESTAMP are answered at once, other *)
(* targets refused; neither changes anything here.  A text comes from the   *)
(* cache, or the request joins the list and the activity is asked, if there *)
(* is one.                                                                  *)
ConvertSelection(x) ==
  /\ x \notin gone /\ owner = Server
  /\ IF cache # 0
       THEN /\ got' = [got EXCEPT ![x] = [data |-> cache, since |-> announced]]
            /\ UNCHANGED <<waiting, back>>
       ELSE /\ Len(waiting) < MaxWaits
            /\ waiting' = <<[client |-> x, via |-> IF up THEN conn ELSE 0,
                             since |-> announced]>> \o waiting
            /\ back' = IF up THEN Append(back, Msg("request", 0)) ELSE back
            /\ UNCHANGED got
  /\ UNCHANGED <<enabled, cache, owner, targets, property, up, conn, wire, work, stream, android,
                 copies, xclients, announced, crashed>>

--------------------------------------------------------------------------------
(***************************************************************************)
(* Receiving: an X client takes the selection, is asked for its targets    *)
(* and then for its text.  Its answer is two requests, the property and    *)
(* the event; it answers with what it has when it answers.                 *)
(***************************************************************************)

(* lorieSelectionRequest asks whoever owns the selection now. *)
SelectionRequest(asked, who, target) ==
  IF enabled /\ who \in Clients THEN [asked EXCEPT ![who] = Append(@, target)] ELSE asked

(* ProcSetSelectionOwner, and lorieSelectionCallback. *)
SetSelectionOwner(x) ==
  /\ x \notin gone /\ copies < MaxCopies /\ copies' = copies + 1
  /\ text' = [text EXCEPT ![x] = copies'] /\ owner' = x
  /\ inbox' = SelectionRequest(inbox, x, "TARGETS")
  /\ UNCHANGED <<enabled, cache, waiting, targets, property, link, android, wrote, gone, history, crashed>>

(* The same with the window None: the selection has no owner. *)
ClearSelection(x) ==
  /\ x \notin gone /\ owner # Nobody /\ owner' = Nobody
  /\ UNCHANGED <<enabled, cache, waiting, targets, property, link, android, copies, xclients,
                 history, crashed>>

ChangeProperty(x) ==
  /\ inbox[x] # <<>> /\ ~wrote[x]
  /\ wrote' = [wrote EXCEPT ![x] = TRUE]
  /\ \/ /\ Head(inbox[x]) = "TARGETS"
        /\ targets' = Offers[x] /\ UNCHANGED property
     \/ /\ Head(inbox[x]) # "TARGETS"
        /\ property' = [property EXCEPT ![Head(inbox[x])] = text[x]] /\ UNCHANGED targets
  /\ UNCHANGED <<enabled, cache, waiting, owner, link, android, copies, text, inbox, gone,
                 history, crashed>>

HandleTargetsUtf8Only(rest) ==
  /\ inbox' = IF "UTF8" \in targets THEN SelectionRequest(rest, owner, "UTF8") ELSE rest
  /\ UNCHANGED back

(* lorieHandleSelection reads the property, whoever wrote it last. *)
HandleTargets(rest) ==
  /\ inbox' = IF "UTF8" \in targets THEN SelectionRequest(rest, owner, "UTF8")
              ELSE IF "STRING" \in targets THEN SelectionRequest(rest, owner, "STRING")
              ELSE rest
  /\ UNCHANGED back

HandleText(target, rest) ==
  /\ inbox' = rest
  /\ back' = IF up /\ (target = "UTF8" => property[target] \notin Malformed)
               THEN Append(back, Msg("text", property[target])) ELSE back

(* lorieProcSendEvent *)
SendEvent(x) ==
  LET target == Head(inbox[x])
      rest   == [inbox EXCEPT ![x] = Tail(@)]
  IN  /\ wrote[x] /\ wrote' = [wrote EXCEPT ![x] = FALSE]
      /\ IF ~enabled THEN inbox' = rest /\ UNCHANGED back
         ELSE IF target = "TARGETS" THEN HandleTargets(rest)
         ELSE HandleText(target, rest)
      /\ UNCHANGED <<selection, up, conn, wire, work, stream, android, copies, text, gone, history,
                     crashed>>

(* A client that leaves gives up the selection, but not its place in the    *)
(* list of those who wait.                                                  *)
ClientLeaves(x) ==
  /\ x \notin gone /\ gone' = gone \union {x}
  /\ owner' = IF owner = x THEN Nobody ELSE owner
  /\ inbox' = [inbox EXCEPT ![x] = <<>>] /\ wrote' = [wrote EXCEPT ![x] = FALSE]
  /\ UNCHANGED <<enabled, cache, waiting, targets, property, link, android, copies, text, history, crashed>>

ActivityStep == AndroidCopy \/ (\E on \in BOOLEAN : EnableSync(on)) \/ Connect \/ Disconnect
ClientStep(x) ==
  ConvertSelection(x) \/ SetSelectionOwner(x) \/ ClearSelection(x) \/ ClientLeaves(x)
Reply(x) == ChangeProperty(x) \/ SendEvent(x)

Next ==
  /\ ~crashed
  /\ \/ ActivityStep \/ ActivityReads \/ InputThread \/ RunWork
     \/ \E x \in Clients : ClientStep(x) \/ Reply(x)

(* The threads of both processes are scheduled and clients answer what they *)
(* are asked; nobody has to copy, paste, connect or leave.                  *)
Fairness ==
  /\ WF_vars(~crashed /\ ActivityReads) /\ WF_vars(~crashed /\ InputThread)
  /\ WF_vars(~crashed /\ RunWork)
  /\ \A x \in Clients : WF_vars(~crashed /\ Reply(x))

Spec == Init /\ [][Next]_vars /\ Fairness

--------------------------------------------------------------------------------
Requests == [client : Clients, via : 0 .. MaxConns, since : Nat]
Events   == [type : {"enable", "announce", "data"}, n : Nat]
Items    == [type : {"announce", "data"}, n : Nat]
Answers  == [type : {"request", "text"}, n : Nat]
Pastes   == [data : Nat, since : Nat]
Asked    == {"TARGETS", "UTF8", "STRING"}

(* Texts and stamps are numbers, queues hold messages, entries are whole. *)
TypeOK ==
  /\ enabled \in BOOLEAN /\ up \in BOOLEAN /\ crashed \in BOOLEAN
  /\ skewed \in BOOLEAN /\ torn \in BOOLEAN
  /\ cache \in Nat /\ clip \in Nat /\ stamp \in Nat /\ copies \in Nat /\ announced \in Nat
  /\ conn \in 0 .. MaxConns
  /\ waiting \in Seq(Requests) /\ Len(waiting) <= MaxWaits
  /\ targets \subseteq {"UTF8", "STRING"} /\ property \in [{"UTF8", "STRING"} -> Nat]
  /\ owner \in Clients \union {Server, Nobody} /\ gone \subseteq Clients
  /\ wire \in Seq(Events) /\ work \in Seq(Items) /\ back \in Seq(Answers)
  /\ text \in [Clients -> Nat] /\ wrote \in [Clients -> BOOLEAN]
  /\ inbox \in [Clients -> Seq(Asked)]
  /\ got \in [Clients -> Pastes]

(* What a client pastes was on Android's clipboard when the announcement    *)
(* it had seen was made, or later: the cache never serves a clipboard that  *)
(* an announcement had already replaced.                                    *)
PasteIsFresh == ~Overtake => \A x \in Clients : got[x].data # 0 => got[x].data >= got[x].since

(* Nobody is left in the list once the data is there: a request either      *)
(* joined the list before the data came, and was answered with it, or found *)
(* it in the cache.                                                         *)
NobodyMissed == cache # 0 => waiting = <<>>

Waits(x) == up /\ \E i \in DOMAIN waiting : waiting[i].client = x /\ waiting[i].via = conn

(* A request for which the activity was asked is answered while that        *)
(* connection lasts and no message is torn while it waits.                  *)
PasteIsAnswered == \A x \in Clients : Waits(x) ~> ~Waits(x) \/ crashed \/ torn

(* The text of a client that owns the selection and has yet to name its     *)
(* targets reaches Android's clipboard while the connection and the sync    *)
(* are on and no message is torn, if no former owner still has a request to *)
(* answer; an empty text does not.                                          *)
CopyArrives ==
  \A x \in Clients :
    /\ owner = x /\ up /\ enabled /\ Offers[x] # {}
    /\ \E i \in DOMAIN inbox[x] : inbox[x][i] = "TARGETS"
    /\ \A y \in Clients \ {x} : inbox[y] = <<>>
    ~> \/ clip = text[x] \/ owner # x \/ ~up \/ ~enabled \/ crashed \/ torn
       \/ text[x] \in Malformed \union Empty
================================================================================
