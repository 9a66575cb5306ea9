------------------------- MODULE LorieClipboardProofs -------------------------
(***************************************************************************)
(* Type correctness of the clipboard, that nobody is left waiting for data *)
(* that has come, and that a paste is never older than the announcement it *)
(* follows, for any clients, offers and bounds.                            *)
(***************************************************************************)
EXTENDS LorieClipboard, SequenceTheorems, WellFoundedInduction, TLAPS

USE ClipboardAssumption

--------------------------------------------------------------------------------
(* A set of numbers that is not empty has a least element. *)
LEMMA LeastElement ==
  ASSUME NEW S \in SUBSET Nat, S # {}
  PROVE  \E i \in S : \A j \in S : i <= j
<1>1. \A x, y \in Nat : <<y, x>> \in OpToRel(<, Nat) <=> y < x
  BY DEF OpToRel
<1>2. \E R : IsWellFoundedOn(R, Nat) /\ \A x, y \in Nat : <<y, x>> \in R <=> y < x
  BY <1>1, NatLessThanWellFounded, Zenon
<1>3. PICK R : IsWellFoundedOn(R, Nat) /\ \A x, y \in Nat : <<y, x>> \in R <=> y < x
  BY <1>2, Zenon
<1>4. PICK x \in S : \A y \in S : ~(<<y, x>> \in R)
  BY <1>3, WFMin
<1>5. \A y \in S : ~(y < x)
  BY <1>3, <1>4, Zenon
<1> QED
  BY <1>5

LEMMA RemoveType ==
  ASSUME NEW S, NEW s \in Seq(S), NEW i \in DOMAIN s
  PROVE  SubSeq(s, 1, i - 1) \o SubSeq(s, i + 1, Len(s)) \in Seq(S)
OBVIOUS

LEMMA RemoveFirst ==
  ASSUME NEW S, NEW s \in Seq(S), s # <<>>
  PROVE  SubSeq(s, 1, 1 - 1) \o SubSeq(s, 1 + 1, Len(s)) = Tail(s)
<1>1. SubSeq(s, 1, 1 - 1) = <<>>
  BY SubSeqEmpty
<1>2. Tail(s) = SubSeq(s, 2, Len(s))
  BY TailIsSubSeq
<1>3. Tail(s) \in Seq(S)
  BY HeadTailProperties
<1> QED
  BY <1>1, <1>2, <1>3, ConcatEmptySeq

(* A request that joins at the head of a sequence. *)
LEMMA PrependProperties ==
  ASSUME NEW S, NEW s \in Seq(S), NEW e \in S
  PROVE  /\ <<e>> \o s \in Seq(S) /\ Len(<<e>> \o s) = Len(s) + 1
         /\ (<<e>> \o s)[1] = e
         /\ \A i \in 2 .. Len(s) + 1 : (<<e>> \o s)[i] = s[i - 1]
OBVIOUS

(* The entry of a client that HandleData answers is one of its entries. *)
LEMMA FirstEntry ==
  ASSUME NEW S, NEW s \in Seq(S), NEW E \in SUBSET DOMAIN s, E # {}
  PROVE  (CHOOSE i \in E : \A j \in E : i <= j) \in E
<1>1. E \in SUBSET Nat
  OBVIOUS
<1>2. \E i \in E : \A j \in E : i <= j
  BY <1>1, LeastElement
<1> QED
  BY <1>2

--------------------------------------------------------------------------------
(* A client that has written its property still holds the request that the  *)
(* event will answer.                                                       *)
Answering == \A x \in Clients : wrote[x] => inbox[x] # <<>>

Typed == TypeOK /\ Answering

LEMMA Records ==
  /\ \A n \in Nat : /\ Msg("enable", n) \in Events /\ Msg("announce", n) \in Events
                    /\ Msg("data", n) \in Events
                    /\ Msg("request", n) \in Answers /\ Msg("text", n) \in Answers
  /\ \A m \in Events : m.n \in Nat /\ (m.type \in {"announce", "data"} => m \in Items)
  /\ \A m \in Items : m.n \in Nat
  /\ \A m \in Answers : m.n \in Nat
  /\ \A m, n \in Nat : [data |-> m, since |-> n] \in Pastes
  /\ \A r \in Requests : r.since \in Nat /\ r.client \in Clients
  /\ \A x \in Clients, v \in 0 .. MaxConns, n \in Nat :
       [client |-> x, via |-> v, since |-> n] \in Requests
  /\ {"TARGETS", "UTF8", "STRING"} \subseteq Asked
  /\ \A t \in Asked : t # "TARGETS" => t \in {"UTF8", "STRING"}
BY DEF Asked, Msg, Events, Items, Answers, Pastes, Requests

LEMMA TypedInit == Init => Typed
<1> SUFFICES ASSUME Init PROVE Typed
  OBVIOUS
<1>1. [x \in Clients |-> [data |-> 0, since |-> 0]] \in [Clients -> Pastes]
  BY Records
<1>2. /\ waiting \in Seq(Requests) /\ Len(waiting) <= MaxWaits
      /\ wire \in Seq(Events) /\ work \in Seq(Items) /\ back \in Seq(Answers)
  BY DEF Init
<1>3. /\ property \in [{"UTF8", "STRING"} -> Nat] /\ text \in [Clients -> Nat]
      /\ wrote \in [Clients -> BOOLEAN]
      /\ inbox \in [Clients -> Seq(Asked)]
  BY DEF Init
<1>4. got \in [Clients -> Pastes]
  BY <1>1 DEF Init
<1>5. /\ enabled \in BOOLEAN /\ up \in BOOLEAN /\ crashed \in BOOLEAN
      /\ skewed \in BOOLEAN /\ torn \in BOOLEAN
      /\ cache \in Nat /\ clip \in Nat /\ stamp \in Nat /\ copies \in Nat /\ announced \in Nat
      /\ conn \in 0 .. MaxConns
      /\ targets \subseteq {"UTF8", "STRING"}
      /\ owner \in Clients \union {Server, Nobody} /\ gone \subseteq Clients
  <2>1. /\ enabled \in BOOLEAN /\ up \in BOOLEAN /\ crashed \in BOOLEAN
        /\ skewed \in BOOLEAN /\ torn \in BOOLEAN
    BY Zenon DEF Init
  <2> QED
    BY <2>1 DEF Init
<1>6. TypeOK
  BY <1>2, <1>3, <1>4, <1>5 DEF TypeOK
<1>7. Answering
  BY DEF Init, Answering
<1> QED
  BY <1>6, <1>7 DEF Typed

LEMMA AndroidCopyTyped ==
  ASSUME Typed, AndroidCopy PROVE Typed'
<1> USE DEF AndroidCopy, Typed, TypeOK, Answering
<1>1. wire' \in Seq(Events)
  BY Records
<1> QED
  BY <1>1 DEF selection, stream, xclients, history

LEMMA EnableSyncTyped ==
  ASSUME Typed, NEW on \in BOOLEAN, EnableSync(on) PROVE Typed'
<1> USE DEF EnableSync, Typed, TypeOK, Answering
<1>1. wire' \in Seq(Events)
  BY Records
<1> QED
  BY <1>1 DEF selection, stream, xclients, history, android

(* Whatever the activity makes of a message, it answers a request, takes a  *)
(* text, or does nothing.                                                   *)
LEMMA ReadEffect ==
  ASSUME Typed, ActivityReads
  PROVE  /\ \/ wire' = Append(wire, Msg("data", stamp)) /\ UNCHANGED <<clip, stamp>>
            \/ clip' \in Nat /\ stamp' = stamp + 1 /\ UNCHANGED wire
            \/ UNCHANGED <<wire, clip, stamp>>
         /\ skewed' \in BOOLEAN
<1>1. back # <<>> /\ Head(back) \in Answers /\ skewed \in BOOLEAN
  BY DEF ActivityReads, Typed, TypeOK
<1>2. Head(back).n \in Nat
  BY <1>1, Records
<1> DEFINE behind == Tail(back) # <<>>
<1>3. IF skewed THEN ReadTorn(Head(back), behind) ELSE ReadMessage(Head(back), behind)
  BY DEF ActivityReads
<1>4. behind \in BOOLEAN
  OBVIOUS
<1> HIDE DEF behind
<1>5. CASE ReadTorn(Head(back), behind)
  <2>1. skewed' \in BOOLEAN
    BY <1>4, <1>5, Zenon DEF ReadTorn
  <2>2. UNCHANGED <<wire, android>> \/ RequestClipboard \/ SetClipboardText(0)
    BY <1>5, Zenon DEF ReadTorn
  <2> QED
    BY <2>1, <2>2 DEF RequestClipboard, SetClipboardText, android
<1>6. CASE ReadMessage(Head(back), behind)
  <2>1. skewed' \in BOOLEAN
    BY <1>1, <1>4, <1>6, Zenon DEF ReadMessage
  <2>2. UNCHANGED <<wire, android>> \/ RequestClipboard \/ SetClipboardText(Head(back).n)
    BY <1>6, Zenon DEF ReadMessage
  <2> QED
    BY <1>2, <2>1, <2>2 DEF RequestClipboard, SetClipboardText, android
<1> QED
  BY <1>3, <1>5, <1>6, Zenon

LEMMA ActivityReadsTyped ==
  ASSUME Typed, ActivityReads PROVE Typed'
<1>1. back' \in Seq(Answers)
  BY DEF ActivityReads, Typed, TypeOK
<1>2. UNCHANGED <<selection, up, conn, work, copies, xclients, history, crashed>>
  BY DEF ActivityReads
<1>3. torn' \in BOOLEAN
  BY Zenon DEF ActivityReads, ForgetTorn
<1>4. wire' \in Seq(Events) /\ clip' \in Nat /\ stamp' \in Nat /\ skewed' \in BOOLEAN
  <2>1. /\ wire \in Seq(Events) /\ clip \in Nat /\ stamp \in Nat
        /\ Msg("data", stamp) \in Events
    BY Records DEF Typed, TypeOK
  <2> QED
    BY <2>1, ReadEffect
<1> QED
  BY <1>1, <1>2, <1>3, <1>4 DEF Typed, TypeOK, Answering, selection, xclients, history

LEMMA InputThreadTyped ==
  ASSUME Typed, InputThread PROVE Typed'
<1> USE DEF InputThread, Typed, TypeOK, Answering
<1>1. wire' \in Seq(Events) /\ Head(wire) \in Events
  OBVIOUS
<1>2. UNCHANGED <<cache, waiting, owner, targets, property, up, conn, back, stream, android,
                  copies, xclients, history, crashed>>
  OBVIOUS
<1>3. CASE Head(wire).type = "enable"
  <2>1. enabled' = (Head(wire).n = 1) /\ UNCHANGED work
    BY <1>3
  <2>2. enabled' \in BOOLEAN
    BY <2>1
  <2> QED
    BY <1>1, <1>2, <2>1, <2>2 DEF stream, xclients, history, android
<1>4. CASE Head(wire).type # "enable"
  <2>1. /\ Head(wire).type \in {"announce", "data"}
        /\ work' = Append(work, Head(wire)) /\ UNCHANGED enabled
    BY <1>4
  <2>2. Head(wire) \in Items
    BY <1>1, <2>1, Records
  <2>3. work' \in Seq(Items)
    BY <2>1, <2>2
  <2> QED
    BY <1>1, <1>2, <2>1, <2>3 DEF stream, xclients, history, android
<1> QED
  BY <1>3, <1>4

LEMMA ConnectTyped ==
  ASSUME Typed, Connect PROVE Typed'
<1>1. conn' \in 0 .. MaxConns
  BY DEF Connect, Typed, TypeOK
<1> QED
  BY <1>1 DEF Connect, Typed, TypeOK, Answering, selection, stream, xclients, history, android

LEMMA DisconnectTyped ==
  ASSUME Typed, Disconnect PROVE Typed'
<1>1. wire' \in Seq(Events) /\ back' \in Seq(Answers)
  BY DEF Disconnect
<1> QED
  BY <1>1 DEF Disconnect, Typed, TypeOK, Answering, xclients, history, android

LEMMA HandleTyped ==
  ASSUME Typed, NEW item \in Items, HandleAnnounce(item) \/ HandleData(item)
  PROVE  /\ cache' \in Nat /\ waiting' \in Seq(Requests) /\ Len(waiting') <= MaxWaits
         /\ owner' \in Clients \union {Server, Nobody}
         /\ announced' \in Nat /\ crashed' \in BOOLEAN /\ got' \in [Clients -> Pastes]
<1> USE DEF Typed, TypeOK
<1>1. CASE HandleAnnounce(item)
  BY <1>1, Records DEF HandleAnnounce
<1>2. CASE HandleData(item)
  <2> DEFINE Entries(x) == {i \in DOMAIN waiting : waiting[i].client = x}
             First(x) == CHOOSE i \in Entries(x) : \A j \in Entries(x) : i <= j
  <2>1. ASSUME NEW x \in Clients, Entries(x) # {}
        PROVE  waiting[First(x)].since \in Nat
    <3>1. First(x) \in Entries(x)
      <4> HIDE DEF Entries
      <4>1. Entries(x) \in SUBSET DOMAIN waiting
        BY DEF Entries
      <4> QED
        BY <2>1, <4>1, FirstEntry
    <3>2. First(x) \in DOMAIN waiting
      BY <3>1
    <3> HIDE DEF First
    <3>3. waiting[First(x)] \in Requests
      BY <3>2
    <3> QED
      BY <3>3, Records
  <2>2. got' = [x \in Clients |->
                  IF Entries(x) = {} THEN got[x]
                  ELSE [data |-> item.n, since |-> waiting[First(x)].since]]
    BY <1>2 DEF HandleData
  <2>3. crashed' \in BOOLEAN
    BY <1>2 DEF HandleData
  <2>4. cache' \in Nat /\ waiting' = <<>> /\ UNCHANGED <<owner, announced>>
    BY <1>2, Records DEF HandleData
  <2> HIDE DEF Entries, First
  <2>5. got' \in [Clients -> Pastes]
    BY <2>1, <2>2, Records
  <2> QED
    BY <2>3, <2>4, <2>5
<1> QED
  BY <1>1, <1>2

LEMMA RunWorkTyped ==
  ASSUME Typed, RunWork PROVE Typed'
<1> USE DEF Typed, TypeOK, Answering
<1>1. PICK i \in DOMAIN work :
        /\ work' = SubSeq(work, 1, i - 1) \o SubSeq(work, i + 1, Len(work))
        /\ HandleAnnounce(work[i]) \/ HandleData(work[i])
  <2>1. 1 \in DOMAIN work
    BY DEF RunWork
  <2> QED
    BY <2>1 DEF RunWork
<1>2. work' \in Seq(Items)
  BY <1>1, RemoveType
<1>3. work[i] \in Items
  OBVIOUS
<1>4. /\ cache' \in Nat /\ waiting' \in Seq(Requests) /\ Len(waiting') <= MaxWaits
      /\ owner' \in Clients \union {Server, Nobody}
      /\ announced' \in Nat /\ crashed' \in BOOLEAN /\ got' \in [Clients -> Pastes]
  BY <1>1, <1>3, HandleTyped
<1>5. UNCHANGED <<enabled, targets, property, up, conn, wire, back, skewed, android, copies,
                  xclients>>
  BY DEF RunWork
<1>6. torn' \in BOOLEAN
  BY Zenon DEF RunWork, ForgetTorn
<1> QED
  BY <1>2, <1>4, <1>5, <1>6 DEF android, xclients

LEMMA ConvertSelectionTyped ==
  ASSUME Typed, NEW x \in Clients, ConvertSelection(x) PROVE Typed'
<1> USE DEF Typed, TypeOK, Answering
<1>1. UNCHANGED <<enabled, cache, owner, targets, property, up, conn, wire, work, stream, android,
                  copies, xclients, announced, crashed>>
  BY DEF ConvertSelection
<1>2. CASE cache # 0
  <2>1. got' = [got EXCEPT ![x] = [data |-> cache, since |-> announced]]
    BY <1>2 DEF ConvertSelection
  <2>2. got' \in [Clients -> Pastes]
    BY <2>1, Records
  <2> QED
    BY <1>1, <1>2, <2>2 DEF ConvertSelection, stream, android, xclients
<1>3. CASE cache = 0
  <2> DEFINE r == [client |-> x, via |-> IF up THEN conn ELSE 0, since |-> announced]
  <2>1. /\ Len(waiting) < MaxWaits /\ waiting' = <<r>> \o waiting
        /\ back' = IF up THEN Append(back, Msg("request", 0)) ELSE back
        /\ UNCHANGED got
    BY <1>3 DEF ConvertSelection
  <2>2. r \in Requests
    BY Records
  <2> HIDE DEF r
  <2>3. waiting' \in Seq(Requests) /\ Len(waiting') <= MaxWaits
    BY <2>1, <2>2, PrependProperties
  <2>4. back' \in Seq(Answers)
    BY <2>1, Records
  <2> QED
    BY <1>1, <2>1, <2>3, <2>4 DEF stream, android, xclients
<1> QED
  BY <1>2, <1>3

(* Asking a client leaves the others' requests and only adds to its own. *)
LEMMA SelectionRequestGrows ==
  ASSUME NEW asked \in [Clients -> Seq(Asked)],
         NEW who \in Clients \union {Server, Nobody},
         NEW target \in Asked
  PROVE  /\ SelectionRequest(asked, who, target)
              \in [Clients -> Seq(Asked)]
         /\ \A y \in Clients : asked[y] # <<>> => SelectionRequest(asked, who, target)[y] # <<>>
<1>1. CASE enabled /\ who \in Clients
  <2> DEFINE grown == Append(asked[who], target)
  <2>1. grown \in Seq(Asked) /\ grown # <<>>
    <3>1. asked[who] \in Seq(Asked)
      BY <1>1
    <3> QED
      BY <3>1, AppendProperties
  <2>2. SelectionRequest(asked, who, target) = [asked EXCEPT ![who] = grown]
    BY <1>1 DEF SelectionRequest
  <2> HIDE DEF grown
  <2> QED
    BY <1>1, <2>1, <2>2
<1>2. CASE ~(enabled /\ who \in Clients)
  BY <1>2 DEF SelectionRequest
<1> QED
  BY <1>1, <1>2

LEMMA SetSelectionOwnerTyped ==
  ASSUME Typed, NEW x \in Clients, SetSelectionOwner(x) PROVE Typed'
<1>1. inbox' = SelectionRequest(inbox, x, "TARGETS")
  BY DEF SetSelectionOwner
<1>2. /\ inbox' \in [Clients -> Seq(Asked)]
      /\ \A y \in Clients : inbox[y] # <<>> => inbox'[y] # <<>>
  <2>1. inbox \in [Clients -> Seq(Asked)]
    BY DEF Typed, TypeOK
  <2> QED
    BY <1>1, <2>1, Records, SelectionRequestGrows
<1> USE DEF Typed, TypeOK, Answering, SetSelectionOwner
<1>3. text' \in [Clients -> Nat] /\ copies' \in Nat
  OBVIOUS
<1> QED
  BY <1>2, <1>3 DEF link, stream, android, history

LEMMA ChangePropertyTyped ==
  ASSUME Typed, NEW x \in Clients, ChangeProperty(x) PROVE Typed'
<1> USE DEF Typed, TypeOK, Answering, ChangeProperty
<1>1. wrote' \in [Clients -> BOOLEAN] /\ \A y \in Clients : wrote'[y] => wrote[y] \/ y = x
  OBVIOUS
<1>2. Head(inbox[x]) \in Asked
  OBVIOUS
<1>3. targets' \subseteq {"UTF8", "STRING"}
  <2>1. targets' = Offers[x] \/ targets' = targets
    OBVIOUS
  <2>2. Offers[x] \subseteq {"UTF8", "STRING"}
    OBVIOUS
  <2> QED
    BY <2>1, <2>2
<1>4. property' \in [{"UTF8", "STRING"} -> Nat]
  BY <1>2, Records
<1> QED
  BY <1>1, <1>3, <1>4 DEF link, stream, android, history

LEMMA SendEventTyped ==
  ASSUME Typed, NEW x \in Clients, SendEvent(x) PROVE Typed'
<1> DEFINE rest == [inbox EXCEPT ![x] = Tail(@)]
<1> USE DEF Typed, TypeOK, Answering
<1>1. inbox[x] \in Seq(Asked) /\ inbox[x] # <<>>
  BY DEF SendEvent
<1>2. /\ rest \in [Clients -> Seq(Asked)]
      /\ \A y \in Clients \ {x} : rest[y] = inbox[y]
  BY <1>1
<1>3. Head(inbox[x]) \in Asked
  BY <1>1
<1>4. /\ wrote' = [wrote EXCEPT ![x] = FALSE]
      /\ UNCHANGED <<selection, up, conn, wire, work, stream, android, copies, text, gone, history,
                     crashed>>
  BY DEF SendEvent
<1>5. \/ inbox' = rest /\ UNCHANGED back
      \/ HandleTargets(rest)
      \/ Head(inbox[x]) # "TARGETS" /\ HandleText(Head(inbox[x]), rest)
  BY DEF SendEvent
<1> HIDE DEF rest
<1>6. \/ inbox' = rest
      \/ \E t \in {"UTF8", "STRING"} : inbox' = SelectionRequest(rest, owner, t)
  BY <1>5 DEF HandleTargets, HandleText
<1>7. /\ inbox' \in [Clients -> Seq(Asked)]
      /\ \A y \in Clients : rest[y] # <<>> => inbox'[y] # <<>>
  <2>1. CASE inbox' = rest
    BY <1>2, <2>1
  <2>2. ASSUME NEW t \in {"UTF8", "STRING"}, inbox' = SelectionRequest(rest, owner, t)
        PROVE  /\ inbox' \in [Clients -> Seq(Asked)]
               /\ \A y \in Clients : rest[y] # <<>> => inbox'[y] # <<>>
    <3>1. owner \in Clients \union {Server, Nobody} /\ t \in Asked
      BY Records
    <3> HIDE DEF Typed, TypeOK, Answering
    <3>2. rest \in [Clients -> Seq(Asked)]
      BY <1>2
    <3>3. /\ SelectionRequest(rest, owner, t) \in [Clients -> Seq(Asked)]
          /\ \A y \in Clients : rest[y] # <<>> => SelectionRequest(rest, owner, t)[y] # <<>>
      BY <3>1, <3>2, SelectionRequestGrows
    <3> QED
      BY <2>2, <3>3
  <2> QED
    BY <1>6, <2>1, <2>2
<1>8. back' \in Seq(Answers)
  <2>1. UNCHANGED back \/ \E t \in {"UTF8", "STRING"} : back' = Append(back, Msg("text", property[t]))
    BY <1>3, <1>5, Records DEF HandleTargets, HandleText
  <2>2. \A t \in {"UTF8", "STRING"} : Msg("text", property[t]) \in Answers
    BY Records
  <2>3. \A m \in Answers : Append(back, m) \in Seq(Answers)
    OBVIOUS
  <2>4. back \in Seq(Answers)
    OBVIOUS
  <2> HIDE DEF Typed, TypeOK, Answering
  <2> QED
    BY <2>1, <2>2, <2>3, <2>4
<1>9. wrote' \in [Clients -> BOOLEAN] /\ \A y \in Clients : wrote'[y] => wrote[y] /\ y # x
  BY <1>4
<1> QED
  BY <1>2, <1>4, <1>7, <1>8, <1>9 DEF selection, stream, android, history

LEMMA ClientLeavesTyped ==
  ASSUME Typed, NEW x \in Clients, ClientLeaves(x) PROVE Typed'
<1> USE DEF Typed, TypeOK, Answering, ClientLeaves
<1>1. inbox' \in [Clients -> Seq(Asked)]
  OBVIOUS
<1>2. wrote' \in [Clients -> BOOLEAN] /\ \A y \in Clients : wrote'[y] => wrote[y] /\ y # x
  OBVIOUS
<1> QED
  BY <1>1, <1>2 DEF link, stream, android, history

LEMMA ClearSelectionTyped ==
  ASSUME Typed, NEW x \in Clients, ClearSelection(x) PROVE Typed'
BY DEF Typed, TypeOK, Answering, ClearSelection, link, stream, android, xclients, history

LEMMA TypedNext ==
  ASSUME Typed, [Next]_vars PROVE Typed'
<1>1. CASE UNCHANGED vars
  BY <1>1 DEF vars, selection, link, stream, android, xclients, history, Typed, TypeOK, Answering
<1>2. CASE Next
  BY <1>2, AndroidCopyTyped, EnableSyncTyped, ActivityReadsTyped, InputThreadTyped, ConnectTyped,
     DisconnectTyped, RunWorkTyped, ConvertSelectionTyped, SetSelectionOwnerTyped,
     ClearSelectionTyped, ChangePropertyTyped, SendEventTyped, ClientLeavesTyped
     DEF Next, ActivityStep, ClientStep, Reply
<1> QED
  BY <1>1, <1>2

LEMMA AlwaysTyped == Spec => []Typed
BY TypedInit, TypedNext, PTL DEF Spec

(* Every queue of the clipboard holds whole messages of the kinds that its  *)
(* reader knows, and no more requests wait than the list may hold.          *)
THEOREM TypeCorrect == Spec => []TypeOK
<1>1. Typed => TypeOK
  BY DEF Typed
<1> QED
  BY <1>1, AlwaysTyped, PTL

--------------------------------------------------------------------------------
LEMMA NobodyMissedNext ==
  ASSUME Typed, NobodyMissed, [Next]_vars PROVE NobodyMissed'
<1> USE DEF NobodyMissed
<1>1. CASE UNCHANGED <<cache, waiting>>
  BY <1>1
<1>2. CASE RunWork
  <2>1. PICK item : HandleAnnounce(item) \/ HandleData(item)
    BY <1>2 DEF RunWork
  <2> QED
    BY <2>1 DEF HandleAnnounce, HandleData
<1>3. ASSUME NEW x \in Clients, ConvertSelection(x) PROVE NobodyMissed'
  BY <1>3 DEF ConvertSelection
<1>4. \/ UNCHANGED <<cache, waiting>> \/ RunWork
      \/ \E x \in Clients : ConvertSelection(x)
  BY DEF Next, vars, ActivityStep, ClientStep, Reply, AndroidCopy, EnableSync, Connect,
         Disconnect, ActivityReads, InputThread, SetSelectionOwner, ClearSelection, ClientLeaves,
         ChangeProperty, SendEvent, selection
<1> QED
  BY <1>1, <1>2, <1>3, <1>4

(* Once the data is there nobody is left in the list: lorieHandleClipboardData *)
(* answers all who waited, and lorieConvertSelection only lets a request join  *)
(* the list while there is no data.                                            *)
THEOREM NobodyMissedAlways == Spec => []NobodyMissed
<1>1. Init => NobodyMissed
  BY DEF Init, NobodyMissed
<1> QED
  BY <1>1, NobodyMissedNext, AlwaysTyped, PTL DEF Spec

--------------------------------------------------------------------------------
(***************************************************************************)
(* Freshness.  While work items keep their order, the stamps that travel   *)
(* from the activity to the server are in the order in which Android made  *)
(* them, from the last announcement handled up to the clipboard of now.    *)
(***************************************************************************)
Carriers == {i \in 1 .. Len(wire) : wire[i].type # "enable"}

WorkOrdered ==
  /\ \A i \in 1 .. Len(work) : announced <= work[i].n /\ work[i].n <= stamp
  /\ \A i, j \in 1 .. Len(work) : i <= j => work[i].n <= work[j].n

WireOrdered ==
  /\ \A i \in Carriers : announced <= wire[i].n /\ wire[i].n <= stamp
  /\ \A i, j \in Carriers : i <= j => wire[i].n <= wire[j].n
  /\ \A i \in 1 .. Len(work), j \in Carriers : work[i].n <= wire[j].n

(* Neither the cache nor an answer is older than what it stands for, and no *)
(* request claims to know of an announcement that has not been handled.     *)
NotOlder ==
  /\ announced <= stamp
  /\ cache # 0 => announced <= cache
  /\ \A i \in 1 .. Len(waiting) : waiting[i].since <= announced
  /\ \A x \in Clients : got[x].data # 0 => got[x].data >= got[x].since

Fresh == ~Overtake => WorkOrdered /\ WireOrdered /\ NotOlder

(* Facts about the queues that every case uses: a message on the wire or in *)
(* the work queue carries a number, and one appended comes last.            *)
LEMMA Numbers ==
  ASSUME Typed
  PROVE  /\ Len(work) \in Nat /\ Len(wire) \in Nat /\ Len(waiting) \in Nat
         /\ \A i \in 1 .. Len(work) : work[i] \in Items /\ work[i].n \in Nat
         /\ \A i \in 1 .. Len(wire) : wire[i] \in Events /\ wire[i].n \in Nat
         /\ \A i \in 1 .. Len(waiting) : waiting[i] \in Requests /\ waiting[i].since \in Nat
         /\ stamp \in Nat /\ announced \in Nat /\ cache \in Nat
BY Records DEF Typed, TypeOK

LEMMA CarrierNumbers ==
  ASSUME Typed
  PROVE  \A i \in Carriers : i \in 1 .. Len(wire) /\ i \in Nat /\ wire[i].n \in Nat
BY Numbers DEF Carriers

LEMMA WireGrows ==
  ASSUME Typed, Fresh, ~Overtake, NEW n \in Nat, NEW type \in {"enable", "announce", "data"},
         wire' = Append(wire, Msg(type, n)), type # "enable" => n = stamp',
         stamp' \in Nat, stamp <= stamp',
         UNCHANGED <<work, announced>>
  PROVE  WorkOrdered' /\ WireOrdered'
<1> DEFINE m == Msg(type, n)
<1>1. m.type = type /\ m.n = n
  BY DEF Msg
<1>2. m \in Events
  BY DEF Msg, Events
<1> HIDE DEF m
<1>3. /\ Len(wire') = Len(wire) + 1 /\ wire'[Len(wire) + 1] = m
      /\ \A i \in 1 .. Len(wire) : wire'[i] = wire[i]
  <2>1. wire \in Seq(Events) /\ wire' = Append(wire, m)
    BY DEF Typed, TypeOK, m
  <2> QED
    BY <1>2, <2>1, AppendProperties
<1>4. WorkOrdered /\ WireOrdered /\ NotOlder
  BY DEF Fresh
<1>5. Carriers' \subseteq Carriers \union {Len(wire) + 1}
  BY <1>3, Numbers DEF Carriers
<1>6. Len(wire) + 1 \in Carriers' => m.n = stamp'
  BY <1>1, <1>3 DEF Carriers
<1>7. \A i \in Carriers : i \in 1 .. Len(wire) /\ i # Len(wire) + 1 /\ wire'[i] = wire[i]
                          /\ wire[i].n \in Nat
  BY <1>3, Numbers DEF Carriers
<1>8. WorkOrdered'
  BY <1>4, Numbers DEF WorkOrdered
<1>9. WireOrdered'
  <2>1. \A i \in Carriers' : announced' <= wire'[i].n /\ wire'[i].n <= stamp'
    BY <1>3, <1>4, <1>5, <1>6, <1>7, Numbers DEF WireOrdered, NotOlder
  <2>2. \A i, j \in Carriers' : i <= j => wire'[i].n <= wire'[j].n
    <3> SUFFICES ASSUME NEW i \in Carriers', NEW j \in Carriers', i <= j
                 PROVE  wire'[i].n <= wire'[j].n
      OBVIOUS
    <3>1. CASE j = Len(wire) + 1
      BY <1>3, <1>6, <2>1, <3>1
    <3>2. CASE j # Len(wire) + 1
      BY <1>3, <1>4, <1>5, <1>7, <3>2, Numbers DEF WireOrdered
    <3> QED
      BY <3>1, <3>2
  <2>3. \A i \in 1 .. Len(work'), j \in Carriers' : work'[i].n <= wire'[j].n
    BY <1>3, <1>4, <1>5, <1>6, <1>7, Numbers DEF WireOrdered, WorkOrdered
  <2> QED
    BY <2>1, <2>2, <2>3 DEF WireOrdered
<1> QED
  BY <1>8, <1>9

LEMMA NotOlderKept ==
  ASSUME Typed, NotOlder, UNCHANGED <<announced, cache, waiting, got>>,
         stamp' \in Nat, stamp <= stamp'
  PROVE  NotOlder'
BY Numbers DEF NotOlder

LEMMA AndroidCopyFresh ==
  ASSUME Typed, Fresh, ~Overtake, AndroidCopy PROVE Fresh'
<1>1. /\ stamp' \in Nat /\ stamp <= stamp' /\ stamp' = stamp + 1
      /\ UNCHANGED <<work, announced, cache, waiting, got>>
  BY Numbers DEF AndroidCopy, selection, history
<1>2. NotOlder'
  BY <1>1, NotOlderKept DEF Fresh
<1>3. CASE up
  <2>1. wire' = Append(wire, Msg("announce", stamp'))
    BY <1>3 DEF AndroidCopy
  <2> QED
    BY <1>1, <1>2, <2>1, WireGrows DEF Fresh
<1>4. CASE ~up
  <2>1. UNCHANGED wire
    BY <1>4 DEF AndroidCopy
  <2>2. WorkOrdered'
    BY <1>1, Numbers DEF Fresh, WorkOrdered
  <2>3. WireOrdered'
    <3>1. UNCHANGED Carriers
      BY <2>1 DEF Carriers
    <3> QED
      BY <1>1, <2>1, <3>1, Numbers, CarrierNumbers DEF Fresh, WireOrdered
  <2> QED
    BY <1>2, <2>2, <2>3 DEF Fresh
<1> QED
  BY <1>3, <1>4

LEMMA EnableSyncFresh ==
  ASSUME Typed, Fresh, ~Overtake, NEW on \in BOOLEAN, EnableSync(on) PROVE Fresh'
<1> DEFINE n == IF on THEN 1 ELSE 0
<1>1. /\ wire' = Append(wire, Msg("enable", n)) /\ n \in Nat
      /\ UNCHANGED <<stamp, work, announced, cache, waiting, got>>
  BY DEF EnableSync, selection, android, history
<1> HIDE DEF n
<1>2. stamp' \in Nat /\ stamp <= stamp'
  BY <1>1, Numbers
<1>3. WorkOrdered' /\ WireOrdered'
  BY <1>1, <1>2, WireGrows
<1> QED
  BY <1>1, <1>2, <1>3, NotOlderKept DEF Fresh

LEMMA ActivityReadsFresh ==
  ASSUME Typed, Fresh, ~Overtake, ActivityReads PROVE Fresh'
<1>1. UNCHANGED <<work, announced, cache, waiting, got>>
  BY DEF ActivityReads, selection, history
<1>2. CASE wire' = Append(wire, Msg("data", stamp)) /\ UNCHANGED stamp
  <2>1. stamp' = stamp /\ stamp' \in Nat /\ stamp <= stamp'
    BY <1>2, Numbers
  <2>2. WorkOrdered' /\ WireOrdered'
    BY <1>1, <1>2, <2>1, WireGrows
  <2> QED
    BY <1>1, <2>1, <2>2, NotOlderKept DEF Fresh
<1>3. CASE stamp' = stamp + 1 /\ UNCHANGED wire
  <2>1. stamp' \in Nat /\ stamp <= stamp'
    BY <1>3, Numbers
  <2>2. WorkOrdered'
    BY <1>1, <1>3, Numbers DEF Fresh, WorkOrdered
  <2>3. WireOrdered'
    <3>1. UNCHANGED Carriers
      BY <1>3 DEF Carriers
    <3>2. WireOrdered
      BY DEF Fresh
    <3>3. \A i \in Carriers : announced <= wire[i].n /\ wire[i].n <= stamp'
      BY <1>3, <3>2, Numbers, CarrierNumbers DEF WireOrdered
    <3> QED
      BY <1>1, <1>3, <3>1, <3>2, <3>3 DEF WireOrdered
  <2> QED
    BY <1>1, <2>1, <2>2, <2>3, NotOlderKept DEF Fresh
<1>4. CASE UNCHANGED <<wire, stamp>>
  BY <1>1, <1>4 DEF Fresh, WorkOrdered, WireOrdered, NotOlder, Carriers
<1> QED
  BY <1>2, <1>3, <1>4, ReadEffect

(* The wire loses its first message. *)
LEMMA WireShrinks ==
  ASSUME Typed, WireOrdered, wire # <<>>, wire' = Tail(wire), UNCHANGED <<stamp, announced>>
  PROVE  /\ \A i \in Carriers' : announced <= wire'[i].n /\ wire'[i].n <= stamp
         /\ \A i, j \in Carriers' : i <= j => wire'[i].n <= wire'[j].n
         /\ \A i \in 1 .. Len(work), j \in Carriers' : work[i].n <= wire'[j].n
         /\ 1 \in Carriers => \A j \in Carriers' : wire[1].n <= wire'[j].n
<1>1. Len(wire') = Len(wire) - 1 /\ \A i \in 1 .. Len(wire') : wire'[i] = wire[i + 1]
  <2>1. wire \in Seq(Events)
    BY DEF Typed, TypeOK
  <2> QED
    BY <2>1, HeadTailProperties
<1>2. \A i \in Carriers' : i + 1 \in Carriers /\ wire'[i] = wire[i + 1] /\ i \in Nat
  BY <1>1, Numbers DEF Carriers
<1>3. \A i \in Carriers' : announced <= wire'[i].n /\ wire'[i].n <= stamp
  BY <1>2 DEF WireOrdered
<1>4. \A i, j \in Carriers' : i <= j => wire'[i].n <= wire'[j].n
  <2> SUFFICES ASSUME NEW i \in Carriers', NEW j \in Carriers', i <= j
               PROVE  wire'[i].n <= wire'[j].n
    OBVIOUS
  <2>1. i + 1 <= j + 1
    BY <1>2
  <2> QED
    BY <1>2, <2>1 DEF WireOrdered
<1>5. \A i \in 1 .. Len(work), j \in Carriers' : work[i].n <= wire'[j].n
  BY <1>2 DEF WireOrdered
<1>6. ASSUME 1 \in Carriers, NEW j \in Carriers' PROVE wire[1].n <= wire'[j].n
  <2>1. 1 <= j + 1
    BY <1>2
  <2> QED
    BY <1>2, <1>6, <2>1 DEF WireOrdered
<1> QED
  BY <1>3, <1>4, <1>5, <1>6

LEMMA InputThreadFresh ==
  ASSUME Typed, Fresh, ~Overtake, InputThread PROVE Fresh'
<1>1. /\ wire # <<>> /\ wire' = Tail(wire)
      /\ UNCHANGED <<stamp, announced, cache, waiting, got>>
  BY DEF InputThread, android, history
<1>2. WorkOrdered /\ WireOrdered /\ NotOlder
  BY DEF Fresh
<1>3. NotOlder'
  BY <1>1, <1>2, NotOlderKept, Numbers
<1>4. /\ \A i \in Carriers' : announced' <= wire'[i].n /\ wire'[i].n <= stamp'
      /\ \A i, j \in Carriers' : i <= j => wire'[i].n <= wire'[j].n
      /\ \A i \in 1 .. Len(work), j \in Carriers' : work[i].n <= wire'[j].n
      /\ 1 \in Carriers => \A j \in Carriers' : wire[1].n <= wire'[j].n
  BY <1>1, <1>2, WireShrinks
<1>5. CASE UNCHANGED work
  BY <1>1, <1>2, <1>3, <1>4, <1>5 DEF Fresh, WorkOrdered, WireOrdered
<1>6. CASE Head(wire).type # "enable" /\ work' = Append(work, Head(wire))
  <2>1. Head(wire) = wire[1] /\ 1 \in Carriers
    BY <1>1, <1>6 DEF Typed, TypeOK, Carriers
  <2>2. Head(wire) \in Items
    <3>1. Head(wire) \in Events
      BY <1>1 DEF Typed, TypeOK
    <3>2. Head(wire).type \in {"announce", "data"}
      BY <1>6, <3>1 DEF Events
    <3> QED
      BY <3>1, <3>2, Records
  <2>3. /\ Len(work') = Len(work) + 1 /\ work'[Len(work) + 1] = wire[1]
        /\ \A i \in 1 .. Len(work) : work'[i] = work[i]
    <3>1. work \in Seq(Items)
      BY DEF Typed, TypeOK
    <3> QED
      BY <1>6, <2>1, <2>2, <3>1, AppendProperties
  <2>4. \A i \in 1 .. Len(work') : i \in 1 .. Len(work) \/ i = Len(work) + 1
    BY <2>3, Numbers
  <2>5. WorkOrdered'
    <3>1. \A i \in 1 .. Len(work') : announced' <= work'[i].n /\ work'[i].n <= stamp'
      BY <1>1, <1>2, <2>1, <2>3, <2>4 DEF WorkOrdered, WireOrdered
    <3>2. ASSUME NEW i \in 1 .. Len(work'), NEW j \in 1 .. Len(work'), i <= j
          PROVE  work'[i].n <= work'[j].n
      <4>1. CASE j \in 1 .. Len(work)
        <5>1. i \in 1 .. Len(work)
          BY <3>2, <4>1, Numbers
        <5> QED
          BY <1>2, <2>3, <3>2, <4>1, <5>1 DEF WorkOrdered
      <4>2. CASE j = Len(work) + 1 /\ i \in 1 .. Len(work)
        BY <1>2, <2>1, <2>3, <4>2 DEF WireOrdered
      <4>3. CASE j = Len(work) + 1 /\ i = Len(work) + 1
        BY <2>1, <2>3, <4>3, CarrierNumbers
      <4> QED
        BY <2>4, <4>1, <4>2, <4>3
    <3> QED
      BY <3>1, <3>2 DEF WorkOrdered
  <2>6. \A i \in 1 .. Len(work'), j \in Carriers' : work'[i].n <= wire'[j].n
    BY <1>4, <2>1, <2>3, <2>4
  <2> QED
    BY <1>3, <1>4, <2>5, <2>6 DEF Fresh, WireOrdered
<1>7. UNCHANGED work \/ (Head(wire).type # "enable" /\ work' = Append(work, Head(wire)))
  BY DEF InputThread
<1> QED
  BY <1>5, <1>6, <1>7

LEMMA DisconnectFresh ==
  ASSUME Typed, Fresh, ~Overtake, Disconnect PROVE Fresh'
<1>1. wire' = <<>> /\ UNCHANGED <<stamp, work, announced, cache, waiting, got>>
  BY DEF Disconnect, android, history
<1>2. WorkOrdered' /\ NotOlder'
  BY <1>1 DEF Fresh, WorkOrdered, NotOlder
<1>3. Carriers' = {}
  BY <1>1 DEF Carriers
<1> QED
  BY <1>2, <1>3 DEF Fresh, WireOrdered

(* The item at the head of the work queue is handled. *)
LEMMA RunWorkFresh ==
  ASSUME Typed, Fresh, ~Overtake, RunWork PROVE Fresh'
<1>1. WorkOrdered /\ WireOrdered /\ NotOlder
  BY DEF Fresh
<1>2. work \in Seq(Items) /\ work # <<>>
  BY DEF RunWork, Typed, TypeOK
<1>3. /\ work' = SubSeq(work, 1, 1 - 1) \o SubSeq(work, 1 + 1, Len(work))
      /\ HandleAnnounce(work[1]) \/ HandleData(work[1])
  BY DEF RunWork
<1>4. work' = Tail(work)
  BY <1>2, <1>3, RemoveFirst
<1>5. Len(work') = Len(work) - 1 /\ \A i \in 1 .. Len(work') : work'[i] = work[i + 1]
  BY <1>2, <1>4, HeadTailProperties
<1>6. \A i \in 1 .. Len(work') : i + 1 \in 1 .. Len(work) /\ work'[i] = work[i + 1] /\ i \in Nat
  BY <1>5, Numbers
<1>7. 1 \in 1 .. Len(work) /\ work[1].n \in Nat
  BY <1>2, Numbers
<1>8. UNCHANGED <<stamp, wire, Carriers>>
  BY DEF RunWork, android, Carriers
<1>9. CASE HandleAnnounce(work[1])
  <2>1. announced' = work[1].n /\ cache' = 0 /\ UNCHANGED <<waiting, got>>
    BY <1>9 DEF HandleAnnounce
  <2>2. announced <= announced'
    BY <1>1, <1>7, <2>1 DEF WorkOrdered
  <2>3. WorkOrdered'
    <3>1. \A i \in 1 .. Len(work') : announced' <= work'[i].n /\ work'[i].n <= stamp
      <4> SUFFICES ASSUME NEW i \in 1 .. Len(work')
                   PROVE  announced' <= work'[i].n /\ work'[i].n <= stamp
        OBVIOUS
      <4>1. i + 1 \in 1 .. Len(work) /\ 1 <= i + 1 /\ work'[i] = work[i + 1]
        BY <1>6
      <4> QED
        BY <4>1, <1>1, <1>7, <2>1 DEF WorkOrdered
    <3>2. \A i, j \in 1 .. Len(work') : i <= j => work'[i].n <= work'[j].n
      <4> SUFFICES ASSUME NEW i \in 1 .. Len(work'), NEW j \in 1 .. Len(work'), i <= j
                   PROVE  work'[i].n <= work'[j].n
        OBVIOUS
      <4>1. i + 1 \in 1 .. Len(work) /\ j + 1 \in 1 .. Len(work) /\ i + 1 <= j + 1
        BY <1>6
      <4> QED
        BY <4>1, <1>1, <1>6 DEF WorkOrdered
    <3> QED
      BY <1>8, <3>1, <3>2 DEF WorkOrdered
  <2>4. WireOrdered'
    <3>1. \A i \in Carriers : announced' <= wire[i].n /\ wire[i].n <= stamp
      BY <1>1, <1>7, <2>1 DEF WireOrdered
    <3>2. \A i \in 1 .. Len(work'), j \in Carriers : work'[i].n <= wire[j].n
      BY <1>1, <1>6 DEF WireOrdered
    <3> QED
      BY <1>1, <1>8, <3>1, <3>2 DEF WireOrdered
  <2>5. NotOlder'
    BY <1>1, <1>7, <1>8, <2>1, <2>2, Numbers DEF NotOlder, WorkOrdered
  <2> QED
    BY <2>3, <2>4, <2>5 DEF Fresh
<1>10. CASE HandleData(work[1])
  <2>1. cache' = work[1].n /\ waiting' = <<>> /\ UNCHANGED announced
    BY <1>10 DEF HandleData
  <2>2. WorkOrdered'
    <3>1. \A i \in 1 .. Len(work') : announced' <= work'[i].n /\ work'[i].n <= stamp'
      BY <1>1, <1>6, <1>8, <2>1 DEF WorkOrdered
    <3>2. ASSUME NEW i \in 1 .. Len(work'), NEW j \in 1 .. Len(work'), i <= j
          PROVE  work'[i].n <= work'[j].n
      <4>1. i + 1 <= j + 1
        BY <1>6, <3>2
      <4> QED
        BY <1>1, <1>6, <4>1 DEF WorkOrdered
    <3> QED
      BY <3>1, <3>2 DEF WorkOrdered
  <2>3. WireOrdered'
    BY <1>1, <1>6, <1>8, <2>1 DEF WireOrdered
  <2>4. announced <= cache'
    BY <1>1, <1>7, <2>1 DEF WorkOrdered
  <2>5. ASSUME NEW x \in Clients
        PROVE  got'[x].data # 0 => got'[x].data >= got'[x].since
    <3> DEFINE E == {i \in DOMAIN waiting : waiting[i].client = x}
               f == CHOOSE i \in E : \A j \in E : i <= j
    <3>1. got'[x] = IF E = {} THEN got[x] ELSE [data |-> work[1].n, since |-> waiting[f].since]
      BY <1>10 DEF HandleData
    <3>2. CASE E = {}
      BY <1>1, <3>1, <3>2 DEF NotOlder
    <3>3. CASE E # {}
      <4>1. waiting \in Seq(Requests) /\ E \in SUBSET DOMAIN waiting
        BY DEF Typed, TypeOK
      <4> HIDE DEF E
      <4>2. f \in E
        BY <3>3, <4>1, FirstEntry
      <4> HIDE DEF f
      <4>3. f \in 1 .. Len(waiting)
        BY <4>1, <4>2
      <4>4. waiting[f].since <= announced /\ waiting[f].since \in Nat
        BY <1>1, <4>3, Numbers DEF NotOlder
      <4>5. got'[x].data = work[1].n /\ got'[x].since = waiting[f].since
        BY <3>1, <3>3
      <4> QED
        BY <1>7, <2>1, <2>4, <4>4, <4>5, Numbers
    <3> QED
      BY <3>2, <3>3
  <2>6. NotOlder'
    BY <1>1, <1>8, <2>1, <2>4, <2>5 DEF NotOlder
  <2> QED
    BY <2>2, <2>3, <2>6 DEF Fresh
<1> QED
  BY <1>3, <1>9, <1>10

LEMMA ConvertSelectionFresh ==
  ASSUME Typed, Fresh, ~Overtake, NEW x \in Clients, ConvertSelection(x) PROVE Fresh'
<1>1. UNCHANGED <<stamp, wire, work, announced, cache>>
  BY DEF ConvertSelection, android
<1>2. WorkOrdered' /\ WireOrdered'
  BY <1>1 DEF Fresh, WorkOrdered, WireOrdered, Carriers
<1>3. NotOlder
  BY DEF Fresh
<1>4. CASE cache # 0
  <2>1. got' = [got EXCEPT ![x] = [data |-> cache, since |-> announced]] /\ UNCHANGED waiting
    BY <1>4 DEF ConvertSelection
  <2>2. got'[x].data = cache /\ got'[x].since = announced
        /\ \A y \in Clients \ {x} : got'[y] = got[y]
    BY <2>1 DEF Typed, TypeOK
  <2>3. NotOlder'
    BY <1>1, <1>3, <1>4, <2>1, <2>2, Numbers DEF NotOlder
  <2> QED
    BY <1>2, <2>3 DEF Fresh
<1>5. CASE cache = 0
  <2> DEFINE r == [client |-> x, via |-> IF up THEN conn ELSE 0, since |-> announced]
  <2>1. waiting' = <<r>> \o waiting /\ UNCHANGED got
    BY <1>5 DEF ConvertSelection
  <2>2. r \in Requests /\ r.since = announced /\ waiting \in Seq(Requests)
    BY Records DEF Typed, TypeOK
  <2> HIDE DEF r
  <2>3. /\ Len(waiting') = Len(waiting) + 1 /\ waiting'[1] = r
        /\ \A i \in 2 .. Len(waiting) + 1 : waiting'[i] = waiting[i - 1]
    BY <2>1, <2>2, PrependProperties
  <2>4. \A i \in 1 .. Len(waiting') : waiting'[i].since <= announced
    <3> SUFFICES ASSUME NEW i \in 1 .. Len(waiting') PROVE waiting'[i].since <= announced
      OBVIOUS
    <3>1. CASE i = 1
      BY <2>2, <2>3, <3>1, Numbers
    <3>2. CASE i # 1
      BY <1>3, <2>3, <3>2, Numbers DEF NotOlder
    <3> QED
      BY <3>1, <3>2
  <2>5. NotOlder'
    BY <1>1, <1>3, <2>1, <2>4 DEF NotOlder
  <2> QED
    BY <1>2, <2>5 DEF Fresh
<1> QED
  BY <1>4, <1>5

LEMMA FreshNext ==
  ASSUME Typed, Fresh, [Next]_vars PROVE Fresh'
<1>1. CASE Overtake
  BY <1>1 DEF Fresh
<1>2. CASE ~Overtake
  <2>1. CASE UNCHANGED <<stamp, wire, work, announced, cache, waiting, got>>
    BY <2>1 DEF Fresh, WorkOrdered, WireOrdered, NotOlder, Carriers
  <2>2. \/ UNCHANGED <<stamp, wire, work, announced, cache, waiting, got>>
        \/ AndroidCopy \/ (\E on \in BOOLEAN : EnableSync(on)) \/ ActivityReads \/ InputThread
        \/ Disconnect \/ RunWork \/ (\E x \in Clients : ConvertSelection(x))
    BY DEF Next, vars, ActivityStep, ClientStep, Reply, Connect, SetSelectionOwner,
           ClearSelection, ClientLeaves, ChangeProperty, SendEvent, selection, link, android, history
  <2> QED
    BY <1>2, <2>1, <2>2, AndroidCopyFresh, EnableSyncFresh, ActivityReadsFresh, InputThreadFresh,
       DisconnectFresh, RunWorkFresh, ConvertSelectionFresh
<1> QED
  BY <1>1, <1>2

(* What a client pastes is never older than the last announcement the       *)
(* server had handled when the client asked, as long as the work queue      *)
(* keeps the order of its items: the cache is dropped on an announcement,   *)
(* and data that is older than an announcement was queued before it.        *)
THEOREM PasteIsFreshAlways == Spec => []PasteIsFresh
<1>1. Init => Fresh
  <2>1. ASSUME Init PROVE WorkOrdered /\ WireOrdered /\ NotOlder
    <3>1. Carriers = {}
      BY <2>1 DEF Init, Carriers
    <3> QED
      BY <2>1, <3>1 DEF Init, WorkOrdered, WireOrdered, NotOlder
  <2> QED
    BY <2>1 DEF Fresh
<1>2. Fresh => PasteIsFresh
  BY DEF Fresh, NotOlder, PasteIsFresh
<1> QED
  BY <1>1, <1>2, FreshNext, AlwaysTyped, PTL DEF Spec
================================================================================
