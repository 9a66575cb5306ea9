--------------------------- MODULE MCLorieClipboard ---------------------------
(* Small instances of LorieClipboard for TLC, and formulas the code does    *)
(* not satisfy.                                                             *)
EXTENDS LorieClipboard

CONSTANTS x1, x2

MCOffers == [x \in Clients |-> IF x = x1 THEN {"UTF8", "STRING"} ELSE {"STRING"}]

(* "cachedData will be NULL for the first request, but can then be reused   *)
(* once we've gotten the data once from the client".                        *)
CacheIsAnnounced == owner = Server /\ cache # 0 => cache >= announced

(* A request waits for a client that is still there. *)
NoDanglingRequest == \A i \in DOMAIN waiting : waiting[i].client \notin gone

(* A request is answered also when the activity was away for a while.       *)
AnsweredAfterReconnect ==
  \A x \in Clients : (\E i \in DOMAIN waiting : waiting[i].client = x) ~>
    waiting = <<>> \/ ~up \/ crashed

(* A request is answered also when it was sent right behind a text.         *)
AnsweredBehindText == \A x \in Clients : Waits(x) ~> ~Waits(x) \/ crashed

(* The owner's text reaches Android though a former owner answers late. *)
LastOwnerWins ==
  \A x \in Clients :
    owner = x /\ inbox[x] # <<>> /\ up /\ enabled /\ Offers[x] # {}
      ~> [](clip = text[x] \/ owner # x \/ ~up \/ ~enabled \/ crashed)
           \/ owner # x \/ ~up \/ ~enabled \/ crashed
================================================================================
