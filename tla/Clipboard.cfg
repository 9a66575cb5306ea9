SPECIFICATION Spec
CONSTANTS
  x1 = x1
  x2 = x2
  Server = Server
  Nobody = Nobody
  Clients = {x1, x2}
  Offers <- MCOffers
  Malformed = {1}
  Empty = {1}
  MaxCopies = 2
  MaxConns = 2
  MaxWaits = 2
  Overtake = FALSE
CHECK_DEADLOCK FALSE
INVARIANTS TypeOK PasteIsFresh NobodyMissed
PROPERTIES PasteIsAnswered CopyArrives
