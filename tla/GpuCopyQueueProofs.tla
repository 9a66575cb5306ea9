--------------------------- MODULE GpuCopyQueueProofs ---------------------------
(***************************************************************************)
(* Proofs about GpuCopyQueue, for every number of vblanks and buffers,     *)
(* every capacity and every width of the indices that is a multiple of it, *)
(* and every number of faults.                                             *)
(***************************************************************************)
EXTENDS GpuCopyQueue, WrapAround, FiniteSetTheorems

USE CopyAssumption
USE DEF queue, flags, books, server, ren, renderer, wnd, activity

(* The steps of the two processes. *)
ServerNext ==
  \/ \E v \in Vblanks : TryScheduleGpuCopy(v) \/ Scrap(v)
  \/ ServerStep \/ PerformVblanks \/ Recheck \/ PrepareAccess \/ LockForAccess

ActivityNext ==
  \/ RendererStep \/ Lock \/ SpuriousWakeup
  \/ SetWindow \/ SetViewport \/ CloseConnection \/ DropSharedState \/ Die

LEMMA NextSplits == Next => ServerNext \/ ActivityNext
  BY DEF Next, ServerNext, ActivityNext

(***************************************************************************)
(* The pending counters.  pend[b] counts the vblanks whose copy uses b and *)
(* is not acknowledged: the ones with a serial, and the one whose entry is *)
(* written and not yet published.                                          *)
(***************************************************************************)
Publishing == srv.at = "publish"

Users(b) ==
  {v \in Vblanks : /\ b \in {Src[v], Dst[v]}
                   /\ copy[v] # 0 \/ (Publishing /\ v \in todo)}

PendCounts ==
  \A b \in Buffers : IsFiniteSet(Users(b)) /\ pend[b] = Cardinality(Users(b))

Walks ==
  /\ Publishing => counter # 0 /\ \E v \in Vblanks : todo = {v} /\ copy[v] = 0
  /\ srv.at \in {"poll", "recheck"} => todo \subseteq Pending

(* The type invariant but for the counters, in two parts. *)
PlaceTypes ==
  /\ entries \in [0..Capacity - 1 -> Entry]
  /\ writeIndex \in 0..Modulus - 1 /\ readIndex \in 0..Modulus - 1
  /\ completedSerial \in Serials /\ counter \in Serials /\ last \in Serials
  /\ lock \in {"free", "server", "renderer"}
  /\ copy \in [Vblanks -> Serials] /\ pend \in [Buffers -> Int]
  /\ srv \in [at : ServerAt, stalled : BOOLEAN]
  /\ acc \in Access /\ todo \in SUBSET Vblanks
  /\ rpc \in RendererAt /\ mode \in {"apply", "first", "draw"}
  /\ inflight \in SUBSET Entry /\ givenUp \in SUBSET Serials
  /\ faults \in 0..MaxFaults

SwitchTypes ==
  /\ surfaceAvailable \in BOOLEAN /\ drawRequested \in BOOLEAN
  /\ waitForNextFrame \in BOOLEAN
  /\ damage \in BOOLEAN /\ alive \in BOOLEAN /\ notice \in BOOLEAN
  /\ window \in BOOLEAN /\ windowChanged \in BOOLEAN /\ stateChanged \in BOOLEAN
  /\ viewportChanged \in BOOLEAN /\ waitingForBuffers \in BOOLEAN /\ fits \in BOOLEAN

Types == PlaceTypes /\ SwitchTypes

LEMMA SrvGoto ==
  ASSUME Types, NEW at \in ServerAt, Goto(at)
  PROVE  srv' \in [at : ServerAt, stalled : BOOLEAN] /\ srv'.at = at
  BY DEF Types, PlaceTypes, SwitchTypes, Goto

LEMMA SignalType == Types /\ Signal => rpc' \in RendererAt
  BY DEF Types, PlaceTypes, SwitchTypes, Signal, RendererAt

LEMMA CellIndex ==
  ASSUME NEW n \in Int PROVE n % Capacity \in 0..Capacity - 1
  BY ModType

LEMMA IndexStep ==
  ASSUME NEW n \in Int PROVE n % Modulus \in 0..Modulus - 1
  BY ModType

LEMMA FaultType == Types /\ Fault => faults' \in 0..MaxFaults
  BY DEF Types, PlaceTypes, SwitchTypes, Fault

LEMMA AckType ==
  ASSUME Types, NEW v, NEW serial \in Serials, Ack(v, serial)
  PROVE  pend' \in [Buffers -> Int] /\ givenUp' \in SUBSET Serials
  BY DEF Types, PlaceTypes, SwitchTypes, Ack, Uses

(* ExecutePending keeps or clears the vblank's serial. *)
LEMMA ExecuteType ==
  ASSUME Types, NEW v \in Vblanks, ExecutePending(v)
  PROVE  /\ copy' \in [Vblanks -> Serials] /\ pend' \in [Buffers -> Int]
         /\ givenUp' \in SUBSET Serials /\ faults' \in 0..MaxFaults
  <1>1. copy[v] \in Serials /\ 0 \in Serials
    BY DEF Types, PlaceTypes, SwitchTypes, Serials
  <1>2. CASE UNCHANGED <<copy, pend, givenUp, faults>>
    BY <1>2 DEF Types, PlaceTypes, SwitchTypes
  <1>3. CASE /\ IF IsDone(copy[v]) \/ Stalled THEN UNCHANGED faults ELSE Fault
             /\ Ack(v, copy[v]) /\ copy' = [copy EXCEPT ![v] = 0]
    <2>1. copy' \in [Vblanks -> Serials]
      BY <1>1, <1>3 DEF Types, PlaceTypes, SwitchTypes
    <2>2. faults' \in 0..MaxFaults
      BY <1>3, FaultType DEF Types, PlaceTypes, SwitchTypes
    <2> QED BY <1>1, <1>3, <2>1, <2>2, AckType
  <1> QED BY <1>2, <1>3 DEF ExecutePending

(* Steps of the server. *)
LEMMA ServerTypes ==
  ASSUME Types, ServerNext
  PROVE  Types'
  <1> USE DEF Types, PlaceTypes, SwitchTypes
  <1>0. {"idle", "publish", "poll", "recheck", "lock", "access"} = ServerAt
    BY DEF ServerAt
  <1>1. ASSUME NEW v \in Vblanks, TryScheduleGpuCopy(v) PROVE Types'
    <2>1. counter' \in Serials
      BY <1>1 DEF TryScheduleGpuCopy, Serials
    <2>2. [serial |-> counter', src |-> Src[v], dst |-> Dst[v]] \in Entry
      BY <2>1 DEF Entry
    <2>3. entries' \in [0..Capacity - 1 -> Entry]
      BY <1>1, <2>2 DEF TryScheduleGpuCopy
    <2>4. pend' \in [Buffers -> Int]
      BY <1>1 DEF TryScheduleGpuCopy, Uses
    <2>5. srv' \in [at : ServerAt, stalled : BOOLEAN]
      BY <1>0, <1>1, SrvGoto DEF TryScheduleGpuCopy
    <2> QED BY <1>1, <2>1, <2>3, <2>4, <2>5 DEF TryScheduleGpuCopy
  <1>2. ASSUME NEW v \in Vblanks, Scrap(v) PROVE Types'
    <2>1. copy[v] \in Serials /\ 0 \in Serials
      BY DEF Serials
    <2>2. copy' \in [Vblanks -> Serials]
      BY <1>2, <2>1 DEF Scrap
    <2>3. pend' \in [Buffers -> Int] /\ givenUp' \in SUBSET Serials
      BY <1>2, <2>1, AckType DEF Scrap
    <2>4. faults' \in 0..MaxFaults
      BY <1>2, FaultType DEF Scrap
    <2> QED BY <1>2, <2>2, <2>3, <2>4 DEF Scrap
  <1>3. CASE PublishGpuCopy
    <2>1. srv' \in [at : ServerAt, stalled : BOOLEAN]
      BY <1>0, <1>3, SrvGoto DEF PublishGpuCopy
    <2>2. writeIndex' \in 0..Modulus - 1
      <3>1. writeIndex + 1 \in Int
        OBVIOUS
      <3> QED BY <1>3, <3>1, IndexStep DEF PublishGpuCopy
    <2>3. rpc' \in RendererAt
      BY <1>3, SignalType DEF PublishGpuCopy
    <2>4. PICK v \in todo :
             /\ (Dst[v] = Root /\ damage' = TRUE) \/ UNCHANGED damage
             /\ \/ /\ copy' = [copy EXCEPT ![v] = counter]
                   /\ UNCHANGED <<pend, givenUp, faults>>
                \/ Fault /\ Ack(v, counter) /\ UNCHANGED copy
      BY <1>3 DEF PublishGpuCopy
    <2>5. /\ copy' \in [Vblanks -> Serials] /\ pend' \in [Buffers -> Int]
          /\ givenUp' \in SUBSET Serials /\ faults' \in 0..MaxFaults
      <3>1. CASE Fault /\ Ack(v, counter) /\ UNCHANGED copy
        BY <3>1, AckType, FaultType
      <3>2. CASE copy' = [copy EXCEPT ![v] = counter] /\ UNCHANGED <<pend, givenUp, faults>>
        BY <3>2
      <3> QED BY <2>4, <3>1, <3>2
    <2>6. damage' \in BOOLEAN
      BY <2>4
    <2>7. todo' = {} /\ UNCHANGED <<entries, readIndex, completedSerial, lock, flags,
                                    counter, activity, acc, notice, ren>>
      BY <1>3 DEF PublishGpuCopy
    <2>8. PlaceTypes'
      BY <2>1, <2>2, <2>3, <2>5, <2>7
    <2>9. SwitchTypes'
      BY <2>6, <2>7
    <2> QED BY <2>8, <2>9
  <1>4. CASE PollOne
    <2>1. PICK v \in todo : ExecutePending(v) /\ todo' = todo \ {v}
      BY <1>4 DEF PollOne
    <2>2. /\ copy' \in [Vblanks -> Serials] /\ pend' \in [Buffers -> Int]
          /\ givenUp' \in SUBSET Serials /\ faults' \in 0..MaxFaults
      BY <2>1, ExecuteType
    <2> QED BY <1>4, <2>1, <2>2 DEF PollOne
  <1>5. CASE Redraw
    <2>1. srv' \in [at : ServerAt, stalled : BOOLEAN]
      BY <1>0, <1>5, SrvGoto DEF Redraw
    <2>2. rpc' \in RendererAt
      BY <1>5, SignalType DEF Redraw
    <2>3. damage' \in BOOLEAN /\ drawRequested' \in BOOLEAN
      BY <1>5 DEF Redraw
    <2>4. /\ waitForNextFrame' = FALSE
          /\ UNCHANGED <<queue, lock, surfaceAvailable, books, activity,
                         acc, todo, notice, ren>>
      BY <1>5 DEF Redraw
    <2>5. PlaceTypes'
      BY <2>1, <2>2, <2>4
    <2>6. SwitchTypes'
      BY <2>3, <2>4
    <2> QED BY <2>5, <2>6
  <1>6. CASE RecheckOne
    <2>1. PICK v \in todo :
             /\ todo' = todo \ {v}
             /\ IF IsDone(copy[v]) \/ srv.stalled THEN ExecutePending(v)
                ELSE UNCHANGED <<copy, pend, givenUp, faults>>
      BY <1>6 DEF RecheckOne
    <2>2. /\ copy' \in [Vblanks -> Serials] /\ pend' \in [Buffers -> Int]
          /\ givenUp' \in SUBSET Serials /\ faults' \in 0..MaxFaults
      BY <2>1, ExecuteType
    <2> QED BY <1>6, <2>1, <2>2 DEF RecheckOne
  <1>7. CASE RecheckEnd
    BY <1>0, <1>7, SrvGoto DEF RecheckEnd
  <1>8. CASE FinishAccess
    <2>1. srv' \in [at : ServerAt, stalled : BOOLEAN]
      BY <1>0, <1>8, SrvGoto DEF FinishAccess
    <2>2. acc' \in Access
      BY <1>8 DEF FinishAccess, NoAccess, Access
    <2>3. damage' \in BOOLEAN
      BY <1>8 DEF FinishAccess
    <2> QED BY <1>8, <2>1, <2>2, <2>3 DEF FinishAccess
  <1>9. CASE ServerReinit
    BY <1>9 DEF ServerReinit
  <1>10. CASE PerformVblanks
    BY <1>0, <1>10, SrvGoto DEF PerformVblanks, Pending
  <1>11. CASE Recheck
    <2>1. srv' \in [at : ServerAt, stalled : BOOLEAN]
      BY <1>0, <1>11 DEF Recheck, Stalled
    <2>2. todo' \in SUBSET Vblanks
      BY <1>11 DEF Recheck, Pending
    <2> QED BY <1>11, <2>1, <2>2 DEF Recheck
  <1>12. CASE PrepareAccess
    <2>1. srv' \in [at : ServerAt, stalled : BOOLEAN]
      BY <1>0, <1>12, SrvGoto DEF PrepareAccess
    <2>2. CpuWork \subseteq Access
      BY DEF CpuWork, Access
    <2> QED BY <1>12, <2>1, <2>2 DEF PrepareAccess
  <1>13. CASE LockForAccess
    BY <1>0, <1>13, SrvGoto DEF LockForAccess
  <1> QED
    BY <1>1, <1>2, <1>3, <1>4, <1>5, <1>6, <1>7, <1>8, <1>9, <1>10, <1>11, <1>12,
       <1>13 DEF ServerNext, ServerStep

(* Steps of the activity's process. *)
LEMMA ActivityTypes ==
  ASSUME Types, ActivityNext
  PROVE  Types'
  <1> USE DEF Types, PlaceTypes, SwitchTypes
  <1>1. CASE Check
    <2>1. rpc' \in RendererAt
      BY <1>1 DEF Check, RendererAt
    <2>2. viewportChanged' \in BOOLEAN /\ waitingForBuffers' \in BOOLEAN
      BY <1>1 DEF Check
    <2> QED BY <1>1, <2>1, <2>2 DEF Check
  <1>2. CASE Sleep \/ SpuriousWakeup
    BY <1>2 DEF Sleep, SpuriousWakeup, RendererAt
  <1>3. CASE Work
    <2>1. surfaceAvailable' \in BOOLEAN /\ drawRequested' \in BOOLEAN /\ notice' \in BOOLEAN
      BY <1>3 DEF Work, RefreshContext
    <2>2. rpc' \in RendererAt
      BY <1>3 DEF Work, RendererAt
    <2>3. /\ windowChanged' = FALSE /\ stateChanged' = FALSE
          /\ UNCHANGED <<queue, lock, waitForNextFrame, server, alive,
                         ren, window, viewportChanged, fits>>
      BY <1>3 DEF Work
    <2>4. PlaceTypes'
      BY <2>2, <2>3
    <2>5. SwitchTypes'
      BY <2>1, <2>3
    <2> QED BY <2>4, <2>5
  <1>4. CASE Choose
    BY <1>4 DEF Choose, RendererAt
  <1>5. CASE RedrawLocked
    BY <1>5 DEF RedrawLocked, RendererAt
  <1>6. CASE Lock
    BY <1>6 DEF Lock, RendererAt, Serials
  <1>7. CASE RendererReinit
    BY <1>7 DEF RendererReinit
  <1>8. CASE Drain
    <2>1. entries[readIndex % Capacity] \in Entry
      <3>1. readIndex \in Int
        OBVIOUS
      <3> QED BY <3>1, CellIndex
    <2>2. last' \in Serials /\ inflight' \in SUBSET Entry
      BY <1>8, <2>1 DEF Drain, Entry
    <2>3. readIndex' \in 0..Modulus - 1
      <3>1. readIndex + 1 \in Int
        OBVIOUS
      <3> QED BY <1>8, <3>1, IndexStep DEF Drain
    <2> QED BY <1>8, <2>2, <2>3 DEF Drain
  <1>9. CASE Drained
    <2>1. rpc' \in RendererAt
      BY <1>9 DEF Drained, RendererAt
    <2> QED BY <1>9, <2>1 DEF Drained
  <1>10. CASE DrawRoot
    <2>1. PlaceTypes'
      BY <1>10 DEF DrawRoot, RendererAt
    <2>2. SwitchTypes'
      BY <1>10 DEF DrawRoot
    <2> QED BY <2>1, <2>2
  <1>11. CASE Fence
    BY <1>11 DEF Fence, RendererAt
  <1>12. CASE Complete
    <2>1. completedSerial' \in Serials /\ notice' \in BOOLEAN /\ waitForNextFrame' \in BOOLEAN
      BY <1>12 DEF Complete
    <2> QED BY <1>12, <2>1 DEF Complete, RendererAt
  <1>13. CASE Unlock
    <2>1. rpc' \in RendererAt
      BY <1>13 DEF Unlock, RendererAt
    <2>2. lock' \in {"free", "server", "renderer"}
      BY <1>13 DEF Unlock
    <2> QED BY <1>13, <2>1, <2>2 DEF Unlock
  <1>14. CASE SetWindow
    <2>1. rpc' \in RendererAt /\ faults' \in 0..MaxFaults
      BY <1>14, SignalType, FaultType DEF SetWindow
    <2>2. PlaceTypes'
      BY <1>14, <2>1 DEF SetWindow
    <2>3. SwitchTypes'
      BY <1>14 DEF SetWindow
    <2> QED BY <2>2, <2>3
  <1>15. CASE SetViewport
    BY <1>15, SignalType DEF SetViewport
  <1>16. CASE CloseConnection
    <2>1. faults' \in 0..MaxFaults
      BY <1>16, FaultType DEF CloseConnection
    <2>2. PlaceTypes'
      BY <1>16, <2>1 DEF CloseConnection
    <2>3. SwitchTypes'
      BY <1>16 DEF CloseConnection
    <2> QED BY <2>2, <2>3
  <1>17. CASE DropSharedState
    BY <1>17, SignalType DEF DropSharedState
  <1>18. CASE Die
    <2>1. faults' \in 0..MaxFaults
      BY <1>18, FaultType DEF Die
    <2>2. rpc' \in RendererAt /\ inflight' \in SUBSET Entry
      BY <1>18 DEF Die, RendererAt
    <2>3. PlaceTypes'
      BY <1>18, <2>1, <2>2 DEF Die
    <2>4. SwitchTypes'
      BY <1>18 DEF Die
    <2> QED BY <2>3, <2>4
  <1> QED
    BY <1>1, <1>2, <1>3, <1>4, <1>5, <1>6, <1>7, <1>8, <1>9, <1>10, <1>11, <1>12,
       <1>13, <1>14, <1>15, <1>16, <1>17, <1>18 DEF ActivityNext, RendererStep

-----------------------------------------------------------------------------
(* Counting: one vblank more, one vblank less, the same vblanks. *)
LEMMA OneMore ==
  ASSUME PendCounts, NEW v \in Vblanks,
         \A b \in Buffers : v \notin Users(b),
         \A b \in Buffers : Users(b)' = IF b \in {Src[v], Dst[v]} THEN Users(b) \union {v}
                                        ELSE Users(b),
         pend' = [b \in Buffers |-> pend[b] + Uses(v, b)]
  PROVE  PendCounts'
  <1> SUFFICES ASSUME NEW b \in Buffers
               PROVE  IsFiniteSet(Users(b)') /\ pend'[b] = Cardinality(Users(b)')
    BY DEF PendCounts
  <1>1. IsFiniteSet(Users(b)) /\ pend[b] = Cardinality(Users(b)) /\ v \notin Users(b)
    BY DEF PendCounts
  <1>2. /\ IsFiniteSet(Users(b) \union {v})
        /\ Cardinality(Users(b) \union {v}) = Cardinality(Users(b)) + 1
    BY <1>1, FS_AddElement
  <1>3. Cardinality(Users(b)) \in Nat
    BY <1>1, FS_CardinalityType
  <1>4. pend'[b] = pend[b] + Uses(v, b)
    OBVIOUS
  <1>5. CASE b \in {Src[v], Dst[v]}
    BY <1>1, <1>2, <1>4, <1>5 DEF Uses
  <1>6. CASE b \notin {Src[v], Dst[v]}
    BY <1>1, <1>3, <1>4, <1>6 DEF Uses
  <1> QED BY <1>5, <1>6

LEMMA OneLess ==
  ASSUME PendCounts, NEW v \in Vblanks,
         \A b \in Buffers : b \in {Src[v], Dst[v]} => v \in Users(b),
         \A b \in Buffers : Users(b)' = IF b \in {Src[v], Dst[v]} THEN Users(b) \ {v}
                                        ELSE Users(b),
         pend' = [b \in Buffers |-> pend[b] - Uses(v, b)]
  PROVE  PendCounts'
  <1> SUFFICES ASSUME NEW b \in Buffers
               PROVE  IsFiniteSet(Users(b)') /\ pend'[b] = Cardinality(Users(b)')
    BY DEF PendCounts
  <1>1. IsFiniteSet(Users(b)) /\ pend[b] = Cardinality(Users(b))
    BY DEF PendCounts
  <1>2. /\ IsFiniteSet(Users(b) \ {v})
        /\ v \in Users(b) => Cardinality(Users(b) \ {v}) = Cardinality(Users(b)) - 1
    BY <1>1, FS_RemoveElement
  <1>3. Cardinality(Users(b)) \in Nat
    BY <1>1, FS_CardinalityType
  <1>4. pend'[b] = pend[b] - Uses(v, b)
    OBVIOUS
  <1>5. CASE b \in {Src[v], Dst[v]}
    BY <1>1, <1>2, <1>4, <1>5 DEF Uses
  <1>6. CASE b \notin {Src[v], Dst[v]}
    BY <1>1, <1>3, <1>4, <1>6 DEF Uses
  <1> QED BY <1>5, <1>6

LEMMA SameCount ==
  ASSUME PendCounts, \A b \in Buffers : Users(b)' = Users(b), UNCHANGED pend
  PROVE  PendCounts'
  BY DEF PendCounts

(* A vblank walked over is pending, so its acknowledgement is its only one. *)
LEMMA ExecuteCounts ==
  ASSUME Types, PendCounts, NEW v \in Vblanks, copy[v] # 0, ExecutePending(v),
         ~Publishing, ~Publishing'
  PROVE  /\ PendCounts'
         /\ \A u \in Vblanks \ {v} : copy'[u] = copy[u]
  <1>1. CASE UNCHANGED <<copy, pend, givenUp, faults>>
    <2>1. \A b \in Buffers : Users(b)' = Users(b)
      BY <1>1 DEF Users
    <2> QED BY <1>1, <2>1, SameCount
  <1>2. CASE Ack(v, copy[v]) /\ copy' = [copy EXCEPT ![v] = 0]
    <2>1. copy'[v] = 0 /\ \A u \in Vblanks \ {v} : copy'[u] = copy[u]
      BY <1>2 DEF Types, PlaceTypes
    <2>2. \A b \in Buffers : Users(b)' = IF b \in {Src[v], Dst[v]} THEN Users(b) \ {v}
                                         ELSE Users(b)
      BY <2>1 DEF Users
    <2>3. \A b \in Buffers : b \in {Src[v], Dst[v]} => v \in Users(b)
      BY DEF Users
    <2>4. pend' = [b \in Buffers |-> pend[b] - Uses(v, b)]
      BY <1>2 DEF Ack
    <2> QED BY <2>1, <2>2, <2>3, <2>4, OneLess
  <1> QED BY <1>1, <1>2 DEF ExecutePending

CountInv == PendCounts /\ Walks

LEMMA Counting ==
  ASSUME Types, CountInv, [Next]_vars
  PROVE  CountInv'
  <1> USE DEF CountInv
  <1>0. \A at \in ServerAt : Goto(at) => srv'.at = at
    BY SrvGoto
  <1>1. ASSUME NEW v \in Vblanks, TryScheduleGpuCopy(v) PROVE CountInv'
    <2>1. /\ srv.at = "idle" /\ srv'.at = "publish" /\ copy[v] = 0 /\ todo' = {v}
          /\ copy' = copy
      BY <1>0, <1>1 DEF TryScheduleGpuCopy, Idle, ServerAt
    <2>2. /\ \A b \in Buffers : v \notin Users(b)
          /\ \A b \in Buffers : Users(b)' = IF b \in {Src[v], Dst[v]}
                                            THEN Users(b) \union {v} ELSE Users(b)
      BY <2>1 DEF Users, Publishing
    <2>3. PendCounts'
      BY <1>1, <2>2, OneMore DEF TryScheduleGpuCopy
    <2>4. counter' # 0
      BY <1>1 DEF TryScheduleGpuCopy, Types, PlaceTypes, Serials
    <2> QED BY <2>1, <2>3, <2>4 DEF Walks, Publishing
  <1>2. CASE PublishGpuCopy
    <2>1. srv.at = "publish" /\ srv'.at = "idle"
      BY <1>0, <1>2 DEF PublishGpuCopy, ServerAt
    <2>2. PICK v \in Vblanks : todo = {v} /\ copy[v] = 0
      BY <2>1 DEF Walks, Publishing
    <2>3. counter # 0
      BY <2>1 DEF Walks, Publishing
    <2>4. CASE copy' = [copy EXCEPT ![v] = counter] /\ UNCHANGED pend
      <3>1. copy'[v] # 0 /\ \A u \in Vblanks \ {v} : copy'[u] = copy[u]
        BY <2>3, <2>4 DEF Types, PlaceTypes
      <3>2. \A b \in Buffers : Users(b)' = Users(b)
        BY <2>1, <2>2, <3>1 DEF Users, Publishing
      <3> QED BY <2>1, <2>4, <3>2, SameCount DEF Walks, Publishing
    <2>5. CASE Ack(v, counter) /\ UNCHANGED copy
      <3>1. \A b \in Buffers : Users(b)' = IF b \in {Src[v], Dst[v]} THEN Users(b) \ {v}
                                           ELSE Users(b)
        BY <2>1, <2>2, <2>5 DEF Users, Publishing
      <3>2. \A b \in Buffers : b \in {Src[v], Dst[v]} => v \in Users(b)
        BY <2>1, <2>2 DEF Users, Publishing
      <3>3. PendCounts'
        BY <2>5, <3>1, <3>2, OneLess DEF Ack
      <3> QED BY <2>1, <3>3 DEF Walks, Publishing
    <2> QED BY <1>2, <2>2, <2>4, <2>5 DEF PublishGpuCopy
  <1>3. ASSUME NEW v \in Vblanks, Scrap(v) PROVE CountInv'
    <2>1. srv.at = "idle" /\ UNCHANGED srv /\ copy[v] # 0
      BY <1>3 DEF Scrap, Idle
    <2>2. copy'[v] = 0 /\ \A u \in Vblanks \ {v} : copy'[u] = copy[u]
      BY <1>3 DEF Scrap, Types, PlaceTypes
    <2>3. \A b \in Buffers : Users(b)' = IF b \in {Src[v], Dst[v]} THEN Users(b) \ {v}
                                         ELSE Users(b)
      BY <2>1, <2>2 DEF Users, Publishing
    <2>4. \A b \in Buffers : b \in {Src[v], Dst[v]} => v \in Users(b)
      BY <2>1 DEF Users
    <2>5. PendCounts'
      BY <1>3, <2>3, <2>4, OneLess DEF Scrap, Ack
    <2> QED BY <2>1, <2>5 DEF Walks, Publishing
  <1>4. ASSUME NEW v \in todo, srv.at \in {"poll", "recheck"}, UNCHANGED srv,
               \/ ExecutePending(v)
               \/ UNCHANGED <<copy, pend, givenUp, faults>>,
               todo' = todo \ {v}
        PROVE  CountInv'
    <2>1. v \in Vblanks /\ copy[v] # 0 /\ todo \subseteq Pending
      BY <1>4 DEF Walks, Pending
    <2>2. ~Publishing /\ ~Publishing'
      BY <1>4 DEF Publishing
    <2>3. PendCounts' /\ \A u \in Vblanks \ {v} : copy'[u] = copy[u]
      <3>1. CASE ExecutePending(v)
        BY <2>1, <2>2, <3>1, ExecuteCounts
      <3>2. CASE UNCHANGED <<copy, pend, givenUp, faults>>
        <4>1. \A b \in Buffers : Users(b)' = Users(b)
          BY <2>2, <3>2 DEF Users
        <4> QED BY <3>2, <4>1, SameCount
      <3> QED BY <1>4, <3>1, <3>2
    <2>4. todo' \subseteq Pending'
      BY <1>4, <2>1, <2>3 DEF Pending
    <2> QED BY <2>2, <2>3, <2>4 DEF Walks
  <1>5. CASE PollOne
    BY <1>4, <1>5 DEF PollOne
  <1>6. CASE RecheckOne
    BY <1>4, <1>6 DEF RecheckOne
  <1>7. CASE PerformVblanks \/ Recheck
    <2>1. /\ srv.at = "idle" /\ srv'.at \in {"poll", "recheck"} /\ todo' = Pending
          /\ UNCHANGED <<copy, pend>>
      BY <1>0, <1>7 DEF PerformVblanks, Recheck, Idle, ServerAt
    <2>2. \A b \in Buffers : Users(b)' = Users(b)
      BY <2>1 DEF Users, Publishing
    <2>3. Pending' = Pending
      BY <2>1 DEF Pending
    <2> QED BY <2>1, <2>2, <2>3, SameCount DEF Walks, Publishing
  <1>8. ASSUME srv.at # "publish", srv'.at \notin {"publish", "poll", "recheck"},
               UNCHANGED <<copy, pend>>
        PROVE  CountInv'
    <2>1. \A b \in Buffers : Users(b)' = Users(b)
      BY <1>8 DEF Users, Publishing
    <2> QED BY <1>8, <2>1, SameCount DEF Walks, Publishing
  <1>9. CASE Redraw \/ RecheckEnd \/ FinishAccess \/ PrepareAccess \/ LockForAccess
    BY <1>0, <1>8, <1>9
    DEF Redraw, RecheckEnd, FinishAccess, PrepareAccess, LockForAccess, Idle, ServerAt
  <1>10. ASSUME UNCHANGED <<srv, todo, copy, pend, counter>> PROVE CountInv'
    <2>1. Pending' = Pending
      BY <1>10 DEF Pending
    <2>2. \A b \in Buffers : Users(b)' = Users(b)
      BY <1>10 DEF Users, Publishing
    <2> QED BY <1>10, <2>1, <2>2, SameCount DEF Walks, Publishing
  <1>11. CASE ServerReinit \/ RendererStep \/ Lock \/ SpuriousWakeup
    BY <1>10, <1>11
    DEF ServerReinit, RendererStep, Lock, SpuriousWakeup, Check, Sleep, Work, Choose,
        RedrawLocked, RendererReinit, Drain, Drained, DrawRoot, Fence, Complete, Unlock
  <1>12. CASE SetWindow \/ SetViewport \/ CloseConnection \/ DropSharedState \/ Die
    BY <1>10, <1>12
    DEF SetWindow, SetViewport, CloseConnection, DropSharedState, Die
  <1>13. CASE UNCHANGED vars
    BY <1>10, <1>13 DEF vars
  <1> QED
    BY <1>1, <1>2, <1>3, <1>5, <1>6, <1>7, <1>9, <1>11, <1>12, <1>13
    DEF Next, ServerStep

(* The counters of both kinds: pend[b] is decremented on every way a vblank *)
(* can end, once for each vblank, and so counts the unacknowledged ones.    *)
THEOREM CountInvariant == Spec => [](Types /\ CountInv)
<1>1. Init => Types /\ CountInv
  <2> SUFFICES ASSUME Init PROVE Types /\ CountInv
    OBVIOUS
  <2>1. 0 \in Serials /\ 0 \in 0..Modulus - 1
    BY DEF Serials
  <2>2. [serial |-> 0, src |-> Root, dst |-> Root] \in Entry
    BY <2>1 DEF Entry
  <2>3. entries \in [0..Capacity - 1 -> Entry]
    BY <2>2 DEF Init
  <2>4. srv \in [at : ServerAt, stalled : BOOLEAN] /\ srv.at = "idle" /\ acc \in Access
    BY DEF Init, ServerAt, Access, NoAccess
  <2>5. PlaceTypes
    BY <2>1, <2>3, <2>4 DEF Init, PlaceTypes, RendererAt
  <2>6. SwitchTypes
    BY Zenon DEF Init, SwitchTypes
  <2>7. \A b \in Buffers : Users(b) = {} /\ pend[b] = 0
    BY <2>4 DEF Init, Users, Publishing
  <2>8. IsFiniteSet({}) /\ Cardinality({}) = 0
    BY FS_EmptySet
  <2>9. CountInv
    BY <2>4, <2>7, <2>8 DEF CountInv, PendCounts, Walks, Publishing
  <2> QED BY <2>5, <2>6, <2>9 DEF Types
<1>2. Types /\ CountInv /\ [Next]_vars => Types' /\ CountInv'
  <2>1. Types /\ UNCHANGED vars => Types'
    BY DEF vars, Types, PlaceTypes, SwitchTypes
  <2> QED BY <2>1, Counting, ServerTypes, ActivityTypes, NextSplits
<1>3. QED BY <1>1, <1>2, PTL DEF Spec

(* Every variable keeps its type.  The counters stay natural numbers only   *)
(* because no vblank is acknowledged twice.                                 *)
THEOREM TypeCorrect == Spec => []TypeOK
<1>1. Types /\ CountInv => TypeOK
  <2> SUFFICES ASSUME Types, CountInv PROVE TypeOK
    OBVIOUS
  <2>1. \A b \in Buffers : pend[b] \in Nat
    BY FS_CardinalityType DEF CountInv, PendCounts
  <2>2. pend \in [Buffers -> Nat]
    BY <2>1 DEF Types, PlaceTypes
  <2> QED BY <2>2 DEF Types, PlaceTypes, SwitchTypes, TypeOK
<1>2. QED BY <1>1, CountInvariant, PTL

-----------------------------------------------------------------------------
(***************************************************************************)
(* The ring.  Serials count the copies without a limit, so the wrapped     *)
(* indices are read off them: Published copies have been put in, Taken     *)
(* have been taken out, and the cells between hold the serials in order.   *)
(***************************************************************************)
Length    == (writeIndex - readIndex) % Modulus
Published == IF Publishing THEN counter - 1 ELSE counter
Taken     == Published - Length
Cell(k)   == entries[(k - 1) % Capacity]

RingInv ==
  /\ Taken \in Nat /\ Taken <= Published /\ counter <= Taken + Capacity
  /\ writeIndex = Published % Modulus
  /\ readIndex = Taken % Modulus
  /\ \A k \in Taken + 1 .. counter : Cell(k).serial = k

(* As long as the ring holds no more than its capacity, the wrapped         *)
(* difference of the indices is the number of entries.                      *)
LEMMA WrappedLength ==
  ASSUME NEW n \in Nat, NEW m \in Nat, n <= m, m <= n + Capacity
  PROVE  ((m % Modulus) - (n % Modulus)) % Modulus = m - n
  <1>1. ((m % Modulus) - (n % Modulus)) % Modulus = (m - n) % Modulus
    <2>1. n \in Int /\ m \in Int
      OBVIOUS
    <2> QED BY <2>1, ModSub, Zenon
  <1>2. m - n \in 0 .. Modulus - 1
    OBVIOUS
  <1>3. (m - n) % Modulus = m - n
    BY <1>2, ModSmall
  <1> QED BY <1>1, <1>3

(* Wrapping keeps the cell. *)
LEMMA WrappedCell ==
  ASSUME NEW n \in Int
  PROVE  (n % Modulus) % Capacity = n % Capacity
  BY ModMod

LEMMA WrappedNext ==
  ASSUME NEW n \in Int
  PROVE  ((n % Modulus) + 1) % Modulus = (n + 1) % Modulus
  <1>1. 1 \in Int
    OBVIOUS
  <1> QED BY <1>1, ModAdd, Zenon

(* Two of the newest copies never share a cell. *)
LEMMA CellsDiffer ==
  ASSUME NEW j \in Int, NEW k \in Int, j # k, j < k + Capacity, k < j + Capacity
  PROVE  (j - 1) % Capacity # (k - 1) % Capacity
  <1>1. j - 1 \in Int /\ k - 1 \in Int /\ (j - 1) - (k - 1) = j - k
    OBVIOUS
  <1>2. -Capacity < j - k /\ j - k < Capacity
    OBVIOUS
  <1>3. j - 1 # k - 1
    OBVIOUS
  <1> QED BY <1>1, <1>2, <1>3, ModDistinct

SameRing == UNCHANGED <<entries, writeIndex, readIndex, counter, Publishing>>

(* Only three steps touch the ring. *)
LEMMA ServerRing ==
  ASSUME Types, ServerNext
  PROVE  \/ \E v \in Vblanks : TryScheduleGpuCopy(v)
         \/ PublishGpuCopy
         \/ SameRing
  <1> USE DEF SameRing, Publishing
  <1>0. \A at \in ServerAt : Goto(at) => srv'.at = at
    BY SrvGoto
  <1>1. ASSUME NEW v \in Vblanks, Scrap(v) PROVE SameRing
    BY <1>1 DEF Scrap
  <1>2. CASE PollOne \/ RecheckOne \/ ServerReinit
    BY <1>2 DEF PollOne, RecheckOne, ServerReinit
  <1>3. CASE Redraw \/ RecheckEnd \/ FinishAccess \/ PrepareAccess \/ LockForAccess
             \/ PerformVblanks
    BY <1>0, <1>3
    DEF Redraw, RecheckEnd, FinishAccess, PrepareAccess, LockForAccess, PerformVblanks,
        Idle, ServerAt
  <1>4. CASE Recheck
    BY <1>4 DEF Recheck, Idle
  <1> QED BY <1>1, <1>2, <1>3, <1>4 DEF ServerNext, ServerStep

LEMMA ActivityRing ==
  ASSUME ActivityNext PROVE Drain \/ SameRing
  <1> USE DEF SameRing, Publishing
  <1>1. CASE (RendererStep /\ ~Drain) \/ Lock \/ SpuriousWakeup
    BY <1>1
    DEF RendererStep, Lock, SpuriousWakeup, Check, Sleep, Work, Choose,
        RedrawLocked, RendererReinit, Drained, DrawRoot, Fence, Complete, Unlock
  <1>2. CASE SetWindow \/ SetViewport \/ CloseConnection \/ DropSharedState \/ Die
    BY <1>2
    DEF SetWindow, SetViewport, CloseConnection, DropSharedState, Die
  <1> QED BY <1>1, <1>2 DEF ActivityNext

LEMMA RingSteps ==
  ASSUME Types, [Next]_vars
  PROVE  \/ \E v \in Vblanks : TryScheduleGpuCopy(v)
         \/ PublishGpuCopy
         \/ Drain
         \/ SameRing
  <1>1. UNCHANGED vars => SameRing
    BY DEF vars, SameRing, Publishing
  <1> QED BY <1>1, NextSplits, ServerRing, ActivityRing

LEMMA SameTaken ==
  ASSUME SameRing
  PROVE  /\ Taken' = Taken /\ Published' = Published
         /\ \A k : Cell(k)' = Cell(k)
  BY DEF SameRing, Taken, Published, Length, Cell

(* A new entry is written behind the published ones, over none of them. *)
LEMMA ScheduleRing ==
  ASSUME Types, RingInv, NEW v \in Vblanks, TryScheduleGpuCopy(v)
  PROVE  /\ RingInv'
         /\ Taken' = Taken /\ counter' = counter + 1
         /\ \A n \in Nat : n = counter + 1 =>
              Cell(n)' = [serial |-> n, src |-> Src[v], dst |-> Dst[v]]
         /\ \A k \in Taken + 1 .. counter : Cell(k)' = Cell(k)
  <1>1. srv.at = "idle" /\ srv'.at = "publish"
    BY SrvGoto DEF TryScheduleGpuCopy, Idle, ServerAt
  <1>2. counter' = counter + 1 /\ counter \in Nat /\ UNCHANGED <<writeIndex, readIndex>>
    BY DEF TryScheduleGpuCopy, Types, PlaceTypes, Serials
  <1>3. Published = counter /\ Published' = counter
    BY <1>1, <1>2 DEF Published, Publishing
  <1>4. Taken' = Taken
    BY <1>2, <1>3 DEF Taken, Length
  <1>5. Length < Capacity /\ Length \in Nat
    <2>1. Length \in 0 .. Modulus - 1
      <3>1. writeIndex - readIndex \in Int
        BY DEF Types, PlaceTypes
      <3> QED BY <3>1, ModType DEF Length
    <2>2. ~(Length >= Capacity)
      BY DEF TryScheduleGpuCopy, Full, Length
    <2> QED BY <2>1, <2>2
  <1>6. counter' <= Taken + Capacity
    BY <1>2, <1>3, <1>5 DEF Taken
  <1>7. writeIndex % Capacity = (counter' - 1) % Capacity
    <2>1. writeIndex = counter % Modulus
      BY <1>3 DEF RingInv
    <2>2. writeIndex % Capacity = counter % Capacity
      <3>1. counter \in Int
        BY <1>2
      <3> QED BY <2>1, <3>1, WrappedCell, Zenon
    <2> QED BY <1>2, <2>2
  <1>8. entries' = [entries EXCEPT ![(counter' - 1) % Capacity] =
                      [serial |-> counter', src |-> Src[v], dst |-> Dst[v]]]
    BY <1>7 DEF TryScheduleGpuCopy
  <1>9. PICK n \in Nat : n = counter'
    BY <1>2
  <1>10. (n - 1) % Capacity \in 0 .. Capacity - 1
    <2>1. n - 1 \in Int
      OBVIOUS
    <2> QED BY <2>1, CellIndex
  <1>11. entries'[(n - 1) % Capacity] = [serial |-> n, src |-> Src[v], dst |-> Dst[v]]
    BY <1>8, <1>9, <1>10 DEF Types, PlaceTypes
  <1>12. ASSUME NEW k \in Taken + 1 .. counter
         PROVE  entries'[(k - 1) % Capacity] = entries[(k - 1) % Capacity]
    <2>1. Taken \in Nat
      BY DEF RingInv
    <2>2. k \in Int /\ n \in Int /\ k # n /\ k < n + Capacity /\ n < k + Capacity
      BY <1>2, <1>6, <1>9, <2>1
    <2>3. (k - 1) % Capacity # (n - 1) % Capacity
      BY <2>2, CellsDiffer, Zenon
    <2>4. (k - 1) % Capacity \in 0 .. Capacity - 1
      <3>1. k - 1 \in Int
        BY <2>2
      <3> QED BY <3>1, CellIndex
    <2> QED BY <1>8, <1>9, <2>3, <2>4 DEF Types, PlaceTypes
  <1>13. \A k \in Taken + 1 .. counter : Cell(k)' = Cell(k)
    BY <1>12 DEF Cell
  <1>14. Cell(n)' = [serial |-> n, src |-> Src[v], dst |-> Dst[v]]
    BY <1>11 DEF Cell
  <1>15. \A k \in Taken' + 1 .. counter' : Cell(k)'.serial = k
    <2> TAKE k \in Taken' + 1 .. counter'
    <2>1. CASE k = n
      BY <1>14, <2>1
    <2>2. CASE k # n
      <3>1. k \in Taken + 1 .. counter
        BY <1>2, <1>4, <1>9, <2>2 DEF RingInv
      <3> QED BY <1>13, <3>1 DEF RingInv
    <2> QED BY <2>1, <2>2
  <1>16. RingInv'
    <2>1. /\ Taken' \in Nat /\ Taken' <= Published' /\ counter' <= Taken' + Capacity
          /\ writeIndex' = Published' % Modulus
          /\ readIndex' = Taken' % Modulus
      BY <1>2, <1>3, <1>4, <1>6 DEF RingInv
    <2> QED BY <1>15, <2>1 DEF RingInv
  <1> QED BY <1>2, <1>4, <1>9, <1>13, <1>14, <1>16

(* The written entry becomes visible: writeIndex catches up with it. *)
LEMMA PublishRing ==
  ASSUME Types, CountInv, RingInv, PublishGpuCopy
  PROVE  /\ RingInv'
         /\ Taken' = Taken /\ counter' = counter /\ entries' = entries
  <1>1. srv.at = "publish" /\ srv'.at = "idle"
    BY SrvGoto DEF PublishGpuCopy, ServerAt
  <1>2. counter \in Nat \ {0} /\ counter' = counter /\ entries' = entries
        /\ readIndex' = readIndex /\ writeIndex' = (writeIndex + 1) % Modulus
    BY <1>1 DEF PublishGpuCopy, CountInv, Walks, Publishing, Types, PlaceTypes, Serials
  <1>3. Published = counter - 1 /\ Published' = counter
    BY <1>1, <1>2 DEF Published, Publishing
  <1>4. PICK m \in Nat, n \in Nat : m = counter - 1 /\ n = Taken
    BY <1>2 DEF RingInv
  <1>5. n <= m + 1 /\ m + 1 <= n + Capacity /\ m + 1 \in Nat
    BY <1>2, <1>3, <1>4 DEF RingInv
  <1>6. writeIndex = m % Modulus /\ readIndex = n % Modulus
    BY <1>3, <1>4 DEF RingInv
  <1>7. writeIndex' = (m + 1) % Modulus
    <2>1. ((m % Modulus) + 1) % Modulus = (m + 1) % Modulus
      BY WrappedNext
    <2> QED BY <1>2, <1>6, <2>1
  <1>8. (((m + 1) % Modulus) - (n % Modulus)) % Modulus = (m + 1) - n
    BY <1>5, WrappedLength
  <1>9. Length' = (m + 1) - n
    <2>1. Length' = (writeIndex' - readIndex') % Modulus
      BY DEF Length
    <2> QED BY <1>2, <1>6, <1>7, <1>8, <2>1, Zenon
  <1>10. Taken' = n
    BY <1>2, <1>3, <1>4, <1>9 DEF Taken
  <1>11. m + 1 = counter
    BY <1>2, <1>4
  <1>12. /\ Taken' \in Nat /\ Taken' <= Published' /\ counter' <= Taken' + Capacity
         /\ writeIndex' = Published' % Modulus
         /\ readIndex' = Taken' % Modulus
    BY <1>2, <1>3, <1>5, <1>6, <1>7, <1>10, <1>11
  <1>13. \A k \in Taken' + 1 .. counter' : Cell(k)'.serial = k
    BY <1>2, <1>4, <1>10 DEF RingInv, Cell
  <1> QED BY <1>2, <1>4, <1>10, <1>12, <1>13 DEF RingInv

(* The entry that is drained is the oldest one, by its serial. *)
LEMMA DrainRing ==
  ASSUME Types, RingInv, Drain
  PROVE  /\ RingInv'
         /\ Taken' = Taken + 1 /\ Taken' \in Taken + 1 .. counter
         /\ counter' = counter /\ entries' = entries
         /\ entries[readIndex % Capacity] = Cell(Taken + 1)
         /\ entries[readIndex % Capacity].serial = Taken + 1
  <1>1. UNCHANGED <<srv, entries, writeIndex, counter>>
        /\ readIndex' = (readIndex + 1) % Modulus /\ counter \in Nat
    BY DEF Drain, Types, PlaceTypes, Serials
  <1>2. Published' = Published
    BY <1>1 DEF Published, Publishing
  <1>3. PICK m \in Nat, n \in Nat : m = Published /\ n = Taken
    <2>1. Published \in Int
      BY <1>1 DEF Published
    <2> QED BY <2>1 DEF RingInv
  <1>4. writeIndex = m % Modulus /\ readIndex = n % Modulus
    BY <1>3 DEF RingInv
  <1>5. n < m
    <2>1. n <= m
      BY <1>3 DEF RingInv
    <2>2. n # m
      BY <1>4 DEF Drain, Waiting
    <2> QED BY <2>1, <2>2
  <1>6. m <= n + Capacity /\ m <= counter
    BY <1>1, <1>3 DEF RingInv, Published
  <1>7. n + 1 \in Nat /\ n + 1 <= m /\ m <= (n + 1) + Capacity
    BY <1>5, <1>6
  <1>8. readIndex' = (n + 1) % Modulus
    <2>1. ((n % Modulus) + 1) % Modulus = (n + 1) % Modulus
      BY WrappedNext
    <2> QED BY <1>1, <1>4, <2>1
  <1>9. ((m % Modulus) - ((n + 1) % Modulus)) % Modulus = m - (n + 1)
    BY <1>7, WrappedLength
  <1>10. Length' = m - (n + 1)
    <2>1. Length' = (writeIndex' - readIndex') % Modulus
      BY DEF Length
    <2> QED BY <1>1, <1>4, <1>8, <1>9, <2>1, Zenon
  <1>11. Taken' = n + 1
    BY <1>2, <1>3, <1>10 DEF Taken
  <1>12. n + 1 \in n + 1 .. counter
    BY <1>1, <1>6, <1>7
  <1>13. entries[readIndex % Capacity] = Cell(n + 1)
    <2>1. (n % Modulus) % Capacity = n % Capacity
      <3>1. n \in Int
        OBVIOUS
      <3> QED BY <3>1, WrappedCell, Zenon
    <2>2. (n + 1) - 1 = n
      OBVIOUS
    <2> QED BY <1>4, <2>1, <2>2 DEF Cell
  <1>14. Cell(n + 1).serial = n + 1
    BY <1>3, <1>12 DEF RingInv
  <1>15. /\ Taken' \in Nat /\ Taken' <= Published' /\ counter' <= Taken' + Capacity
         /\ writeIndex' = Published' % Modulus
         /\ readIndex' = Taken' % Modulus
    <2>1. counter <= n + Capacity
      BY <1>3 DEF RingInv
    <2> QED BY <1>1, <1>2, <1>3, <1>4, <1>7, <1>8, <1>11, <2>1
  <1>16. \A k \in Taken' + 1 .. counter' : Cell(k)'.serial = k
    <2> TAKE k \in Taken' + 1 .. counter'
    <2>1. k \in n + 1 .. counter
      BY <1>1, <1>11
    <2> QED BY <1>1, <1>3, <2>1 DEF RingInv, Cell
  <1> QED BY <1>1, <1>3, <1>11, <1>12, <1>13, <1>14, <1>15, <1>16 DEF RingInv

LEMMA SameRingInv ==
  ASSUME RingInv, SameRing PROVE RingInv'
  <1>1. counter' = counter /\ writeIndex' = writeIndex /\ readIndex' = readIndex
    BY DEF SameRing
  <1> QED BY <1>1, SameTaken DEF RingInv

(* The ring, for every capacity and every width of the indices.             *)
THEOREM RingInvariant == Spec => []RingInv
<1>1. Init => RingInv
  <2> SUFFICES ASSUME Init PROVE RingInv
    OBVIOUS
  <2>1. (0 - 0) % Modulus = 0 /\ 0 % Modulus = 0
    OBVIOUS
  <2>2. Published = 0 /\ Length = 0 /\ counter = 0 /\ writeIndex = 0 /\ readIndex = 0
    BY <2>1 DEF Init, Published, Publishing, Length
  <2>3. Taken = 0
    BY <2>2 DEF Taken
  <2> QED BY <2>1, <2>2, <2>3 DEF RingInv
<1>2. Types /\ CountInv /\ RingInv /\ [Next]_vars => RingInv'
  BY RingSteps, ScheduleRing, PublishRing, DrainRing, SameRingInv
<1>3. QED BY <1>1, <1>2, CountInvariant, PTL DEF Spec

(* The copies in the ring, by their serials. *)
LEMMA QueuedCells ==
  ASSUME Types, RingInv
  PROVE  Queued = {Cell(k) : k \in Taken + 1 .. Published}
  <1>1. Published \in Int /\ counter \in Nat
    BY DEF Published, Types, PlaceTypes, Serials
  <1>2. PICK m \in Int, n \in Nat : m = Published /\ n = Taken
    BY <1>1 DEF RingInv
  <1>3. (writeIndex - readIndex) % Modulus = m - n
    <2>1. writeIndex - readIndex \in Int
      BY DEF Types, PlaceTypes
    <2>2. Length \in Int
      BY <2>1, ModType DEF Length
    <2> QED BY <1>2, <2>2 DEF Taken, Length
  <1>4. ASSUME NEW i \in 0 .. (m - n) - 1
        PROVE  entries[((readIndex + i) % Modulus) % Capacity] = Cell(n + 1 + i)
    <2>1. readIndex = n % Modulus
      BY <1>2 DEF RingInv
    <2>2. i \in Int /\ n + i \in Int /\ (n + 1 + i) - 1 = n + i
      OBVIOUS
    <2>3. ((n % Modulus) + i) % Modulus = (n + i) % Modulus
      <3>1. n \in Int
        OBVIOUS
      <3> QED BY <2>2, <3>1, ModAdd, Zenon
    <2>4. ((n + i) % Modulus) % Capacity = (n + i) % Capacity
      BY <2>2, WrappedCell, Zenon
    <2> QED BY <2>1, <2>2, <2>3, <2>4 DEF Cell
  <1>5. Queued = {entries[((readIndex + i) % Modulus) % Capacity] : i \in 0 .. (m - n) - 1}
    BY <1>3 DEF Queued
  <1>6. ASSUME NEW e \in Queued PROVE e \in {Cell(k) : k \in n + 1 .. m}
    <2>1. PICK i \in 0 .. (m - n) - 1 :
             e = entries[((readIndex + i) % Modulus) % Capacity]
      BY <1>5, <1>6
    <2>2. n + 1 + i \in n + 1 .. m
      OBVIOUS
    <2> QED BY <1>4, <2>1, <2>2
  <1>7. ASSUME NEW k \in n + 1 .. m PROVE Cell(k) \in Queued
    <2>1. k - (n + 1) \in 0 .. (m - n) - 1 /\ n + 1 + (k - (n + 1)) = k
      OBVIOUS
    <2>2. entries[((readIndex + (k - (n + 1))) % Modulus) % Capacity] = Cell(k)
      BY <1>4, <2>1
    <2> QED BY <1>5, <2>1, <2>2
  <1> QED BY <1>2, <1>6, <1>7

(* The copies between readIndex and writeIndex are the newest ones, one     *)
(* entry for each serial, through every wrap-around of the indices.         *)
THEOREM QueueIntactAlways == Spec => []QueueIntact
<1>1. Types /\ RingInv => QueueIntact
  <2> SUFFICES ASSUME Types, RingInv PROVE QueueIntact
    OBVIOUS
  <2>1. Published \in Int /\ counter \in Nat /\ Published <= counter
    BY DEF Published, Types, PlaceTypes, Serials
  <2>2. PICK m \in Int, n \in Nat : m = Published /\ n = Taken
    BY <2>1 DEF RingInv
  <2>3. m - ((writeIndex - readIndex) % Modulus) = n
    BY <2>2 DEF Taken, Length
  <2>4. Queued = {Cell(k) : k \in n + 1 .. m}
    BY <2>2, QueuedCells
  <2>5. \A k \in n + 1 .. m : Cell(k).serial = k
    <3> TAKE k \in n + 1 .. m
    <3>1. k \in Taken + 1 .. counter
      BY <2>1, <2>2
    <3> QED BY <3>1 DEF RingInv
  <2>6. {e.serial : e \in Queued} = n + 1 .. m
    BY <2>4, <2>5
  <2>7. m = IF srv.at = "publish" THEN counter - 1 ELSE counter
    BY <2>2 DEF Published, Publishing
  <2> QED BY <2>3, <2>6, <2>7 DEF QueueIntact
<1>2. QED BY <1>1, RingInvariant, CountInvariant, PTL

-----------------------------------------------------------------------------
(***************************************************************************)
(* The renderer.  While copies are submitted and not known finished, it is *)
(* between the lock and the fence, remembers a serial, and that serial is  *)
(* the one of the copy it took last.                                       *)
(***************************************************************************)
Holding == {"drain", "drained", "fence"}

DrainInv ==
  /\ completedSerial <= Taken
  /\ inflight # {} => rpc \in Holding /\ last # 0
  /\ \A e \in inflight : completedSerial < e.serial /\ e.serial <= Taken
  /\ rpc \in Holding \union {"done"} => last = 0 \/ last = Taken

SameDrain == UNCHANGED <<completedSerial, inflight, last>>

(* A step that neither starts nor ends a drain. *)
LEMMA SameDrainInv ==
  ASSUME DrainInv, SameDrain, Taken' = Taken,
         rpc' = rpc \/ (rpc \notin Holding /\ rpc' \notin Holding \union {"done"})
  PROVE  DrainInv'
  BY DEF DrainInv, SameDrain, Holding

(* The server's steps at most wake a renderer that sleeps. *)
LEMMA ServerDrain ==
  ASSUME ServerNext
  PROVE  /\ SameDrain
         /\ rpc' = rpc \/ (rpc = "waiting" /\ rpc' = "check")
         /\ UNCHANGED <<alive, mode>>
  <1> USE DEF SameDrain, Signal
  <1>1. ASSUME NEW v \in Vblanks, TryScheduleGpuCopy(v) \/ Scrap(v)
        PROVE  SameDrain /\ rpc' = rpc /\ UNCHANGED <<alive, mode>>
    BY <1>1 DEF TryScheduleGpuCopy, Scrap
  <1>2. CASE PublishGpuCopy
    BY <1>2 DEF PublishGpuCopy
  <1>3. CASE Redraw
    BY <1>3 DEF Redraw
  <1>4. CASE PollOne \/ RecheckOne \/ RecheckEnd \/ FinishAccess \/ ServerReinit
    BY <1>4 DEF PollOne, RecheckOne, RecheckEnd, FinishAccess, ServerReinit
  <1>5. CASE PerformVblanks \/ Recheck \/ PrepareAccess \/ LockForAccess
    BY <1>5 DEF PerformVblanks, Recheck, PrepareAccess, LockForAccess
  <1> QED BY <1>1, <1>2, <1>3, <1>4, <1>5 DEF ServerNext, ServerStep

LEMMA ServerTaken ==
  ASSUME Types, CountInv, RingInv, ServerNext
  PROVE  Taken' = Taken
  BY ServerRing, ScheduleRing, PublishRing, SameTaken

LEMMA DrainStep ==
  ASSUME Types, CountInv, RingInv, DrainInv, [Next]_vars
  PROVE  DrainInv'
  <1>1. Taken \in Nat /\ completedSerial \in Nat /\ last \in Nat
    BY DEF RingInv, Types, PlaceTypes, Serials
  <1>2. CASE ServerNext
    BY <1>2, ServerTaken, ServerDrain, SameDrainInv DEF Holding
  <1>3. CASE Drain
    <2>1. PICK n \in Nat : n = Taken
      BY <1>1
    <2>2. Taken' = n + 1 /\ entries[readIndex % Capacity].serial = n + 1
      BY <1>3, <2>1, DrainRing
    <2>3. /\ last' = n + 1 /\ rpc = "drain" /\ rpc' = "drain"
          /\ completedSerial' = completedSerial
          /\ \A e \in inflight' : e \in inflight \/ e.serial = n + 1
      BY <1>3, <2>2 DEF Drain, At
    <2>4. completedSerial <= n /\ \A e \in inflight : completedSerial < e.serial /\ e.serial <= n
      BY <2>1 DEF DrainInv
    <2>5. \A e \in inflight : e.serial \in Nat
      BY DEF Types, PlaceTypes, Entry, Serials
    <2>6. \A e \in inflight' : completedSerial < e.serial /\ e.serial <= n + 1
      BY <1>1, <2>3, <2>4, <2>5
    <2> QED BY <1>1, <2>2, <2>3, <2>4, <2>6 DEF DrainInv, Holding
  <1>4. ASSUME ActivityNext, ~Drain PROVE Taken' = Taken
    BY <1>4, ActivityRing, SameTaken
  <1>5. ASSUME RendererStep, ~Drain PROVE Taken' = Taken
    BY <1>4, <1>5 DEF ActivityNext
  <1>6. ASSUME ~Drain,
               \/ Check \/ Sleep \/ Work \/ Choose \/ RedrawLocked \/ RendererReinit
               \/ Unlock \/ SpuriousWakeup
        PROVE  DrainInv'
    <2>1. Taken' = Taken
      BY <1>4, <1>5, <1>6 DEF ActivityNext, RendererStep
    <2>2. SameDrain
      BY <1>6 DEF Check, Sleep, Work, Choose, RedrawLocked, RendererReinit, Unlock,
                  SpuriousWakeup, SameDrain
    <2>3. rpc' = rpc \/ (rpc \notin Holding /\ rpc' \notin Holding \union {"done"})
      BY <1>6 DEF Check, Sleep, Work, Choose, RedrawLocked, RendererReinit, Unlock,
                  SpuriousWakeup, At, Holding
    <2> QED BY <2>1, <2>2, <2>3, SameDrainInv
  <1>7. CASE Lock /\ ~Drain
    <2>1. Taken' = Taken
      BY <1>4, <1>7 DEF ActivityNext
    <2>2. /\ rpc = "lock" /\ rpc' = "drain" /\ last' = 0
          /\ UNCHANGED <<completedSerial, inflight>>
      BY <1>7 DEF Lock, At
    <2> QED BY <2>1, <2>2 DEF DrainInv, Holding
  <1>8. CASE Drained /\ ~Drain
    <2>1. Taken' = Taken /\ rpc = "drain" /\ SameDrain
          /\ rpc' \in {"drained", "fence", "unlock"} /\ (rpc' = "unlock" => last = 0)
      BY <1>5, <1>8 DEF RendererStep, Drained, At, SameDrain
    <2> QED BY <2>1 DEF DrainInv, Holding, SameDrain
  <1>9. CASE DrawRoot /\ ~Drain
    <2>1. Taken' = Taken /\ rpc = "drained" /\ SameDrain /\ rpc' = "fence"
      BY <1>5, <1>9 DEF RendererStep, DrawRoot, At, SameDrain
    <2> QED BY <2>1 DEF DrainInv, Holding, SameDrain
  <1>10. CASE Fence /\ ~Drain
    <2>1. /\ Taken' = Taken /\ rpc = "fence" /\ rpc' = "done" /\ inflight' = {}
          /\ UNCHANGED <<completedSerial, last>>
      BY <1>5, <1>10 DEF RendererStep, Fence, At
    <2> QED BY <2>1 DEF DrainInv, Holding
  <1>11. CASE Complete /\ ~Drain
    <2>1. /\ Taken' = Taken /\ rpc = "done" /\ rpc' = "unlock"
          /\ UNCHANGED <<inflight, last>>
          /\ completedSerial' = IF last # 0 THEN last ELSE completedSerial
      BY <1>5, <1>11 DEF RendererStep, Complete, At
    <2>2. inflight = {} /\ (last = 0 \/ last = Taken)
      BY <2>1 DEF DrainInv, Holding
    <2> QED BY <1>1, <2>1, <2>2 DEF DrainInv, Holding
  <1>12. ASSUME ~Drain,
                SetWindow \/ SetViewport \/ CloseConnection \/ DropSharedState
         PROVE  DrainInv'
    <2>1. Taken' = Taken
      BY <1>4, <1>12 DEF ActivityNext
    <2>2. SameDrain
      BY <1>12 DEF SetWindow, SetViewport, CloseConnection, DropSharedState, SameDrain
    <2>3. rpc' = rpc \/ (rpc = "waiting" /\ rpc' = "check")
      BY <1>12 DEF SetWindow, SetViewport, CloseConnection, DropSharedState, Signal
    <2> QED BY <2>1, <2>2, <2>3, SameDrainInv DEF Holding
  <1>13. CASE Die /\ ~Drain
    <2>1. /\ Taken' = Taken /\ rpc' = "dead" /\ inflight' = {}
          /\ UNCHANGED <<completedSerial, last>>
      BY <1>4, <1>13 DEF ActivityNext, Die
    <2> QED BY <2>1 DEF DrainInv, Holding
  <1>14. CASE UNCHANGED vars
    <2>1. SameRing /\ SameDrain /\ rpc' = rpc
      BY <1>14 DEF vars, SameRing, SameDrain, Publishing
    <2> QED BY <2>1, SameTaken, SameDrainInv
  <1> QED
    BY <1>2, <1>3, <1>6, <1>7, <1>8, <1>9, <1>10, <1>11, <1>12, <1>13, <1>14, NextSplits
    DEF ActivityNext, RendererStep

(* What the renderer has submitted, taken and published, at every point of  *)
(* its loop and of the server's.                                            *)
THEOREM DrainInvariant == Spec => []DrainInv
<1>1. Init /\ RingInv => DrainInv
  BY DEF Init, DrainInv, RingInv, Holding
<1>2. Types /\ CountInv /\ RingInv /\ DrainInv /\ [Next]_vars => DrainInv'
  BY DrainStep
<1>3. QED BY <1>1, <1>2, CountInvariant, RingInvariant, PTL DEF Spec

(* A serial that counts as done belongs to no copy that is queued or still  *)
(* under way on the GPU, whatever faults, losses of the lock and deaths.    *)
THEOREM DoneIsFinishedAlways == Spec => []DoneIsFinished
<1>1. Types /\ RingInv /\ DrainInv => DoneIsFinished
  <2> SUFFICES ASSUME Types, RingInv, DrainInv, NEW e \in Queued \union inflight
               PROVE  ~(completedSerial >= e.serial)
    BY DEF DoneIsFinished, IsDone
  <2>1. completedSerial \in Nat /\ Taken \in Nat /\ Published \in Int /\ counter \in Nat
        /\ Published <= counter
    BY DEF RingInv, Published, Types, PlaceTypes, Serials
  <2>2. CASE e \in inflight
    <3>1. e.serial \in Nat
      BY <2>2 DEF Types, PlaceTypes, Entry, Serials
    <3> QED BY <2>1, <2>2, <3>1 DEF DrainInv
  <2>3. CASE e \in Queued
    <3>1. PICK k \in Taken + 1 .. Published : e = Cell(k)
      BY <2>3, QueuedCells
    <3>2. k \in Taken + 1 .. counter
      BY <2>1
    <3>3. e.serial = k
      BY <3>1, <3>2 DEF RingInv
    <3> QED BY <2>1, <3>3 DEF DrainInv
  <2> QED BY <2>2, <2>3
<1>2. QED BY <1>1, DrainInvariant, RingInvariant, CountInvariant, PTL

-----------------------------------------------------------------------------
(***************************************************************************)
(* Who answers for a copy.  Every copy that waits in the ring or is under  *)
(* way on the GPU belongs to a vblank that still counts in pend, unless it *)
(* was acknowledged unfinished and remembered as given up.                 *)
(***************************************************************************)
Live == inflight \union {Cell(k) : k \in Taken + 1 .. counter}

Owns(v, e) ==
  /\ e.src = Src[v] /\ e.dst = Dst[v]
  /\ copy[v] = e.serial \/ (Publishing /\ v \in todo /\ e.serial = counter)

OwnedInv == \A e \in Live : e.serial \in givenUp \/ \E v \in Vblanks : Owns(v, e)

LEMMA LiveSerials ==
  ASSUME Types, RingInv, DrainInv, NEW e \in Live
  PROVE  e.serial \in Nat /\ e.serial # 0 /\ ~IsDone(e.serial)
  <1>1. completedSerial \in Nat /\ Taken \in Nat /\ counter \in Nat
    BY DEF RingInv, Types, PlaceTypes, Serials
  <1>2. CASE e \in inflight
    <2>1. e.serial \in Nat
      BY <1>2 DEF Types, PlaceTypes, Entry, Serials
    <2> QED BY <1>1, <1>2, <2>1 DEF DrainInv, IsDone
  <1>3. CASE e \notin inflight
    <2>1. PICK k \in Taken + 1 .. counter : e = Cell(k)
      BY <1>3 DEF Live
    <2>2. e.serial = k
      BY <2>1 DEF RingInv
    <2> QED BY <1>1, <2>2 DEF DrainInv, IsDone
  <1> QED BY <1>2, <1>3

(* Only the renderer submits copies, and only those it takes from the ring. *)
LEMMA InflightSteps ==
  ASSUME [Next]_vars, ~Drain
  PROVE  inflight' \subseteq inflight
  <1>1. CASE ServerNext
    BY <1>1, ServerDrain DEF SameDrain
  <1>2. CASE ActivityNext
    BY <1>2
    DEF ActivityNext, RendererStep, Lock, SpuriousWakeup, Check, Sleep, Work, Choose,
        RedrawLocked, RendererReinit, Drained, DrawRoot, Fence, Complete, Unlock,
        SetWindow, SetViewport, CloseConnection, DropSharedState, Die
  <1>3. CASE UNCHANGED vars
    BY <1>3 DEF vars
  <1> QED BY <1>1, <1>2, <1>3, NextSplits

LEMMA LiveShrinks ==
  ASSUME Types, CountInv, RingInv, [Next]_vars, PublishGpuCopy \/ Drain \/ SameRing
  PROVE  Live' \subseteq Live /\ counter' = counter
  <1>1. Taken \in Nat
    BY DEF RingInv
  <1>2. CASE Drain
    <2>1. /\ Taken' = Taken + 1 /\ counter' = counter /\ entries' = entries
          /\ Taken + 1 \in Taken + 1 .. counter
          /\ entries[readIndex % Capacity] = Cell(Taken + 1)
      BY <1>2, DrainRing
    <2>2. \A k : Cell(k)' = Cell(k)
      BY <2>1 DEF Cell
    <2>3. inflight' \subseteq inflight \union {Cell(Taken + 1)}
      BY <1>2, <2>1 DEF Drain
    <2>4. \A k \in Taken' + 1 .. counter' : k \in Taken + 1 .. counter
      BY <1>1, <2>1
    <2> QED BY <2>1, <2>2, <2>3, <2>4 DEF Live
  <1>3. CASE (PublishGpuCopy \/ SameRing) /\ ~Drain
    <2>1. Taken' = Taken /\ counter' = counter /\ entries' = entries
      BY <1>3, PublishRing, SameTaken DEF SameRing
    <2>2. \A k : Cell(k)' = Cell(k)
      BY <2>1 DEF Cell
    <2>3. inflight' \subseteq inflight
      BY <1>3, InflightSteps
    <2> QED BY <2>1, <2>2, <2>3 DEF Live
  <1> QED BY <1>2, <1>3

(* The end of a vblank, in whatever way. *)
Settles(v) ==
  /\ ~Publishing /\ ~Publishing'
  /\ Ack(v, copy[v]) /\ copy' = [copy EXCEPT ![v] = 0]

SameOwners ==
  /\ UNCHANGED <<copy, givenUp>>
  /\ Publishing => Publishing' /\ todo' = todo

LEMMA OwnerSteps ==
  ASSUME Types, CountInv, [Next]_vars
  PROVE  \/ \E v \in Vblanks : TryScheduleGpuCopy(v)
         \/ PublishGpuCopy
         \/ \E v \in Vblanks : Settles(v)
         \/ SameOwners
  <1> USE DEF SameOwners, Publishing
  <1>0. \A at \in ServerAt : Goto(at) => srv'.at = at
    BY SrvGoto
  <1>1. ASSUME NEW v \in Vblanks, Scrap(v) PROVE Settles(v)
    BY <1>1 DEF Scrap, Idle, Settles
  <1>2. ASSUME NEW v \in Vblanks, ~Publishing, ~Publishing', ExecutePending(v)
        PROVE  Settles(v) \/ SameOwners
    BY <1>2 DEF ExecutePending, Settles
  <1>3. CASE PollOne
    <2>1. PICK v \in todo : ExecutePending(v)
      BY <1>3 DEF PollOne
    <2>2. v \in Vblanks /\ ~Publishing /\ ~Publishing'
      BY <1>3 DEF PollOne, Types, PlaceTypes
    <2> QED BY <1>2, <2>1, <2>2
  <1>4. CASE RecheckOne
    <2>1. PICK v \in todo : ExecutePending(v) \/ UNCHANGED <<copy, givenUp>>
      BY <1>4 DEF RecheckOne
    <2>2. v \in Vblanks /\ ~Publishing /\ ~Publishing'
      BY <1>4 DEF RecheckOne, Types, PlaceTypes
    <2> QED BY <1>2, <2>1, <2>2
  <1>5. CASE Redraw \/ RecheckEnd \/ FinishAccess \/ PrepareAccess \/ LockForAccess
             \/ PerformVblanks \/ Recheck \/ ServerReinit
    BY <1>0, <1>5
    DEF Redraw, RecheckEnd, FinishAccess, PrepareAccess, LockForAccess, PerformVblanks,
        Recheck, ServerReinit, Idle, ServerAt
  <1>6. CASE ActivityNext
    BY <1>6
    DEF ActivityNext, RendererStep, Lock, SpuriousWakeup, Check, Sleep, Work, Choose,
        RedrawLocked, RendererReinit, Drain, Drained, DrawRoot, Fence, Complete, Unlock,
        SetWindow, SetViewport, CloseConnection, DropSharedState, Die
  <1>7. CASE UNCHANGED vars
    BY <1>7 DEF vars
  <1> QED
    BY <1>1, <1>3, <1>4, <1>5, <1>6, <1>7, NextSplits DEF ServerNext, ServerStep

LEMMA OwnedStep ==
  ASSUME Types, CountInv, RingInv, DrainInv, OwnedInv, [Next]_vars
  PROVE  OwnedInv'
  <1>1. ASSUME NEW v \in Vblanks, TryScheduleGpuCopy(v) PROVE OwnedInv'
    <2>1. /\ srv.at = "idle" /\ srv'.at = "publish" /\ todo' = {v}
          /\ UNCHANGED <<copy, givenUp, inflight>>
      BY <1>1, SrvGoto DEF TryScheduleGpuCopy, Idle, ServerAt
    <2>2. PICK n \in Nat : n = counter + 1
      BY DEF Types, PlaceTypes, Serials
    <2>3. /\ Taken' = Taken /\ counter' = n
          /\ Cell(n)' = [serial |-> n, src |-> Src[v], dst |-> Dst[v]]
          /\ \A k \in Taken + 1 .. counter : Cell(k)' = Cell(k)
      BY <1>1, <2>2, ScheduleRing
    <2>4. \A k \in Taken' + 1 .. counter' : k = n \/ k \in Taken + 1 .. counter
      BY <2>2, <2>3 DEF RingInv, Types, PlaceTypes, Serials
    <2>5. ASSUME NEW e \in Live'
          PROVE  e \in Live \/ e = [serial |-> n, src |-> Src[v], dst |-> Dst[v]]
      BY <2>1, <2>3, <2>4, <2>5 DEF Live
    <2>6. ASSUME NEW u \in Vblanks, NEW e, Owns(u, e) PROVE Owns(u, e)'
      BY <2>1, <2>6 DEF Owns, Publishing
    <2>7. ASSUME NEW e, e = [serial |-> n, src |-> Src[v], dst |-> Dst[v]]
          PROVE  Owns(v, e)'
      BY <2>1, <2>3, <2>7 DEF Owns, Publishing
    <2> SUFFICES ASSUME NEW e \in Live'
                 PROVE  e.serial \in givenUp' \/ \E u \in Vblanks : Owns(u, e)'
      BY DEF OwnedInv
    <2>8. CASE e \in Live
      BY <2>1, <2>6, <2>8 DEF OwnedInv
    <2> QED BY <2>5, <2>7, <2>8
  <1>2. ASSUME Live' \subseteq Live, givenUp \subseteq givenUp',
               \A e \in Live, u \in Vblanks :
                  Owns(u, e) => e.serial \in givenUp' \/ Owns(u, e)'
        PROVE  OwnedInv'
    <2> SUFFICES ASSUME NEW e \in Live'
                 PROVE  e.serial \in givenUp' \/ \E u \in Vblanks : Owns(u, e)'
      BY DEF OwnedInv
    <2>1. e \in Live
      BY <1>2
    <2> QED BY <1>2, <2>1 DEF OwnedInv
  <1>3. ASSUME NEW v \in Vblanks, NEW serial, Ack(v, serial)
        PROVE  /\ givenUp \subseteq givenUp'
               /\ ~IsDone(serial) => serial \in givenUp'
    BY <1>3 DEF Ack
  <1>4. CASE PublishGpuCopy
    <2>1. srv.at = "publish" /\ srv'.at = "idle"
      BY <1>4, SrvGoto DEF PublishGpuCopy, ServerAt
    <2>2. PICK v \in Vblanks : todo = {v} /\ copy[v] = 0
      BY <2>1 DEF CountInv, Walks, Publishing
    <2>3. Live' \subseteq Live /\ counter' = counter
      BY <1>4, LiveShrinks
    <2>4. CASE copy' = [copy EXCEPT ![v] = counter] /\ UNCHANGED givenUp
      <3>1. copy'[v] = counter /\ \A u \in Vblanks \ {v} : copy'[u] = copy[u]
        BY <2>4 DEF Types, PlaceTypes
      <3>2. ASSUME NEW e \in Live, NEW u \in Vblanks, Owns(u, e) PROVE Owns(u, e)'
        <4>1. e.serial # 0
          BY LiveSerials
        <4> QED BY <2>2, <3>1, <3>2, <4>1 DEF Owns
      <3> QED BY <1>2, <2>3, <2>4, <3>2
    <2>5. CASE Ack(v, counter) /\ UNCHANGED copy
      <3>1. ASSUME NEW e \in Live, NEW u \in Vblanks, Owns(u, e)
            PROVE  e.serial \in givenUp' \/ Owns(u, e)'
        <4>1. ~IsDone(e.serial)
          BY LiveSerials
        <4>2. CASE copy[u] = e.serial
          BY <2>5, <3>1, <4>2 DEF Owns
        <4>3. CASE e.serial = counter
          BY <1>3, <2>5, <4>1, <4>3
        <4> QED BY <3>1, <4>2, <4>3 DEF Owns
      <3>2. givenUp \subseteq givenUp'
        BY <1>3, <2>5
      <3> QED BY <1>2, <2>3, <3>1, <3>2
    <2> QED BY <1>4, <2>2, <2>4, <2>5 DEF PublishGpuCopy
  <1>5. ASSUME NEW v \in Vblanks, Settles(v) PROVE OwnedInv'
    <2>1. ~PublishGpuCopy /\ ~ \E u \in Vblanks : TryScheduleGpuCopy(u)
      BY <1>5, SrvGoto DEF Settles, PublishGpuCopy, TryScheduleGpuCopy, Publishing, ServerAt
    <2>2. Live' \subseteq Live
      BY <2>1, RingSteps, LiveShrinks
    <2>3. copy'[v] = 0 /\ \A u \in Vblanks \ {v} : copy'[u] = copy[u]
      BY <1>5 DEF Settles, Types, PlaceTypes
    <2>4. ASSUME NEW e \in Live, NEW u \in Vblanks, Owns(u, e)
          PROVE  e.serial \in givenUp' \/ Owns(u, e)'
      <3>1. ~IsDone(e.serial) /\ copy[u] = e.serial
        BY <1>5, <2>4, LiveSerials DEF Settles, Owns
      <3>2. CASE u = v
        BY <1>3, <1>5, <3>1, <3>2 DEF Settles
      <3>3. CASE u # v
        BY <2>3, <2>4, <3>1, <3>3 DEF Owns
      <3> QED BY <3>2, <3>3
    <2>5. givenUp \subseteq givenUp'
      BY <1>3, <1>5 DEF Settles
    <2> QED BY <1>2, <2>2, <2>4, <2>5
  <1>6. CASE SameOwners /\ ~PublishGpuCopy /\ ~ \E u \in Vblanks : TryScheduleGpuCopy(u)
    <2>1. Live' \subseteq Live /\ counter' = counter
      BY <1>6, RingSteps, LiveShrinks
    <2>2. ASSUME NEW e \in Live, NEW u \in Vblanks, Owns(u, e) PROVE Owns(u, e)'
      BY <1>6, <2>1, <2>2 DEF SameOwners, Owns
    <2> QED BY <1>2, <1>6, <2>1, <2>2 DEF SameOwners
  <1> QED BY <1>1, <1>4, <1>5, <1>6, OwnerSteps

(* Every copy that can still reach the GPU has a vblank that answers for it *)
(* or was given up.                                                         *)
THEOREM OwnedInvariant == Spec => []OwnedInv
<1>1. Init /\ RingInv => OwnedInv
  <2> SUFFICES ASSUME Init, RingInv PROVE OwnedInv
    OBVIOUS
  <2>1. inflight = {} /\ counter = 0 /\ Taken \in Nat
    BY DEF Init, RingInv
  <2>2. Taken + 1 .. counter = {}
    BY <2>1
  <2> QED BY <2>1, <2>2 DEF OwnedInv, Live
<1>2. Types /\ CountInv /\ RingInv /\ DrainInv /\ OwnedInv /\ [Next]_vars => OwnedInv'
  BY OwnedStep
<1>3. QED
  BY <1>1, <1>2, CountInvariant, RingInvariant, DrainInvariant, PTL DEF Spec

-----------------------------------------------------------------------------
(***************************************************************************)
(* The lock.  While the connection lives nobody takes state->lock away     *)
(* from the renderer: the server initializes it anew only after the        *)
(* connection is lost, and unlocks only what is its own.                   *)
(***************************************************************************)
Locked == Holding \union {"done", "unlock"}

LockInv == alive /\ rpc \in Locked => lock = "renderer"

LEMMA LockStep ==
  ASSUME Types, LockInv, [Next]_vars
  PROVE  LockInv'
  <1> USE DEF LockInv, Locked, Holding
  <1>1. ASSUME alive' => alive, rpc' = rpc \/ rpc' \notin Locked,
               lock = "renderer" /\ alive => lock' = lock
        PROVE  LockInv'
    BY <1>1
  <1>2. CASE ServerNext
    <2>1. alive' = alive /\ (rpc' = rpc \/ rpc' = "check")
      BY <1>2, ServerDrain
    <2>2. lock = "renderer" /\ alive => lock' = lock
      BY <1>2
      DEF ServerNext, ServerStep, TryScheduleGpuCopy, Scrap, PublishGpuCopy, PollOne,
          Redraw, RecheckOne, RecheckEnd, FinishAccess, ServerReinit, PerformVblanks,
          Recheck, PrepareAccess, LockForAccess
    <2> QED BY <1>1, <2>1, <2>2
  <1>3. CASE \/ Check \/ Sleep \/ Work \/ Choose \/ RedrawLocked \/ RendererReinit
             \/ SpuriousWakeup
    BY <1>3 DEF Check, Sleep, Work, Choose, RedrawLocked, RendererReinit, SpuriousWakeup, At
  <1>4. CASE Lock
    BY <1>4 DEF Lock
  <1>5. CASE Drain
    BY <1>5 DEF Drain, At
  <1>6. CASE Drained \/ DrawRoot \/ Fence \/ Complete
    BY <1>6 DEF Drained, DrawRoot, Fence, Complete, At
  <1>7. CASE Unlock
    BY <1>7 DEF Unlock
  <1>8. CASE SetWindow \/ SetViewport \/ CloseConnection \/ DropSharedState \/ Die
    BY <1>8 DEF SetWindow, SetViewport, CloseConnection, DropSharedState, Die, Signal
  <1>9. CASE UNCHANGED vars
    BY <1>9 DEF vars
  <1> QED
    BY <1>2, <1>3, <1>4, <1>5, <1>6, <1>7, <1>8, <1>9, NextSplits
    DEF ActivityNext, RendererStep

(* The renderer has the lock from its first copy to the end of the fence,   *)
(* as long as the connection lives.                                         *)
THEOREM LockInvariant == Spec => []LockInv
<1>1. Init => LockInv
  BY DEF Init, LockInv, Locked, Holding
<1>2. Types /\ LockInv /\ [Next]_vars => LockInv'
  BY LockStep
<1>3. QED BY <1>1, <1>2, CountInvariant, PTL DEF Spec

(* A buffer of a copy under way that nobody gave up counts as pending. *)
LEMMA UsedIsPending ==
  ASSUME Types, CountInv, RingInv, DrainInv, OwnedInv,
         NEW e \in inflight, e.serial \notin givenUp, NEW b \in {e.src, e.dst}
  PROVE  pend[b] > 0
  <1>1. e \in Live /\ b \in Buffers
    BY DEF Live, Types, PlaceTypes, Entry
  <1>2. PICK v \in Vblanks : Owns(v, e)
    BY <1>1 DEF OwnedInv
  <1>3. copy[v] # 0 \/ (Publishing /\ v \in todo)
    BY <1>1, <1>2, LiveSerials DEF Owns
  <1>4. v \in Users(b)
    BY <1>2, <1>3 DEF Users, Owns
  <1>5. IsFiniteSet(Users(b)) /\ pend[b] = Cardinality(Users(b))
    BY <1>1 DEF CountInv, PendCounts
  <1>6. Cardinality(Users(b)) \in Nat /\ Cardinality(Users(b)) # 0
    BY <1>4, <1>5, FS_CardinalityType, FS_EmptySet
  <1> QED BY <1>5, <1>6

(* While the connection lives, the CPU starts to use a buffer only when the *)
(* GPU is not using it.  Without the lock the pending counters say so; with *)
(* it, nothing can be under way.                                            *)
THEOREM AccessWaits == Spec => AccessWaitsForGpu
<1> DEFINE Starts == srv.at # "access" /\ srv'.at = "access" /\ alive
<1>1. Types /\ CountInv /\ RingInv /\ DrainInv /\ OwnedInv /\ LockInv /\ [Next]_vars
        => [Starts => ~Conflict(acc')]_vars
  <2> SUFFICES ASSUME Types, CountInv, RingInv, DrainInv, OwnedInv, LockInv, Next, Starts
               PROVE  ~Conflict(acc')
    OBVIOUS
  <2>0. \A at \in ServerAt : Goto(at) => srv'.at = at
    BY SrvGoto
  <2>1. CASE LockForAccess
    <3>1. lock = "free"
      BY <2>1 DEF LockForAccess
    <3>2. rpc \notin Holding
      BY <3>1 DEF LockInv, Locked
    <3> QED BY <3>2 DEF DrainInv, Conflict, At, Holding
  <2>2. CASE PrepareAccess
    <3>1. ~NeedsGpuLock(acc')
      BY <2>0, <2>2 DEF PrepareAccess, ServerAt
    <3>2. Root \notin acc'.write /\ \A b \in acc'.read \union acc'.write : ~(pend[b] > 0)
      BY <3>1 DEF NeedsGpuLock
    <3>3. ASSUME NEW e \in inflight, e.serial \notin givenUp
          PROVE  /\ {e.src, e.dst} \intersect acc'.write = {}
                 /\ e.dst \notin acc'.read
      BY <3>2, <3>3, UsedIsPending
    <3> QED BY <3>2, <3>3 DEF Conflict
  <2>3. CASE ServerNext /\ ~LockForAccess /\ ~PrepareAccess
    <3>1. ASSUME NEW v \in Vblanks, TryScheduleGpuCopy(v) \/ Scrap(v) PROVE FALSE
      BY <2>0, <3>1 DEF TryScheduleGpuCopy, Scrap, ServerAt
    <3>2. ~(PollOne \/ RecheckOne \/ ServerReinit)
      <4>1. PollOne \/ RecheckOne \/ ServerReinit => srv' = srv
        BY DEF PollOne, RecheckOne, ServerReinit
      <4> QED BY <4>1
    <3>3. ~(PublishGpuCopy \/ Redraw \/ RecheckEnd \/ FinishAccess \/ PerformVblanks)
      BY <2>0 DEF PublishGpuCopy, Redraw, RecheckEnd, FinishAccess, PerformVblanks, ServerAt
    <3>4. ~Recheck
      <4>1. Recheck => srv'.at = "recheck"
        BY DEF Recheck
      <4> QED BY <4>1
    <3> QED BY <2>3, <3>1, <3>2, <3>3, <3>4 DEF ServerNext, ServerStep
  <2>4. CASE ActivityNext
    BY <2>4
    DEF ActivityNext, RendererStep, Lock, SpuriousWakeup, Check, Sleep, Work, Choose,
        RedrawLocked, RendererReinit, Drain, Drained, DrawRoot, Fence, Complete, Unlock,
        SetWindow, SetViewport, CloseConnection, DropSharedState, Die
  <2> QED BY <2>1, <2>2, <2>3, <2>4, NextSplits
<1>2. QED
  BY <1>1, CountInvariant, RingInvariant, DrainInvariant, OwnedInvariant, LockInvariant,
     PTL DEF Spec, AccessWaitsForGpu
=============================================================================
