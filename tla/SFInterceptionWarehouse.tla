----------------------- MODULE SFInterceptionWarehouse -----------------------
(***************************************************************************)
(* A row of SFInterception that says SUCCEEDED tells the truth about the   *)
(* warehouse.  The fact needs neither the lock nor the journal: it follows *)
(* an answer 1400 from the read that brought it to the write of the row,   *)
(* and a cancelled order is never reopened on the way.                     *)
(***************************************************************************)
EXTENDS SFInterceptionProofs

\* Whoever is about to write SUCCEEDED, and every row that says it, has 1400
\* from the warehouse behind it; a conclusion under way counts as such.
AnsweredCancelled == {"gone", "goneNoXsck"}

WarehouseInv ==
  /\ \A w \in Workers :
       \/ wpc[w] \in AnsweredCancelled
       \/ wpc[w] \in {"finishing", "refinishing"} /\ verdict[w].status = "SUCCEEDED"
       => wms[wbill[w]] = "cancelled"
  /\ SucceededMeansCancelled

\* A step that moves no row to SUCCEEDED and no execution to one of the
\* positions of WarehouseInv keeps it: a cancelled order stays cancelled.
LEMMA WarehouseFrame ==
  ASSUME TypeOK, WarehouseInv,
         \A b \in Bills : wms[b] = "cancelled" => wms'[b] = "cancelled",
         \A b \in Bills : op'[b] = "SUCCEEDED" => op[b] = "SUCCEEDED",
         UNCHANGED worker
  PROVE  WarehouseInv'
BY DEF WarehouseInv, SucceededMeansCancelled, worker, TypeOK

\* An execution that moves elsewhere, or with the warehouse's word.
Moves(w) ==
  /\ wms' = wms
  /\ wpc' = [wpc EXCEPT ![w] = wpc'[w]]
  /\ verdict' = [verdict EXCEPT ![w] = verdict'[w]]
  /\ wbill' = [wbill EXCEPT ![w] = wbill'[w]]

LEMMA WarehouseMove ==
  ASSUME TypeOK, TypeOK', WarehouseInv, NEW w \in Workers, Moves(w),
         wpc'[w] \in AnsweredCancelled => wms[wbill'[w]] = "cancelled",
         wpc'[w] \in {"finishing", "refinishing"} /\ verdict'[w].status = "SUCCEEDED"
           => wms[wbill'[w]] = "cancelled",
         \A d \in Bills : op'[d] = "SUCCEEDED" => op[d] = "SUCCEEDED" \/ wms[d] = "cancelled"
  PROVE  WarehouseInv'
<1>1. \A u \in Workers : u # w => wpc'[u] = wpc[u] /\ verdict'[u] = verdict[u] /\ wbill'[u] = wbill[u]
  BY DEF Moves, TypeOK
<1> QED
  BY <1>1 DEF WarehouseInv, SucceededMeansCancelled, TypeOK, Moves

LEMMA WarehouseOutside ==
  ASSUME TypeOK, WarehouseInv, Outside
  PROVE  WarehouseInv'
<1>1. UNCHANGED worker
  BY DEF Outside, PlaceHold, QueueCancel, RecordChanges, WarehousePacks, ShipmentCallback,
     KingdeeUserShips, TenMinutesPass, DropSession, Deliver, Lose
<1>2. \A b \in Bills : op'[b] = "SUCCEEDED" => op[b] = "SUCCEEDED"
  BY DEF TypeOK, Outside, PlaceHold, QueueCancel, RecordChanges, WarehousePacks, ShipmentCallback,
     KingdeeUserShips, TenMinutesPass, DropSession, Deliver, Lose, order
<1>3. \A b \in Bills : wms[b] = "cancelled" => wms'[b] = "cancelled"
  <2>1. ASSUME NEW b \in Bills, WarehousePacks(b)
        PROVE  \A d \in Bills : wms[d] = "cancelled" => wms'[d] = "cancelled"
    BY <2>1 DEF TypeOK, WarehousePacks
  <2>2. ASSUME NEW m \in net, Deliver(m)
        PROVE  \A d \in Bills : wms[d] = "cancelled" => wms'[d] = "cancelled"
    <3>1. m[2] \in Bills
      BY DEF TypeOK, Requests
    <3> QED
      BY <2>2, <3>1 DEF TypeOK, Deliver
  <2> QED
    BY <2>1, <2>2 DEF Outside, PlaceHold, QueueCancel, RecordChanges, ShipmentCallback,
       KingdeeUserShips, TenMinutesPass, DropSession, Lose, world
<1> QED
  BY <1>1, <1>2, <1>3, WarehouseFrame

LEMMA WarehouseCaller ==
  ASSUME TypeOK, WarehouseInv, NEW c \in Callers,
         CallerStep(c) \/ \E b \in Bills, k \in Kinds : CTryLock(c, b, k)
  PROVE  WarehouseInv'
BY WarehouseFrame DEF CallerStep, GateChecksHold, GateJournalsCancel, CDispatch, CLeave, CTryLock,
   order, world

\* A read that ends the operation says SUCCEEDED only on the warehouse's word.
LEMMA WarehouseJudge ==
  ASSUME TypeOK, TypeOK', WarehouseInv, NEW w \in Workers, NEW ends \in BOOLEAN, NEW status,
         NEW s, NEW next, Judge(w, ends, status, s, next),
         next \notin {"finishing", "refinishing"},
         ends => (status = "SUCCEEDED" => wms[wbill[w]] = "cancelled"),
         ~ends => (next \in AnsweredCancelled => wms[wbill[w]] = "cancelled")
  PROVE  WarehouseInv'
<1>1. /\ wms' = wms /\ op' = op /\ wbill' = wbill
  BY DEF Judge, OnlyWorkerMoves, order, world
<1>2. CASE ends
  <2>1. /\ wpc' = [wpc EXCEPT ![w] = "finishing"]
        /\ verdict' = [verdict EXCEPT ![w] = [status |-> status, sent |-> s]]
    BY <1>2 DEF Judge, Conclude
  <2>2. wpc'[w] = "finishing" /\ verdict'[w].status = status /\ Moves(w)
    BY <1>1, <2>1 DEF Moves, TypeOK
  <2> QED
    BY <1>1, <1>2, <2>2, WarehouseMove DEF AnsweredCancelled
<1>3. CASE ~ends
  <2>1. wpc' = [wpc EXCEPT ![w] = next] /\ verdict' = verdict
    BY <1>3 DEF Judge, Goto
  <2>2. wpc'[w] = next /\ Moves(w)
    BY <1>1, <2>1 DEF Moves, TypeOK
  <2> QED
    BY <1>1, <1>3, <2>2, WarehouseMove
<1> QED
  BY <1>2, <1>3

LEMMA WarehouseChecks ==
  ASSUME TypeOK, TypeOK', WarehouseInv, NEW w \in Workers,
         \/ CheckOrder(w) \/ CheckShipment(w) \/ CheckLegacyCancel(w)
         \/ CheckXsck(w) \/ CheckWarehouse(w) \/ RecheckShipment(w)
         \/ RecheckXsck(w) \/ VerifyXsck(w)
  PROVE  WarehouseInv'
<1> USE DEF AnsweredCancelled
<1>1. /\ callback[wbill[w]] \in BOOLEAN
      /\ legacy[wbill[w]] \in BOOLEAN
      /\ xsck[wbill[w]] \in BOOLEAN
  BY DEF TypeOK
<1>2. CASE CheckOrder(w)
  <2> DEFINE ends == hold[wbill[w]] # "requester" \/ ~fit[wbill[w]]
  <2>1. ends \in BOOLEAN /\ Judge(w, ends, "BLOCKED", "NO", "matched")
    BY <1>2 DEF CheckOrder
  <2> HIDE DEF ends
  <2> QED
    BY <2>1, WarehouseJudge
<1>3. CASE CheckShipment(w)
  BY <1>1, <1>3, WarehouseJudge DEF CheckShipment
<1>4. CASE CheckLegacyCancel(w)
  BY <1>1, <1>4, WarehouseJudge DEF CheckLegacyCancel
<1>5. CASE CheckXsck(w)
  BY <1>1, <1>5, WarehouseJudge DEF CheckXsck
<1>6. CASE CheckWarehouse(w)
  <2> DEFINE state == wms[wbill[w]]
             ends == state # "prepack"
             status == IF state = "cancelled" THEN "SUCCEEDED" ELSE "BLOCKED"
  <2>1. ends \in BOOLEAN /\ Judge(w, ends, status, "NO", "prepack")
    BY <1>6 DEF CheckWarehouse
  <2>2. status = "SUCCEEDED" => wms[wbill[w]] = "cancelled"
    OBVIOUS
  <2> HIDE DEF ends, status
  <2> QED
    BY <2>1, <2>2, WarehouseJudge
<1>7. CASE RecheckShipment(w)
  BY <1>1, <1>7, WarehouseJudge DEF RecheckShipment
<1>8. CASE RecheckXsck(w)
  BY <1>1, <1>8, WarehouseJudge DEF RecheckXsck
<1>9. CASE VerifyXsck(w)
  <2> DEFINE ends == xsck[wbill[w]] \/ wpc[w] = "kept"
  <2>1. ends \in BOOLEAN /\ Judge(w, ends, "UNKNOWN", "YES", "goneNoXsck")
    BY <1>1, <1>9 DEF VerifyXsck
  <2>2. ~ends => wms[wbill[w]] = "cancelled"
    BY <1>9 DEF VerifyXsck, WarehouseInv
  <2> HIDE DEF ends
  <2> QED
    BY <2>1, <2>2, WarehouseJudge
<1> QED
  BY <1>2, <1>3, <1>4, <1>5, <1>6, <1>7, <1>8, <1>9

\* The steps that conclude or write a verdict, and those that only move.
LEMMA WarehouseWorker ==
  ASSUME TypeOK, TypeOK', WarehouseInv, NEW w \in Workers, WorkerStep(w) \/ KillWorker(w)
  PROVE  WarehouseInv'
<1> USE DEF order, world, AnsweredCancelled
<1>1. ASSUME NEW b \in Bills, Fetch(w, b) PROVE WarehouseInv'
  <2>1. wpc'[w] = "fetched" /\ Moves(w) /\ op' = op
    BY <1>1 DEF Fetch, Goto, Moves, TypeOK
  <2> QED
    BY <2>1, WarehouseMove
<1>2. CASE \/ NothingQueued(w) \/ TryLock(w) \/ JournalIntent(w) \/ SendCancel(w)
           \/ ReceiveResponse(w) \/ JournalReceipt(w) \/ Leave(w) \/ KillWorker(w)
  <2>1. wpc'[w] \in {"idle", "locked", "journaled", "awaiting", "received", "acked"}
    BY <1>2 DEF NothingQueued, TryLock, JournalIntent, SendCancel, ReceiveResponse,
       JournalReceipt, Leave, KillWorker, Goto, TypeOK
  <2>2. Moves(w) /\ op' = op
    BY <1>2 DEF NothingQueued, TryLock, JournalIntent, SendCancel, ReceiveResponse,
       JournalReceipt, Leave, KillWorker, Goto, OnlyWorkerMoves, Moves, TypeOK
  <2> QED
    BY <2>1, <2>2, WarehouseMove
<1>3. CASE Sweep(w) \/ RefuseMalformed(w) \/ Claim(w)
  <2>1. \A d \in Bills : op'[d] = "SUCCEEDED" => op[d] = "SUCCEEDED"
    BY <1>3 DEF Sweep, RefuseMalformed, Claim, TypeOK
  <2>2. wpc'[w] \in {"swept", "idle", "claimed"} /\ Moves(w)
    BY <1>3 DEF Sweep, RefuseMalformed, Claim, Goto, Moves, TypeOK
  <2> QED
    BY <2>1, <2>2, WarehouseMove
<1>4. CASE VerifyWarehouse(w)
  <2>1. wpc'[w] = (IF wms[wbill[w]] = "cancelled" THEN "gone" ELSE "kept")
        /\ wbill' = wbill /\ op' = op /\ Moves(w)
    BY <1>4 DEF VerifyWarehouse, Goto, OnlyWorkerMoves, Moves, TypeOK
  <2> QED
    BY <2>1, WarehouseMove
<1>5. CASE VerifyShipment(w)
  <2>1. wms[wbill[w]] = "cancelled"
    BY <1>5 DEF VerifyShipment, WarehouseInv
  <2>2. wpc'[w] = "finishing" /\ wbill' = wbill /\ op' = op /\ Moves(w)
    BY <1>5 DEF VerifyShipment, Conclude, OnlyWorkerMoves, Moves, TypeOK
  <2> QED
    BY <2>1, <2>2, WarehouseMove
<1>6. CASE Raise(w) \/ IntentRaises(w)
  <2>1. verdict'[w].status # "SUCCEEDED" /\ wpc'[w] = "refinishing"
    BY <1>6 DEF Raise, IntentRaises, Goto, TypeOK
  <2>2. op' = op /\ Moves(w)
    BY <1>6 DEF Raise, IntentRaises, Goto, OnlyWorkerMoves, Moves, TypeOK
  <2> QED
    BY <2>1, <2>2, WarehouseMove
<1>7. CASE Finish(w) \/ FinishFails(w)
  <2>1. verdict[w].status = "SUCCEEDED" => wms[wbill[w]] = "cancelled"
    BY <1>7 DEF Finish, FinishFails, WarehouseInv
  <2>2. \A d \in Bills : op'[d] = "SUCCEEDED" => op[d] = "SUCCEEDED" \/ wms[d] = "cancelled"
    BY <1>7, <2>1 DEF Finish, FinishFails, WriteVerdict, TypeOK
  <2>3. Moves(w)
    BY <1>7 DEF Finish, FinishFails, Goto, Moves, TypeOK
  <2>4. \/ wpc'[w] = "leaving"
        \/ wpc'[w] = "refinishing" /\ verdict'[w].status # "SUCCEEDED"
    BY <1>7 DEF Finish, FinishFails, Goto, TypeOK, Verdicts
  <2> QED
    BY <2>2, <2>3, <2>4, WarehouseMove
<1> QED
  BY <1>1, <1>2, <1>3, <1>4, <1>5, <1>6, <1>7, WarehouseChecks DEF WorkerStep

\* A row that says SUCCEEDED tells the truth about the warehouse, whatever
\* happens to the execution, its session or the answer to its request.
THEOREM SuccessIsTheWarehousesWord == Spec => []SucceededMeansCancelled
<1>1. Init => TypeOK /\ WarehouseInv
  BY TypeInit DEF Init, WarehouseInv, SucceededMeansCancelled, AnsweredCancelled
<1>2. TypeOK /\ WarehouseInv /\ [Next]_vars => (TypeOK /\ WarehouseInv)'
  <2> SUFFICES ASSUME TypeOK, WarehouseInv, [Next]_vars PROVE TypeOK' /\ WarehouseInv'
    OBVIOUS
  <2>1. CASE UNCHANGED vars
    BY <2>1, WarehouseFrame, TypeStep DEF vars, order, world
  <2>2. CASE Next
    BY <2>2, TypeStep, WarehouseOutside, WarehouseCaller, WarehouseWorker DEF Next
  <2> QED
    BY <2>1, <2>2
<1>3. WarehouseInv => SucceededMeansCancelled
  BY DEF WarehouseInv
<1> QED
  BY <1>1, <1>2, <1>3, PTL DEF Spec

=============================================================================
