----------------------- MODULE SFInterceptionRefines -----------------------
(***************************************************************************)
(* SFInterception implements CancelOnce for any bills, workers and         *)
(* callers: the initial states are initial states of the journal's         *)
(* contract, and every step of a reachable state is a step of it or leaves *)
(* the journal row and the count of requests alone.  The journal invariant *)
(* of SFInterceptionProofs is what makes the guards of CancelOnce true.    *)
(***************************************************************************)
EXTENDS SFInterceptionProofs

OnceStep == [Once!Next]_(Once!vars)

\* A step that changes neither the row nor the number of requests.
LEMMA Stutters ==
  ASSUME UNCHANGED <<op, sent, dispatched>>
  PROVE  OnceStep
BY DEF OnceStep, Once!vars

LEMMA OnceInit == Init => Once!Init
BY DEF Init, Once!Init

\* The rows that the clock has passed by are given up together.
LEMMA SweepImplements ==
  ASSUME JournalInv, NEW w \in Workers, Sweep(w)
  PROVE  OnceStep
<1> DEFINE S == {b \in Bills : op[b] = "PROCESSING" /\ aged[b]}
<1>1. S \in SUBSET Bills /\ Once!GiveUp(S)
  BY DEF Sweep, Once!GiveUp, world, history
<1> QED
  BY <1>1 DEF OnceStep, Once!Next

\* A first verdict settles an open row, a second one repeats it, says less than
\* SUCCEEDED, or settles the row that the first one did not reach.
LEMMA VerdictImplements ==
  ASSUME JournalInv, NEW w \in Workers, wpc[w] \in {"finishing", "refinishing"},
         WriteVerdict(w), UNCHANGED dispatched
  PROVE  OnceStep
<1> DEFINE b == wbill[w]
           v == verdict[w]
<1>1. b \in Bills /\ v.status \in Terminal /\ v.sent \in SentValues /\ dispatched[b] \in Nat
  BY DEF JournalInv, TypeOK, Verdicts
<1>2. /\ v.sent = "NO" => dispatched[b] = 0
      /\ v.sent = "YES" => dispatched[b] = 1
      /\ v.status = "BLOCKED" => dispatched[b] = 0
  BY DEF JournalInv, PendingVerdictInv
<1>3. /\ op' = [op EXCEPT ![b] = v.status] /\ sent' = [sent EXCEPT ![b] = v.sent]
      /\ UNCHANGED dispatched
  BY DEF WriteVerdict
<1>4. /\ wpc[w] = "finishing" => op[b] \in Open
      /\ wpc[w] = "refinishing" =>
           /\ v.status = IF v.sent = "NO" THEN "BLOCKED" ELSE "UNKNOWN"
           /\ op[b] = "BLOCKED" => v.sent = "NO" /\ sent[b] = "NO"
           /\ op[b] = "SUCCEEDED" => sent[b] = v.sent /\ sent[b] # "UNKNOWN"
  BY DEF JournalInv, ProgressInv, SecondVerdictInv
<1>5. op[b] \in {"PROCESSING", "UNKNOWN", "SUCCEEDED", "BLOCKED"}
  BY <1>1 DEF JournalInv, TypeOK, ClaimInv, Claimed, OpStatus
<1>6. op \in [Bills -> OpStatus] /\ sent \in [Bills -> SentValues]
  BY DEF JournalInv, TypeOK
<1> HIDE DEF b, v
<1>7. CASE op[b] \in Open
  <2>1. Once!Settle(b, v.status, v.sent)
    BY <1>1, <1>2, <1>3, <1>7 DEF Once!Settle, Once!Open, Open
  <2> QED
    BY <1>1, <2>1 DEF OnceStep, Once!Next, Terminal, SentValues
<1>8. CASE op[b] = "BLOCKED"
  <2>1. op' = op /\ sent' = sent
    BY <1>1, <1>3, <1>4, <1>6, <1>8 DEF Open
  <2> QED
    BY <1>3, <2>1, Stutters
<1>9. CASE op[b] = "SUCCEEDED"
  <2>1. sent' = sent /\ v.sent \in {"NO", "YES"}
    BY <1>1, <1>3, <1>4, <1>6, <1>9 DEF Open, SentValues
  <2>2. v.status = IF dispatched[b] = 0 THEN "BLOCKED" ELSE "UNKNOWN"
    BY <1>2, <1>4, <1>9, <2>1 DEF Open
  <2>3. Once!Reconsider(b)
    BY <1>3, <1>9, <2>1, <2>2 DEF Once!Reconsider
  <2> QED
    BY <1>1, <2>3 DEF OnceStep, Once!Next
<1> QED
  BY <1>5, <1>7, <1>8, <1>9 DEF Open

LEMMA FinishImplements ==
  ASSUME JournalInv, NEW w \in Workers, Finish(w) \/ FinishFails(w)
  PROVE  OnceStep
<1>1. /\ wpc[w] \in {"finishing", "refinishing"} /\ UNCHANGED dispatched
      /\ WriteVerdict(w) \/ UNCHANGED <<op, sent>>
  BY DEF Finish, FinishFails, history
<1> QED
  BY <1>1, VerdictImplements, Stutters

\* The worker's own steps on the row, each under the guard of its counterpart.
LEMMA RowStepsImplement ==
  ASSUME JournalInv, NEW w \in Workers,
         \/ RefuseMalformed(w) \/ Claim(w) \/ JournalIntent(w) \/ IntentRaises(w)
         \/ SendCancel(w) \/ JournalReceipt(w)
  PROVE  OnceStep
<1> DEFINE b == wbill[w]
<1>1. b \in Bills
  BY DEF JournalInv, TypeOK
<1>2. CASE RefuseMalformed(w)
  <2>1. b \in malformed /\ op[b] # "ABSENT" /\ dispatched[b] = 0 /\ sent[b] = "NO"
        /\ op[b] \in {"ABSENT", "QUEUED", "BLOCKED"}
    BY <1>2 DEF RefuseMalformed, JournalInv, ClaimInv
  <2>2. /\ op' = [op EXCEPT ![b] = "BLOCKED"] /\ sent' = [sent EXCEPT ![b] = "NO"]
        /\ UNCHANGED dispatched
    BY <1>2 DEF RefuseMalformed, history
  <2>3. sent' = sent
    BY <1>1, <2>1, <2>2 DEF JournalInv, TypeOK
  <2>4. CASE op[b] = "QUEUED"
    BY <1>1, <2>1, <2>2, <2>3, <2>4 DEF OnceStep, Once!Next, Once!Refuse
  <2>5. CASE op[b] = "BLOCKED"
    <3>1. op' = op
      BY <1>1, <2>2, <2>5 DEF JournalInv, TypeOK
    <3> QED
      BY <2>2, <2>3, <3>1, Stutters
  <2> QED
    BY <2>1, <2>4, <2>5
<1>3. CASE Claim(w)
  <2>1. CASE op[b] = "QUEUED"
    BY <1>1, <1>3, <2>1 DEF Claim, history, OnceStep, Once!Next, Once!Claim
  <2>2. CASE op[b] # "QUEUED"
    BY <1>3, <2>2, Stutters DEF Claim, history
  <2> QED
    BY <2>1, <2>2
<1>4. CASE JournalIntent(w) \/ IntentRaises(w)
  <2>1. op[b] \in Open /\ dispatched[b] = 0
    BY <1>4 DEF JournalIntent, IntentRaises, JournalInv, ProgressInv, InTry, BeforeSend
  <2> QED
    BY <1>1, <1>4, <2>1
    DEF JournalIntent, IntentRaises, history, Open, OnceStep, Once!Next, Once!Announce, Once!Open
<1>5. CASE SendCancel(w)
  <2>1. op[b] \in Open /\ dispatched[b] = 0 /\ sent[b] = "UNKNOWN"
    BY <1>5 DEF SendCancel, JournalInv, ProgressInv, InTry, AfterSend
  <2>2. dispatched' = [dispatched EXCEPT ![b] = 1] /\ UNCHANGED <<op, sent>>
    BY <1>5, <2>1 DEF SendCancel, order, JournalInv, TypeOK
  <2> QED
    BY <1>1, <2>1, <2>2 DEF Open, OnceStep, Once!Next, Once!Send, Once!Open
<1>6. CASE JournalReceipt(w)
  <2>1. op[b] \in Open /\ dispatched[b] = 1
    BY <1>6 DEF JournalReceipt, JournalInv, ProgressInv, InTry, AfterSend
  <2> QED
    BY <1>1, <1>6, <2>1
    DEF JournalReceipt, history, Open, OnceStep, Once!Next, Once!Acknowledge, Once!Open
<1> QED
  BY <1>2, <1>3, <1>4, <1>5, <1>6

LEMMA OutsideImplements ==
  ASSUME JournalInv, Outside
  PROVE  OnceStep
<1> USE DEF order, world, worker, history
<1>1. ASSUME NEW b \in Bills, QueueCancel(b) PROVE OnceStep
  BY <1>1 DEF QueueCancel, OnceStep, Once!Next, Once!Queue
<1>2. ASSUME NEW b \in Bills, NEW o, PlaceHold(b, o) PROVE OnceStep
  BY <1>2, Stutters DEF PlaceHold
<1>3. ASSUME NEW b \in Bills,
             \/ RecordChanges(b) \/ WarehousePacks(b) \/ ShipmentCallback(b)
             \/ KingdeeUserShips(b) \/ TenMinutesPass(b) \/ DropSession(b)
      PROVE OnceStep
  BY <1>3, Stutters DEF RecordChanges, WarehousePacks, ShipmentCallback, KingdeeUserShips,
     TenMinutesPass, DropSession
<1>4. ASSUME NEW m \in net, Deliver(m) \/ Lose(m) PROVE OnceStep
  BY <1>4, Stutters DEF Deliver, Lose
<1> QED
  BY <1>1, <1>2, <1>3, <1>4 DEF Outside

\* Reads, conclusions and lock steps of an execution leave the row alone.
LEMMA WorkerImplements ==
  ASSUME JournalInv, NEW w \in Workers, WorkerStep(w) \/ KillWorker(w)
  PROVE  OnceStep
<1> USE DEF order, history
<1>1. ASSUME NEW b \in Bills, Fetch(w, b) PROVE OnceStep
  BY <1>1, Stutters DEF Fetch
<1>2. CASE NothingQueued(w) \/ TryLock(w) \/ Raise(w) \/ Leave(w) \/ KillWorker(w)
  BY <1>2, Stutters DEF NothingQueued, TryLock, Raise, Leave, KillWorker, OnlyWorkerMoves
<1>3. CASE \/ CheckOrder(w) \/ CheckShipment(w) \/ CheckLegacyCancel(w) \/ CheckXsck(w)
           \/ CheckWarehouse(w) \/ RecheckShipment(w) \/ RecheckXsck(w) \/ VerifyXsck(w)
  BY <1>3, Stutters DEF CheckOrder, CheckShipment, CheckLegacyCancel, CheckXsck,
     CheckWarehouse, RecheckShipment, RecheckXsck, VerifyXsck, Judge, OnlyWorkerMoves
<1>4. CASE ReceiveResponse(w) \/ VerifyWarehouse(w) \/ VerifyShipment(w)
  BY <1>4, Stutters DEF ReceiveResponse, VerifyWarehouse, VerifyShipment, OnlyWorkerMoves
<1> QED
  BY <1>1, <1>2, <1>3, <1>4, SweepImplements, FinishImplements, RowStepsImplement
  DEF WorkerStep

LEMMA CallerImplements ==
  ASSUME NEW c \in Callers, CallerStep(c) \/ \E b \in Bills, k \in Kinds : CTryLock(c, b, k)
  PROVE  OnceStep
BY Stutters DEF CallerStep, GateChecksHold, GateJournalsCancel, CDispatch, CLeave, CTryLock,
   order, worker, history

LEMMA StepImplements == ASSUME JournalInv, [Next]_vars PROVE OnceStep
<1>1. CASE UNCHANGED vars
  BY <1>1, Stutters DEF vars, order, history
<1>2. CASE Next
  BY <1>2, OutsideImplements, WorkerImplements, CallerImplements DEF Next
<1> QED
  BY <1>1, <1>2

\* The interception worker, with every kill, sweep, lost answer and dropped
\* session, implements the contract its journal offers to a reader.
THEOREM JournalImplements == Spec => ImplementsCancelOnce
<1>1. JournalInv /\ [Next]_vars => [Once!Next]_(Once!vars)
  BY StepImplements DEF OnceStep
<1> QED
  BY <1>1, OnceInit, JournalInvariant, PTL DEF Spec, ImplementsCancelOnce, Once!Spec

\* Only the second verdict of an execution can leave SUCCEEDED behind.
LEMMA WriterTakesBack ==
  ASSUME JournalInv, [Next]_vars, NEW b \in Bills, op[b] = "SUCCEEDED", op'[b] # "SUCCEEDED"
  PROVE  \E w \in Workers : wpc[w] = "refinishing" /\ wbill[w] = b
<1> USE DEF order
<1>1. op \in [Bills -> OpStatus] /\ malformed \subseteq Bills /\ wbill \in [Workers -> Bills]
  BY DEF JournalInv, TypeOK
<1>2. ~Outside
  BY <1>1 DEF Outside, PlaceHold, QueueCancel, RecordChanges, WarehousePacks, ShipmentCallback,
     KingdeeUserShips, TenMinutesPass, DropSession, Deliver, Lose
<1>3. ~\E c \in Callers : CallerStep(c) \/ \E d \in Bills, k \in Kinds : CTryLock(c, d, k)
  BY DEF CallerStep, GateChecksHold, GateJournalsCancel, CDispatch, CLeave, CTryLock
<1>4. ASSUME NEW w \in Workers, WorkerStep(w) \/ KillWorker(w)
      PROVE  Finish(w) \/ FinishFails(w)
  <2>1. ~RefuseMalformed(w)
    BY <1>1 DEF RefuseMalformed, JournalInv, ClaimInv
  <2>2. ~Claim(w) /\ ~Sweep(w)
    BY <1>1 DEF Claim, Sweep
  <2>3. ~(\E d \in Bills : Fetch(w, d)) /\ ~NothingQueued(w) /\ ~TryLock(w) /\ ~Leave(w)
        /\ ~KillWorker(w) /\ ~Raise(w) /\ ~IntentRaises(w)
    BY DEF Fetch, NothingQueued, TryLock, Leave, KillWorker, Raise, IntentRaises, OnlyWorkerMoves
  <2>4. ~(\/ CheckOrder(w) \/ CheckShipment(w) \/ CheckLegacyCancel(w) \/ CheckXsck(w)
          \/ CheckWarehouse(w) \/ RecheckShipment(w) \/ RecheckXsck(w) \/ VerifyXsck(w))
    BY DEF CheckOrder, CheckShipment, CheckLegacyCancel, CheckXsck, CheckWarehouse,
       RecheckShipment, RecheckXsck, VerifyXsck, Judge, OnlyWorkerMoves
  <2>5. ~(\/ JournalIntent(w) \/ SendCancel(w) \/ ReceiveResponse(w) \/ JournalReceipt(w)
          \/ VerifyWarehouse(w) \/ VerifyShipment(w))
    BY DEF JournalIntent, SendCancel, ReceiveResponse, JournalReceipt, VerifyWarehouse,
       VerifyShipment, OnlyWorkerMoves
  <2> QED
    BY <1>4, <2>1, <2>2, <2>3, <2>4, <2>5 DEF WorkerStep
<1>5. PICK w \in Workers : Finish(w) \/ FinishFails(w)
  BY <1>2, <1>3, <1>4 DEF Next, vars
<1>6. wpc[w] \in {"finishing", "refinishing"} /\ wbill[w] = b
  BY <1>1, <1>5 DEF Finish, FinishFails, WriteVerdict
<1>7. wpc[w] # "finishing"
  BY <1>6 DEF JournalInv, ProgressInv, Open
<1> QED
  BY <1>6, <1>7

\* The verdict of a row is its writer's to weaken: at every other moment BLOCKED
\* and SUCCEEDED stay, and no row ever gets a better verdict than it had.  The
\* contract says what may change, the journal invariant who changes it.
THEOREM VerdictIsFinal == Spec => VerdictOnlyWeakens
<1> DEFINE Stays(b) == op[b] = "BLOCKED" => op'[b] = "BLOCKED" /\ sent'[b] = sent[b]
           Weaker(b) == op[b] = "SUCCEEDED" /\ op'[b] # "SUCCEEDED" =>
                          /\ op'[b] = IF dispatched[b] = 0 THEN "BLOCKED" ELSE "UNKNOWN"
                          /\ sent'[b] = sent[b]
           Weakens ==
             \A b \in Bills :
               /\ op[b] = "BLOCKED" => op'[b] = "BLOCKED" /\ sent'[b] = sent[b]
               /\ op[b] = "SUCCEEDED" /\ op'[b] # "SUCCEEDED" =>
                    /\ op'[b] = IF dispatched[b] = 0 THEN "BLOCKED" ELSE "UNKNOWN"
                    /\ sent'[b] = sent[b]
                    /\ \E w \in Workers : wpc[w] = "refinishing" /\ wbill[w] = b
<1>1. ASSUME JournalInv, [Next]_vars, NEW b \in Bills PROVE Stays(b) /\ Weaker(b)
  <2>1. OnceStep
    BY <1>1, StepImplements
  <2>2. op \in [Bills -> OpStatus] /\ sent \in [Bills -> SentValues]
    BY <1>1 DEF JournalInv, TypeOK
  <2>3. CASE UNCHANGED <<op, sent, dispatched>>
    BY <2>3
  <2>4. ASSUME NEW d \in Bills,
               \/ Once!Queue(d) \/ Once!Claim(d) \/ Once!Announce(d) \/ Once!Send(d)
               \/ Once!Acknowledge(d) \/ Once!Refuse(d) \/ Once!Reconsider(d)
        PROVE  Stays(b) /\ Weaker(b)
    BY <2>2, <2>4 DEF Once!Queue, Once!Claim, Once!Announce, Once!Send, Once!Acknowledge,
       Once!Refuse, Once!Reconsider, Once!Open
  <2>5. ASSUME NEW d \in Bills, NEW v, NEW s, Once!Settle(d, v, s)
        PROVE  Stays(b) /\ Weaker(b)
    BY <2>2, <2>5 DEF Once!Settle, Once!Open
  <2>6. ASSUME NEW S \in SUBSET Bills, Once!GiveUp(S) PROVE Stays(b) /\ Weaker(b)
    BY <2>2, <2>6 DEF Once!GiveUp
  <2> HIDE DEF Stays, Weaker
  <2> QED
    BY <2>1, <2>3, <2>4, <2>5, <2>6 DEF OnceStep, Once!Next, Once!vars
<1>2. JournalInv /\ [Next]_vars => [Weakens]_vars
  BY <1>1, WriterTakesBack
<1> QED
  BY <1>2, JournalInvariant, PTL DEF Spec, VerdictOnlyWeakens

=============================================================================
