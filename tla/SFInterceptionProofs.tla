------------------------ MODULE SFInterceptionProofs ------------------------
(***************************************************************************)
(* Proofs about SFInterception, for any number of bills, concurrent        *)
(* executions and lock callers.                                            *)
(*                                                                         *)
(* JournalInv carries everything that follows from the claim and the       *)
(* journal alone: it needs no lock and survives dropped sessions.  LockInv *)
(* adds what the shared advisory lock gives while sessions stay open.      *)
(***************************************************************************)
EXTENDS SFInterception, TLAPS

Open == {"PROCESSING", "UNKNOWN"}

\* A claim is exclusive and never undone.
ClaimInv ==
  /\ \A w \in Workers :
       /\ wpc[w] \in Claimed \cup {"locked"} => wbill[w] \notin malformed
       /\ wpc[w] \in Claimed => op[wbill[w]] \notin {"ABSENT", "QUEUED"}
       /\ wpc[w] \in {"fetched", "locked"} => op[wbill[w]] # "ABSENT"
  /\ \A w, v \in Workers :
       w # v /\ wpc[w] \in Claimed /\ wpc[v] \in Claimed => wbill[w] # wbill[v]
  /\ \A b \in Bills : op[b] \in {"ABSENT", "QUEUED"} => dispatched[b] = 0 /\ sent[b] = "NO"
  /\ \A b \in malformed :
       op[b] \in {"ABSENT", "QUEUED", "BLOCKED"} /\ dispatched[b] = 0 /\ sent[b] = "NO"

\* What the program counter of an execution tells about its bill's row.
ProgressInv ==
  \A w \in Workers :
    LET b == wbill[w] IN
    /\ wpc[w] \in InTry \cup {"finishing"} => op[b] \in Open
    /\ wpc[w] \in BeforeSend => dispatched[b] = 0 /\ sent[b] = "NO"
    /\ wpc[w] = "journaled" => dispatched[b] = 0 /\ sent[b] = "UNKNOWN"
    /\ wpc[w] \in {"awaiting", "received"} => dispatched[b] = 1 /\ sent[b] = "UNKNOWN"
    /\ wpc[w] \in {"acked", "gone", "kept", "goneNoXsck"}
         => dispatched[b] = 1 /\ sent[b] = "YES"

\* The verdict an execution is about to write agrees with what it did.
PendingVerdictInv ==
  \A w \in Workers :
    LET b == wbill[w] IN
    wpc[w] \in {"finishing", "refinishing"} =>
      /\ verdict[w].sent = "NO" => dispatched[b] = 0
      /\ verdict[w].sent = "YES" => dispatched[b] = 1
      /\ verdict[w].status = "BLOCKED" => verdict[w].sent = "NO"
      /\ verdict[w].status = "SUCCEEDED" => verdict[w].sent # "UNKNOWN"

\* What the second verdict may find in the row: nothing yet, or the first one.
SecondVerdictInv ==
  \A w \in Workers :
    LET b == wbill[w] IN
    wpc[w] = "refinishing" =>
      /\ verdict[w].status = IF verdict[w].sent = "NO" THEN "BLOCKED" ELSE "UNKNOWN"
      /\ op[b] = "BLOCKED" => verdict[w].sent = "NO" /\ sent[b] = "NO"
      /\ op[b] = "SUCCEEDED" => sent[b] = verdict[w].sent /\ sent[b] # "UNKNOWN"

RowInv == AtMostOnce /\ JournalTellsOfSend /\ VerdictIsHonest

JournalInv ==
  TypeOK /\ ClaimInv /\ ProgressInv /\ PendingVerdictInv /\ SecondVerdictInv /\ RowInv

\* The order lock and the hold, while no session is dropped.
Inside == {"entered", "allowed", "intended", "waiting"}
Matched == (BeforeSend \ {"claimed"}) \cup {"journaled"}
LegacyFree == {"unattempted", "noXsck", "prepack", "stillUnshipped", "ready", "journaled"}

\* Whoever is inside a critical section of a bill is the holder of its lock.
OwnerInv ==
  /\ \A w \in Workers : wpc[w] \in Claimed \cup {"locked"} => lock[wbill[w]] = w
  /\ \A c \in Callers : cpc[c] \in Inside => lock[cbill[c]] = c

\* What an execution has read under the lock still holds.
EvidenceInv ==
  \A w \in Workers : /\ wpc[w] \in Matched => hold[wbill[w]] # "none"
                     /\ wpc[w] \in LegacyFree => ~legacy[wbill[w]]

BillInv ==
  \A b \in Bills : /\ dispatched[b] > 0 => hold[b] # "none" /\ ~legacy[b]
                   /\ hold[b] = "none" => afterHold[b] = 0
                   /\ afterHold[b] <= 1

\* Whoever passed the gate found no hold, so nothing was sent under one yet.
GateInv ==
  \A c \in Callers : /\ cpc[c] = "allowed" => dispatched[cbill[c]] = 0
                     /\ cpc[c] \in {"allowed", "intended"} /\ ckind[c] # "outstock"
                          => afterHold[cbill[c]] = 0

LockInv == OwnerInv /\ EvidenceInv /\ BillInv /\ GateInv

\* The converse of OwnerInv, which dropped sessions leave as it is: the holder
\* of a lock is inside the critical section of that bill.
HolderInv ==
  \A b \in Bills :
    lock[b] # Free =>
      \/ /\ lock[b] \in Workers /\ wbill[lock[b]] = b
         /\ wpc[lock[b]] \in Claimed \cup {"locked"}
      \/ lock[b] \in Callers /\ cbill[lock[b]] = b /\ cpc[lock[b]] \in Inside

-----------------------------------------------------------------------------
(* Type correctness. *)

LEMMA TypeInit == Init => TypeOK
BY LockOwnersAssumption DEF Init, TypeOK, Owners, OpStatus, Terminal, SentValues, WmsStates, Verdicts, NoVerdict, Kinds, Requests, BeforeSend, AfterSend, InTry, Claimed, WorkerPc, CallerPc

\* A read that may end the operation keeps the types.
LEMMA JudgeType ==
  ASSUME TypeOK, NEW w \in Workers, NEW ends \in BOOLEAN, NEW status \in Terminal,
         NEW s \in SentValues, NEW next \in WorkerPc, Judge(w, ends, status, s, next)
  PROVE  TypeOK'
<1> USE DEF TypeOK, Judge, OnlyWorkerMoves, order, world, caller, history, Verdicts
<1>1. CASE ends
  <2>1. /\ wpc' = [wpc EXCEPT ![w] = "finishing"]
        /\ verdict' = [verdict EXCEPT ![w] = [status |-> status, sent |-> s]]
    BY <1>1 DEF Conclude
  <2>2. [status |-> status, sent |-> s] \in Verdicts
    OBVIOUS
  <2>3. "finishing" \in WorkerPc
    BY DEF WorkerPc, Claimed
  <2> QED
    BY <2>1, <2>2, <2>3
<1>2. CASE ~ends
  BY <1>2 DEF Goto
<1> QED
  BY <1>1, <1>2

\* Giving a lock back keeps its type.
LEMMA UnlockType ==
  ASSUME TypeOK, NEW p, NEW b \in Bills, Unlock(p, b)
  PROVE  lock' \in [Bills -> Workers \cup Callers \cup {Free}]
BY DEF TypeOK, Unlock, Holds

\* So do all the checks of execute_one that are such reads.
LEMMA ChecksType ==
  ASSUME TypeOK, NEW w \in Workers,
         \/ CheckOrder(w) \/ CheckShipment(w) \/ CheckLegacyCancel(w)
         \/ CheckXsck(w) \/ CheckWarehouse(w) \/ RecheckShipment(w)
         \/ RecheckXsck(w) \/ VerifyXsck(w)
  PROVE  TypeOK'
<1>1. /\ callback[wbill[w]] \in BOOLEAN
      /\ legacy[wbill[w]] \in BOOLEAN
      /\ xsck[wbill[w]] \in BOOLEAN
  BY DEF TypeOK
<1>2. {"matched", "unshipped", "unattempted", "noXsck", "prepack",
       "stillUnshipped", "ready", "goneNoXsck"} \subseteq WorkerPc
  BY DEF WorkerPc, Claimed, InTry, BeforeSend, AfterSend
<1>3. {"BLOCKED", "SUCCEEDED", "UNKNOWN"} \subseteq Terminal
  BY DEF Terminal
<1>4. {"NO", "UNKNOWN", "YES"} \subseteq SentValues
  BY DEF SentValues
<1>5. CASE CheckOrder(w)
  BY <1>2, <1>3, <1>4, <1>5, JudgeType DEF CheckOrder
<1>6. CASE CheckShipment(w)
  BY <1>1, <1>2, <1>3, <1>4, <1>6, JudgeType DEF CheckShipment
<1>7. CASE CheckLegacyCancel(w)
  BY <1>1, <1>2, <1>3, <1>4, <1>7, JudgeType DEF CheckLegacyCancel
<1>8. CASE CheckXsck(w)
  BY <1>1, <1>2, <1>3, <1>4, <1>8, JudgeType DEF CheckXsck
<1>9. CASE CheckWarehouse(w)
  BY <1>2, <1>3, <1>4, <1>9, JudgeType DEF CheckWarehouse
<1>10. CASE RecheckShipment(w)
  BY <1>1, <1>2, <1>3, <1>4, <1>10, JudgeType DEF RecheckShipment
<1>11. CASE RecheckXsck(w)
  BY <1>1, <1>2, <1>3, <1>4, <1>11, JudgeType DEF RecheckXsck
<1>12. CASE VerifyXsck(w)
  BY <1>1, <1>2, <1>3, <1>4, <1>12, JudgeType DEF VerifyXsck
<1> QED
  BY <1>5, <1>6, <1>7, <1>8, <1>9, <1>10, <1>11, <1>12

LEMMA TypeStep == TypeOK /\ [Next]_vars => TypeOK'
<1> SUFFICES ASSUME TypeOK, [Next]_vars PROVE TypeOK'
  OBVIOUS
<1>17. ASSUME NEW w \in Workers,
              \/ CheckOrder(w) \/ CheckShipment(w) \/ CheckLegacyCancel(w)
              \/ CheckXsck(w) \/ CheckWarehouse(w) \/ RecheckShipment(w)
              \/ RecheckXsck(w) \/ VerifyXsck(w)
       PROVE  TypeOK'
  BY <1>17, ChecksType
<1> USE LockOwnersAssumption
        DEF TypeOK, order, world, worker, caller, history, Goto, Holds, Unlock, Conclude, OnlyWorkerMoves, Judge, CGoto, CRest,
            Owners, OpStatus, Terminal, SentValues, WmsStates, Verdicts, NoVerdict, Kinds, Requests, BeforeSend, AfterSend, InTry, Claimed, WorkerPc, CallerPc
<1>1. ASSUME NEW b \in Bills, NEW o \in {"requester", "other"}, PlaceHold(b, o) PROVE TypeOK'
  BY <1>1 DEF PlaceHold
<1>2. ASSUME NEW b \in Bills, QueueCancel(b) PROVE TypeOK'
  BY <1>2 DEF QueueCancel
<1>3. ASSUME NEW b \in Bills, RecordChanges(b) PROVE TypeOK'
  BY <1>3 DEF RecordChanges
<1>4. ASSUME NEW b \in Bills, WarehousePacks(b) PROVE TypeOK'
  BY <1>4 DEF WarehousePacks
<1>5. ASSUME NEW b \in Bills, ShipmentCallback(b) PROVE TypeOK'
  BY <1>5 DEF ShipmentCallback
<1>6. ASSUME NEW b \in Bills, KingdeeUserShips(b) PROVE TypeOK'
  BY <1>6 DEF KingdeeUserShips
<1>7. ASSUME NEW b \in Bills, TenMinutesPass(b) PROVE TypeOK'
  BY <1>7 DEF TenMinutesPass
<1>8. ASSUME NEW b \in Bills, DropSession(b) PROVE TypeOK'
  BY <1>8 DEF DropSession
<1>9. ASSUME NEW m \in net, Deliver(m) PROVE TypeOK'
  BY <1>9 DEF Deliver
<1>10. ASSUME NEW m \in net, Lose(m) PROVE TypeOK'
  BY <1>10 DEF Lose
<1>11. ASSUME NEW w \in Workers, Sweep(w) PROVE TypeOK'
  BY <1>11 DEF Sweep
<1>12. ASSUME NEW w \in Workers, NothingQueued(w) PROVE TypeOK'
  BY <1>12 DEF NothingQueued
<1>13. ASSUME NEW w \in Workers, RefuseMalformed(w) PROVE TypeOK'
  BY <1>13 DEF RefuseMalformed
<1>14. ASSUME NEW w \in Workers, TryLock(w) PROVE TypeOK'
  <2>1. CASE lock[wbill[w]] = Free
    <3>1. /\ wpc' = [wpc EXCEPT ![w] = "locked"]
          /\ lock' = [lock EXCEPT ![wbill[w]] = w]
      BY <1>14, <2>1 DEF TryLock
    <3> QED
      BY <3>1, <1>14 DEF TryLock
  <2>2. CASE lock[wbill[w]] # Free
    <3>1. wpc' = [wpc EXCEPT ![w] = "idle"] /\ UNCHANGED lock
      BY <1>14, <2>2 DEF TryLock
    <3> QED
      BY <3>1, <1>14 DEF TryLock
  <2> QED
    BY <1>14, <2>1, <2>2 DEF TryLock
<1>15. ASSUME NEW w \in Workers, Claim(w) PROVE TypeOK'
  <2>1. CASE op[wbill[w]] = "QUEUED"
    <3>1. /\ wpc' = [wpc EXCEPT ![w] = "claimed"]
          /\ op' = [op EXCEPT ![wbill[w]] = "PROCESSING"]
          /\ aged' = [aged EXCEPT ![wbill[w]] = FALSE]
          /\ UNCHANGED lock
      BY <1>15, <2>1 DEF Claim
    <3> QED
      BY <3>1, <1>15 DEF Claim
  <2>2. CASE op[wbill[w]] # "QUEUED"
    <3>1. wpc' = [wpc EXCEPT ![w] = "idle"] /\ UNCHANGED <<op, aged>>
      BY <1>15, <2>2 DEF Claim
    <3>2. lock' \in [Bills -> Workers \cup Callers \cup {Free}]
      BY <1>15, <2>2 DEF Claim
    <3> QED
      BY <3>1, <3>2, <1>15 DEF Claim
  <2> QED
    BY <1>15, <2>1, <2>2 DEF Claim
<1>16. ASSUME NEW w \in Workers, NEW b \in Bills, Fetch(w, b) PROVE TypeOK'
  BY <1>16 DEF Fetch
<1>24. ASSUME NEW w \in Workers, JournalIntent(w) PROVE TypeOK'
  BY <1>24 DEF JournalIntent
<1>25. ASSUME NEW w \in Workers, SendCancel(w) PROVE TypeOK'
  BY <1>25 DEF SendCancel
<1>26. ASSUME NEW w \in Workers, ReceiveResponse(w) PROVE TypeOK'
  BY <1>26 DEF ReceiveResponse
<1>27. ASSUME NEW w \in Workers, JournalReceipt(w) PROVE TypeOK'
  BY <1>27 DEF JournalReceipt
<1>28. ASSUME NEW w \in Workers, VerifyWarehouse(w) PROVE TypeOK'
  BY <1>28 DEF VerifyWarehouse
<1>30. ASSUME NEW w \in Workers, VerifyShipment(w) PROVE TypeOK'
  BY <1>30 DEF VerifyShipment
<1>31. ASSUME NEW w \in Workers, Raise(w) PROVE TypeOK'
  BY <1>31 DEF Raise
<1>43. ASSUME NEW w \in Workers, IntentRaises(w) PROVE TypeOK'
  BY <1>43 DEF IntentRaises
<1>32. ASSUME NEW w \in Workers, Finish(w) PROVE TypeOK'
  BY <1>32 DEF Finish, WriteVerdict
<1>33. ASSUME NEW w \in Workers, FinishFails(w) PROVE TypeOK'
  <2> DEFINE v == [verdict[w] EXCEPT !.status =
                     IF verdict[w].sent = "NO" THEN "BLOCKED" ELSE "UNKNOWN"]
  <2>1. /\ wpc' \in [Workers -> WorkerPc]
        /\ verdict' = verdict \/ verdict' = [verdict EXCEPT ![w] = v]
    BY <1>33 DEF FinishFails
  <2>2. verdict[w] \in Verdicts /\ v \in Verdicts
    BY <1>33
  <2> HIDE DEF v
  <2>3. verdict' \in [Workers -> Verdicts]
    BY <2>1, <2>2
  <2>4. /\ op' \in [Bills -> OpStatus] /\ sent' \in [Bills -> SentValues]
        /\ aged' \in [Bills -> BOOLEAN]
    <3>1. verdict[w].status \in OpStatus /\ verdict[w].sent \in SentValues
      BY <2>2
    <3>2. CASE WriteVerdict(w)
      BY <3>1, <3>2 DEF WriteVerdict
    <3>3. CASE UNCHANGED <<op, sent, aged>>
      BY <3>3
    <3> QED
      BY <1>33, <3>2, <3>3 DEF FinishFails
  <2>5. UNCHANGED <<hold, legacy, fit, world, lock, wbill, caller, history>>
    BY <1>33 DEF FinishFails
  <2> HIDE DEF OpStatus, SentValues, Verdicts, WorkerPc
  <2> QED
    BY <2>1, <2>3, <2>4, <2>5
<1>34. ASSUME NEW w \in Workers, Leave(w) PROVE TypeOK'
  BY <1>34 DEF Leave
<1>35. ASSUME NEW w \in Workers, KillWorker(w) PROVE TypeOK'
  BY <1>35 DEF KillWorker
<1>37. ASSUME NEW c \in Callers, NEW b \in Bills, NEW k \in Kinds, CTryLock(c, b, k) PROVE TypeOK'
  <2>1. (IF k = "outstock" THEN "intended" ELSE "entered") \in CallerPc
    OBVIOUS
  <2>2. cpc' \in [Callers -> CallerPc]
    BY <1>37, <2>1 DEF CTryLock
  <2> QED
    BY <1>37, <2>2 DEF CTryLock
<1>38. ASSUME NEW c \in Callers, GateChecksHold(c) PROVE TypeOK'
  <2>1. CASE hold[cbill[c]] # "none"
    <3>1. cpc' = [cpc EXCEPT ![c] = "idle"]
      BY <1>38, <2>1 DEF GateChecksHold
    <3>2. lock' \in [Bills -> Workers \cup Callers \cup {Free}]
      BY <1>38, <2>1 DEF GateChecksHold
    <3> QED
      BY <3>1, <3>2, <1>38 DEF GateChecksHold
  <2>2. CASE hold[cbill[c]] = "none"
    <3>1. cpc' \in [Callers -> CallerPc] /\ UNCHANGED lock
      BY <1>38, <2>2 DEF GateChecksHold
    <3> QED
      BY <3>1, <1>38 DEF GateChecksHold
  <2> QED
    BY <2>1, <2>2
<1>39. ASSUME NEW c \in Callers, GateJournalsCancel(c) PROVE TypeOK'
  BY <1>39 DEF GateJournalsCancel
<1>40. ASSUME NEW c \in Callers, CDispatch(c) PROVE TypeOK'
  <2>1. CASE ckind[c] = "outstock"
    <3>1. xsck' = [xsck EXCEPT ![cbill[c]] = TRUE] /\ UNCHANGED <<net, afterHold>>
      BY <1>40, <2>1 DEF CDispatch
    <3> QED
      BY <3>1, <1>40 DEF CDispatch
  <2>2. CASE ckind[c] # "outstock"
    BY <1>40, <2>2 DEF CDispatch
  <2> QED
    BY <1>40, <2>1, <2>2 DEF CDispatch
<1>41. ASSUME NEW c \in Callers, CLeave(c) PROVE TypeOK'
  BY <1>41 DEF CLeave
<1>42. CASE UNCHANGED vars
  BY <1>42 DEF vars
<1> HIDE DEF TypeOK, order, world, worker, caller, history, Goto, Holds, Unlock,
         Conclude, OnlyWorkerMoves, Judge, CGoto, CRest
<1> QED
  BY <1>1, <1>2, <1>3, <1>4, <1>5, <1>6, <1>7, <1>8, <1>9, <1>10, <1>11, <1>12, <1>13, <1>14, <1>15, <1>16, <1>17, <1>24, <1>25, <1>26, <1>27, <1>28, <1>30, <1>31, <1>32, <1>33, <1>34, <1>35, <1>37, <1>38, <1>39, <1>40, <1>41, <1>42, <1>43
     DEF Next, Outside, WorkerStep, CallerStep

\* Every variable keeps its type; in particular nothing but finish() and the
\* sweep writes a terminal status, and a lock has one known holder.
THEOREM TypeCorrect == Spec => []TypeOK
BY TypeInit, TypeStep, PTL DEF Spec

-----------------------------------------------------------------------------
(* The journal invariant. *)

JournalParts == <<malformed, op, sent, dispatched, wpc, wbill, verdict>>

LEMMA JournalInit == Init => JournalInv
BY TypeInit, LockOwnersAssumption DEF Init, JournalInv, ClaimInv, ProgressInv, PendingVerdictInv, SecondVerdictInv, RowInv,
   AtMostOnce, JournalTellsOfSend, VerdictIsHonest, Claimed, InTry, BeforeSend, AfterSend

\* A step that touches neither the row nor the executor.
LEMMA JournalFrame == JournalInv /\ TypeOK' /\ UNCHANGED JournalParts => JournalInv'
BY DEF JournalParts, JournalInv, ClaimInv, ProgressInv, PendingVerdictInv, SecondVerdictInv, RowInv,
   AtMostOnce, JournalTellsOfSend, VerdictIsHonest

\* An execution that goes from one read before the send to the next.
LEMMA ReadBeforeSend ==
  ASSUME JournalInv, TypeOK', NEW w \in Workers, NEW next \in BeforeSend,
         wpc[w] \in BeforeSend, wpc' = [wpc EXCEPT ![w] = next],
         UNCHANGED <<malformed, op, sent, dispatched, wbill, verdict>>
  PROVE  JournalInv'
BY DEF JournalInv, TypeOK, ClaimInv, ProgressInv, PendingVerdictInv, SecondVerdictInv, RowInv, AtMostOnce, JournalTellsOfSend, VerdictIsHonest,
   Claimed, InTry, BeforeSend, AfterSend

\* An execution that leaves its try block with a verdict in keeping with what
\* it has done.
LEMMA ConcludeStep ==
  ASSUME JournalInv, TypeOK', NEW w \in Workers, NEW status \in Terminal,
         NEW s \in SentValues, wpc[w] \in InTry, Conclude(w, status, s),
         s = "NO" => dispatched[wbill[w]] = 0 /\ sent[wbill[w]] = "NO",
         s = "YES" => dispatched[wbill[w]] = 1,
         status = "BLOCKED" => s = "NO",
         status = "SUCCEEDED" => s # "UNKNOWN",
         UNCHANGED <<malformed, op, sent, dispatched, wbill>>
  PROVE  JournalInv'
<1> USE DEF JournalInv, TypeOK, Conclude
<1>1. ClaimInv'
  BY DEF ClaimInv, Claimed
<1>2. ProgressInv'
  BY DEF ProgressInv, InTry, BeforeSend, AfterSend
<1>3. PendingVerdictInv'
  BY DEF PendingVerdictInv, InTry, BeforeSend, AfterSend
<1>4. RowInv'
  BY DEF RowInv, AtMostOnce, JournalTellsOfSend, VerdictIsHonest
<1>5. SecondVerdictInv'
  BY DEF SecondVerdictInv
<1> QED
  BY <1>1, <1>2, <1>3, <1>4, <1>5

\* A verdict read from the evidence before anything was sent.
LEMMA JudgeBeforeSend ==
  ASSUME JournalInv, TypeOK', NEW w \in Workers, NEW ends \in BOOLEAN,
         NEW status \in {"BLOCKED", "SUCCEEDED"}, NEW next \in BeforeSend,
         wpc[w] \in BeforeSend, Judge(w, ends, status, "NO", next)
  PROVE  JournalInv'
<1>1. CASE ends
  <2>1. dispatched[wbill[w]] = 0 /\ sent[wbill[w]] = "NO"
    BY DEF JournalInv, ProgressInv
  <2> QED
    BY <1>1, <2>1, ConcludeStep
    DEF Judge, OnlyWorkerMoves, order, world, history, Terminal, SentValues, InTry
<1>2. CASE ~ends
  BY <1>2, ReadBeforeSend DEF Judge, OnlyWorkerMoves, order, world, history, Goto
<1> QED
  BY <1>1, <1>2

\* An execution that goes from its try block to the handler's verdict; its last
\* statement on the journal may have been committed.
LEMMA HandlerStep ==
  ASSUME JournalInv, TypeOK', NEW w \in Workers, NEW v \in Verdicts, wpc[w] \in InTry,
         wpc' = [wpc EXCEPT ![w] = "refinishing"], verdict' = [verdict EXCEPT ![w] = v],
         v.status = IF v.sent = "NO" THEN "BLOCKED" ELSE "UNKNOWN",
         v.sent = "NO" => dispatched[wbill[w]] = 0,
         v.sent = "YES" => dispatched[wbill[w]] = 1,
         \/ sent' = sent
         \/ wpc[w] \in BeforeSend /\ sent' = [sent EXCEPT ![wbill[w]] = "UNKNOWN"],
         UNCHANGED <<malformed, op, dispatched, wbill>>
  PROVE  JournalInv'
<1> DEFINE b == wbill[w]
<1> USE DEF JournalInv, TypeOK
<1>1. /\ b \in Bills /\ b \notin malformed /\ op[b] \in Open
      /\ wpc[w] \in BeforeSend => dispatched[b] = 0
      /\ \A u \in Workers : u # w /\ wpc[u] \in Claimed => wbill[u] # b
  BY DEF ClaimInv, ProgressInv, Claimed
<1>2. \A d \in Bills : d # b => sent'[d] = sent[d]
  OBVIOUS
<1>3. /\ wpc'[w] = "refinishing" /\ verdict'[w] = v
      /\ \A u \in Workers : u # w => wpc'[u] = wpc[u] /\ verdict'[u] = verdict[u]
  OBVIOUS
<1>4. ClaimInv'
  BY <1>1, <1>2, <1>3 DEF ClaimInv, Claimed, Open
<1>5. ProgressInv'
  BY <1>1, <1>2, <1>3 DEF ProgressInv, Claimed, InTry, BeforeSend, AfterSend
<1>6. PendingVerdictInv'
  BY <1>1, <1>2, <1>3 DEF PendingVerdictInv
<1>7. SecondVerdictInv'
  BY <1>1, <1>2, <1>3 DEF SecondVerdictInv, Open, Claimed
<1>8. RowInv'
  BY <1>1, <1>2 DEF RowInv, AtMostOnce, JournalTellsOfSend, VerdictIsHonest
<1> QED
  BY <1>4, <1>5, <1>6, <1>7, <1>8

\* finish(), whether its UPDATE is committed or not, and whether it returns
\* or raises.
LEMMA FinishStep ==
  ASSUME JournalInv, TypeOK', NEW w \in Workers, wpc[w] \in {"finishing", "refinishing"},
         WriteVerdict(w) \/ UNCHANGED <<op, sent>>,
         \/ /\ wpc' = [wpc EXCEPT ![w] = "leaving"] /\ UNCHANGED verdict
         \/ /\ wpc[w] = "finishing" /\ wpc' = [wpc EXCEPT ![w] = "refinishing"]
            /\ verdict' = [verdict EXCEPT ![w].status =
                             IF verdict[w].sent = "NO" THEN "BLOCKED" ELSE "UNKNOWN"],
         UNCHANGED <<malformed, dispatched, wbill>>
  PROVE  JournalInv'
<1> DEFINE b == wbill[w]
           v == verdict[w]
<1> USE DEF JournalInv, TypeOK
<1>1. /\ b \in Bills /\ b \notin malformed /\ op[b] \notin {"ABSENT", "QUEUED"}
      /\ \A u \in Workers : u # w /\ wpc[u] \in Claimed => wbill[u] # b
  BY DEF ClaimInv, Claimed
<1>2. v.status \in Terminal /\ v.sent \in SentValues
  BY DEF Verdicts
<1>3. /\ v.sent = "NO" => dispatched[b] = 0
      /\ v.sent = "YES" => dispatched[b] = 1
      /\ v.status = "BLOCKED" => v.sent = "NO"
      /\ v.status = "SUCCEEDED" => v.sent # "UNKNOWN"
  BY DEF PendingVerdictInv
<1>4. /\ \A d \in Bills : d # b => op'[d] = op[d] /\ sent'[d] = sent[d]
      /\ \/ op'[b] = v.status /\ sent'[b] = v.sent
         \/ op'[b] = op[b] /\ sent'[b] = sent[b]
  BY <1>1 DEF WriteVerdict
<1>5. /\ \A u \in Workers : u # w => wpc'[u] = wpc[u] /\ verdict'[u] = verdict[u]
      /\ verdict'[w].sent = v.sent
      /\ \/ wpc'[w] = "leaving"
         \/ /\ wpc[w] = "finishing" /\ wpc'[w] = "refinishing"
            /\ verdict'[w].status = IF v.sent = "NO" THEN "BLOCKED" ELSE "UNKNOWN"
  BY <1>2 DEF Verdicts
<1> HIDE DEF b, v
<1>6. ClaimInv'
  <2>1. op'[b] \notin {"ABSENT", "QUEUED"}
    BY <1>1, <1>2, <1>4 DEF Terminal
  <2>2. \A u \in Workers : wpc'[u] \in Claimed \cup {"locked", "fetched"} => wpc'[u] = wpc[u] \/ u = w
    BY <1>5
  <2>3. \A u \in Workers : wpc'[u] \in Claimed => wpc[u] \in Claimed
    BY <1>5 DEF Claimed
  <2>4. \A u \in Workers : wpc'[u] \in Claimed => op'[wbill[u]] \notin {"ABSENT", "QUEUED"}
    BY <1>4, <2>1, <2>3 DEF ClaimInv
  <2>5. \A u \in Workers : wpc'[u] \in {"fetched", "locked"} => op'[wbill[u]] # "ABSENT"
    BY <1>4, <1>5, <2>1, <2>2 DEF ClaimInv
  <2>6. \A u \in Workers : wpc'[u] \in Claimed \cup {"locked"} => wbill[u] \notin malformed
    BY <1>1, <2>2 DEF ClaimInv, b
  <2>7. \A d \in Bills : op'[d] \in {"ABSENT", "QUEUED"} => dispatched[d] = 0 /\ sent'[d] = "NO"
    BY <1>4, <2>1 DEF ClaimInv
  <2>8. \A d \in malformed : /\ op'[d] \in {"ABSENT", "QUEUED", "BLOCKED"}
                           /\ dispatched[d] = 0 /\ sent'[d] = "NO"
    BY <1>1, <1>4 DEF ClaimInv
  <2>9. \A u, x \in Workers : u # x /\ wpc'[u] \in Claimed /\ wpc'[x] \in Claimed
                            => wbill[u] # wbill[x]
    BY <2>3 DEF ClaimInv
  <2> QED
    BY <2>4, <2>5, <2>6, <2>7, <2>8, <2>9 DEF ClaimInv
<1>7. ProgressInv'
  BY <1>1, <1>4, <1>5 DEF ProgressInv, Claimed, InTry, BeforeSend, AfterSend, b
<1>8. PendingVerdictInv'
  BY <1>1, <1>3, <1>4, <1>5 DEF PendingVerdictInv, b, v
<1>9. SecondVerdictInv'
  <2>1. ASSUME NEW u \in Workers, u # w, wpc'[u] = "refinishing"
        PROVE  wbill[u] # b /\ op'[wbill[u]] = op[wbill[u]] /\ sent'[wbill[u]] = sent[wbill[u]]
    BY <1>1, <1>4, <1>5, <2>1 DEF Claimed
  <2>2. ASSUME wpc'[w] = "refinishing"
        PROVE  /\ verdict'[w].status = IF verdict'[w].sent = "NO" THEN "BLOCKED" ELSE "UNKNOWN"
               /\ op'[b] = "BLOCKED" => verdict'[w].sent = "NO" /\ sent'[b] = "NO"
               /\ op'[b] = "SUCCEEDED" => sent'[b] = verdict'[w].sent /\ sent'[b] # "UNKNOWN"
    BY <1>3, <1>4, <1>5, <2>2 DEF ProgressInv, Open, b
  <2> QED
    BY <1>5, <2>1, <2>2 DEF SecondVerdictInv, b
<1>10. RowInv'
  BY <1>1, <1>2, <1>3, <1>4 DEF RowInv, AtMostOnce, JournalTellsOfSend, VerdictIsHonest, SentValues
<1> QED
  BY <1>6, <1>7, <1>8, <1>9, <1>10

LEMMA JournalStep == JournalInv /\ [Next]_vars => JournalInv'
<1> SUFFICES ASSUME JournalInv, [Next]_vars PROVE JournalInv'
  OBVIOUS
<1> USE DEF order, world, worker, caller, history, Goto
<1> TypeOK /\ TypeOK'
  BY TypeStep DEF JournalInv
<1> ClaimInv /\ ProgressInv /\ PendingVerdictInv /\ SecondVerdictInv /\ RowInv
  BY DEF JournalInv
<1> malformed \subseteq Bills
  BY DEF TypeOK
<1>1. ASSUME NEW b \in Bills, RecordChanges(b) PROVE JournalInv'
  BY <1>1, JournalFrame DEF JournalParts, RecordChanges
<1>2. ASSUME NEW b \in Bills, WarehousePacks(b) PROVE JournalInv'
  BY <1>2, JournalFrame DEF JournalParts, WarehousePacks
<1>3. ASSUME NEW b \in Bills, ShipmentCallback(b) PROVE JournalInv'
  BY <1>3, JournalFrame DEF JournalParts, ShipmentCallback
<1>4. ASSUME NEW b \in Bills, KingdeeUserShips(b) PROVE JournalInv'
  BY <1>4, JournalFrame DEF JournalParts, KingdeeUserShips
<1>5. ASSUME NEW b \in Bills, TenMinutesPass(b) PROVE JournalInv'
  BY <1>5, JournalFrame DEF JournalParts, TenMinutesPass
<1>6. ASSUME NEW b \in Bills, DropSession(b) PROVE JournalInv'
  BY <1>6, JournalFrame DEF JournalParts, DropSession
<1>7. ASSUME NEW b \in Bills, NEW o \in {"requester", "other"}, PlaceHold(b, o) PROVE JournalInv'
  BY <1>7, JournalFrame DEF JournalParts, PlaceHold
<1>8. ASSUME NEW m \in net, Deliver(m) \/ Lose(m) PROVE JournalInv'
  BY <1>8, JournalFrame DEF JournalParts, Deliver, Lose
<1>9. ASSUME NEW c \in Callers, NEW b \in Bills, NEW k \in Kinds, CTryLock(c, b, k) PROVE JournalInv'
  BY <1>9, JournalFrame DEF JournalParts, CTryLock
<1>10. ASSUME NEW c \in Callers, CallerStep(c) PROVE JournalInv'
  BY <1>10, JournalFrame DEF JournalParts, CallerStep, GateChecksHold, GateJournalsCancel,
         CDispatch, CLeave, Holds, Unlock, CGoto, CRest
<1>11. ASSUME NEW b \in Bills, QueueCancel(b) PROVE JournalInv'
  <2>1. ClaimInv'
    BY <1>11 DEF TypeOK, ClaimInv, Claimed, InTry, BeforeSend, AfterSend, QueueCancel
  <2>2. ProgressInv'
    BY <1>11 DEF TypeOK, ProgressInv, ClaimInv, Open, Claimed, InTry, BeforeSend, AfterSend, QueueCancel
  <2>3. PendingVerdictInv'
    BY <1>11 DEF TypeOK, PendingVerdictInv, ProgressInv, ClaimInv, Claimed, InTry, BeforeSend, AfterSend, QueueCancel
  <2>4. RowInv'
    BY <1>11 DEF TypeOK, RowInv, ClaimInv, ProgressInv, PendingVerdictInv, InTry, BeforeSend, AfterSend, AtMostOnce, JournalTellsOfSend, VerdictIsHonest, Open, QueueCancel
  <2>5. SecondVerdictInv'
    BY <1>11 DEF TypeOK, SecondVerdictInv, ClaimInv, ProgressInv, Claimed, InTry, BeforeSend, AfterSend, QueueCancel
  <2> QED
    BY <2>1, <2>2, <2>3, <2>4, <2>5 DEF JournalInv
<1>12. ASSUME NEW w \in Workers, Sweep(w) PROVE JournalInv'
  <2>1. ClaimInv'
    BY <1>12 DEF TypeOK, ClaimInv, Claimed, InTry, BeforeSend, AfterSend, Sweep
  <2>2. ProgressInv'
    BY <1>12 DEF TypeOK, ProgressInv, ClaimInv, Open, Claimed, InTry, BeforeSend, AfterSend, Sweep
  <2>3. PendingVerdictInv'
    BY <1>12 DEF TypeOK, PendingVerdictInv, ProgressInv, ClaimInv, Claimed, InTry, BeforeSend, AfterSend, Sweep
  <2>4. RowInv'
    BY <1>12 DEF TypeOK, RowInv, ClaimInv, ProgressInv, PendingVerdictInv, InTry, BeforeSend, AfterSend, AtMostOnce, JournalTellsOfSend, VerdictIsHonest, Open, Sweep
  <2>5. SecondVerdictInv'
    BY <1>12 DEF TypeOK, SecondVerdictInv, ClaimInv, ProgressInv, Claimed, InTry, BeforeSend, AfterSend, Sweep
  <2> QED
    BY <2>1, <2>2, <2>3, <2>4, <2>5 DEF JournalInv
<1>13. ASSUME NEW w \in Workers, NEW b \in Bills, Fetch(w, b) PROVE JournalInv'
  <2>1. ClaimInv'
    BY <1>13 DEF TypeOK, ClaimInv, Claimed, InTry, BeforeSend, AfterSend, Fetch
  <2>2. ProgressInv'
    BY <1>13 DEF TypeOK, ProgressInv, ClaimInv, Open, Claimed, InTry, BeforeSend, AfterSend, Fetch
  <2>3. PendingVerdictInv'
    BY <1>13 DEF TypeOK, PendingVerdictInv, ProgressInv, ClaimInv, Claimed, InTry, BeforeSend, AfterSend, Fetch
  <2>4. RowInv'
    BY <1>13 DEF TypeOK, RowInv, ClaimInv, ProgressInv, PendingVerdictInv, InTry, BeforeSend, AfterSend, AtMostOnce, JournalTellsOfSend, VerdictIsHonest, Open, Fetch
  <2>5. SecondVerdictInv'
    BY <1>13 DEF TypeOK, SecondVerdictInv, ClaimInv, ProgressInv, Claimed, InTry, BeforeSend, AfterSend, Fetch
  <2> QED
    BY <2>1, <2>2, <2>3, <2>4, <2>5 DEF JournalInv
<1>14. ASSUME NEW w \in Workers, NothingQueued(w) PROVE JournalInv'
  <2>1. ClaimInv'
    BY <1>14 DEF TypeOK, ClaimInv, Claimed, InTry, BeforeSend, AfterSend, NothingQueued, OnlyWorkerMoves
  <2>2. ProgressInv'
    BY <1>14 DEF TypeOK, ProgressInv, ClaimInv, Open, Claimed, InTry, BeforeSend, AfterSend, NothingQueued, OnlyWorkerMoves
  <2>3. PendingVerdictInv'
    BY <1>14 DEF TypeOK, PendingVerdictInv, ProgressInv, ClaimInv, Claimed, InTry, BeforeSend, AfterSend, NothingQueued, OnlyWorkerMoves
  <2>4. RowInv'
    BY <1>14 DEF TypeOK, RowInv, ClaimInv, ProgressInv, PendingVerdictInv, InTry, BeforeSend, AfterSend, AtMostOnce, JournalTellsOfSend, VerdictIsHonest, Open, NothingQueued, OnlyWorkerMoves
  <2>5. SecondVerdictInv'
    BY <1>14 DEF TypeOK, SecondVerdictInv, ClaimInv, ProgressInv, Claimed, InTry, BeforeSend, AfterSend, NothingQueued, OnlyWorkerMoves
  <2> QED
    BY <2>1, <2>2, <2>3, <2>4, <2>5 DEF JournalInv
<1>15. ASSUME NEW w \in Workers, RefuseMalformed(w) PROVE JournalInv'
  <2>1. ClaimInv'
    BY <1>15 DEF TypeOK, ClaimInv, Claimed, InTry, BeforeSend, AfterSend, RefuseMalformed
  <2>2. ProgressInv'
    BY <1>15 DEF TypeOK, ProgressInv, ClaimInv, Open, Claimed, InTry, BeforeSend, AfterSend, RefuseMalformed
  <2>3. PendingVerdictInv'
    BY <1>15 DEF TypeOK, PendingVerdictInv, ProgressInv, ClaimInv, Claimed, InTry, BeforeSend, AfterSend, RefuseMalformed
  <2>4. RowInv'
    BY <1>15 DEF TypeOK, RowInv, ClaimInv, ProgressInv, PendingVerdictInv, InTry, BeforeSend, AfterSend, AtMostOnce, JournalTellsOfSend, VerdictIsHonest, Open, RefuseMalformed
  <2>5. SecondVerdictInv'
    BY <1>15 DEF TypeOK, SecondVerdictInv, ClaimInv, ProgressInv, Claimed, InTry, BeforeSend, AfterSend, RefuseMalformed
  <2> QED
    BY <2>1, <2>2, <2>3, <2>4, <2>5 DEF JournalInv
<1>16. ASSUME NEW w \in Workers, TryLock(w) PROVE JournalInv'
  <2>1. ClaimInv'
    BY <1>16 DEF TypeOK, ClaimInv, Claimed, InTry, BeforeSend, AfterSend, TryLock
  <2>2. ProgressInv'
    BY <1>16 DEF TypeOK, ProgressInv, ClaimInv, Open, Claimed, InTry, BeforeSend, AfterSend, TryLock
  <2>3. PendingVerdictInv'
    BY <1>16 DEF TypeOK, PendingVerdictInv, ProgressInv, ClaimInv, Claimed, InTry, BeforeSend, AfterSend, TryLock
  <2>4. RowInv'
    BY <1>16 DEF TypeOK, RowInv, ClaimInv, ProgressInv, PendingVerdictInv, InTry, BeforeSend, AfterSend, AtMostOnce, JournalTellsOfSend, VerdictIsHonest, Open, TryLock
  <2>5. SecondVerdictInv'
    BY <1>16 DEF TypeOK, SecondVerdictInv, ClaimInv, ProgressInv, Claimed, InTry, BeforeSend, AfterSend, TryLock
  <2> QED
    BY <2>1, <2>2, <2>3, <2>4, <2>5 DEF JournalInv
<1>17. ASSUME NEW w \in Workers, Claim(w) PROVE JournalInv'
  <2>1. ClaimInv'
    <3>1. CASE op[wbill[w]] = "QUEUED"
      <4>1. /\ wpc[w] = "locked"
            /\ wpc' = [wpc EXCEPT ![w] = "claimed"]
            /\ op' = [op EXCEPT ![wbill[w]] = "PROCESSING"]
            /\ UNCHANGED <<malformed, sent, dispatched, wbill>>
        BY <1>17, <3>1 DEF Claim
      <4> QED
        BY <3>1, <4>1 DEF TypeOK, ClaimInv, Claimed, InTry, BeforeSend, AfterSend
    <3>2. CASE op[wbill[w]] # "QUEUED"
      <4>1. wpc' = [wpc EXCEPT ![w] = "idle"] /\ UNCHANGED <<malformed, op, sent, dispatched, wbill>>
        BY <1>17, <3>2 DEF Claim
      <4> QED
        BY <4>1 DEF TypeOK, ClaimInv, Claimed, InTry, BeforeSend, AfterSend
    <3> QED
      BY <3>1, <3>2
  <2>2. ProgressInv'
    BY <1>17 DEF TypeOK, ProgressInv, ClaimInv, Open, Claimed, InTry, BeforeSend, AfterSend, Claim
  <2>3. PendingVerdictInv'
    BY <1>17 DEF TypeOK, PendingVerdictInv, ProgressInv, ClaimInv, Claimed, InTry, BeforeSend, AfterSend, Claim
  <2>4. RowInv'
    BY <1>17 DEF TypeOK, RowInv, ClaimInv, ProgressInv, PendingVerdictInv, InTry, BeforeSend, AfterSend, AtMostOnce, JournalTellsOfSend, VerdictIsHonest, Open, Claim
  <2>5. SecondVerdictInv'
    BY <1>17 DEF TypeOK, SecondVerdictInv, ClaimInv, ProgressInv, Claimed, InTry, BeforeSend, AfterSend, Claim
  <2> QED
    BY <2>1, <2>2, <2>3, <2>4, <2>5 DEF JournalInv
<1>18. ASSUME NEW w \in Workers, JournalIntent(w) PROVE JournalInv'
  <2>1. ClaimInv'
    BY <1>18 DEF TypeOK, ClaimInv, Claimed, InTry, BeforeSend, AfterSend, JournalIntent
  <2>2. ProgressInv'
    BY <1>18 DEF TypeOK, ProgressInv, ClaimInv, Open, Claimed, InTry, BeforeSend, AfterSend, JournalIntent
  <2>3. PendingVerdictInv'
    BY <1>18 DEF TypeOK, PendingVerdictInv, ProgressInv, ClaimInv, Claimed, InTry, BeforeSend, AfterSend, JournalIntent
  <2>4. RowInv'
    BY <1>18 DEF TypeOK, RowInv, ClaimInv, ProgressInv, PendingVerdictInv, InTry, BeforeSend, AfterSend, AtMostOnce, JournalTellsOfSend, VerdictIsHonest, Open, JournalIntent
  <2>5. SecondVerdictInv'
    BY <1>18 DEF TypeOK, SecondVerdictInv, ClaimInv, ProgressInv, Claimed, InTry, BeforeSend, AfterSend, JournalIntent
  <2> QED
    BY <2>1, <2>2, <2>3, <2>4, <2>5 DEF JournalInv
<1>19. ASSUME NEW w \in Workers, SendCancel(w) PROVE JournalInv'
  <2>1. ClaimInv'
    BY <1>19 DEF TypeOK, ClaimInv, Claimed, InTry, BeforeSend, AfterSend, SendCancel
  <2>2. ProgressInv'
    BY <1>19 DEF TypeOK, ProgressInv, ClaimInv, Open, Claimed, InTry, BeforeSend, AfterSend, SendCancel
  <2>3. PendingVerdictInv'
    BY <1>19 DEF TypeOK, PendingVerdictInv, ProgressInv, ClaimInv, Claimed, InTry, BeforeSend, AfterSend, SendCancel
  <2>4. RowInv'
    BY <1>19 DEF TypeOK, RowInv, ClaimInv, ProgressInv, PendingVerdictInv, InTry, BeforeSend, AfterSend, AtMostOnce, JournalTellsOfSend, VerdictIsHonest, Open, SendCancel
  <2>5. SecondVerdictInv'
    BY <1>19 DEF TypeOK, SecondVerdictInv, ClaimInv, ProgressInv, Claimed, InTry, BeforeSend, AfterSend, SendCancel
  <2> QED
    BY <2>1, <2>2, <2>3, <2>4, <2>5 DEF JournalInv
<1>20. ASSUME NEW w \in Workers, ReceiveResponse(w) PROVE JournalInv'
  <2>1. ClaimInv'
    BY <1>20 DEF TypeOK, ClaimInv, Claimed, InTry, BeforeSend, AfterSend, ReceiveResponse, OnlyWorkerMoves
  <2>2. ProgressInv'
    BY <1>20 DEF TypeOK, ProgressInv, ClaimInv, Open, Claimed, InTry, BeforeSend, AfterSend, ReceiveResponse, OnlyWorkerMoves
  <2>3. PendingVerdictInv'
    BY <1>20 DEF TypeOK, PendingVerdictInv, ProgressInv, ClaimInv, Claimed, InTry, BeforeSend, AfterSend, ReceiveResponse, OnlyWorkerMoves
  <2>4. RowInv'
    BY <1>20 DEF TypeOK, RowInv, ClaimInv, ProgressInv, PendingVerdictInv, InTry, BeforeSend, AfterSend, AtMostOnce, JournalTellsOfSend, VerdictIsHonest, Open, ReceiveResponse, OnlyWorkerMoves
  <2>5. SecondVerdictInv'
    BY <1>20 DEF TypeOK, SecondVerdictInv, ClaimInv, ProgressInv, Claimed, InTry, BeforeSend, AfterSend, ReceiveResponse, OnlyWorkerMoves
  <2> QED
    BY <2>1, <2>2, <2>3, <2>4, <2>5 DEF JournalInv
<1>21. ASSUME NEW w \in Workers, JournalReceipt(w) PROVE JournalInv'
  <2>1. ClaimInv'
    BY <1>21 DEF TypeOK, ClaimInv, Claimed, InTry, BeforeSend, AfterSend, JournalReceipt
  <2>2. ProgressInv'
    BY <1>21 DEF TypeOK, ProgressInv, ClaimInv, Open, Claimed, InTry, BeforeSend, AfterSend, JournalReceipt
  <2>3. PendingVerdictInv'
    BY <1>21 DEF TypeOK, PendingVerdictInv, ProgressInv, ClaimInv, Claimed, InTry, BeforeSend, AfterSend, JournalReceipt
  <2>4. RowInv'
    BY <1>21 DEF TypeOK, RowInv, ClaimInv, ProgressInv, PendingVerdictInv, InTry, BeforeSend, AfterSend, AtMostOnce, JournalTellsOfSend, VerdictIsHonest, Open, JournalReceipt
  <2>5. SecondVerdictInv'
    BY <1>21 DEF TypeOK, SecondVerdictInv, ClaimInv, ProgressInv, Claimed, InTry, BeforeSend, AfterSend, JournalReceipt
  <2> QED
    BY <2>1, <2>2, <2>3, <2>4, <2>5 DEF JournalInv
<1>22. ASSUME NEW w \in Workers, VerifyWarehouse(w) PROVE JournalInv'
  <2>1. ClaimInv'
    BY <1>22 DEF TypeOK, ClaimInv, Claimed, InTry, BeforeSend, AfterSend, VerifyWarehouse, OnlyWorkerMoves
  <2>2. ProgressInv'
    BY <1>22 DEF TypeOK, ProgressInv, ClaimInv, Open, Claimed, InTry, BeforeSend, AfterSend, VerifyWarehouse, OnlyWorkerMoves
  <2>3. PendingVerdictInv'
    BY <1>22 DEF TypeOK, PendingVerdictInv, ProgressInv, ClaimInv, Claimed, InTry, BeforeSend, AfterSend, VerifyWarehouse, OnlyWorkerMoves
  <2>4. RowInv'
    BY <1>22 DEF TypeOK, RowInv, ClaimInv, ProgressInv, PendingVerdictInv, InTry, BeforeSend, AfterSend, AtMostOnce, JournalTellsOfSend, VerdictIsHonest, Open, VerifyWarehouse, OnlyWorkerMoves
  <2>5. SecondVerdictInv'
    BY <1>22 DEF TypeOK, SecondVerdictInv, ClaimInv, ProgressInv, Claimed, InTry, BeforeSend, AfterSend, VerifyWarehouse, OnlyWorkerMoves
  <2> QED
    BY <2>1, <2>2, <2>3, <2>4, <2>5 DEF JournalInv
<1>23. ASSUME NEW w \in Workers, Finish(w) PROVE JournalInv'
  BY <1>23, FinishStep DEF Finish
<1>24. ASSUME NEW w \in Workers, FinishFails(w) PROVE JournalInv'
  BY <1>24, FinishStep DEF FinishFails
<1>25. ASSUME NEW w \in Workers, Leave(w) PROVE JournalInv'
  <2>1. ClaimInv'
    BY <1>25 DEF TypeOK, ClaimInv, Claimed, InTry, BeforeSend, AfterSend, Leave
  <2>2. ProgressInv'
    BY <1>25 DEF TypeOK, ProgressInv, ClaimInv, Open, Claimed, InTry, BeforeSend, AfterSend, Leave
  <2>3. PendingVerdictInv'
    BY <1>25 DEF TypeOK, PendingVerdictInv, ProgressInv, ClaimInv, Claimed, InTry, BeforeSend, AfterSend, Leave
  <2>4. RowInv'
    BY <1>25 DEF TypeOK, RowInv, ClaimInv, ProgressInv, PendingVerdictInv, InTry, BeforeSend, AfterSend, AtMostOnce, JournalTellsOfSend, VerdictIsHonest, Open, Leave
  <2>5. SecondVerdictInv'
    BY <1>25 DEF TypeOK, SecondVerdictInv, ClaimInv, ProgressInv, Claimed, InTry, BeforeSend, AfterSend, Leave
  <2> QED
    BY <2>1, <2>2, <2>3, <2>4, <2>5 DEF JournalInv
<1>26. ASSUME NEW w \in Workers, KillWorker(w) PROVE JournalInv'
  <2>1. ClaimInv'
    BY <1>26 DEF TypeOK, ClaimInv, Claimed, InTry, BeforeSend, AfterSend, KillWorker
  <2>2. ProgressInv'
    BY <1>26 DEF TypeOK, ProgressInv, ClaimInv, Open, Claimed, InTry, BeforeSend, AfterSend, KillWorker
  <2>3. PendingVerdictInv'
    BY <1>26 DEF TypeOK, PendingVerdictInv, ProgressInv, ClaimInv, Claimed, InTry, BeforeSend, AfterSend, KillWorker
  <2>4. RowInv'
    BY <1>26 DEF TypeOK, RowInv, ClaimInv, ProgressInv, PendingVerdictInv, InTry, BeforeSend, AfterSend, AtMostOnce, JournalTellsOfSend, VerdictIsHonest, Open, KillWorker
  <2>5. SecondVerdictInv'
    BY <1>26 DEF TypeOK, SecondVerdictInv, ClaimInv, ProgressInv, Claimed, InTry, BeforeSend, AfterSend, KillWorker
  <2> QED
    BY <2>1, <2>2, <2>3, <2>4, <2>5 DEF JournalInv
<1>27. ASSUME NEW w \in Workers, CheckOrder(w) PROVE JournalInv'
  BY <1>27, JudgeBeforeSend DEF CheckOrder, BeforeSend
<1>28. ASSUME NEW w \in Workers, CheckShipment(w) PROVE JournalInv'
  BY <1>28, JudgeBeforeSend DEF CheckShipment, BeforeSend, TypeOK
<1>29. ASSUME NEW w \in Workers, CheckLegacyCancel(w) PROVE JournalInv'
  BY <1>29, JudgeBeforeSend DEF CheckLegacyCancel, BeforeSend, TypeOK
<1>30. ASSUME NEW w \in Workers, CheckXsck(w) PROVE JournalInv'
  BY <1>30, JudgeBeforeSend DEF CheckXsck, BeforeSend, TypeOK
<1>31. ASSUME NEW w \in Workers, CheckWarehouse(w) PROVE JournalInv'
  BY <1>31, JudgeBeforeSend DEF CheckWarehouse, BeforeSend
<1>32. ASSUME NEW w \in Workers, RecheckShipment(w) PROVE JournalInv'
  BY <1>32, JudgeBeforeSend DEF RecheckShipment, BeforeSend, TypeOK
<1>33. ASSUME NEW w \in Workers, RecheckXsck(w) PROVE JournalInv'
  BY <1>33, JudgeBeforeSend DEF RecheckXsck, BeforeSend, TypeOK
<1>34. ASSUME NEW w \in Workers, VerifyXsck(w) PROVE JournalInv'
  <2>1. wpc[w] \in InTry /\ dispatched[wbill[w]] = 1
    BY <1>34 DEF VerifyXsck, ProgressInv, InTry, AfterSend
  <2>2. CASE xsck[wbill[w]] \/ wpc[w] = "kept"
    BY <1>34, <2>1, <2>2, ConcludeStep
    DEF VerifyXsck, Judge, OnlyWorkerMoves, order, world, history, Terminal, SentValues
  <2>3. CASE ~(xsck[wbill[w]] \/ wpc[w] = "kept")
    <3>1. /\ wpc[w] = "gone" /\ wpc' = [wpc EXCEPT ![w] = "goneNoXsck"]
          /\ UNCHANGED <<malformed, op, sent, dispatched, wbill, verdict>>
      BY <1>34, <2>3 DEF VerifyXsck, Judge, Goto, OnlyWorkerMoves, order, world, history
    <3> QED
      BY <3>1 DEF JournalInv, TypeOK, ClaimInv, ProgressInv, PendingVerdictInv, SecondVerdictInv, RowInv, AtMostOnce,
         JournalTellsOfSend, VerdictIsHonest, Claimed, InTry, BeforeSend, AfterSend
  <2> QED
    BY <2>2, <2>3
<1>35. ASSUME NEW w \in Workers, VerifyShipment(w) PROVE JournalInv'
  <2>1. wpc[w] \in InTry /\ dispatched[wbill[w]] = 1
    BY <1>35 DEF VerifyShipment, ProgressInv, InTry, AfterSend
  <2>2. CASE callback[wbill[w]]
    BY <1>35, <2>1, <2>2, ConcludeStep
    DEF VerifyShipment, OnlyWorkerMoves, order, world, history, Terminal, SentValues
  <2>3. CASE ~callback[wbill[w]]
    BY <1>35, <2>1, <2>3, ConcludeStep
    DEF VerifyShipment, OnlyWorkerMoves, order, world, history, Terminal, SentValues
  <2> QED
    BY <2>2, <2>3
<1>36. ASSUME NEW w \in Workers, Raise(w) PROVE JournalInv'
  <2> DEFINE v == [status |-> IF wpc[w] \in BeforeSend THEN "BLOCKED" ELSE "UNKNOWN",
                   sent |-> IF wpc[w] \in BeforeSend THEN "NO"
                            ELSE IF wpc[w] \in {"journaled", "awaiting"} THEN "UNKNOWN" ELSE "YES"]
  <2>1. /\ v \in Verdicts
        /\ v.status = IF v.sent = "NO" THEN "BLOCKED" ELSE "UNKNOWN"
    BY DEF Verdicts, Terminal, SentValues
  <2>2. /\ v.sent = "NO" => dispatched[wbill[w]] = 0
        /\ v.sent = "YES" => dispatched[wbill[w]] = 1
    BY <1>36 DEF Raise, ProgressInv, InTry, BeforeSend, AfterSend
  <2>3. /\ wpc[w] \in InTry /\ wpc' = [wpc EXCEPT ![w] = "refinishing"]
        /\ verdict' = [verdict EXCEPT ![w] = v]
        /\ UNCHANGED <<malformed, op, sent, dispatched, wbill>>
    BY <1>36 DEF Raise, OnlyWorkerMoves
  <2> HIDE DEF v
  <2> QED
    BY <2>1, <2>2, <2>3, HandlerStep
<1>38. ASSUME NEW w \in Workers, IntentRaises(w) PROVE JournalInv'
  <2> DEFINE v == [status |-> "BLOCKED", sent |-> "NO"]
  <2>1. v \in Verdicts /\ v.status = "BLOCKED" /\ v.sent = "NO"
    BY DEF Verdicts, Terminal, SentValues
  <2>2. wpc[w] \in BeforeSend /\ wpc[w] \in InTry /\ dispatched[wbill[w]] = 0
    BY <1>38 DEF IntentRaises, ProgressInv, InTry, BeforeSend
  <2>3. /\ wpc' = [wpc EXCEPT ![w] = "refinishing"]
        /\ verdict' = [verdict EXCEPT ![w] = v]
        /\ sent' = [sent EXCEPT ![wbill[w]] = "UNKNOWN"]
        /\ UNCHANGED <<malformed, op, dispatched, wbill>>
    BY <1>38 DEF IntentRaises
  <2> HIDE DEF v
  <2> QED
    BY <2>1, <2>2, <2>3, HandlerStep
<1>37. CASE UNCHANGED vars
  BY <1>37, JournalFrame DEF vars, JournalParts, order, worker, history
<1> QED
  BY <1>1, <1>2, <1>3, <1>4, <1>5, <1>6, <1>7, <1>8, <1>9, <1>10, <1>11,
     <1>12, <1>13, <1>14, <1>15, <1>16, <1>17, <1>18, <1>19, <1>20, <1>21,
     <1>22, <1>23, <1>24, <1>25, <1>26, <1>27, <1>28, <1>29, <1>30, <1>31,
     <1>32, <1>33, <1>34, <1>35, <1>36, <1>37, <1>38
     DEF Next, Outside, WorkerStep

LEMMA JournalInvariant == Spec => []JournalInv
BY JournalInit, JournalStep, PTL DEF Spec

\* For any number of workers, callers, kills, failed writes and sweeps, and even
\* with dropped sessions, a bill's cancel request leaves at most once.
THEOREM CancelAtMostOnce == Spec => []AtMostOnce
<1>1. JournalInv => AtMostOnce
  BY DEF JournalInv, RowInv
<1> QED
  BY <1>1, JournalInvariant, PTL

\* The journal never says NO of a request that may be out.
THEOREM JournalNeverDenies == Spec => []JournalTellsOfSend
<1>1. JournalInv => JournalTellsOfSend
  BY DEF JournalInv, RowInv
<1> QED
  BY <1>1, JournalInvariant, PTL

\* No BLOCKED for an order that was touched, no YES without a request.
THEOREM VerdictsAreHonest == Spec => []VerdictIsHonest
<1>1. JournalInv => VerdictIsHonest
  BY DEF JournalInv, RowInv
<1> QED
  BY <1>1, JournalInvariant, PTL

-----------------------------------------------------------------------------
(* The lock invariant. *)

LockParts == <<hold, legacy, lock, wpc, wbill, cpc, cbill, ckind, dispatched, afterHold>>

LEMMA LockInit == Init => LockInv
BY DEF Init, LockInv, OwnerInv, EvidenceInv, BillInv, GateInv, Claimed, InTry, BeforeSend,
   AfterSend, Inside, Matched, LegacyFree

LEMMA LockFrame == LockInv /\ UNCHANGED LockParts => LockInv'
BY DEF LockInv, LockParts, OwnerInv, EvidenceInv, BillInv, GateInv

\* An execution that moves on inside the critical section, having read what
\* its new place stands for.
LEMMA LockMove ==
  ASSUME TypeOK, LockInv, NEW w \in Workers, NEW next \in Claimed,
         wpc[w] \in Claimed, wpc' = [wpc EXCEPT ![w] = next],
         UNCHANGED <<hold, legacy, lock, wbill, cpc, cbill, ckind, dispatched, afterHold>>,
         next \in Matched => hold[wbill[w]] # "none",
         next \in LegacyFree => ~legacy[wbill[w]]
  PROVE  LockInv'
BY DEF TypeOK, LockInv, OwnerInv, EvidenceInv, BillInv, GateInv

\* The same for a read that may end in a verdict instead.
LEMMA LockJudge ==
  ASSUME TypeOK, LockInv, NEW w \in Workers, NEW ends \in BOOLEAN, NEW status, NEW s,
         NEW next \in Claimed, wpc[w] \in Claimed, Judge(w, ends, status, s, next),
         ~ends /\ next \in Matched => hold[wbill[w]] # "none",
         ~ends /\ next \in LegacyFree => ~legacy[wbill[w]]
  PROVE  LockInv'
<1> USE DEF Judge, OnlyWorkerMoves, order, caller, history
<1>1. CASE ends
  BY <1>1, LockMove DEF Conclude, Claimed, Matched, LegacyFree, BeforeSend
<1>2. CASE ~ends
  BY <1>2, LockMove DEF Goto
<1> QED
  BY <1>1, <1>2

LEMMA LockStep ==
  ASSUME ~SessionsMayDrop, JournalInv, LockInv, [Next]_vars
  PROVE  LockInv'
<1> USE DEF order, world, worker, caller, history, Goto, CGoto, CRest
<1> TypeOK /\ OwnerInv /\ EvidenceInv /\ BillInv /\ GateInv
  BY DEF JournalInv, LockInv
<1> Workers \cap Callers = {} /\ Free \notin Workers \cup Callers
  BY LockOwnersAssumption
<1>1. ASSUME NEW b \in Bills, QueueCancel(b) PROVE LockInv'
  BY <1>1, LockFrame DEF LockParts, QueueCancel
<1>2. ASSUME NEW b \in Bills, RecordChanges(b) PROVE LockInv'
  BY <1>2, LockFrame DEF LockParts, RecordChanges
<1>3. ASSUME NEW b \in Bills, WarehousePacks(b) PROVE LockInv'
  BY <1>3, LockFrame DEF LockParts, WarehousePacks
<1>4. ASSUME NEW b \in Bills, ShipmentCallback(b) PROVE LockInv'
  BY <1>4, LockFrame DEF LockParts, ShipmentCallback
<1>5. ASSUME NEW b \in Bills, KingdeeUserShips(b) PROVE LockInv'
  BY <1>5, LockFrame DEF LockParts, KingdeeUserShips
<1>6. ASSUME NEW b \in Bills, TenMinutesPass(b) PROVE LockInv'
  BY <1>6, LockFrame DEF LockParts, TenMinutesPass
<1>7. ASSUME NEW b \in Bills, DropSession(b) PROVE LockInv'
  BY <1>7, LockFrame DEF LockParts, DropSession
<1>8. ASSUME NEW m \in net, Deliver(m) \/ Lose(m) PROVE LockInv'
  BY <1>8, LockFrame DEF LockParts, Deliver, Lose
<1>9. ASSUME NEW b \in Bills, NEW o \in {"requester", "other"}, PlaceHold(b, o) PROVE LockInv'
  <2>1. OwnerInv'
    BY <1>9 DEF TypeOK, OwnerInv, Inside, Claimed, InTry, BeforeSend, AfterSend, PlaceHold
  <2>2. EvidenceInv'
    BY <1>9 DEF TypeOK, EvidenceInv, PlaceHold
  <2>3. BillInv'
    BY <1>9 DEF TypeOK, BillInv, EvidenceInv, GateInv, OwnerInv, Matched, LegacyFree, Inside, PlaceHold
  <2>4. GateInv'
    BY <1>9 DEF TypeOK, GateInv, OwnerInv, BillInv, Inside, Claimed, InTry, AfterSend, PlaceHold
  <2> QED
    BY <2>1, <2>2, <2>3, <2>4 DEF LockInv
<1>10. ASSUME NEW w \in Workers, NEW b \in Bills, Fetch(w, b) PROVE LockInv'
  <2>1. OwnerInv'
    BY <1>10 DEF TypeOK, OwnerInv, Inside, Claimed, InTry, BeforeSend, AfterSend, Fetch
  <2>2. EvidenceInv'
    BY <1>10 DEF TypeOK, EvidenceInv, OwnerInv, Inside, Matched, LegacyFree, Claimed, InTry, BeforeSend, AfterSend, Fetch
  <2>3. BillInv'
    BY <1>10 DEF TypeOK, BillInv, EvidenceInv, GateInv, OwnerInv, Matched, LegacyFree, Inside, Fetch
  <2>4. GateInv'
    BY <1>10 DEF TypeOK, GateInv, OwnerInv, BillInv, Inside, Claimed, InTry, AfterSend, Fetch
  <2> QED
    BY <2>1, <2>2, <2>3, <2>4 DEF LockInv
<1>11. ASSUME NEW w \in Workers, Sweep(w) PROVE LockInv'
  <2>1. OwnerInv'
    BY <1>11 DEF TypeOK, OwnerInv, Inside, Claimed, InTry, BeforeSend, AfterSend, Sweep
  <2>2. EvidenceInv'
    BY <1>11 DEF TypeOK, EvidenceInv, OwnerInv, Inside, Matched, LegacyFree, Claimed, InTry, BeforeSend, AfterSend, Sweep
  <2>3. BillInv'
    BY <1>11 DEF TypeOK, BillInv, EvidenceInv, GateInv, OwnerInv, Matched, LegacyFree, Inside, Sweep
  <2>4. GateInv'
    BY <1>11 DEF TypeOK, GateInv, OwnerInv, BillInv, Inside, Claimed, InTry, AfterSend, Sweep
  <2> QED
    BY <2>1, <2>2, <2>3, <2>4 DEF LockInv
<1>12. ASSUME NEW w \in Workers, NothingQueued(w) PROVE LockInv'
  <2>1. OwnerInv'
    BY <1>12 DEF TypeOK, OwnerInv, Inside, Claimed, InTry, BeforeSend, AfterSend, NothingQueued, OnlyWorkerMoves
  <2>2. EvidenceInv'
    BY <1>12 DEF TypeOK, EvidenceInv, OwnerInv, Inside, Matched, LegacyFree, Claimed, InTry, BeforeSend, AfterSend, NothingQueued, OnlyWorkerMoves
  <2>3. BillInv'
    BY <1>12 DEF TypeOK, BillInv, EvidenceInv, GateInv, OwnerInv, Matched, LegacyFree, Inside, NothingQueued, OnlyWorkerMoves
  <2>4. GateInv'
    BY <1>12 DEF TypeOK, GateInv, OwnerInv, BillInv, Inside, Claimed, InTry, AfterSend, NothingQueued, OnlyWorkerMoves
  <2> QED
    BY <2>1, <2>2, <2>3, <2>4 DEF LockInv
<1>13. ASSUME NEW w \in Workers, RefuseMalformed(w) PROVE LockInv'
  <2>1. OwnerInv'
    BY <1>13 DEF TypeOK, OwnerInv, Inside, Claimed, InTry, BeforeSend, AfterSend, RefuseMalformed
  <2>2. EvidenceInv'
    BY <1>13 DEF TypeOK, EvidenceInv, OwnerInv, Inside, Matched, LegacyFree, Claimed, InTry, BeforeSend, AfterSend, RefuseMalformed
  <2>3. BillInv'
    BY <1>13 DEF TypeOK, BillInv, EvidenceInv, GateInv, OwnerInv, Matched, LegacyFree, Inside, RefuseMalformed
  <2>4. GateInv'
    BY <1>13 DEF TypeOK, GateInv, OwnerInv, BillInv, Inside, Claimed, InTry, AfterSend, RefuseMalformed
  <2> QED
    BY <2>1, <2>2, <2>3, <2>4 DEF LockInv
<1>14. ASSUME NEW w \in Workers, TryLock(w) PROVE LockInv'
  <2>1. OwnerInv'
    BY <1>14 DEF TypeOK, OwnerInv, Inside, Claimed, InTry, BeforeSend, AfterSend, TryLock
  <2>2. EvidenceInv'
    BY <1>14 DEF TypeOK, EvidenceInv, OwnerInv, Inside, Matched, LegacyFree, Claimed, InTry, BeforeSend, AfterSend, TryLock
  <2>3. BillInv'
    BY <1>14 DEF TypeOK, BillInv, EvidenceInv, GateInv, OwnerInv, Matched, LegacyFree, Inside, TryLock
  <2>4. GateInv'
    BY <1>14 DEF TypeOK, GateInv, OwnerInv, BillInv, Inside, Claimed, InTry, AfterSend, TryLock
  <2> QED
    BY <2>1, <2>2, <2>3, <2>4 DEF LockInv
<1>15. ASSUME NEW w \in Workers, Claim(w) PROVE LockInv'
  <2>1. OwnerInv'
    BY <1>15 DEF TypeOK, OwnerInv, Inside, Claimed, InTry, BeforeSend, AfterSend, Claim, Unlock, Holds
  <2>2. EvidenceInv'
    BY <1>15 DEF TypeOK, EvidenceInv, OwnerInv, Inside, Matched, LegacyFree, Claimed, InTry, BeforeSend, AfterSend, Claim, Unlock, Holds
  <2>3. BillInv'
    BY <1>15 DEF TypeOK, BillInv, EvidenceInv, GateInv, OwnerInv, Matched, LegacyFree, Inside, Claim, Unlock, Holds
  <2>4. GateInv'
    BY <1>15 DEF TypeOK, GateInv, OwnerInv, BillInv, Inside, Claimed, InTry, AfterSend, Claim, Unlock, Holds
  <2> QED
    BY <2>1, <2>2, <2>3, <2>4 DEF LockInv
<1>16. ASSUME NEW w \in Workers, Leave(w) PROVE LockInv'
  <2>1. OwnerInv'
    BY <1>16 DEF TypeOK, OwnerInv, Inside, Claimed, InTry, BeforeSend, AfterSend, Leave, Unlock, Holds
  <2>2. EvidenceInv'
    BY <1>16 DEF TypeOK, EvidenceInv, OwnerInv, Inside, Matched, LegacyFree, Claimed, InTry, BeforeSend, AfterSend, Leave, Unlock, Holds
  <2>3. BillInv'
    BY <1>16 DEF TypeOK, BillInv, EvidenceInv, GateInv, OwnerInv, Matched, LegacyFree, Inside, Leave, Unlock, Holds
  <2>4. GateInv'
    BY <1>16 DEF TypeOK, GateInv, OwnerInv, BillInv, Inside, Claimed, InTry, AfterSend, Leave, Unlock, Holds
  <2> QED
    BY <2>1, <2>2, <2>3, <2>4 DEF LockInv
<1>17. ASSUME NEW w \in Workers, KillWorker(w) PROVE LockInv'
  <2>1. OwnerInv'
    BY <1>17 DEF TypeOK, OwnerInv, Inside, Claimed, InTry, BeforeSend, AfterSend, KillWorker, Unlock, Holds
  <2>2. EvidenceInv'
    BY <1>17 DEF TypeOK, EvidenceInv, OwnerInv, Inside, Matched, LegacyFree, Claimed, InTry, BeforeSend, AfterSend, KillWorker, Unlock, Holds
  <2>3. BillInv'
    BY <1>17 DEF TypeOK, BillInv, EvidenceInv, GateInv, OwnerInv, Matched, LegacyFree, Inside, KillWorker, Unlock, Holds
  <2>4. GateInv'
    BY <1>17 DEF TypeOK, GateInv, OwnerInv, BillInv, Inside, Claimed, InTry, AfterSend, KillWorker, Unlock, Holds
  <2> QED
    BY <2>1, <2>2, <2>3, <2>4 DEF LockInv
<1>18. ASSUME NEW w \in Workers, SendCancel(w) PROVE LockInv'
  <2>1. OwnerInv'
    BY <1>18 DEF TypeOK, OwnerInv, Inside, Claimed, InTry, BeforeSend, AfterSend, SendCancel, JournalInv, ProgressInv
  <2>2. EvidenceInv'
    BY <1>18 DEF TypeOK, EvidenceInv, OwnerInv, Inside, Matched, LegacyFree, Claimed, InTry, BeforeSend, AfterSend, SendCancel, JournalInv, ProgressInv
  <2>3. BillInv'
    BY <1>18 DEF TypeOK, BillInv, EvidenceInv, GateInv, OwnerInv, Matched, LegacyFree, Inside, SendCancel, JournalInv, ProgressInv
  <2>4. GateInv'
    BY <1>18 DEF TypeOK, GateInv, OwnerInv, BillInv, Inside, Claimed, InTry, AfterSend, SendCancel, JournalInv, ProgressInv
  <2> QED
    BY <2>1, <2>2, <2>3, <2>4 DEF LockInv
<1>20. ASSUME NEW c \in Callers, NEW b \in Bills, NEW k \in Kinds, CTryLock(c, b, k) PROVE LockInv'
  <2>1. OwnerInv'
    BY <1>20 DEF TypeOK, OwnerInv, Inside, Claimed, InTry, BeforeSend, AfterSend, CTryLock, Unlock, Holds
  <2>2. EvidenceInv'
    BY <1>20 DEF TypeOK, EvidenceInv, OwnerInv, Inside, Matched, LegacyFree, Claimed, InTry, BeforeSend, AfterSend, CTryLock, Unlock, Holds
  <2>3. BillInv'
    BY <1>20 DEF TypeOK, BillInv, EvidenceInv, GateInv, OwnerInv, Matched, LegacyFree, Inside, CTryLock, Unlock, Holds
  <2>4. GateInv'
    BY <1>20 DEF TypeOK, GateInv, OwnerInv, BillInv, Inside, Claimed, InTry, AfterSend, CTryLock, Unlock, Holds
  <2> QED
    BY <2>1, <2>2, <2>3, <2>4 DEF LockInv
<1>21. ASSUME NEW c \in Callers, GateChecksHold(c) PROVE LockInv'
  <2>1. OwnerInv'
    BY <1>21 DEF TypeOK, OwnerInv, Inside, Claimed, InTry, BeforeSend, AfterSend, GateChecksHold, Unlock, Holds
  <2>2. EvidenceInv'
    BY <1>21 DEF TypeOK, EvidenceInv, OwnerInv, Inside, Matched, LegacyFree, Claimed, InTry, BeforeSend, AfterSend, GateChecksHold, Unlock, Holds
  <2>3. BillInv'
    BY <1>21 DEF TypeOK, BillInv, EvidenceInv, GateInv, OwnerInv, Matched, LegacyFree, Inside, GateChecksHold, Unlock, Holds
  <2>4. GateInv'
    <3>1. CASE hold[cbill[c]] # "none"
      BY <1>21, <3>1 DEF TypeOK, GateInv, GateChecksHold
    <3>2. CASE hold[cbill[c]] = "none"
      <4>1. cpc' = [cpc EXCEPT ![c] = IF ckind[c] = "cancel" THEN "allowed" ELSE "intended"]
        BY <1>21, <3>2 DEF GateChecksHold
      <4>2. dispatched[cbill[c]] = 0 /\ afterHold[cbill[c]] = 0
        BY <3>2 DEF BillInv, TypeOK
      <4> QED
        BY <1>21, <4>1, <4>2 DEF TypeOK, GateInv, GateChecksHold
    <3> QED
      BY <3>1, <3>2
  <2> QED
    BY <2>1, <2>2, <2>3, <2>4 DEF LockInv
<1>22. ASSUME NEW c \in Callers, GateJournalsCancel(c) PROVE LockInv'
  <2>1. OwnerInv'
    BY <1>22 DEF TypeOK, OwnerInv, Inside, Claimed, InTry, BeforeSend, AfterSend, GateJournalsCancel, Unlock, Holds
  <2>2. EvidenceInv'
    BY <1>22 DEF TypeOK, EvidenceInv, OwnerInv, Inside, Matched, LegacyFree, Claimed, InTry, BeforeSend, AfterSend, GateJournalsCancel, Unlock, Holds
  <2>3. BillInv'
    BY <1>22 DEF TypeOK, BillInv, EvidenceInv, GateInv, OwnerInv, Matched, LegacyFree, Inside, GateJournalsCancel, Unlock, Holds
  <2>4. GateInv'
    BY <1>22 DEF TypeOK, GateInv, OwnerInv, BillInv, Inside, Claimed, InTry, AfterSend, GateJournalsCancel, Unlock, Holds
  <2> QED
    BY <2>1, <2>2, <2>3, <2>4 DEF LockInv
<1>23. ASSUME NEW c \in Callers, CDispatch(c) PROVE LockInv'
  <2>1. OwnerInv'
    BY <1>23 DEF TypeOK, OwnerInv, Inside, Claimed, InTry, BeforeSend, AfterSend, CDispatch, Unlock, Holds
  <2>2. EvidenceInv'
    BY <1>23 DEF TypeOK, EvidenceInv, OwnerInv, Inside, Matched, LegacyFree, Claimed, InTry, BeforeSend, AfterSend, CDispatch, Unlock, Holds
  <2>3. BillInv'
    BY <1>23 DEF TypeOK, BillInv, EvidenceInv, GateInv, OwnerInv, Matched, LegacyFree, Inside, CDispatch, Unlock, Holds
  <2>4. GateInv'
    BY <1>23 DEF TypeOK, GateInv, OwnerInv, BillInv, Inside, Claimed, InTry, AfterSend, CDispatch, Unlock, Holds
  <2> QED
    BY <2>1, <2>2, <2>3, <2>4 DEF LockInv
<1>24. ASSUME NEW c \in Callers, CLeave(c) PROVE LockInv'
  <2>1. OwnerInv'
    BY <1>24 DEF TypeOK, OwnerInv, Inside, Claimed, InTry, BeforeSend, AfterSend, CLeave, Unlock, Holds
  <2>2. EvidenceInv'
    BY <1>24 DEF TypeOK, EvidenceInv, OwnerInv, Inside, Matched, LegacyFree, Claimed, InTry, BeforeSend, AfterSend, CLeave, Unlock, Holds
  <2>3. BillInv'
    BY <1>24 DEF TypeOK, BillInv, EvidenceInv, GateInv, OwnerInv, Matched, LegacyFree, Inside, CLeave, Unlock, Holds
  <2>4. GateInv'
    BY <1>24 DEF TypeOK, GateInv, OwnerInv, BillInv, Inside, Claimed, InTry, AfterSend, CLeave, Unlock, Holds
  <2> QED
    BY <2>1, <2>2, <2>3, <2>4 DEF LockInv
<1>25. ASSUME NEW w \in Workers, CheckOrder(w) PROVE LockInv'
  BY <1>25, LockJudge
  DEF TypeOK, CheckOrder, EvidenceInv, Matched, LegacyFree, Claimed,
      InTry, BeforeSend, AfterSend
<1>26. ASSUME NEW w \in Workers, CheckShipment(w) PROVE LockInv'
  BY <1>26, LockJudge
  DEF TypeOK, CheckShipment, EvidenceInv, Matched, LegacyFree, Claimed,
      InTry, BeforeSend, AfterSend
<1>27. ASSUME NEW w \in Workers, CheckLegacyCancel(w) PROVE LockInv'
  <2>1. wpc[w] \in Claimed /\ hold[wbill[w]] # "none"
    BY <1>27 DEF CheckLegacyCancel, EvidenceInv, Matched, Claimed, InTry, BeforeSend, AfterSend
  <2>2. legacy[wbill[w]] \in BOOLEAN
    BY DEF TypeOK
  <2> QED
    BY <1>27, <2>1, <2>2, LockJudge
    DEF CheckLegacyCancel, Claimed, InTry, BeforeSend
<1>28. ASSUME NEW w \in Workers, CheckXsck(w) PROVE LockInv'
  BY <1>28, LockJudge
  DEF TypeOK, CheckXsck, EvidenceInv, Matched, LegacyFree, Claimed,
      InTry, BeforeSend, AfterSend
<1>29. ASSUME NEW w \in Workers, CheckWarehouse(w) PROVE LockInv'
  BY <1>29, LockJudge
  DEF TypeOK, CheckWarehouse, EvidenceInv, Matched, LegacyFree, Claimed,
      InTry, BeforeSend, AfterSend
<1>30. ASSUME NEW w \in Workers, RecheckShipment(w) PROVE LockInv'
  BY <1>30, LockJudge
  DEF TypeOK, RecheckShipment, EvidenceInv, Matched, LegacyFree, Claimed,
      InTry, BeforeSend, AfterSend
<1>31. ASSUME NEW w \in Workers, RecheckXsck(w) PROVE LockInv'
  BY <1>31, LockJudge
  DEF TypeOK, RecheckXsck, EvidenceInv, Matched, LegacyFree, Claimed,
      InTry, BeforeSend, AfterSend
<1>32. ASSUME NEW w \in Workers, VerifyXsck(w) PROVE LockInv'
  BY <1>32, LockJudge
  DEF TypeOK, VerifyXsck, EvidenceInv, Matched, LegacyFree, Claimed,
      InTry, BeforeSend, AfterSend
<1>33. ASSUME NEW w \in Workers, JournalIntent(w) PROVE LockInv'
  BY <1>33, LockMove
  DEF JournalIntent, EvidenceInv, Matched, LegacyFree, Claimed, InTry,
      BeforeSend, AfterSend
<1>34. ASSUME NEW w \in Workers, ReceiveResponse(w) PROVE LockInv'
  BY <1>34, LockMove
  DEF ReceiveResponse, Conclude, OnlyWorkerMoves, EvidenceInv, Matched, LegacyFree, Claimed, InTry,
      BeforeSend, AfterSend
<1>35. ASSUME NEW w \in Workers, JournalReceipt(w) PROVE LockInv'
  BY <1>35, LockMove
  DEF JournalReceipt, Conclude, OnlyWorkerMoves, EvidenceInv, Matched, LegacyFree, Claimed, InTry,
      BeforeSend, AfterSend
<1>36. ASSUME NEW w \in Workers, VerifyWarehouse(w) PROVE LockInv'
  BY <1>36, LockMove
  DEF VerifyWarehouse, Conclude, OnlyWorkerMoves, EvidenceInv, Matched, LegacyFree, Claimed, InTry,
      BeforeSend, AfterSend
<1>37. ASSUME NEW w \in Workers, VerifyShipment(w) PROVE LockInv'
  BY <1>37, LockMove
  DEF VerifyShipment, Conclude, OnlyWorkerMoves, EvidenceInv, Matched, LegacyFree, Claimed, InTry,
      BeforeSend, AfterSend
<1>38. ASSUME NEW w \in Workers, Raise(w) PROVE LockInv'
  BY <1>38, LockMove
  DEF Raise, Conclude, OnlyWorkerMoves, EvidenceInv, Matched, LegacyFree, Claimed, InTry,
      BeforeSend, AfterSend
<1>39. ASSUME NEW w \in Workers, Finish(w) PROVE LockInv'
  BY <1>39, LockMove
  DEF Finish, Conclude, OnlyWorkerMoves, EvidenceInv, Matched, LegacyFree, Claimed, InTry,
      BeforeSend, AfterSend
<1>40. ASSUME NEW w \in Workers, FinishFails(w) PROVE LockInv'
  BY <1>40, LockMove
  DEF FinishFails, Conclude, OnlyWorkerMoves, EvidenceInv, Matched, LegacyFree, Claimed, InTry,
      BeforeSend, AfterSend
<1>42. ASSUME NEW w \in Workers, IntentRaises(w) PROVE LockInv'
  BY <1>42, LockMove
  DEF IntentRaises, EvidenceInv, Matched, LegacyFree, Claimed, InTry, BeforeSend, AfterSend
<1>41. CASE UNCHANGED vars
  BY <1>41, LockFrame DEF vars, LockParts
<1> QED
  BY <1>1, <1>2, <1>3, <1>4, <1>5, <1>6, <1>7, <1>8, <1>9, <1>10, <1>11,
     <1>12, <1>13, <1>14, <1>15, <1>16, <1>17, <1>18, <1>20, <1>21,
     <1>22, <1>23, <1>24, <1>25, <1>26, <1>27, <1>28, <1>29, <1>30, <1>31,
     <1>32, <1>33, <1>34, <1>35, <1>36, <1>37, <1>38, <1>39, <1>40, <1>41,
     <1>42
     DEF Next, Outside, WorkerStep, CallerStep

LEMMA LockInvariant ==
  ASSUME ~SessionsMayDrop
  PROVE  Spec => [](JournalInv /\ LockInv)
<1>1. Init => JournalInv /\ LockInv
  BY JournalInit, LockInit
<1>2. JournalInv /\ LockInv /\ [Next]_vars => (JournalInv /\ LockInv)'
  BY JournalStep, LockStep
<1> QED
  BY <1>1, <1>2, PTL DEF Spec

\* While PostgreSQL keeps the sessions that hold a lock, the worker's cancel
\* and a gated cancel of the same bill exclude each other.
THEOREM LockExcludesEntries ==
  ASSUME ~SessionsMayDrop
  PROVE  Spec => []OneCancelEntry
<1>1. JournalInv /\ LockInv => OneCancelEntry
  BY DEF JournalInv, TypeOK, LockInv, BillInv, OneCancelEntry
<1> QED
  BY <1>1, LockInvariant, PTL

\* With the same sessions a committed hold lets at most the dispatch that was
\* under way leave.
THEOREM HoldStopsGate ==
  ASSUME ~SessionsMayDrop
  PROVE  Spec => []HoldStopsDispatch
<1>1. JournalInv /\ LockInv => HoldStopsDispatch
  BY DEF JournalInv, TypeOK, LockInv, BillInv, HoldStopsDispatch
<1> QED
  BY <1>1, LockInvariant, PTL

-----------------------------------------------------------------------------
(* The holder of a lock, with or without dropped sessions. *)

HolderParts == <<lock, wpc, wbill, cpc, cbill>>

LEMMA HolderInit == Init => HolderInv
BY DEF Init, HolderInv

LEMMA HolderFrame == HolderInv /\ UNCHANGED HolderParts => HolderInv'
BY DEF HolderInv, HolderParts

\* An execution that has no lock yet, or stays inside its section.
LEMMA HolderMove ==
  ASSUME TypeOK, HolderInv, NEW w \in Workers, NEW next \in WorkerPc,
         wpc' = [wpc EXCEPT ![w] = next],
         \/ wpc[w] \in {"idle", "swept", "fetched"}
         \/ next \in Claimed /\ wbill' = wbill,
         \A v \in Workers \ {w} : wbill'[v] = wbill[v],
         UNCHANGED <<lock, cpc, cbill>>
  PROVE  HolderInv'
BY LockOwnersAssumption
   DEF TypeOK, HolderInv, Claimed, InTry, BeforeSend, AfterSend

\* Leaving a section gives its lock back, if it is still one's own.
LEMMA HolderLeaves ==
  ASSUME TypeOK, HolderInv, NEW w \in Workers, wpc' = [wpc EXCEPT ![w] = "idle"],
         Unlock(w, wbill[w]), UNCHANGED <<wbill, cpc, cbill>>
  PROVE  HolderInv'
BY LockOwnersAssumption DEF TypeOK, HolderInv, Unlock, Holds

LEMMA CallerLeaves ==
  ASSUME TypeOK, HolderInv, NEW c \in Callers, cpc' = [cpc EXCEPT ![c] = "idle"],
         Unlock(c, cbill[c]), UNCHANGED <<wbill, wpc, cbill>>
  PROVE  HolderInv'
BY LockOwnersAssumption DEF TypeOK, HolderInv, Unlock, Holds

\* A caller that goes on inside its section.
LEMMA CallerMove ==
  ASSUME TypeOK, HolderInv, NEW c \in Callers, NEW next \in Inside,
         cpc' = [cpc EXCEPT ![c] = next], UNCHANGED <<lock, wbill, wpc, cbill>>
  PROVE  HolderInv'
BY LockOwnersAssumption DEF TypeOK, HolderInv

LEMMA HolderJudge ==
  ASSUME TypeOK, HolderInv, NEW w \in Workers, NEW ends \in BOOLEAN, NEW status, NEW s,
         NEW next \in Claimed, Judge(w, ends, status, s, next)
  PROVE  HolderInv'
<1> USE DEF Judge, OnlyWorkerMoves, caller
<1>0. next \in WorkerPc /\ {"finishing"} \subseteq Claimed \cap WorkerPc
  BY DEF WorkerPc, Claimed
<1>1. CASE ends
  BY <1>0, <1>1, HolderMove DEF Conclude
<1>2. CASE ~ends
  BY <1>0, <1>2, HolderMove DEF Goto
<1> QED
  BY <1>1, <1>2

LEMMA HolderStep == TypeOK /\ HolderInv /\ [Next]_vars => HolderInv'
<1> SUFFICES ASSUME TypeOK, HolderInv, [Next]_vars PROVE HolderInv'
  OBVIOUS
<1> USE DEF order, world, worker, caller, history, Goto, CGoto, CRest
<1>0. /\ Workers \cap Callers = {} /\ Free \notin Workers \cup Callers
      /\ Claimed \subseteq WorkerPc
  BY LockOwnersAssumption DEF WorkerPc
<1>1. ASSUME NEW b \in Bills,
             \/ \E o \in {"requester", "other"} : PlaceHold(b, o)
             \/ QueueCancel(b) \/ RecordChanges(b) \/ WarehousePacks(b)
             \/ ShipmentCallback(b) \/ KingdeeUserShips(b) \/ TenMinutesPass(b)
      PROVE  HolderInv'
  BY <1>1, HolderFrame
  DEF HolderParts, PlaceHold, QueueCancel, RecordChanges, WarehousePacks,
      ShipmentCallback, KingdeeUserShips, TenMinutesPass
<1>2. ASSUME NEW b \in Bills, DropSession(b) PROVE HolderInv'
  BY <1>2 DEF TypeOK, HolderInv, DropSession
<1>3. ASSUME NEW m \in net, Deliver(m) \/ Lose(m) PROVE HolderInv'
  BY <1>3, HolderFrame DEF HolderParts, Deliver, Lose
<1>4. ASSUME NEW w \in Workers, Sweep(w) \/ NothingQueued(w) \/ RefuseMalformed(w)
      PROVE  HolderInv'
  BY <1>4, HolderMove DEF Sweep, NothingQueued, RefuseMalformed, OnlyWorkerMoves, WorkerPc
<1>5. ASSUME NEW w \in Workers, NEW b \in Bills, Fetch(w, b) PROVE HolderInv'
  BY <1>5, HolderMove DEF Fetch, TypeOK, WorkerPc
<1>6. ASSUME NEW w \in Workers, TryLock(w) PROVE HolderInv'
  <2>1. CASE lock[wbill[w]] = Free
    BY <1>0, <1>6, <2>1 DEF TryLock, TypeOK, HolderInv, Claimed, InTry, BeforeSend, AfterSend
  <2>2. CASE lock[wbill[w]] # Free
    BY <1>6, <2>2, HolderMove DEF TryLock, WorkerPc
  <2> QED
    BY <2>1, <2>2
<1>7. ASSUME NEW w \in Workers, Claim(w) PROVE HolderInv'
  <2>1. CASE op[wbill[w]] = "QUEUED"
    BY <1>0, <1>7, <2>1, HolderMove DEF Claim, Claimed, InTry, BeforeSend
  <2>2. CASE op[wbill[w]] # "QUEUED"
    BY <1>7, <2>2, HolderLeaves DEF Claim
  <2> QED
    BY <2>1, <2>2
<1>8. ASSUME NEW w \in Workers, CheckOrder(w) \/ CheckShipment(w) \/ CheckLegacyCancel(w)
      PROVE  HolderInv'
  BY <1>8, HolderJudge
  DEF TypeOK, CheckOrder, CheckShipment, CheckLegacyCancel, Claimed, InTry, BeforeSend
<1>9. ASSUME NEW w \in Workers, CheckXsck(w) \/ CheckWarehouse(w)
      PROVE  HolderInv'
  BY <1>9, HolderJudge
  DEF TypeOK, CheckXsck, CheckWarehouse, Claimed, InTry, BeforeSend
<1>10. ASSUME NEW w \in Workers, RecheckShipment(w) \/ RecheckXsck(w) \/ VerifyXsck(w)
       PROVE  HolderInv'
  BY <1>10, HolderJudge
  DEF TypeOK, RecheckShipment, RecheckXsck, VerifyXsck, Claimed, InTry, BeforeSend, AfterSend
<1>11. ASSUME NEW w \in Workers,
              \/ JournalIntent(w) \/ SendCancel(w) \/ ReceiveResponse(w) \/ JournalReceipt(w)
              \/ VerifyWarehouse(w)
       PROVE  HolderInv'
  BY <1>0, <1>11, HolderMove
  DEF JournalIntent, SendCancel, ReceiveResponse, JournalReceipt, VerifyWarehouse,
      OnlyWorkerMoves, Claimed, InTry, AfterSend
<1>12. ASSUME NEW w \in Workers,
              \/ VerifyShipment(w) \/ Raise(w) \/ IntentRaises(w) \/ Finish(w) \/ FinishFails(w)
       PROVE  HolderInv'
  BY <1>0, <1>12, HolderMove
  DEF VerifyShipment, Raise, IntentRaises, Finish, FinishFails, Conclude, OnlyWorkerMoves, Claimed
<1>13. ASSUME NEW w \in Workers, Leave(w) \/ KillWorker(w) PROVE HolderInv'
  BY <1>13, HolderLeaves DEF Leave, KillWorker
<1>14. ASSUME NEW c \in Callers, NEW b \in Bills, NEW k \in Kinds, CTryLock(c, b, k)
       PROVE  HolderInv'
  BY <1>0, <1>14 DEF CTryLock, TypeOK, HolderInv, Inside
<1>15. ASSUME NEW c \in Callers, GateChecksHold(c) PROVE HolderInv'
  <2>1. CASE hold[cbill[c]] # "none"
    BY <1>15, <2>1, CallerLeaves DEF GateChecksHold
  <2>2. CASE hold[cbill[c]] = "none"
    BY <1>15, <2>2, CallerMove DEF GateChecksHold, Inside
  <2> QED
    BY <2>1, <2>2
<1>16. ASSUME NEW c \in Callers, GateJournalsCancel(c) \/ CDispatch(c) PROVE HolderInv'
  BY <1>16, CallerMove DEF GateJournalsCancel, CDispatch, Inside
<1>17. ASSUME NEW c \in Callers, CLeave(c) PROVE HolderInv'
  BY <1>17, CallerLeaves DEF CLeave
<1>18. CASE UNCHANGED vars
  BY <1>18, HolderFrame DEF vars, HolderParts
<1> QED
  BY <1>1, <1>2, <1>3, <1>4, <1>5, <1>6, <1>7, <1>8, <1>9, <1>10, <1>11, <1>12,
     <1>13, <1>14, <1>15, <1>16, <1>17, <1>18
  DEF Next, Outside, WorkerStep, CallerStep

\* The part of QueueDrains that is not fairness: who keeps a queued operation
\* back is at work on that bill. A worker past its claim cannot be the one, as
\* the claim took the operation out of the queue (ClaimInv).
THEOREM QueueIsNotStranded == Spec => []QueueWaitsForWork
<1>1. Init => JournalInv /\ HolderInv
  BY JournalInit, HolderInit
<1>2. JournalInv /\ HolderInv /\ [Next]_vars => (JournalInv /\ HolderInv)'
  BY JournalStep, HolderStep DEF JournalInv
<1>3. JournalInv /\ HolderInv => QueueWaitsForWork
  BY DEF JournalInv, ClaimInv, HolderInv, QueueWaitsForWork, Inside
<1> QED
  BY <1>1, <1>2, <1>3, PTL DEF Spec

=============================================================================
