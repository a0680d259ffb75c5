------------------------- MODULE SFPushRecordProofs -------------------------
(***************************************************************************)
(* Theorems about SFPushRecord, for any number of scanners, watchers,      *)
(* validators, syncs, people, approvals and orders under one number. One   *)
(* rests on a constant: OnlyDeletedIsRecalled on at most one status query  *)
(* without an answer.                                                      *)
(***************************************************************************)
EXTENDS SFPushRecord, TLAPS

-----------------------------------------------------------------------------
(* The inductive invariants: what each actor has been told stays true.     *)

\* Who has been told that SF has the order, or judges or polls it, is right.
SentInv ==
  /\ SuccessWasSent
  /\ \A a \in Actors : pc[a] = "pushed" => got[a] # "none"
  /\ \A a \in Actors :
       \/ got[a] \in {"ok", "bare"}
       \/ pc[a] \in {"judge", "create", "creating", "mark"}
       => order # "absent"

\* Who has been told that an order is cancelled is right about that order, and
\* remains so when the number is given to another one.
CancelInv ==
  /\ CancelTellsTruth
  /\ order # "absent" => placed >= 1
  /\ \A a \in Actors :
       \/ pc[a] = "cancelled" /\ got[a] = "ok"
       \/ pc[a] = "mark"
       => IsGone(seen[a].gone)

\* Who takes the notice for deleted after two lookups is right; after one the
\* only outage may have been used up.
DeletionInv ==
  /\ OnlyDeletedIsRecalled
  /\ \A a \in Actors :
       /\ why[a] = "deleted" => notice = "deleted"
       /\ pc[a] = "lookAgain" => notice = "deleted" \/ outages >= 1

\* A callback is about goods that left, for good; what the record or a validator
\* makes of it comes after it. All but the scanners deal with a row that exists.
LifeInv ==
  /\ callback # "none" => order = "closed"
  /\ status \in Life!CalledBack => callback # "none"
  /\ \A a \in Actors : pc[a] \in {"create", "creating"} => callback # "none"
  /\ \A a \in Actors \ Scanners : pc[a] # "idle" => status # "none"

-----------------------------------------------------------------------------
LEMMA FetchedType ==
  ASSUME TypeOK
  PROVE  Fetched \in Snapshots
<1>1. NoSnapshot \in Snapshots
  BY PushRecordAssumption DEF NoSnapshot, Snapshots, Statuses, Unwatched
<1>2. approvals \in 0..MaxApprovals /\ 0 \in 0..MaxApprovals
  BY PushRecordAssumption DEF TypeOK
<1> QED BY <1>1, <1>2 DEF Fetched, Snapshots

LEMMA SnapshotType ==
  ASSUME TypeOK
  PROVE  Snapshot \in Snapshots
<1>1. NoSnapshot \in Snapshots
  BY PushRecordAssumption DEF NoSnapshot, Snapshots, Statuses, Unwatched
<1>2. status \in Statuses /\ receipt \in BOOLEAN
  BY DEF TypeOK
<1> QED BY <1>1, <1>2 DEF Snapshot, Snapshots

-----------------------------------------------------------------------------
(* The steps. *)

LEMMA TypeStep ==
  ASSUME TypeOK, [Next]_vars
  PROVE  TypeOK'
<1> USE PushRecordAssumption
  DEF doc, row, wms, locals, counters, Goto, Learns, Marks, Says,
      SaysNothing, TypeOK, Actors, Snapshots,
      NoSnapshot, Statuses, Terminal, Unwatched, Validated, Pcs, Calling
<1>1. ASSUME UserUnaudits PROVE TypeOK'
  BY <1>1 DEF UserUnaudits
<1>2. ASSUME UserApproves PROVE TypeOK'
  <2>1. again' \in BOOLEAN /\ late' \in BOOLEAN
    BY <1>2 DEF UserApproves
  <2>2. approvals' \in 0..MaxApprovals /\ notice' \in {"approved", "unaudited", "deleted"}
    BY <1>2 DEF UserApproves
  <2> QED BY <1>2, <2>1, <2>2 DEF UserApproves
<1>3. ASSUME UserDeletes PROVE TypeOK'
  BY <1>3 DEF UserDeletes
<1>4. ASSUME WarehouseCloses PROVE TypeOK'
  BY <1>4 DEF WarehouseCloses
<1>5. ASSUME CallbackArrives PROVE TypeOK'
  BY <1>5 DEF CallbackArrives
<1>6. ASSUME NEW a \in Actors, Calls(a) PROVE TypeOK'
  BY <1>6 DEF Calls
<1>7. ASSUME NEW a \in Actors, Push(a) PROVE TypeOK'
  BY <1>7 DEF Push, Takes, Placed, NotPlaced, HangsUp
<1>8. ASSUME NEW a \in Actors, PushRaises(a) PROVE TypeOK'
  BY <1>8 DEF PushRaises, Takes, Placed, NotPlaced, Rest, Restarts
<1>9. ASSUME NEW a \in Actors, Cancel(a) PROVE TypeOK'
  BY <1>9 DEF Cancel, HangsUp
<1>10. ASSUME NEW a \in Actors, WritePushed(a) PROVE TypeOK'
  BY <1>10 DEF WritePushed, Rest, Restarts
<1>11. ASSUME NEW a \in Actors, Retries(a) PROVE TypeOK'
  <2>1. CASE notice = "deleted" \/ held
    <3>1. Rest(a)
      BY <1>11, <2>1 DEF Retries
    <3> QED BY <1>11, <3>1 DEF Retries, Rest, Restarts
  <2>2. CASE ~(notice = "deleted" \/ held)
    BY <1>11, <2>2, FetchedType DEF Retries
  <2> QED BY <2>1, <2>2
<1>12. ASSUME NEW a \in Actors, ScanReads(a) PROVE TypeOK'
  BY <1>12, FetchedType DEF ScanReads
<1>13. ASSUME NEW a \in Actors, ScanRefuses(a) PROVE TypeOK'
  BY <1>13 DEF ScanRefuses, Rest, Restarts
<1>14. ASSUME NEW a \in Actors, ScanChecksAgain(a) PROVE TypeOK'
  <2>1. CASE Moves(a, "push")
    BY <2>1 DEF Moves
  <2>2. CASE Gives(a)
    BY <2>2 DEF Gives, Rest, Restarts
  <2> QED BY <1>14, <2>1, <2>2 DEF ScanChecksAgain
<1>15. ASSUME NEW a \in Actors, ScanFails(a) PROVE TypeOK'
  BY <1>15 DEF ScanFails, Rest, Restarts
<1>16. ASSUME NEW a \in Actors, WatchReads(a) PROVE TypeOK'
  BY <1>16 DEF WatchReads, Snapshot, Unwatched
<1>17. ASSUME NEW a \in Actors, WatchLooks(a) PROVE TypeOK'
  <2>1. outages' \in 0..MaxOutages
    BY <1>17 DEF WatchLooks, LooksUp
  <2>2. /\ pc' \in [Actors -> Pcs] /\ seen' \in [Actors -> Snapshots]
        /\ got' \in [Actors -> {"none", "ok", "bare", "no"}]
        /\ why' \in [Actors -> {"none", "unaudited", "reapproved", "deleted"}]
    <3>1. CASE Rest(a)
      BY <3>1 DEF Rest, Restarts
    <3>2. CASE ~Rest(a)
      <4>1. /\ UNCHANGED <<seen, got>>
            /\ \E p \in {"lookAgain", "cancel"} : pc' = [pc EXCEPT ![a] = p]
            /\ \/ UNCHANGED why
               \/ \E r \in {"unaudited", "reapproved", "deleted"} : why' = [why EXCEPT ![a] = r]
        BY <1>17, <3>2 DEF WatchLooks, CancelFor
      <4> QED BY <4>1
    <3> QED BY <3>1, <3>2
  <2> QED BY <1>17, <2>1, <2>2 DEF WatchLooks
<1>18. ASSUME NEW a \in Actors, WatchLooksAgain(a) PROVE TypeOK'
  <2>1. outages' \in 0..MaxOutages
    BY <1>18 DEF WatchLooksAgain, LooksUp
  <2>2. /\ pc' \in [Actors -> Pcs] /\ seen' \in [Actors -> Snapshots]
        /\ got' \in [Actors -> {"none", "ok", "bare", "no"}]
        /\ why' \in [Actors -> {"none", "unaudited", "reapproved", "deleted"}]
    <3>1. CASE Rest(a)
      BY <3>1 DEF Rest, Restarts
    <3>2. CASE ~Rest(a)
      <4>1. /\ UNCHANGED <<seen, got>>
            /\ \E p \in {"lookAgain", "cancel"} : pc' = [pc EXCEPT ![a] = p]
            /\ \/ UNCHANGED why
               \/ \E r \in {"unaudited", "reapproved", "deleted"} : why' = [why EXCEPT ![a] = r]
        BY <1>18, <3>2 DEF WatchLooksAgain, CancelFor
      <4> QED BY <4>1
    <3> QED BY <3>1, <3>2
  <2> QED BY <1>18, <2>1, <2>2 DEF WatchLooksAgain
<1>19. ASSUME NEW a \in Actors, WatchWrites(a) PROVE TypeOK'
  <2>1. CASE Rest(a)
    BY <1>19, <2>1 DEF WatchWrites, Rest, Restarts
  <2>2. CASE ~Rest(a)
    <3>1. Restarts(a, "retry") /\ Marks(a, "cancelled_by_unaudit")
      BY <1>19, <2>2 DEF WatchWrites
    <3> QED BY <1>19, <3>1 DEF WatchWrites, Restarts
  <2> QED BY <2>1, <2>2
<1>20. ASSUME NEW a \in Actors, HumanRetries(a) PROVE TypeOK'
  BY <1>20 DEF HumanRetries
<1>21. ASSUME NEW a \in Actors, HumanCancels(a) PROVE TypeOK'
  BY <1>21 DEF HumanCancels
<1>22. ASSUME NEW a \in Actors, HumanAsks(a) PROVE TypeOK'
  BY <1>22 DEF HumanAsks
<1>23. ASSUME NEW a \in Actors, HumanWrites(a) PROVE TypeOK'
  BY <1>23 DEF HumanWrites, Rest, Restarts
<1>24. ASSUME NEW a \in Actors, SyncReads(a) PROVE TypeOK'
  BY <1>24 DEF SyncReads, Moves
<1>25. ASSUME NEW a \in Actors, SyncAsks(a) PROVE TypeOK'
  <2>1. CASE Moves(a, "mark")
    BY <2>1 DEF Moves
  <2>2. CASE Gives(a)
    BY <2>2 DEF Gives, Rest, Restarts
  <2> QED BY <1>25, <2>1, <2>2 DEF SyncAsks
<1>26. ASSUME NEW a \in Actors, SyncWrites(a) PROVE TypeOK'
  BY <1>26 DEF SyncWrites, Rest, Restarts
<1>27. ASSUME NEW a \in Actors, ValidateReads(a) PROVE TypeOK'
  BY <1>27, SnapshotType DEF ValidateReads
<1>28. ASSUME NEW a \in Actors, ValidateJudges(a) PROVE TypeOK'
  <2>1. status' \in Statuses /\ told' \in 0..MaxOrders
    BY <1>28 DEF ValidateJudges, Judge
  <2>2. CASE Rest(a)
    BY <1>28, <2>1, <2>2 DEF ValidateJudges, Rest, Restarts
  <2>3. CASE ~Rest(a)
    BY <1>28, <2>1, <2>3 DEF ValidateJudges
  <2> QED BY <2>2, <2>3
<1>29. ASSUME NEW a \in Actors, ValidateCreates(a) PROVE TypeOK'
  BY <1>29 DEF ValidateCreates, Rest, Restarts
<1>30. ASSUME NEW a \in Actors, ValidateRechecks(a) PROVE TypeOK'
  <2>1. CASE Moves(a, "creating")
    BY <2>1 DEF Moves
  <2>2. CASE Gives(a)
    BY <2>2 DEF Gives, Rest, Restarts
  <2> QED BY <1>30, <2>1, <2>2 DEF ValidateRechecks
<1>31. ASSUME UNCHANGED vars PROVE TypeOK'
  BY <1>31 DEF vars
<1>32. ASSUME ApprovalAges PROVE TypeOK'
  BY <1>32 DEF ApprovalAges
<1>33. ASSUME RecordAges PROVE TypeOK'
  BY <1>33 DEF RecordAges
<1>34. ASSUME HoldIsPlaced PROVE TypeOK'
  BY <1>34 DEF HoldIsPlaced
<1>35. ASSUME InterceptionCancels PROVE TypeOK'
  BY <1>35 DEF InterceptionCancels
<1> HIDE DEF TypeOK
<1> QED BY <1>1, <1>2, <1>3, <1>4, <1>5, <1>6, <1>7, <1>8, <1>9, <1>10, <1>11,
     <1>12, <1>13, <1>14, <1>15, <1>16, <1>17, <1>18, <1>19, <1>20, <1>21,
     <1>22, <1>23, <1>24, <1>25, <1>26, <1>27, <1>28, <1>29, <1>30, <1>31, <1>32, <1>33, <1>34,
     <1>35
  DEF Next, Outside, ScanStep, WatchStep, HumanStep, SyncStep, ValidateStep,
      CallStep, Actors

LEMMA SentStep ==
  ASSUME TypeOK, SentInv, [Next]_vars
  PROVE  SentInv'
<1> USE PushRecordAssumption
  DEF doc, row, wms, locals, counters, Goto, Learns, Marks, Says,
      SaysNothing, TypeOK, SentInv, SuccessWasSent,
      Polled, Validated, Statuses, Terminal, Unwatched
<1>1. ASSUME UserUnaudits PROVE SentInv'
  BY <1>1 DEF UserUnaudits
<1>2. ASSUME UserApproves PROVE SentInv'
  BY <1>2 DEF UserApproves
<1>3. ASSUME UserDeletes PROVE SentInv'
  BY <1>3 DEF UserDeletes
<1>4. ASSUME WarehouseCloses PROVE SentInv'
  BY <1>4 DEF WarehouseCloses
<1>5. ASSUME CallbackArrives PROVE SentInv'
  BY <1>5 DEF CallbackArrives
<1>6. ASSUME NEW a \in Actors, Calls(a) PROVE SentInv'
  BY <1>6 DEF Calls
<1>7. ASSUME NEW a \in Actors, Push(a) PROVE SentInv'
  BY <1>7 DEF Push, Takes, Placed, NotPlaced, HangsUp
<1>8. ASSUME NEW a \in Actors, PushRaises(a) PROVE SentInv'
  BY <1>8 DEF PushRaises, Takes, Placed, NotPlaced, Rest, Restarts
<1>9. ASSUME NEW a \in Actors, Cancel(a) PROVE SentInv'
  BY <1>9 DEF Cancel, HangsUp
<1>10. ASSUME NEW a \in Actors, WritePushed(a) PROVE SentInv'
  BY <1>10 DEF WritePushed, Rest, Restarts
<1>11. ASSUME NEW a \in Actors, Retries(a) PROVE SentInv'
  BY <1>11 DEF Retries, Rest, Restarts, Fetched
<1>12. ASSUME NEW a \in Actors, ScanReads(a) PROVE SentInv'
  BY <1>12 DEF ScanReads, Fetched
<1>13. ASSUME NEW a \in Actors, ScanRefuses(a) PROVE SentInv'
  BY <1>13 DEF ScanRefuses, Rest, Restarts
<1>14. ASSUME NEW a \in Actors, ScanChecksAgain(a) PROVE SentInv'
  BY <1>14 DEF ScanChecksAgain, Moves, Gives, Rest, Restarts
<1>15. ASSUME NEW a \in Actors, ScanFails(a) PROVE SentInv'
  BY <1>15 DEF ScanFails, Rest, Restarts
<1>16. ASSUME NEW a \in Actors, WatchReads(a) PROVE SentInv'
  BY <1>16 DEF WatchReads, Snapshot, Unwatched
<1>17. ASSUME NEW a \in Actors, WatchLooks(a) PROVE SentInv'
  BY <1>17 DEF WatchLooks, LooksUp, CancelFor, Rest, Restarts
<1>18. ASSUME NEW a \in Actors, WatchLooksAgain(a) PROVE SentInv'
  BY <1>18 DEF WatchLooksAgain, LooksUp, CancelFor, Rest, Restarts
<1>19. ASSUME NEW a \in Actors, WatchWrites(a) PROVE SentInv'
  BY <1>19 DEF WatchWrites, Rest, Restarts
<1>20. ASSUME NEW a \in Actors, HumanRetries(a) PROVE SentInv'
  BY <1>20 DEF HumanRetries
<1>21. ASSUME NEW a \in Actors, HumanCancels(a) PROVE SentInv'
  BY <1>21 DEF HumanCancels
<1>22. ASSUME NEW a \in Actors, HumanAsks(a) PROVE SentInv'
  BY <1>22 DEF HumanAsks
<1>23. ASSUME NEW a \in Actors, HumanWrites(a) PROVE SentInv'
  BY <1>23 DEF HumanWrites, Rest, Restarts
<1>24. ASSUME NEW a \in Actors, SyncReads(a) PROVE SentInv'
  BY <1>24 DEF SyncReads, Moves
<1>25. ASSUME NEW a \in Actors, SyncAsks(a) PROVE SentInv'
  BY <1>25 DEF SyncAsks, Moves, Gives, Rest, Restarts
<1>26. ASSUME NEW a \in Actors, SyncWrites(a) PROVE SentInv'
  BY <1>26 DEF SyncWrites, Rest, Restarts
<1>27. ASSUME NEW a \in Actors, ValidateReads(a) PROVE SentInv'
  BY <1>27 DEF ValidateReads, Snapshot
<1>28. ASSUME NEW a \in Actors, ValidateJudges(a) PROVE SentInv'
  BY <1>28 DEF ValidateJudges, Judge, Rest, Restarts
<1>29. ASSUME NEW a \in Actors, ValidateCreates(a) PROVE SentInv'
  BY <1>29 DEF ValidateCreates, Rest, Restarts
<1>30. ASSUME NEW a \in Validators, ValidateRechecks(a) PROVE SentInv'
  BY <1>30 DEF ValidateRechecks, Moves, Gives, Rest, Restarts
<1>31. ASSUME UNCHANGED vars PROVE SentInv'
  BY <1>31 DEF vars
<1>32. ASSUME ApprovalAges PROVE SentInv'
  BY <1>32 DEF ApprovalAges
<1>33. ASSUME RecordAges PROVE SentInv'
  BY <1>33 DEF RecordAges
<1>34. ASSUME HoldIsPlaced PROVE SentInv'
  BY <1>34 DEF HoldIsPlaced
<1>35. ASSUME InterceptionCancels PROVE SentInv'
  BY <1>35 DEF InterceptionCancels
<1> HIDE DEF SentInv
<1> QED BY <1>1, <1>2, <1>3, <1>4, <1>5, <1>6, <1>7, <1>8, <1>9, <1>10, <1>11,
     <1>12, <1>13, <1>14, <1>15, <1>16, <1>17, <1>18, <1>19, <1>20, <1>21,
     <1>22, <1>23, <1>24, <1>25, <1>26, <1>27, <1>28, <1>29, <1>30, <1>31, <1>32, <1>33, <1>34,
     <1>35
  DEF Next, Outside, ScanStep, WatchStep, HumanStep, SyncStep, ValidateStep,
      CallStep, Actors

LEMMA CancelStep ==
  ASSUME TypeOK, CancelInv, [Next]_vars
  PROVE  CancelInv'
<1> USE PushRecordAssumption
  DEF doc, row, wms, locals, counters, Goto, Learns, Marks, Says,
      SaysNothing, TypeOK, CancelInv,
      CancelTellsTruth, IsGone, Cancelled, Calling
<1>1. ASSUME UserUnaudits PROVE CancelInv'
  BY <1>1 DEF UserUnaudits
<1>2. ASSUME UserApproves PROVE CancelInv'
  BY <1>2 DEF UserApproves
<1>3. ASSUME UserDeletes PROVE CancelInv'
  BY <1>3 DEF UserDeletes
<1>4. ASSUME WarehouseCloses PROVE CancelInv'
  BY <1>4 DEF WarehouseCloses
<1>5. ASSUME CallbackArrives PROVE CancelInv'
  BY <1>5 DEF CallbackArrives
<1>6. ASSUME NEW a \in Actors, Calls(a) PROVE CancelInv'
  BY <1>6 DEF Calls
<1>7. ASSUME NEW a \in Actors, Push(a) PROVE CancelInv'
  BY <1>7 DEF Push, Takes, Placed, NotPlaced, HangsUp
<1>8. ASSUME NEW a \in Actors, PushRaises(a) PROVE CancelInv'
  BY <1>8 DEF PushRaises, Takes, Placed, NotPlaced, Rest, Restarts
<1>9. ASSUME NEW a \in Actors, Cancel(a) PROVE CancelInv'
  BY <1>9 DEF Cancel, HangsUp, Snapshots
<1>10. ASSUME NEW a \in Actors, WritePushed(a) PROVE CancelInv'
  BY <1>10 DEF WritePushed, Rest, Restarts
<1>11. ASSUME NEW a \in Actors, Retries(a) PROVE CancelInv'
  BY <1>11 DEF Retries, Rest, Restarts, Fetched
<1>12. ASSUME NEW a \in Actors, ScanReads(a) PROVE CancelInv'
  BY <1>12 DEF ScanReads, Fetched
<1>13. ASSUME NEW a \in Actors, ScanRefuses(a) PROVE CancelInv'
  BY <1>13 DEF ScanRefuses, Rest, Restarts
<1>14. ASSUME NEW a \in Actors, ScanChecksAgain(a) PROVE CancelInv'
  BY <1>14 DEF ScanChecksAgain, Moves, Gives, Rest, Restarts
<1>15. ASSUME NEW a \in Actors, ScanFails(a) PROVE CancelInv'
  BY <1>15 DEF ScanFails, Rest, Restarts
<1>16. ASSUME NEW a \in Actors, WatchReads(a) PROVE CancelInv'
  BY <1>16 DEF WatchReads, Snapshot, Unwatched
<1>17. ASSUME NEW a \in Actors, WatchLooks(a) PROVE CancelInv'
  BY <1>17 DEF WatchLooks, LooksUp, CancelFor, Rest, Restarts
<1>18. ASSUME NEW a \in Actors, WatchLooksAgain(a) PROVE CancelInv'
  BY <1>18 DEF WatchLooksAgain, LooksUp, CancelFor, Rest, Restarts
<1>19. ASSUME NEW a \in Actors, WatchWrites(a) PROVE CancelInv'
  BY <1>19 DEF WatchWrites, Rest, Restarts
<1>20. ASSUME NEW a \in Actors, HumanRetries(a) PROVE CancelInv'
  BY <1>20 DEF HumanRetries
<1>21. ASSUME NEW a \in Actors, HumanCancels(a) PROVE CancelInv'
  BY <1>21 DEF HumanCancels
<1>22. ASSUME NEW a \in Actors, HumanAsks(a) PROVE CancelInv'
  BY <1>22 DEF HumanAsks, Snapshots
<1>23. ASSUME NEW a \in Actors, HumanWrites(a) PROVE CancelInv'
  BY <1>23 DEF HumanWrites, Rest, Restarts
<1>24. ASSUME NEW a \in Actors, SyncReads(a) PROVE CancelInv'
  BY <1>24 DEF SyncReads, Moves
<1>25. ASSUME NEW a \in Actors, SyncAsks(a) PROVE CancelInv'
  BY <1>25 DEF SyncAsks, Moves, Gives, Rest, Restarts, Snapshots
<1>26. ASSUME NEW a \in Actors, SyncWrites(a) PROVE CancelInv'
  BY <1>26 DEF SyncWrites, Rest, Restarts
<1>27. ASSUME NEW a \in Actors, ValidateReads(a) PROVE CancelInv'
  BY <1>27 DEF ValidateReads, Snapshot
<1>28. ASSUME NEW a \in Actors, ValidateJudges(a) PROVE CancelInv'
  BY <1>28 DEF ValidateJudges, Judge, Rest, Restarts, Validated
<1>29. ASSUME NEW a \in Actors, ValidateCreates(a) PROVE CancelInv'
  BY <1>29 DEF ValidateCreates, Rest, Restarts, Validated
<1>30. ASSUME NEW a \in Validators, ValidateRechecks(a) PROVE CancelInv'
  BY <1>30 DEF ValidateRechecks, Moves, Gives, Rest, Restarts
<1>31. ASSUME UNCHANGED vars PROVE CancelInv'
  BY <1>31 DEF vars
<1>32. ASSUME ApprovalAges PROVE CancelInv'
  BY <1>32 DEF ApprovalAges
<1>33. ASSUME RecordAges PROVE CancelInv'
  BY <1>33 DEF RecordAges
<1>34. ASSUME HoldIsPlaced PROVE CancelInv'
  BY <1>34 DEF HoldIsPlaced
<1>35. ASSUME InterceptionCancels PROVE CancelInv'
  BY <1>35 DEF InterceptionCancels
<1> HIDE DEF CancelInv
<1> QED BY <1>1, <1>2, <1>3, <1>4, <1>5, <1>6, <1>7, <1>8, <1>9, <1>10, <1>11,
     <1>12, <1>13, <1>14, <1>15, <1>16, <1>17, <1>18, <1>19, <1>20, <1>21,
     <1>22, <1>23, <1>24, <1>25, <1>26, <1>27, <1>28, <1>29, <1>30, <1>31, <1>32, <1>33, <1>34,
     <1>35
  DEF Next, Outside, ScanStep, WatchStep, HumanStep, SyncStep, ValidateStep,
      CallStep, Actors

LEMMA DeletionStep ==
  ASSUME MaxOutages <= 1, TypeOK, DeletionInv, [Next]_vars
  PROVE  DeletionInv'
<1> USE PushRecordAssumption
  DEF doc, row, wms, locals, counters, Goto, Learns, Marks, Says,
      SaysNothing, TypeOK, DeletionInv,
      OnlyDeletedIsRecalled, Statuses
<1>1. ASSUME UserUnaudits PROVE DeletionInv'
  BY <1>1 DEF UserUnaudits
<1>2. ASSUME UserApproves PROVE DeletionInv'
  BY <1>2 DEF UserApproves
<1>3. ASSUME UserDeletes PROVE DeletionInv'
  BY <1>3 DEF UserDeletes
<1>4. ASSUME WarehouseCloses PROVE DeletionInv'
  BY <1>4 DEF WarehouseCloses
<1>5. ASSUME CallbackArrives PROVE DeletionInv'
  BY <1>5 DEF CallbackArrives
<1>6. ASSUME NEW a \in Actors, Calls(a) PROVE DeletionInv'
  BY <1>6 DEF Calls
<1>7. ASSUME NEW a \in Actors, Push(a) PROVE DeletionInv'
  BY <1>7 DEF Push, Takes, Placed, NotPlaced, HangsUp
<1>8. ASSUME NEW a \in Actors, PushRaises(a) PROVE DeletionInv'
  BY <1>8 DEF PushRaises, Takes, Placed, NotPlaced, Rest, Restarts
<1>9. ASSUME NEW a \in Actors, Cancel(a) PROVE DeletionInv'
  BY <1>9 DEF Cancel, HangsUp
<1>10. ASSUME NEW a \in Actors, WritePushed(a) PROVE DeletionInv'
  BY <1>10 DEF WritePushed, Rest, Restarts
<1>11. ASSUME NEW a \in Actors, Retries(a) PROVE DeletionInv'
  BY <1>11 DEF Retries, Rest, Restarts, Fetched
<1>12. ASSUME NEW a \in Actors, ScanReads(a) PROVE DeletionInv'
  BY <1>12 DEF ScanReads, Fetched
<1>13. ASSUME NEW a \in Actors, ScanRefuses(a) PROVE DeletionInv'
  BY <1>13 DEF ScanRefuses, Rest, Restarts
<1>14. ASSUME NEW a \in Actors, ScanChecksAgain(a) PROVE DeletionInv'
  BY <1>14 DEF ScanChecksAgain, Moves, Gives, Rest, Restarts
<1>15. ASSUME NEW a \in Actors, ScanFails(a) PROVE DeletionInv'
  BY <1>15 DEF ScanFails, Rest, Restarts
<1>16. ASSUME NEW a \in Actors, WatchReads(a) PROVE DeletionInv'
  BY <1>16 DEF WatchReads, Snapshot, Unwatched
<1>17. ASSUME NEW a \in Actors, WatchLooks(a) PROVE DeletionInv'
  BY <1>17 DEF WatchLooks, LooksUp, CancelFor, Rest, Restarts
<1>18. ASSUME NEW a \in Actors, WatchLooksAgain(a) PROVE DeletionInv'
  BY <1>18 DEF WatchLooksAgain, LooksUp, CancelFor, Rest, Restarts
<1>19. ASSUME NEW a \in Actors, WatchWrites(a) PROVE DeletionInv'
  BY <1>19 DEF WatchWrites, Rest, Restarts
<1>20. ASSUME NEW a \in Actors, HumanRetries(a) PROVE DeletionInv'
  BY <1>20 DEF HumanRetries
<1>21. ASSUME NEW a \in Actors, HumanCancels(a) PROVE DeletionInv'
  BY <1>21 DEF HumanCancels
<1>22. ASSUME NEW a \in Actors, HumanAsks(a) PROVE DeletionInv'
  BY <1>22 DEF HumanAsks
<1>23. ASSUME NEW a \in Actors, HumanWrites(a) PROVE DeletionInv'
  BY <1>23 DEF HumanWrites, Rest, Restarts
<1>24. ASSUME NEW a \in Actors, SyncReads(a) PROVE DeletionInv'
  BY <1>24 DEF SyncReads, Moves
<1>25. ASSUME NEW a \in Actors, SyncAsks(a) PROVE DeletionInv'
  BY <1>25 DEF SyncAsks, Moves, Gives, Rest, Restarts
<1>26. ASSUME NEW a \in Actors, SyncWrites(a) PROVE DeletionInv'
  BY <1>26 DEF SyncWrites, Rest, Restarts
<1>27. ASSUME NEW a \in Actors, ValidateReads(a) PROVE DeletionInv'
  BY <1>27 DEF ValidateReads, Snapshot
<1>28. ASSUME NEW a \in Actors, ValidateJudges(a) PROVE DeletionInv'
  BY <1>28 DEF ValidateJudges, Judge, Rest, Restarts
<1>29. ASSUME NEW a \in Actors, ValidateCreates(a) PROVE DeletionInv'
  BY <1>29 DEF ValidateCreates, Rest, Restarts
<1>30. ASSUME NEW a \in Validators, ValidateRechecks(a) PROVE DeletionInv'
  BY <1>30 DEF ValidateRechecks, Moves, Gives, Rest, Restarts
<1>31. ASSUME UNCHANGED vars PROVE DeletionInv'
  BY <1>31 DEF vars
<1>32. ASSUME ApprovalAges PROVE DeletionInv'
  BY <1>32 DEF ApprovalAges
<1>33. ASSUME RecordAges PROVE DeletionInv'
  BY <1>33 DEF RecordAges
<1>34. ASSUME HoldIsPlaced PROVE DeletionInv'
  BY <1>34 DEF HoldIsPlaced
<1>35. ASSUME InterceptionCancels PROVE DeletionInv'
  BY <1>35 DEF InterceptionCancels
<1> HIDE DEF DeletionInv
<1> QED BY <1>1, <1>2, <1>3, <1>4, <1>5, <1>6, <1>7, <1>8, <1>9, <1>10, <1>11,
     <1>12, <1>13, <1>14, <1>15, <1>16, <1>17, <1>18, <1>19, <1>20, <1>21,
     <1>22, <1>23, <1>24, <1>25, <1>26, <1>27, <1>28, <1>29, <1>30, <1>31, <1>32, <1>33, <1>34,
     <1>35
  DEF Next, Outside, ScanStep, WatchStep, HumanStep, SyncStep, ValidateStep,
      CallStep, Actors

LEMMA LifeStep ==
  ASSUME TypeOK, LifeInv, [Next]_vars
  PROVE  LifeInv'
<1> USE PushRecordAssumption
  DEF doc, row, wms, locals, counters, Goto, Learns, Marks, Says,
      SaysNothing, TypeOK, LifeInv, Life!CalledBack,
      Actors, Statuses, Terminal, Unwatched, Calling
<1>1. ASSUME UserUnaudits PROVE LifeInv'
  BY <1>1 DEF UserUnaudits
<1>2. ASSUME UserApproves PROVE LifeInv'
  BY <1>2 DEF UserApproves
<1>3. ASSUME UserDeletes PROVE LifeInv'
  BY <1>3 DEF UserDeletes
<1>4. ASSUME WarehouseCloses PROVE LifeInv'
  BY <1>4 DEF WarehouseCloses
<1>5. ASSUME CallbackArrives PROVE LifeInv'
  BY <1>5 DEF CallbackArrives
<1>6. ASSUME NEW a \in Actors, Calls(a) PROVE LifeInv'
  BY <1>6 DEF Calls
<1>7. ASSUME NEW a \in Actors, Push(a) PROVE LifeInv'
  BY <1>7 DEF Push, Takes, Placed, NotPlaced, HangsUp
<1>8. ASSUME NEW a \in Actors, PushRaises(a) PROVE LifeInv'
  BY <1>8 DEF PushRaises, Takes, Placed, NotPlaced, Rest, Restarts
<1>9. ASSUME NEW a \in Actors, Cancel(a) PROVE LifeInv'
  BY <1>9 DEF Cancel, HangsUp
<1>10. ASSUME NEW a \in Actors, WritePushed(a) PROVE LifeInv'
  BY <1>10 DEF WritePushed, Rest, Restarts
<1>11. ASSUME NEW a \in Actors, Retries(a) PROVE LifeInv'
  BY <1>11 DEF Retries, Rest, Restarts, Fetched
<1>12. ASSUME NEW a \in Scanners, ScanReads(a) PROVE LifeInv'
  BY <1>12 DEF ScanReads, Fetched
<1>13. ASSUME NEW a \in Scanners, ScanRefuses(a) PROVE LifeInv'
  BY <1>13 DEF ScanRefuses, Rest, Restarts
<1>14. ASSUME NEW a \in Scanners, ScanChecksAgain(a) PROVE LifeInv'
  BY <1>14 DEF ScanChecksAgain, Moves, Gives, Rest, Restarts
<1>15. ASSUME NEW a \in Scanners, ScanFails(a) PROVE LifeInv'
  BY <1>15 DEF ScanFails, Rest, Restarts
<1>16. ASSUME NEW a \in Watchers, WatchReads(a) PROVE LifeInv'
  BY <1>16 DEF WatchReads, Snapshot, Unwatched
<1>17. ASSUME NEW a \in Watchers, WatchLooks(a) PROVE LifeInv'
  BY <1>17 DEF WatchLooks, LooksUp, CancelFor, Rest, Restarts
<1>18. ASSUME NEW a \in Watchers, WatchLooksAgain(a) PROVE LifeInv'
  BY <1>18 DEF WatchLooksAgain, LooksUp, CancelFor, Rest, Restarts
<1>19. ASSUME NEW a \in Watchers, WatchWrites(a) PROVE LifeInv'
  BY <1>19 DEF WatchWrites, Rest, Restarts
<1>20. ASSUME NEW a \in Humans, HumanRetries(a) PROVE LifeInv'
  BY <1>20 DEF HumanRetries, Retryable
<1>21. ASSUME NEW a \in Humans, HumanCancels(a) PROVE LifeInv'
  BY <1>21 DEF HumanCancels
<1>22. ASSUME NEW a \in Humans, HumanAsks(a) PROVE LifeInv'
  BY <1>22 DEF HumanAsks
<1>23. ASSUME NEW a \in Humans, HumanWrites(a) PROVE LifeInv'
  BY <1>23 DEF HumanWrites, Rest, Restarts
<1>24. ASSUME NEW a \in Syncs, SyncReads(a) PROVE LifeInv'
  BY <1>24 DEF SyncReads, Moves, Polled, Validated
<1>25. ASSUME NEW a \in Syncs, SyncAsks(a) PROVE LifeInv'
  BY <1>25 DEF SyncAsks, Moves, Gives, Rest, Restarts
<1>26. ASSUME NEW a \in Syncs, SyncWrites(a) PROVE LifeInv'
  BY <1>26 DEF SyncWrites, Rest, Restarts
<1>27. ASSUME NEW a \in Validators, ValidateReads(a) PROVE LifeInv'
  BY <1>27 DEF ValidateReads, Snapshot, Validated
<1>28. ASSUME NEW a \in Validators, ValidateJudges(a) PROVE LifeInv'
  BY <1>28 DEF ValidateJudges, Judge, Rest, Restarts
<1>29. ASSUME NEW a \in Validators, ValidateCreates(a) PROVE LifeInv'
  BY <1>29 DEF ValidateCreates, Rest, Restarts, Validated
<1>30. ASSUME NEW a \in Validators, ValidateRechecks(a) PROVE LifeInv'
  BY <1>30 DEF ValidateRechecks, Moves, Gives, Rest, Restarts
<1>31. ASSUME UNCHANGED vars PROVE LifeInv'
  BY <1>31 DEF vars
<1>32. ASSUME ApprovalAges PROVE LifeInv'
  BY <1>32 DEF ApprovalAges
<1>33. ASSUME RecordAges PROVE LifeInv'
  BY <1>33 DEF RecordAges
<1>34. ASSUME HoldIsPlaced PROVE LifeInv'
  BY <1>34 DEF HoldIsPlaced
<1>35. ASSUME InterceptionCancels PROVE LifeInv'
  BY <1>35 DEF InterceptionCancels
<1> HIDE DEF LifeInv
<1> QED BY <1>1, <1>2, <1>3, <1>4, <1>5, <1>6, <1>7, <1>8, <1>9, <1>10, <1>11,
     <1>12, <1>13, <1>14, <1>15, <1>16, <1>17, <1>18, <1>19, <1>20, <1>21,
     <1>22, <1>23, <1>24, <1>25, <1>26, <1>27, <1>28, <1>29, <1>30, <1>31, <1>32, <1>33, <1>34,
     <1>35
  DEF Next, Outside, ScanStep, WatchStep, HumanStep, SyncStep, ValidateStep,
      CallStep, Actors

\* Under the invariants every step is one of the contract's, or changes nothing
\* that the contract speaks of.
LEMMA LifeSimulation ==
  ASSUME TypeOK, SentInv, CancelInv, LifeInv, [Next]_vars
  PROVE  [Life!Next]_(Life!vars)
<1> DEFINE Goal == [Life!Next]_(Life!vars)
<1> USE PushRecordAssumption
  DEF doc, row, wms, locals, counters, Goto, Learns, Marks, Says,
      SaysNothing, TypeOK, LifeInv, Actors, Statuses,
      Terminal, Life!vars, Life!Next, Life!Place, Life!Close, Life!CallOff, Life!CallBack,
      Life!Writes, Life!Fail, Life!Succeed, Life!Alert, Life!Accept, Life!Object,
      Life!Recall, Life!IsGone, Life!GiveUpRecall, Life!Create, Life!Cancelled
<1>1. ASSUME UserUnaudits PROVE Goal
  BY <1>1 DEF UserUnaudits
<1>2. ASSUME UserApproves PROVE Goal
  BY <1>2 DEF UserApproves
<1>3. ASSUME UserDeletes PROVE Goal
  BY <1>3 DEF UserDeletes
<1>4. ASSUME WarehouseCloses PROVE Goal
  BY <1>4 DEF WarehouseCloses
<1>5. ASSUME CallbackArrives PROVE Goal
  BY <1>5 DEF CallbackArrives
<1>6. ASSUME NEW a \in Actors, Calls(a) PROVE Goal
  BY <1>6 DEF Calls
<1>7. ASSUME NEW a \in Actors, Push(a) PROVE Goal
  BY <1>7 DEF Push, Takes, Placed, NotPlaced, HangsUp
<1>8. ASSUME NEW a \in Actors, PushRaises(a) PROVE Goal
  BY <1>8 DEF PushRaises, Takes, Placed, NotPlaced, Rest, Restarts
<1>9. ASSUME NEW a \in Actors, Cancel(a) PROVE Goal
  BY <1>9 DEF Cancel, HangsUp
<1>10. ASSUME NEW a \in Actors, WritePushed(a) PROVE Goal
  BY <1>10 DEF SentInv, WritePushed, Rest, Restarts
<1>11. ASSUME NEW a \in Actors, Retries(a) PROVE Goal
  BY <1>11 DEF Retries, Rest, Restarts, Fetched
<1>12. ASSUME NEW a \in Scanners, ScanReads(a) PROVE Goal
  BY <1>12 DEF ScanReads, Fetched
<1>13. ASSUME NEW a \in Scanners, ScanRefuses(a) PROVE Goal
  BY <1>13 DEF ScanRefuses, Rest, Restarts
<1>14. ASSUME NEW a \in Scanners, ScanChecksAgain(a) PROVE Goal
  BY <1>14 DEF ScanChecksAgain, Moves, Gives, Rest, Restarts
<1>15. ASSUME NEW a \in Scanners, ScanFails(a) PROVE Goal
  BY <1>15 DEF ScanFails, Rest, Restarts
<1>16. ASSUME NEW a \in Watchers, WatchReads(a) PROVE Goal
  BY <1>16 DEF WatchReads, Snapshot, Unwatched
<1>17. ASSUME NEW a \in Watchers, WatchLooks(a) PROVE Goal
  BY <1>17 DEF WatchLooks, LooksUp, CancelFor, Rest, Restarts
<1>18. ASSUME NEW a \in Watchers, WatchLooksAgain(a) PROVE Goal
  BY <1>18 DEF WatchLooksAgain, LooksUp, CancelFor, Rest, Restarts
<1>19. ASSUME NEW a \in Watchers, WatchWrites(a) PROVE Goal
  BY <1>19 DEF CancelInv, IsGone, WatchWrites, Rest, Restarts
<1>20. ASSUME NEW a \in Humans, HumanRetries(a) PROVE Goal
  BY <1>20 DEF HumanRetries, Retryable
<1>21. ASSUME NEW a \in Humans, HumanCancels(a) PROVE Goal
  BY <1>21 DEF HumanCancels
<1>22. ASSUME NEW a \in Humans, HumanAsks(a) PROVE Goal
  BY <1>22 DEF HumanAsks
<1>23. ASSUME NEW a \in Humans, HumanWrites(a) PROVE Goal
  BY <1>23 DEF CancelInv, IsGone, HumanWrites, Rest, Restarts
<1>24. ASSUME NEW a \in Syncs, SyncReads(a) PROVE Goal
  BY <1>24 DEF SyncReads, Moves, Polled, Validated
<1>25. ASSUME NEW a \in Syncs, SyncAsks(a) PROVE Goal
  BY <1>25 DEF SyncAsks, Moves, Gives, Rest, Restarts
<1>26. ASSUME NEW a \in Syncs, SyncWrites(a) PROVE Goal
  BY <1>26 DEF CancelInv, IsGone, SyncWrites, Rest, Restarts
<1>27. ASSUME NEW a \in Validators, ValidateReads(a) PROVE Goal
  BY <1>27 DEF ValidateReads, Snapshot, Validated
<1>28. ASSUME NEW a \in Validators, ValidateJudges(a) PROVE Goal
  BY <1>28 DEF SentInv, ValidateJudges, Judge, Rest, Restarts
<1>29. ASSUME NEW a \in Validators, ValidateCreates(a) PROVE Goal
  BY <1>29 DEF ValidateCreates, Rest, Restarts, Validated
<1>30. ASSUME NEW a \in Validators, ValidateRechecks(a) PROVE Goal
  BY <1>30 DEF ValidateRechecks, Moves, Gives, Rest, Restarts
<1>31. ASSUME UNCHANGED vars PROVE Goal
  BY <1>31 DEF vars
<1>32. ASSUME ApprovalAges PROVE Goal
  BY <1>32 DEF ApprovalAges
<1>33. ASSUME RecordAges PROVE Goal
  BY <1>33 DEF RecordAges
<1>34. ASSUME HoldIsPlaced PROVE Goal
  BY <1>34 DEF HoldIsPlaced
<1>35. ASSUME InterceptionCancels PROVE Goal
  BY <1>35 DEF InterceptionCancels
<1> HIDE DEF Goal
<1> QED BY <1>1, <1>2, <1>3, <1>4, <1>5, <1>6, <1>7, <1>8, <1>9, <1>10, <1>11,
     <1>12, <1>13, <1>14, <1>15, <1>16, <1>17, <1>18, <1>19, <1>20, <1>21,
     <1>22, <1>23, <1>24, <1>25, <1>26, <1>27, <1>28, <1>29, <1>30, <1>31, <1>32, <1>33, <1>34,
     <1>35
  DEF Next, Outside, ScanStep, WatchStep, HumanStep, SyncStep, ValidateStep,
      CallStep, Actors, Goal

-----------------------------------------------------------------------------
(* The initial state, and the invariants. *)

LEMMA InitInv ==
  ASSUME Init
  PROVE  TypeOK /\ SentInv /\ CancelInv /\ DeletionInv /\ LifeInv
<1> USE PushRecordAssumption DEF Init
<1>1. TypeOK
  <2>1. NoSnapshot \in Snapshots
    BY DEF NoSnapshot, Snapshots, Statuses, Unwatched
  <2>2. seen \in [Actors -> Snapshots]
    BY <2>1
  <2>3. /\ pc \in [Actors -> Pcs]
        /\ got \in [Actors -> {"none", "ok", "bare", "no"}]
        /\ why \in [Actors -> {"none", "unaudited", "reapproved", "deleted"}]
    BY DEF Pcs
  <2>4. /\ notice \in {"approved", "unaudited", "deleted"} /\ status \in Statuses
        /\ direction \in Directions /\ order \in {"absent", "open", "closed", "cancelled"}
        /\ callback \in {"none", "match", "mismatch"} /\ gate \in Actors \cup {Free}
        /\ placed \in 0..MaxOrders /\ told \in 0..MaxOrders
    BY DEF Statuses, Unwatched
  <2>5. /\ again \in BOOLEAN /\ receipt \in BOOLEAN
        /\ late \in BOOLEAN /\ held \in BOOLEAN /\ old \in BOOLEAN
    BY DEF Init
  <2>6. /\ approvals \in 0..MaxApprovals /\ pushed \in 0..MaxApprovals
        /\ outages \in 0..MaxOutages /\ calls \in 0..MaxCalls
    BY DEF Init
  <2> QED BY <2>2, <2>3, <2>4, <2>5, <2>6 DEF TypeOK
<1>2. SentInv
  BY DEF SentInv, SuccessWasSent, Polled, Validated
<1>3. CancelInv
  BY DEF CancelInv, CancelTellsTruth, Cancelled
<1>4. DeletionInv
  BY DEF DeletionInv, OnlyDeletedIsRecalled
<1>5. LifeInv
  BY DEF LifeInv, Life!CalledBack
<1> QED BY <1>1, <1>2, <1>3, <1>4, <1>5

LEMMA Invariant == Spec => [](TypeOK /\ SentInv)
<1>1. Init => TypeOK /\ SentInv
  BY InitInv
<1>2. TypeOK /\ SentInv /\ [Next]_vars => TypeOK' /\ SentInv'
  BY TypeStep, SentStep
<1> QED BY <1>1, <1>2, PTL DEF Spec

-----------------------------------------------------------------------------
\* Every reachable state has the declared types.
THEOREM PushRecordTypeCorrect == Spec => []TypeOK
BY Invariant, PTL

\* A record in the statuses of a pushed order has had one in the warehouse, for
\* any number of writers, lost answers and outages.
THEOREM SuccessMeansSent == Spec => []SuccessWasSent
<1>1. SentInv => SuccessWasSent
  BY DEF SentInv
<1> QED BY <1>1, Invariant, PTL

\* A record that says cancelled is about a cancelled order, whoever wrote it, in
\* whatever order, and whatever was repushed meanwhile.
THEOREM CancelledMeansCancelled == Spec => []CancelTellsTruth
<1>1. Init => CancelInv
  BY InitInv
<1>2. TypeOK /\ CancelInv /\ [Next]_vars => CancelInv'
  BY CancelStep
<1>3. CancelInv => CancelTellsTruth
  BY DEF CancelInv
<1> QED BY <1>1, <1>2, <1>3, Invariant, PTL DEF Spec

LEMMA LifeInvariant == Spec => [](TypeOK /\ SentInv /\ CancelInv /\ LifeInv)
<1>1. Init => CancelInv /\ LifeInv
  BY InitInv
<1>2. TypeOK /\ CancelInv /\ LifeInv /\ [Next]_vars => CancelInv' /\ LifeInv'
  BY CancelStep, LifeStep
<1> QED BY <1>1, <1>2, Invariant, PTL DEF Spec

\* The record keeps the contract of OrderLife, whoever writes it from whatever it
\* has read, and however often the number is used again.
THEOREM RecordKeepsItsWord == Spec => ImplementsOrderLife
<1>1. Init => Life!Init
  BY DEF Init, Life!Init
<1>2. TypeOK /\ SentInv /\ CancelInv /\ LifeInv /\ [Next]_vars => [Life!Next]_(Life!vars)
  BY LifeSimulation
<1> QED BY <1>1, <1>2, LifeInvariant, PTL DEF Spec, ImplementsOrderLife, Life!Spec

\* Of an order it has once called cancelled, a record never again says that its
\* goods have left: that takes another order under the number. Either end of an
\* order is final, and the record is true to it.
THEOREM CancelledNeverLeaves ==
  ASSUME NEW g \in Nat
  PROVE  Spec => CancelledForGood(g)
<1>1. CancelInv => (status \in Cancelled /\ told = g => IsGone(g))
  BY DEF CancelInv, CancelTellsTruth
<1>2. LifeInv => (IsGone(g) /\ placed = g => status \notin Life!CalledBack)
  BY DEF LifeInv, IsGone
<1>3. TypeOK /\ [Life!Next]_(Life!vars) => (IsGone(g) => IsGone(g)')
  BY PushRecordAssumption
  DEF TypeOK, IsGone, Life!Next, Life!vars, Life!Place, Life!Close, Life!CallOff,
      Life!CallBack, Life!Writes, Life!Fail, Life!Succeed, Life!Alert, Life!Accept,
      Life!Object, Life!Recall, Life!GiveUpRecall, Life!Create
<1>4. TypeOK /\ SentInv /\ CancelInv /\ LifeInv /\ [Next]_vars => (IsGone(g) => IsGone(g)')
  BY <1>3, LifeSimulation
<1> QED
  BY <1>1, <1>2, <1>4, LifeInvariant, PTL DEF CancelledForGood, Spec

\* With one unanswered status query at most, no order is recalled as deleted
\* while its notice stands.
THEOREM DeletionIsCertain ==
  ASSUME MaxOutages <= 1
  PROVE  Spec => []OnlyDeletedIsRecalled
<1>1. Init => DeletionInv
  BY InitInv
<1>2. TypeOK /\ DeletionInv /\ [Next]_vars => DeletionInv'
  BY DeletionStep
<1>3. DeletionInv => OnlyDeletedIsRecalled
  BY DEF DeletionInv
<1> QED BY <1>1, <1>2, <1>3, Invariant, PTL DEF Spec
=============================================================================
