---------------------------- MODULE SFItemsProofs ----------------------------
(***************************************************************************)
(* Proofs about SFItems, for any materials, bills and numbers of writers   *)
(* and scanners, and without a bound on what goes wrong.                   *)
(***************************************************************************)
EXTENDS SFItems, TLAPS

-----------------------------------------------------------------------------
(* The inductive invariant: what a job remembers of the archives is so. *)

\* What push_items is going to record as success is with SF.
PushKnows(j) == push[j].good \subseteq archive

\* The item at hand is one of those still to do; an archive that was accepted
\* is with SF, and so are all those done as long as none has failed.
WorkKnows(j) ==
  LET w == work[j] IN
  /\ w.pc = "synced" => /\ w.todo # {}
                        /\ w.ok => Item(j) \in archive
                        /\ w.complete => w.ok
  /\ w.pc \in {"sync", "synced"} /\ w.complete => LinesOf[w.bill] \ w.todo \subseteq archive

ItemsInv ==
  /\ TypeOK /\ SuccessIsHeld
  /\ \A j \in Pushers : PushKnows(j)
  /\ \A j \in BillJobs : WorkKnows(j)

LEMMA ItemsStart == Init => ItemsInv
<1> SUFFICES ASSUME Init PROVE ItemsInv
  OBVIOUS
<1>1. WorkIdle \in WorkStates /\ PushIdle \in PushStates
  <2>1. (CHOOSE b \in Bills : TRUE) \in Bills
    BY ItemsAssumption
  <2> QED BY <2>1 DEF WorkIdle, WorkStates, PushIdle, PushStates
<1>2. TypeOK
  BY <1>1, ItemsAssumption
  DEF Init, TypeOK, MaterialStates, RecordStatus, BillStatus
<1>3. SuccessIsHeld
  BY DEF Init, SuccessIsHeld
<1>4. PushIdle.good = {} /\ WorkIdle.pc = "idle"
  BY DEF PushIdle, WorkIdle
<1>5. (\A j \in Pushers : PushKnows(j)) /\ (\A j \in BillJobs : WorkKnows(j))
  BY <1>4 DEF Init, PushKnows, WorkKnows
<1> QED BY <1>2, <1>3, <1>5 DEF ItemsInv

-----------------------------------------------------------------------------
(* Frames: steps of one job, and archives that only grow. *)

\* What Successes takes for accepted is accepted, whichever way SF answers.
LEMMA AnswersAreHonest ==
  ASSUME NEW B \in SUBSET Skus, NEW a \in Answers(B)
  PROVE  /\ a.taken \subseteq B
         /\ Successes(B, a) \subseteq a.taken
BY DEF Answers, Successes, Fine

\* A step of a push: the other parts stay, archives are added.
LEMMA PushFrame ==
  ASSUME ItemsInv, NEW j \in Pushers, NEW p \in PushStates,
         push' = [push EXCEPT ![j] = p],
         archive \subseteq archive', archive' \subseteq Skus, p.good \subseteq archive',
         record' \in [Skus -> RecordStatus],
         \A s \in Skus : record'[s] = "success" => s \in archive',
         UNCHANGED <<kingdee, store, bill, work>>, troubles' \in Nat
  PROVE  ItemsInv'
<1>1. TypeOK'
  BY DEF ItemsInv, TypeOK, kingdee
<1>2. push'[j] = p /\ \A k \in Pushers \ {j} : push'[k] = push[k]
  BY DEF ItemsInv, TypeOK
<1>3. \A k \in Pushers : PushKnows(k)'
  BY <1>2 DEF ItemsInv, PushKnows
<1>4. \A k \in BillJobs : WorkKnows(k)'
  BY DEF ItemsInv, WorkKnows, Item
<1> QED BY <1>1, <1>3, <1>4 DEF ItemsInv, SuccessIsHeld

\* A step of the push of a bill, whose own part is left to show.
LEMMA WorkFrame ==
  ASSUME ItemsInv, NEW j \in BillJobs, NEW w \in WorkStates,
         work' = [work EXCEPT ![j] = w], WorkKnows(j)',
         archive \subseteq archive', archive' \subseteq Skus,
         record' \in [Skus -> RecordStatus], bill' \in [Bills -> BillStatus],
         store' \subseteq Bills,
         \A s \in Skus : record'[s] = "success" => s \in archive',
         UNCHANGED <<kingdee, push>>, troubles' \in Nat
  PROVE  ItemsInv'
<1>1. TypeOK'
  BY DEF ItemsInv, TypeOK, kingdee
<1>2. work'[j] = w /\ \A k \in BillJobs \ {j} : work'[k] = work[k]
  BY DEF ItemsInv, TypeOK
<1>3. ASSUME NEW k \in BillJobs, k # j PROVE WorkKnows(k)'
  BY <1>2, <1>3 DEF ItemsInv, WorkKnows, Item
<1>4. \A k \in Pushers : PushKnows(k)'
  BY DEF ItemsInv, PushKnows
<1> QED BY <1>1, <1>3, <1>4 DEF ItemsInv, SuccessIsHeld

-----------------------------------------------------------------------------
(* Kingdee users, push_items and the sync. *)

LEMMA UsersKeep ==
  ASSUME ItemsInv, NEW s \in Skus, UserApproves(s) \/ UserEdits(s)
  PROVE  ItemsInv'
<1>1. UNCHANGED <<sf, rows, locals>>
  BY DEF UserApproves, UserEdits
<1>2. TypeOK'
  <2>1. CASE UserApproves(s)
    BY <2>1 DEF ItemsInv, TypeOK, UserApproves, sf, rows, locals
  <2>2. CASE UserEdits(s)
    BY <2>2, ItemsAssumption DEF ItemsInv, TypeOK, UserEdits, Trouble, sf, rows, locals
  <2> QED BY <2>1, <2>2
<1>3. SuccessIsHeld' /\ (\A j \in Pushers : PushKnows(j)')
  BY <1>1 DEF ItemsInv, SuccessIsHeld, PushKnows, sf, rows, locals
<1>4. \A j \in BillJobs : WorkKnows(j)'
  BY <1>1 DEF ItemsInv, WorkKnows, Item, sf, locals
<1> QED BY <1>2, <1>3, <1>4 DEF ItemsInv

LEMMA AsksKeep ==
  ASSUME ItemsInv, NEW j \in Pushers, NEW S \in SUBSET Skus, Asks(j, S), troubles' \in Nat
  PROVE  ItemsInv'
<1> DEFINE p == [push[j] EXCEPT !.pc = "asked", !.todo = S]
<1>1. push[j] \in PushStates /\ push[j].good \subseteq archive
  BY DEF ItemsInv, TypeOK, PushKnows
<1>2. p \in PushStates /\ p.good = push[j].good
  BY <1>1 DEF PushStates
<1>3. push' = [push EXCEPT ![j] = p] /\ UNCHANGED <<kingdee, sf, rows, work>>
  BY DEF Asks
<1>4. archive' = archive /\ record' = record /\ store' = store /\ bill' = bill
  BY <1>3 DEF sf, rows
<1> HIDE DEF p
<1> QED BY <1>1, <1>2, <1>3, <1>4, PushFrame DEF ItemsInv, TypeOK, SuccessIsHeld

LEMMA ReadsKeep ==
  ASSUME ItemsInv, NEW j \in Pushers, Reads(j)
  PROVE  ItemsInv'
<1> DEFINE codes == Codes(push[j].todo)
           known == {s \in codes : material[s] # "absent"}
           p == [push[j] EXCEPT !.pc = "push", !.todo = known, !.missing = codes \ known,
                                !.invalid = push[j].todo \ codes]
<1>1. push[j] \in PushStates /\ push[j].good \subseteq archive
  BY DEF ItemsInv, TypeOK, PushKnows
<1>2. codes \subseteq Skus /\ known \subseteq Skus /\ push[j].todo \subseteq Skus
  BY <1>1 DEF PushStates, Codes
<1>3. push' = [push EXCEPT ![j] = p] /\ UNCHANGED <<kingdee, sf, rows, work, troubles>>
  BY DEF Reads
<1>4. p \in PushStates /\ p.good = push[j].good
  <2> HIDE DEF codes, known
  <2> QED BY <1>1, <1>2 DEF PushStates
<1>5. archive' = archive /\ record' = record /\ store' = store /\ bill' = bill
  BY <1>3 DEF sf, rows
<1> HIDE DEF p
<1> QED BY <1>1, <1>3, <1>4, <1>5, PushFrame DEF ItemsInv, TypeOK, SuccessIsHeld

LEMMA SendsBatchKeeps ==
  ASSUME ItemsInv, NEW j \in Pushers, SendsBatch(j)
  PROVE  ItemsInv'
<1>0. PICK B \in SUBSET push[j].todo : \E a \in Answers(B) :
        /\ archive' = archive \cup a.taken
        /\ push' = [push EXCEPT ![j] = [@ EXCEPT !.pc = "save", !.batch = B,
                      !.good = Successes(B, a), !.todo = push[j].todo \ B]]
        /\ IF a.fails THEN Trouble ELSE UNCHANGED troubles
  BY DEF SendsBatch
<1>1. PICK a \in Answers(B) :
        /\ archive' = archive \cup a.taken
        /\ push' = [push EXCEPT ![j] = [@ EXCEPT !.pc = "save", !.batch = B,
                      !.good = Successes(B, a), !.todo = push[j].todo \ B]]
        /\ IF a.fails THEN Trouble ELSE UNCHANGED troubles
  BY <1>0
<1> DEFINE good == Successes(B, a)
           rest == push[j].todo \ B
           p == [push[j] EXCEPT !.pc = "save", !.batch = B, !.good = good, !.todo = rest]
<1>2. push[j] \in PushStates
  BY DEF ItemsInv, TypeOK
<1>3. B \subseteq Skus /\ rest \subseteq Skus /\ a.taken \subseteq Skus /\ good \subseteq a.taken
  BY <1>1, <1>2, AnswersAreHonest DEF PushStates
<1>4. push' = [push EXCEPT ![j] = p] /\ UNCHANGED <<kingdee, store, rows, work>>
  BY <1>1 DEF SendsBatch
<1> HIDE DEF good, rest
<1>5. p \in PushStates /\ p.good = good
  BY <1>2, <1>3 DEF PushStates
<1>6. troubles' \in Nat
  BY <1>1, ItemsAssumption DEF ItemsInv, TypeOK, Trouble
<1>7. record' = record /\ bill' = bill
  BY <1>4 DEF rows
<1>8. archive \subseteq archive' /\ archive' \subseteq Skus /\ good \subseteq archive'
  BY <1>1, <1>3 DEF ItemsInv, TypeOK
<1> HIDE DEF p
<1> QED BY <1>4, <1>5, <1>6, <1>7, <1>8, PushFrame DEF ItemsInv, TypeOK, SuccessIsHeld

\* A batch that is recorded, in part or as a whole, by what was answered.
LEMMA RecordsHonestly ==
  ASSUME ItemsInv, NEW j \in Pushers, NEW S \in SUBSET Skus,
         record' = [s \in Skus |-> IF s \in S THEN BatchStatus(j, s) ELSE record[s]]
  PROVE  /\ record' \in [Skus -> RecordStatus]
         /\ \A s \in Skus : record'[s] = "success" => s \in archive
BY DEF ItemsInv, TypeOK, BatchStatus, RecordStatus, SuccessIsHeld, PushKnows

LEMMA SavesBatchKeeps ==
  ASSUME ItemsInv, NEW j \in Pushers, SavesBatch(j)
  PROVE  ItemsInv'
<1> DEFINE p == [push[j] EXCEPT !.pc = "push", !.batch = {}, !.good = {}]
<1>1. push[j] \in PushStates /\ push[j].batch \subseteq Skus
  BY DEF ItemsInv, TypeOK, PushStates
<1>2. p \in PushStates /\ p.good = {}
  BY <1>1 DEF PushStates
<1>3. push' = [push EXCEPT ![j] = p] /\ UNCHANGED <<kingdee, sf, bill, work, troubles>>
  BY DEF SavesBatch
<1>4. /\ record' \in [Skus -> RecordStatus]
      /\ \A s \in Skus : record'[s] = "success" => s \in archive
  BY <1>1, RecordsHonestly DEF SavesBatch
<1>5. archive' = archive /\ store' = store
  BY <1>3 DEF sf
<1> HIDE DEF p
<1> QED BY <1>2, <1>3, <1>4, <1>5, PushFrame DEF ItemsInv, TypeOK

\* The end of a push, regular or not, leaves nothing to remember.
LEMMA PushOverKeeps ==
  ASSUME ItemsInv, NEW j \in Pushers, push' = [push EXCEPT ![j] = PushIdle],
         record' \in [Skus -> RecordStatus],
         \A s \in Skus : record'[s] = "success" => s \in archive,
         UNCHANGED <<kingdee, sf, bill, work>>, troubles' \in Nat
  PROVE  ItemsInv'
<1>1. PushIdle \in PushStates /\ PushIdle.good = {}
  BY DEF PushIdle, PushStates
<1>2. archive' = archive /\ store' = store
  BY DEF sf
<1> QED BY <1>1, <1>2, PushFrame DEF ItemsInv, TypeOK

LEMMA MarksRestKeeps ==
  ASSUME ItemsInv, NEW j \in Pushers, MarksRest(j)
  PROVE  ItemsInv'
<1>1. /\ record' \in [Skus -> RecordStatus]
      /\ \A s \in Skus : record'[s] = "success" => s \in archive
  BY DEF MarksRest, RestStatus, RecordStatus, ItemsInv, TypeOK, SuccessIsHeld
<1> QED BY <1>1, PushOverKeeps DEF MarksRest, ItemsInv, TypeOK

LEMMA PushDiesKeeps ==
  ASSUME ItemsInv, NEW j \in Pushers, PushDies(j)
  PROVE  ItemsInv'
<1>1. PICK S \in SUBSET push[j].batch :
        record' = [s \in Skus |-> IF s \in S THEN BatchStatus(j, s) ELSE record[s]]
  BY DEF PushDies
<1>2. S \subseteq Skus
  BY DEF ItemsInv, TypeOK, PushStates
<1>3. troubles' \in Nat
  BY ItemsAssumption DEF PushDies, Trouble, ItemsInv, TypeOK
<1> QED BY <1>1, <1>2, <1>3, RecordsHonestly, PushOverKeeps DEF PushDies

-----------------------------------------------------------------------------
(* Bills. *)

LEMMA TakesUpKeeps ==
  ASSUME ItemsInv, NEW j \in BillJobs, NEW b \in Bills, TakesUp(j, b),
         UNCHANGED <<Unmoved, sf, rows>>, troubles' \in Nat
  PROVE  ItemsInv'
<1> DEFINE w == [work[j] EXCEPT !.pc = "sync", !.bill = b, !.todo = LinesOf[b],
                                !.complete = TRUE]
<1>1. work[j] \in WorkStates /\ LinesOf[b] \subseteq Skus
  BY ItemsAssumption DEF ItemsInv, TypeOK
<1>2. w \in WorkStates /\ w.pc = "sync" /\ w.bill = b /\ w.todo = LinesOf[b]
  BY <1>1 DEF WorkStates
<1>3. work' = [work EXCEPT ![j] = w]
  BY DEF TakesUp
<1> HIDE DEF w
<1>4. work'[j] = w
  BY <1>3 DEF ItemsInv, TypeOK
<1>5. WorkKnows(j)'
  BY <1>2, <1>4 DEF WorkKnows
<1>6. UNCHANGED <<kingdee, push, archive, store, record, bill>>
  BY DEF Unmoved, sf, rows
<1> QED BY <1>2, <1>3, <1>5, <1>6, WorkFrame DEF ItemsInv, TypeOK, SuccessIsHeld

\* The job is over: nothing is remembered.
LEMMA WorkOverKeeps ==
  ASSUME ItemsInv, NEW j \in BillJobs, work' = [work EXCEPT ![j] = WorkIdle],
         bill' \in [Bills -> BillStatus],
         UNCHANGED <<kingdee, push, archive, store, record>>, troubles' \in Nat
  PROVE  ItemsInv'
<1>1. WorkIdle \in WorkStates /\ WorkIdle.pc = "idle"
  <2>1. (CHOOSE b \in Bills : TRUE) \in Bills
    BY ItemsAssumption
  <2> QED BY <2>1 DEF WorkIdle, WorkStates
<1>2. work'[j] = WorkIdle
  BY DEF ItemsInv, TypeOK
<1>3. WorkKnows(j)'
  BY <1>1, <1>2 DEF WorkKnows
<1> QED BY <1>1, <1>3, WorkFrame DEF ItemsInv, TypeOK, SuccessIsHeld

LEMMA SyncsItemKeeps ==
  ASSUME ItemsInv, NEW j \in BillJobs, SyncsItem(j)
  PROVE  ItemsInv'
<1>1. PICK taken \in BOOLEAN, ok \in BOOLEAN :
        /\ ok => taken
        /\ IF nature[Item(j)] = "fine" /\ ~ok THEN Trouble ELSE UNCHANGED troubles
        /\ archive' = IF taken THEN archive \cup {Item(j)} ELSE archive
        /\ work' = [work EXCEPT ![j] = [@ EXCEPT !.pc = "synced", !.ok = ok,
                                                 !.complete = work[j].complete /\ ok]]
  BY DEF SyncsItem
<1> DEFINE complete == work[j].complete /\ ok
           w == [work[j] EXCEPT !.pc = "synced", !.ok = ok, !.complete = complete]
<1>2. /\ work[j] \in WorkStates /\ work[j].todo # {} /\ work[j].pc = "sync"
      /\ work[j].todo \subseteq Skus /\ WorkKnows(j)
  BY DEF ItemsInv, TypeOK, SyncsItem, WorkStates
<1>3. Item(j) \in work[j].todo
  BY <1>2 DEF Item
<1>4. complete \in BOOLEAN
  BY <1>2 DEF WorkStates
<1>5. work' = [work EXCEPT ![j] = w]
  BY <1>1
<1> HIDE DEF complete
<1>6. w \in WorkStates
  BY <1>2, <1>4 DEF WorkStates
<1>7. /\ w.pc = "synced" /\ w.bill = work[j].bill /\ w.todo = work[j].todo
      /\ w.ok = ok /\ w.complete = complete
  BY <1>2 DEF WorkStates
<1> HIDE DEF w
<1>8. work'[j] = w
  BY <1>5 DEF ItemsInv, TypeOK
<1>9. Item(j)' = Item(j)
  BY <1>7, <1>8 DEF Item
<1>10. archive \subseteq archive' /\ archive' \subseteq Skus /\ (ok => Item(j) \in archive')
  BY <1>1, <1>2, <1>3 DEF ItemsInv, TypeOK
<1>11. complete => work[j].complete /\ ok
  BY DEF complete
<1>12. WorkKnows(j)'
  BY <1>2, <1>7, <1>8, <1>9, <1>10, <1>11 DEF WorkKnows
<1>13. UNCHANGED <<kingdee, push, store, record, bill>> /\ troubles' \in Nat
  BY <1>1, ItemsAssumption DEF SyncsItem, Unmoved, rows, Trouble, ItemsInv, TypeOK
<1> QED BY <1>5, <1>6, <1>10, <1>12, <1>13, WorkFrame DEF ItemsInv, TypeOK, SuccessIsHeld

LEMMA RecordsItemKeeps ==
  ASSUME ItemsInv, NEW j \in BillJobs, RecordsItem(j)
  PROVE  ItemsInv'
<1> DEFINE rest == work[j].todo \ {Item(j)}
           w == [work[j] EXCEPT !.pc = "sync", !.ok = FALSE, !.todo = rest]
<1>1. /\ work[j] \in WorkStates /\ work[j].pc = "synced"
      /\ work[j].todo \subseteq Skus /\ WorkKnows(j)
  BY DEF ItemsInv, TypeOK, RecordsItem, WorkStates
<1>2. Item(j) \in work[j].todo /\ Item(j) \in Skus
  BY <1>1 DEF WorkKnows, Item
<1>3. work' = [work EXCEPT ![j] = w]
  BY DEF RecordsItem
<1>4. rest \subseteq Skus
  BY <1>1
<1>5. work[j].todo \ rest \subseteq {Item(j)}
  OBVIOUS
<1> HIDE DEF rest
<1>6. w \in WorkStates
  BY <1>1, <1>4 DEF WorkStates
<1>7. /\ w.pc = "sync" /\ w.bill = work[j].bill /\ w.todo = rest
      /\ w.complete = work[j].complete
  BY <1>1 DEF WorkStates
<1> HIDE DEF w
<1>8. work'[j] = w
  BY <1>3 DEF ItemsInv, TypeOK
<1>9. UNCHANGED <<kingdee, push, archive, store, bill>> /\ troubles' \in Nat
  BY ItemsAssumption DEF RecordsItem, Unmoved, sf, Trouble, ItemsInv, TypeOK
<1>10. WorkKnows(j)'
  BY <1>1, <1>5, <1>7, <1>8, <1>9 DEF WorkKnows
<1>11. /\ record' \in [Skus -> RecordStatus]
       /\ \A s \in Skus : record'[s] = "success" => s \in archive
  <2>1. record' = record
        \/ record' = [record EXCEPT ![Item(j)] = IF work[j].ok THEN "success" ELSE "failed"]
    BY DEF RecordsItem
  <2> QED BY <1>1, <1>2, <2>1 DEF ItemsInv, TypeOK, RecordStatus, SuccessIsHeld, WorkKnows
<1> QED BY <1>3, <1>6, <1>9, <1>10, <1>11, WorkFrame DEF ItemsInv, TypeOK

LEMMA SendsBillKeeps ==
  ASSUME ItemsInv, NEW j \in BillJobs, SendsBill(j)
  PROVE  ItemsInv'
<1>1. PICK taken \in BOOLEAN, ok \in BOOLEAN :
        /\ IF ok THEN UNCHANGED troubles ELSE Trouble
        /\ store' = IF taken THEN store \cup {work[j].bill} ELSE store
        /\ work' = [work EXCEPT ![j].pc = "pushed", ![j].ok = ok]
  BY DEF SendsBill
<1> DEFINE w == [work[j] EXCEPT !.pc = "pushed", !.ok = ok]
<1>2. work[j] \in WorkStates /\ work[j].bill \in Bills
  BY DEF ItemsInv, TypeOK, WorkStates
<1>3. w \in WorkStates /\ w.pc = "pushed"
  BY <1>2 DEF WorkStates
<1>4. work' = [work EXCEPT ![j] = w]
  BY <1>1 DEF ItemsInv, TypeOK
<1> HIDE DEF w
<1>5. work'[j] = w
  BY <1>4 DEF ItemsInv, TypeOK
<1>6. WorkKnows(j)'
  BY <1>3, <1>5 DEF WorkKnows
<1>7. UNCHANGED <<kingdee, push, archive, record, bill>> /\ troubles' \in Nat
      /\ store' \subseteq Bills
  BY <1>1, <1>2, ItemsAssumption DEF SendsBill, Unmoved, rows, Trouble, ItemsInv, TypeOK
<1> QED BY <1>3, <1>4, <1>6, <1>7, WorkFrame DEF ItemsInv, TypeOK, SuccessIsHeld

LEMMA WorkEndsKeep ==
  ASSUME ItemsInv, NEW j \in BillJobs,
         RecordsBill(j) \/ WorkDies(j) \/ (j = Scanner /\ ScanGivesUp)
  PROVE  ItemsInv'
<1>1. work' = [work EXCEPT ![j] = WorkIdle] /\ troubles' \in Nat
      /\ UNCHANGED <<kingdee, push, archive, store, record>>
  BY ItemsAssumption
  DEF RecordsBill, WorkDies, ScanGivesUp, Unmoved, sf, rows, Trouble, ItemsInv, TypeOK
<1>2. bill' \in [Bills -> BillStatus]
  BY DEF RecordsBill, WorkDies, ScanGivesUp, rows, ItemsInv, TypeOK, BillStatus
<1> QED BY <1>1, <1>2, WorkOverKeeps

-----------------------------------------------------------------------------
LEMMA PushersKeep ==
  ASSUME ItemsInv, NEW j \in Pushers,
         \/ CronSyncs \/ PushStep(j) \/ PushDies(j)
         \/ j \in Users /\ (UserSyncs(j) \/ UserPushes(j))
  PROVE  ItemsInv'
<1>1. Candidates \subseteq Skus /\ Cron \in Pushers
  BY DEF Candidates, Pushers, ItemsInv, TypeOK
<1>2. CASE CronSyncs
  BY <1>1, <1>2, AsksKeep DEF CronSyncs, ItemsInv, TypeOK
<1>3. CASE UserSyncs(j) \/ UserPushes(j)
  <2>1. PICK S \in SUBSET Skus : Asks(j, S) /\ Trouble
    BY <1>1, <1>3 DEF UserSyncs, UserPushes
  <2>2. troubles' \in Nat
    BY <2>1, ItemsAssumption DEF Trouble, ItemsInv, TypeOK
  <2> QED BY <2>1, <2>2, AsksKeep
<1>4. CASE PushStep(j) \/ PushDies(j)
  BY <1>4, ReadsKeep, SendsBatchKeeps, SavesBatchKeeps, MarksRestKeeps, PushDiesKeeps
  DEF PushStep
<1> QED BY <1>2, <1>3, <1>4

LEMMA BillsKeep ==
  ASSUME ItemsInv, NEW j \in BillJobs,
         \/ SyncsItem(j) \/ RecordsItem(j) \/ SendsBill(j) \/ RecordsBill(j) \/ WorkDies(j)
         \/ j = Scanner /\ (ScanGivesUp \/ \E b \in Bills : ScanTakes(b))
         \/ \E b \in Bills : RepushTakes(j, b)
  PROVE  ItemsInv'
<1>1. CASE j = Scanner /\ \E b \in Bills : ScanTakes(b)
  BY <1>1, TakesUpKeeps DEF ScanTakes, ItemsInv, TypeOK
<1>2. CASE \E b \in Bills : RepushTakes(j, b)
  <2>1. PICK b \in Bills : RepushTakes(j, b)
    BY <1>2
  <2>2. troubles' \in Nat
    BY <2>1, ItemsAssumption DEF RepushTakes, Trouble, ItemsInv, TypeOK
  <2> QED BY <2>1, <2>2, TakesUpKeeps DEF RepushTakes
<1> QED
  BY <1>1, <1>2, SyncsItemKeeps, RecordsItemKeeps, SendsBillKeeps, WorkEndsKeep

LEMMA ItemsStepKeeps == ASSUME ItemsInv, Next PROVE ItemsInv'
<1>1. Cron \in Pushers /\ Users \subseteq Pushers
      /\ Scanner \in BillJobs /\ Repushers \subseteq BillJobs
  BY DEF Pushers, BillJobs
<1>2. CASE \E s \in Skus : UserApproves(s) \/ UserEdits(s)
  BY <1>2, UsersKeep
<1>3. CASE CronSyncs \/ (\E j \in Users : UserSyncs(j) \/ UserPushes(j))
           \/ (\E j \in Pushers : PushStep(j) \/ PushDies(j))
  BY <1>1, <1>3, PushersKeep
<1>4. CASE (\E b \in Bills : ScanTakes(b)) \/ ScanStep \/ WorkDies(Scanner)
  BY <1>1, <1>4, BillsKeep DEF ScanStep, ScanSends
<1>5. CASE \E j \in Repushers : RepushStep(j) \/ WorkDies(j) \/ \E b \in Bills : RepushTakes(j, b)
  BY <1>1, <1>5, BillsKeep DEF RepushStep, RepushSends
<1> QED BY <1>2, <1>3, <1>4, <1>5 DEF Next

LEMMA ItemsInvariant == Spec => []ItemsInv
<1>1. ASSUME ItemsInv, UNCHANGED vars PROVE ItemsInv'
  <2>1. UNCHANGED <<nature, approved, material, archive, store, record, bill, push, work, troubles>>
    BY <1>1 DEF vars, kingdee, sf, rows, locals
  <2>2. TypeOK' /\ SuccessIsHeld'
    BY <1>1, <2>1 DEF ItemsInv, TypeOK, SuccessIsHeld
  <2>3. \A j \in BillJobs : WorkKnows(j)'
    BY <1>1, <2>1 DEF ItemsInv, WorkKnows, Item
  <2> QED BY <1>1, <2>1, <2>2, <2>3 DEF ItemsInv, PushKnows
<1> QED BY ItemsStart, ItemsStepKeeps, <1>1, PTL DEF Spec

\* Every variable keeps its type; records and bills know their states.
THEOREM ItemsTypeCorrect == Spec => []TypeOK
<1>1. ItemsInv => TypeOK
  BY DEF ItemsInv
<1> QED BY <1>1, ItemsInvariant, PTL

\* A material recorded as success, and so never sent again, has its archive.
THEOREM SuccessMeansArchive == Spec => []SuccessIsHeld
<1>1. ItemsInv => SuccessIsHeld
  BY DEF ItemsInv
<1> QED BY <1>1, ItemsInvariant, PTL

\* The scan sends no bill SF could not book in for want of an archive.
THEOREM ScanNeedsArchives == Spec => ScanSendsWithArchives
<1>1. ASSUME ItemsInv, Next, NEW b \in store' \ store, work[Scanner] # work'[Scanner]
      PROVE  LinesOf[b] \subseteq archive
  <2>0. store' # store
    BY <1>1
  <2>1. PICK j \in BillJobs : SendsBill(j) /\ (j = Scanner => work[Scanner].complete)
    <3>1. ~(\E s \in Skus : UserApproves(s) \/ UserEdits(s))
      BY <2>0 DEF UserApproves, UserEdits, sf
    <3>2. ~CronSyncs /\ ~(\E j \in Users : UserSyncs(j) \/ UserPushes(j))
      BY <2>0 DEF CronSyncs, UserSyncs, UserPushes, Asks, sf
    <3>3. ~(\E j \in Pushers : PushStep(j) \/ PushDies(j))
      BY <2>0 DEF PushStep, Reads, SendsBatch, SavesBatch, MarksRest, PushDies, sf
    <3>4. ~(\E k \in Bills : ScanTakes(k)) /\ ~ScanGivesUp
      BY <2>0 DEF ScanTakes, ScanGivesUp, sf
    <3>5. \A j \in BillJobs : ~SyncsItem(j) /\ ~RecordsItem(j) /\ ~RecordsBill(j) /\ ~WorkDies(j)
      BY <2>0 DEF SyncsItem, RecordsItem, RecordsBill, WorkDies, sf
    <3>6. ~(\E j \in Repushers : \E k \in Bills : RepushTakes(j, k))
      BY <2>0 DEF RepushTakes, sf
    <3> QED
      BY <1>1, <3>1, <3>2, <3>3, <3>4, <3>5, <3>6, ItemsAssumption
      DEF Next, ScanStep, ScanSends, RepushStep, RepushSends, BillJobs
  <2>2. j = Scanner
    BY <1>1, <2>1 DEF SendsBill, BillJobs, ItemsInv, TypeOK
  <2>3. b = work[Scanner].bill
    BY <1>1, <2>1, <2>2 DEF SendsBill
  <2>4. WorkKnows(Scanner)
    BY <1>1 DEF ItemsInv, BillJobs
  <2> QED BY <2>1, <2>2, <2>3, <2>4 DEF SendsBill, WorkKnows
<1>2. ItemsInv /\ [Next]_vars
        => [\A b \in store' \ store :
              work[Scanner] # work'[Scanner] => LinesOf[b] \subseteq archive]_vars
  BY <1>1
<1> QED BY <1>2, ItemsInvariant, PTL DEF Spec, ScanSendsWithArchives
=============================================================================
