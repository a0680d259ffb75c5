------------------------------- MODULE SFItems -------------------------------
(***************************************************************************)
(* Item archives: SF books goods in or out of a bill only if it has an     *)
(* archive of every material on it. Three paths write archives and their   *)
(* records in ads_sf_item_push_record, without a lock between them:        *)
(*                                                                         *)
(*   sf_item_push.py   push_items, sync_first_camp_approved_to_sf  Pushers *)
(*   sf_automation.py  scan_and_push(_outbound): _sf_sync_item per         *)
(*                     material, then the bill                     Scanner *)
(*                     retry_single_push                         Repushers *)
(*                                                                         *)
(* An archive SF has once taken stays with SF. The bills are approved and  *)
(* unchanged throughout; SFPushRecord is about their other fates.          *)
(***************************************************************************)
EXTENDS Naturals, FiniteSets

CONSTANTS
  Skus, Bills,
  LinesOf,      \* [Bills -> materials on the bill]
  Doubtful,     \* bound: new materials; the others are approved and SF accepts them
  Cron,         \* the hourly execution of sync_first_camp_approved_to_sf
  Users,        \* executions of push_items and of that sync for the dashboard
  Scanner,      \* the scan job: auto_push runs one at a time
  Repushers,    \* executions of retry_single_push for the dashboard
  BatchSize,    \* materials per ITEM_SERVICE request
  MaxTroubles   \* bound: changes to materials, calls from the dashboard, and
                \* requests, writes and jobs that fail for no lasting reason

Pushers == Users \cup {Cron}
BillJobs == Repushers \cup {Scanner}

ASSUME ItemsAssumption ==
  /\ Bills # {} /\ IsFiniteSet(Skus) /\ Doubtful \subseteq Skus
  /\ LinesOf \in [Bills -> SUBSET Skus]
  /\ Cron \notin Users /\ Scanner \notin Repushers /\ Pushers \cap BillJobs = {}
  /\ BatchSize \in Nat \ {0} /\ MaxTroubles \in Nat

VARIABLES
  nature,    \* [sku -> what SF makes of its archive]
  approved,  \* materials whose first-camp check is approved
  material,  \* [sku -> state of BD_MATERIAL]
  archive,   \* materials SF has an archive of
  record,    \* [sku -> status in ads_sf_item_push_record]
  bill,      \* [bill -> status in ads_sf_push_record]
  store,     \* bills the warehouse has taken
  push,      \* [Pushers -> locals of push_items]
  work,      \* [BillJobs -> locals of the push of a bill]
  troubles   \* the bound's counter

kingdee == <<nature, approved, material>>
sf == <<archive, store>>
rows == <<record, bill>>
locals == <<push, work>>
vars == <<kingdee, sf, rows, locals, troubles>>

-----------------------------------------------------------------------------
\* "refused": SF turns the archive down for its content; "cjk": a code with
\* Chinese or full-width characters, which push_items does not even send.
Natures == {"fine", "refused", "cjk"}
MaterialStates == {"absent", "draft", "audited"}
RecordStatus == {"none", "success", "failed", "missing_in_kingdee", "invalid_code"}
BillStatus == {"none", "success", "failed"}

Codes(S) == {s \in S : nature[s] # "cjk"}
Fine(S) == {s \in S : nature[s] = "fine"}

PushStates ==
  [pc : {"idle", "asked", "push", "save"},
   todo : SUBSET Skus, batch : SUBSET Skus, good : SUBSET Skus,
   missing : SUBSET Skus, invalid : SUBSET Skus]
PushIdle == [pc |-> "idle", todo |-> {}, batch |-> {}, good |-> {},
             missing |-> {}, invalid |-> {}]

WorkStates ==
  [pc : {"idle", "sync", "synced", "pushed"}, bill : Bills,
   todo : SUBSET Skus, ok : BOOLEAN, complete : BOOLEAN]
WorkIdle == [pc |-> "idle", bill |-> CHOOSE b \in Bills : TRUE, todo |-> {},
             ok |-> FALSE, complete |-> FALSE]

Init ==
  /\ nature \in [Skus -> Natures] /\ \A s \in Skus \ Doubtful : nature[s] = "fine"
  /\ approved = Skus \ Doubtful
  /\ material = [s \in Skus |-> "audited"]
  /\ archive = {} /\ store = {}
  /\ record = [s \in Skus |-> "none"]
  /\ bill = [b \in Bills |-> "none"]
  /\ push = [j \in Pushers |-> PushIdle]
  /\ work = [j \in BillJobs |-> WorkIdle]
  /\ troubles = 0

Trouble == troubles < MaxTroubles /\ troubles' = troubles + 1

-----------------------------------------------------------------------------
(* Kingdee users. *)

UserApproves(s) ==
  /\ s \notin approved
  /\ approved' = approved \cup {s}
  /\ UNCHANGED <<nature, material, sf, rows, locals, troubles>>

UserEdits(s) ==
  /\ Trouble
  /\ \E m \in MaterialStates \ {material[s]} : material' = [material EXCEPT ![s] = m]
  /\ UNCHANGED <<nature, approved, sf, rows, locals>>

-----------------------------------------------------------------------------
(* push_items and sync_first_camp_approved_to_sf. *)

\* Materials of approved first-camp checks without a successful record; the
\* last of the three reads keeps the audited ones.
Candidates == {s \in approved : record[s] # "success" /\ material[s] = "audited"}

Asks(j, S) ==
  /\ push[j].pc = "idle" /\ S # {}
  /\ push' = [push EXCEPT ![j].pc = "asked", ![j].todo = S]
  /\ UNCHANGED <<kingdee, sf, rows, work>>

CronSyncs == Asks(Cron, Candidates) /\ UNCHANGED troubles

\* max_push keeps the head of the list.
UserSyncs(j) == \E S \in SUBSET Candidates : Asks(j, S) /\ Trouble
UserPushes(j) == \E S \in SUBSET Skus : Asks(j, S) /\ Trouble

\* Materials are read again, drafts included; nothing asks for their state.
Reads(j) ==
  LET codes == Codes(push[j].todo)
      known == {s \in codes : material[s] # "absent"} IN
  /\ push[j].pc = "asked"
  /\ push' = [push EXCEPT ![j] = [@ EXCEPT !.pc = "push", !.todo = known,
                !.missing = codes \ known, !.invalid = push[j].todo \ codes]]
  /\ UNCHANGED <<kingdee, sf, rows, work, troubles>>

\* What SF answers to a batch: Head is OK or PART with a result per item, or OK
\* alone; or the request fails, with any part of it done.
Answers(B) ==
  {[taken |-> Fine(B), listed |-> B, head |-> Fine(B) = B, fails |-> FALSE]}
  \cup {[taken |-> B, listed |-> {}, head |-> TRUE, fails |-> FALSE] : x \in {Fine(B)} \cap {B}}
  \cup {[taken |-> T, listed |-> {}, head |-> FALSE, fails |-> TRUE] : T \in SUBSET Fine(B)}

\* Mutant: the head of the answer decides about the whole batch.
HeadDecides(B, a) == IF a.head THEN B ELSE {}

\* Mutant: what the answer does not name is taken for done.
Unrefused(B, a) == (a.listed \cap a.taken) \cup (B \ a.listed)

\* The item's own result; the head only for items the answer does not name.
Successes(B, a) == (a.listed \cap a.taken) \cup (IF a.head THEN B \ a.listed ELSE {})

SendsBatch(j) ==
  /\ push[j].pc = "push" /\ push[j].todo # {}
  /\ \E B \in SUBSET push[j].todo :
       /\ B # {} /\ Cardinality(B) <= BatchSize
       /\ Cardinality(B) < BatchSize => B = push[j].todo
       /\ \E a \in Answers(B) :
            /\ archive' = archive \cup a.taken
            /\ push' = [push EXCEPT ![j] = [@ EXCEPT !.pc = "save", !.batch = B,
                          !.good = Successes(B, a), !.todo = push[j].todo \ B]]
            /\ IF a.fails THEN Trouble ELSE UNCHANGED troubles
  /\ UNCHANGED <<kingdee, store, rows, work>>

BatchStatus(j, s) == IF s \in push[j].good THEN "success" ELSE "failed"

SavesBatch(j) ==
  /\ push[j].pc = "save"
  /\ record' = [s \in Skus |-> IF s \in push[j].batch THEN BatchStatus(j, s) ELSE record[s]]
  /\ push' = [push EXCEPT ![j] = [@ EXCEPT !.pc = "push", !.batch = {}, !.good = {}]]
  /\ UNCHANGED <<kingdee, sf, bill, work, troubles>>

\* What is recorded of a material nothing was sent for.
RestStatus(j, s) == IF s \in push[j].invalid THEN "invalid_code" ELSE "missing_in_kingdee"

\* Last come the materials nothing was sent for.
MarksRest(j) ==
  /\ push[j].pc = "push" /\ push[j].todo = {}
  /\ record' = [s \in Skus |-> IF s \in push[j].missing \cup push[j].invalid
                               THEN RestStatus(j, s) ELSE record[s]]
  /\ push' = [push EXCEPT ![j] = PushIdle]
  /\ UNCHANGED <<kingdee, sf, bill, work, troubles>>

\* A failed login, query or write, or a kill, ends the call; rows are committed
\* one by one, so those written before it stay.
PushDies(j) ==
  /\ push[j].pc # "idle" /\ Trouble
  /\ \E S \in SUBSET push[j].batch :
       record' = [s \in Skus |-> IF s \in S THEN BatchStatus(j, s) ELSE record[s]]
  /\ push' = [push EXCEPT ![j] = PushIdle]
  /\ UNCHANGED <<kingdee, sf, bill, work>>

PushStep(j) ==
  Reads(j) \/ SendsBatch(j) \/ SavesBatch(j) \/ MarksRest(j)

-----------------------------------------------------------------------------
(* A bill with its materials: the scan, and a repush by hand. *)

Unmoved == <<kingdee, push>>

\* Mutant: a failed bill counts as dealt with.
PendingUnseen == {b \in Bills : bill[b] = "none"}

Pending == {b \in Bills : bill[b] # "success"}

TakesUp(j, b) ==
  work' = [work EXCEPT ![j] = [@ EXCEPT !.pc = "sync", !.bill = b,
                                        !.todo = LinesOf[b], !.complete = TRUE]]

\* The line at hand.
Item(j) == CHOOSE s \in work[j].todo : TRUE

\* One visit of the scan to one bill; the row is not read again afterwards.
ScanTakes(b) ==
  /\ work[Scanner].pc = "idle" /\ b \in Pending
  /\ TakesUp(Scanner, b)
  /\ UNCHANGED <<Unmoved, sf, rows, troubles>>

\* A failed bill may be pushed again whenever a user asks for it.
RepushTakes(j, b) ==
  /\ work[j].pc = "idle" /\ bill[b] = "failed" /\ Trouble
  /\ TakesUp(j, b)
  /\ UNCHANGED <<Unmoved, sf, rows>>

\* _sf_sync_item sends one material as the bill names it, whatever its code is;
\* a lost connection raises (WorkDies), an unreadable answer is a failure.
SyncsItem(j) ==
  /\ work[j].pc = "sync" /\ work[j].todo # {}
  /\ \E taken, ok \in BOOLEAN :
       /\ ok => taken
       /\ taken => nature[Item(j)] = "fine"
       /\ IF nature[Item(j)] = "fine" /\ ~ok THEN Trouble ELSE UNCHANGED troubles
       /\ archive' = IF taken THEN archive \cup {Item(j)} ELSE archive
       /\ work' = [work EXCEPT ![j] = [@ EXCEPT !.pc = "synced", !.ok = ok,
                                                !.complete = work[j].complete /\ ok]]
  /\ UNCHANGED <<Unmoved, store, rows>>

\* A failure of this write is swallowed; the result is returned all the same.
RecordsItem(j) ==
  /\ work[j].pc = "synced"
  /\ \/ /\ record' = [record EXCEPT ![Item(j)] = IF work[j].ok THEN "success" ELSE "failed"]
        /\ UNCHANGED troubles
     \/ Trouble /\ UNCHANGED record
  /\ work' = [work EXCEPT ![j] = [@ EXCEPT !.pc = "sync", !.ok = FALSE,
                                           !.todo = work[j].todo \ {Item(j)}]]
  /\ UNCHANGED <<Unmoved, sf, bill>>

\* The bill is marked failed, and not sent, if one of its archives failed.
ScanGivesUp ==
  /\ work[Scanner].pc = "sync" /\ work[Scanner].todo = {} /\ ~work[Scanner].complete
  /\ bill' = [bill EXCEPT ![work[Scanner].bill] = "failed"]
  /\ work' = [work EXCEPT ![Scanner] = WorkIdle]
  /\ UNCHANGED <<Unmoved, sf, record, troubles>>

\* SF takes the bill, or has it already, or the answer is unreadable.
SendsBill(j) ==
  /\ work[j].pc = "sync" /\ work[j].todo = {}
  /\ \E taken, ok \in BOOLEAN :
       /\ ok => taken
       /\ IF ok THEN UNCHANGED troubles ELSE Trouble
       /\ store' = IF taken THEN store \cup {work[j].bill} ELSE store
       /\ work' = [work EXCEPT ![j].pc = "pushed", ![j].ok = ok]
  /\ UNCHANGED <<Unmoved, archive, rows>>

\* Mutant: the scan sends the bill whatever became of its archives.
ScanSendsAnyway == SendsBill(Scanner)

ScanSends == work[Scanner].complete /\ SendsBill(Scanner)

\* retry_single_push does not look at what _sf_sync_item returns.
RepushSends(j) == SendsBill(j)

RecordsBill(j) ==
  /\ work[j].pc = "pushed"
  /\ bill' = [bill EXCEPT ![work[j].bill] = IF work[j].ok THEN "success" ELSE "failed"]
  /\ work' = [work EXCEPT ![j] = WorkIdle]
  /\ UNCHANGED <<Unmoved, sf, record, troubles>>

\* A lost connection, a failed write or a kill ends the whole job.
WorkDies(j) ==
  /\ work[j].pc # "idle" /\ Trouble
  /\ work' = [work EXCEPT ![j] = WorkIdle]
  /\ UNCHANGED <<Unmoved, sf, rows>>

ScanStep ==
  \/ SyncsItem(Scanner) \/ RecordsItem(Scanner)
  \/ ScanGivesUp \/ ScanSends \/ RecordsBill(Scanner)

RepushStep(j) == SyncsItem(j) \/ RecordsItem(j) \/ RepushSends(j) \/ RecordsBill(j)

-----------------------------------------------------------------------------
Next ==
  \/ \E s \in Skus : UserApproves(s) \/ UserEdits(s)
  \/ CronSyncs
  \/ \E j \in Users : UserSyncs(j) \/ UserPushes(j)
  \/ \E j \in Pushers : PushStep(j) \/ PushDies(j)
  \/ (\E b \in Bills : ScanTakes(b)) \/ ScanStep \/ WorkDies(Scanner)
  \/ \E j \in Repushers : RepushStep(j) \/ WorkDies(j) \/ \E b \in Bills : RepushTakes(j, b)

Spec == Init /\ [][Next]_vars

\* The scheduler starts the sync each hour and the scan every five minutes,
\* every remote call ends (timeouts of 30 s), and a scan visits every pending
\* bill. Nothing is asked of the people at the dashboard.
Fairness ==
  /\ WF_vars(CronSyncs) /\ WF_vars(PushStep(Cron))
  /\ \A b \in Bills : SF_vars(ScanTakes(b))
  /\ WF_vars(ScanStep)

FairSpec == Spec /\ Fairness

-----------------------------------------------------------------------------
TypeOK ==
  /\ nature \in [Skus -> Natures]
  /\ approved \in SUBSET Skus
  /\ material \in [Skus -> MaterialStates]
  /\ archive \in SUBSET Skus /\ store \in SUBSET Bills
  /\ record \in [Skus -> RecordStatus]
  /\ bill \in [Bills -> BillStatus]
  /\ push \in [Pushers -> PushStates]
  /\ work \in [BillJobs -> WorkStates]
  /\ troubles \in Nat

\* A material recorded as success, which no sync will ever send again, is one
\* SF has an archive of, whatever requests failed and writers met.
SuccessIsHeld == \A s \in Skus : record[s] = "success" => s \in archive

\* The scan sends a bill only when SF has an archive of each of its materials
\* (comment in scan_and_push: a bill without them cannot be booked in).
ScanSendsWithArchives ==
  [][\A b \in store' \ store :
       work[Scanner] # work'[Scanner] => LinesOf[b] \subseteq archive]_vars

\* The same of every bill in the warehouse, however it came there.
BillsHaveArchives == \A b \in store : LinesOf[b] \subseteq archive

\* A material that is approved, audited and acceptable to SF is recorded as
\* success in the end, whatever else shares a batch with it.
ApprovedIsArchived ==
  \A s \in Skus :
    s \in approved /\ material[s] = "audited" /\ nature[s] = "fine"
      ~> record[s] = "success" \/ material[s] # "audited"

\* A bill whose materials SF accepts reaches the warehouse in the end, after
\* failures of its archives and of its own push.
BillGetsThrough == \A b \in Bills : (\A s \in LinesOf[b] : nature[s] = "fine") ~> b \in store
=============================================================================
