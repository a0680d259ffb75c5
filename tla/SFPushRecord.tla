----------------------------- MODULE SFPushRecord -----------------------------
(***************************************************************************)
(* One row of ads_sf_push_record on the way from the approved Kingdee      *)
(* notice to an order in the SF warehouse, and back when the notice is     *)
(* unaudited, deleted or audited again, with those who write its status on *)
(* that way. What is written about an outstock document (the failing       *)
(* creator, recheck, mark_resolved, the delayed audit) is in SFOutstock.   *)
(*                                                                         *)
(*   sf_automation.py  scan_and_push, scan_and_push_outbound   scanners    *)
(*                     scan_unaudit_and_cancel                 watchers    *)
(*                     validate_callbacks, the head of                     *)
(*                     validate_outbound_callbacks             validators  *)
(*                     retry_single_push               humans and watchers *)
(*   sf_dashboard.py   retry_record, cancel_record             humans      *)
(*                     sync_wms_status_batch                   syncs       *)
(*                                                                         *)
(* They share no lock: each reads the row, awaits Kingdee or SF, and then  *)
(* writes the row by its key. Only the calls to SF about one outbound      *)
(* order exclude each other (the gate of sf_interception_guard.py), and a  *)
(* call that finds the gate taken, or the bill on hold, is refused, not    *)
(* queued. SF may take the number of a cancelled order again: the repush   *)
(* after a re-audit and the rescan of recalled bills count on it.          *)
(***************************************************************************)
EXTENDS Naturals, FiniteSets

CONSTANTS
  Scanners, Watchers, Validators, Syncs, Humans,
  Free,           \* the gate when no call is in progress
  Directions,     \* directions a record may have
  AnswersGetLost, \* whether SF may act and its answer be unreadable or lost
  TimePasses,     \* whether approvals and records grow out of the days looked back
  KeepsHistory,   \* whether the approvals that orders come from are remembered
  MaxApprovals,   \* bound: approvals of the notice
  MaxOrders,      \* bound: orders the warehouse takes under the number
  MaxOutages,     \* bound: status queries Kingdee leaves without an answer
  MaxCalls        \* bound: calls from the dashboard

Actors == Scanners \cup Watchers \cup Validators \cup Syncs \cup Humans

ASSUME PushRecordAssumption ==
  /\ Free \notin Actors
  /\ Watchers \cap Scanners = {} /\ Humans \cap (Scanners \cup Watchers) = {}
  /\ Validators \cap (Scanners \cup Watchers \cup Humans) = {}
  /\ Syncs \cap (Scanners \cup Watchers \cup Humans \cup Validators) = {}
  /\ Directions \subseteq {"outbound", "inbound"}
  /\ {AnswersGetLost, TimePasses, KeepsHistory} \subseteq BOOLEAN
  /\ MaxApprovals \in Nat \ {0} /\ MaxOrders \in Nat \ {0}
  /\ MaxOutages \in Nat /\ MaxCalls \in Nat

VARIABLES
  notice,    \* the document in Kingdee
  approvals, \* how often it has been approved
  again,     \* FApproveDate is later than the record's created_at
  direction, \* where its goods go
  late,      \* approved before the date the scans start from
  held,      \* sf_api_hold has the bill
  old,       \* the record is older than the 14 days watcher and poll look back
  status,    \* status of the record, "none" without a row
  receipt,   \* sf_receipt_id is not empty
  told,      \* history: the order that the record calls cancelled, 0 if it does not
  order,     \* the order in the warehouse
  placed,    \* how many the warehouse has taken, the one in it the last
  callback,  \* the latest callback against the pushed quantity
  gate,      \* whose call to SF about this order is in progress
  pc,        \* program counter of every actor
  seen,      \* status and receipt each actor acts upon
  got,       \* what it made of SF's answer
  why,       \* what a watcher cancels for
  outages, calls, \* bounds' counters
  pushed     \* history: the approval the order in the warehouse comes from

doc == <<notice, approvals, again, direction, late, held, old>>
row == <<status, receipt, told>>
wms == <<order, placed, callback>>
locals == <<pc, seen, got, why>>
counters == <<outages, calls, pushed>>
vars == <<doc, row, wms, gate, locals, counters>>

-----------------------------------------------------------------------------
\* Mutant: a recalled bill is taken for a handled one.
RescannedFailed == {"failed"}

Rescanned == {"failed", "cancelled_by_unaudit", "unaudit_cancel_failed"}
Terminal == {"outstock_created", "cancelled", "cancelled_by_unaudit",
             "cancelled_by_deletion", "unaudit_cancel_failed", "failed"}
\* The watcher joins both directions' extra statuses into one filter.
Unwatched == Terminal \cup {"callback_ok", "none"}
Retryable == {"failed", "timeout_alert", "callback_mismatch", "cancelled",
              "cancelled_by_unaudit"}
Validated == {"success", "callback_ok", "callback_mismatch", "timeout_alert"}
Polled == Validated \cup {"outstock_created"}
Statuses == Terminal \cup Unwatched \cup Validated

\* approval tells from which approval on a pusher's lines may be, and gone which
\* order SF has told an actor is cancelled.
Snapshots == [status : Statuses, receipt : BOOLEAN,
              approval : 0..MaxApprovals, gone : 0..MaxOrders]
NoSnapshot == [status |-> "none", receipt |-> FALSE, approval |-> 0, gone |-> 0]
Snapshot == [NoSnapshot EXCEPT !.status = status, !.receipt = receipt]
Fetched == [NoSnapshot EXCEPT !.approval = IF KeepsHistory THEN approvals ELSE 0]

Outbound == direction = "outbound"

Calling == {"pushing", "cancelling"}
Pcs == Calling \cup {"idle", "fetched", "push", "pushed", "look", "lookAgain",
                     "retry", "ask", "cancel", "cancelled", "judge", "create",
                     "creating", "mark"}

Init ==
  /\ notice = "approved" /\ approvals = 1 /\ again = FALSE
  /\ direction \in Directions
  /\ late = FALSE /\ held = FALSE /\ old = FALSE
  /\ status = "none" /\ receipt = FALSE /\ told = 0
  /\ order = "absent" /\ placed = 0 /\ callback = "none"
  /\ gate = Free
  /\ pc = [a \in Actors |-> "idle"]
  /\ seen = [a \in Actors |-> NoSnapshot]
  /\ got = [a \in Actors |-> "none"]
  /\ why = [a \in Actors |-> "none"]
  /\ outages = 0 /\ calls = 0 /\ pushed = 0

Goto(a, p) == pc' = [pc EXCEPT ![a] = p]

\* Goes on with nothing in hand.
Restarts(a, p) ==
  /\ Goto(a, p)
  /\ seen' = [seen EXCEPT ![a] = NoSnapshot]
  /\ got' = [got EXCEPT ![a] = "none"]
  /\ why' = [why EXCEPT ![a] = "none"]
Rest(a) == Restarts(a, "idle")

\* A step of an actor's control flow that writes nothing.
Moves(a, p) ==
  /\ Goto(a, p)
  /\ UNCHANGED <<doc, row, wms, gate, seen, got, why, counters>>
Gives(a) ==
  /\ Rest(a)
  /\ UNCHANGED <<doc, row, wms, gate, counters>>

\* The UPDATEs: one that calls an order cancelled, one that says something else,
\* and none.
Marks(a, s) == status' = s /\ told' = seen[a].gone
Says(s) == status' = s /\ told' = 0
SaysNothing == UNCHANGED <<status, told>>

\* What a status query tells of the notice; "unknown" stands for both no such
\* document and no answer, which _query_kingdee_doc_status does not tell apart.
LooksUp(answer) ==
  \/ /\ answer = IF notice = "deleted" THEN "unknown" ELSE notice
     /\ UNCHANGED outages
  \/ /\ answer = "unknown"
     /\ outages < MaxOutages
     /\ outages' = outages + 1

-----------------------------------------------------------------------------
(* Kingdee users, the clock, the interception and the warehouse. *)

UserUnaudits ==
  /\ notice = "approved"
  /\ notice' = "unaudited"
  /\ UNCHANGED <<approvals, again, direction, late, held, old, row, wms, gate, locals, counters>>

\* Sixty seconds after the record's creation count as later.
UserApproves ==
  /\ notice = "unaudited" /\ approvals < MaxApprovals
  /\ notice' = "approved"
  /\ approvals' = approvals + 1
  /\ again' = (status # "none")
  /\ late' = FALSE
  /\ UNCHANGED <<direction, held, old, row, wms, gate, locals, counters>>

UserDeletes ==
  /\ notice = "unaudited"
  /\ notice' = "deleted"
  /\ UNCHANGED <<approvals, again, direction, late, held, old, row, wms, gate, locals, counters>>

\* Seven days without a fixed start date, measured from the last approval.
ApprovalAges ==
  /\ TimePasses /\ notice = "approved" /\ ~late
  /\ late' = TRUE
  /\ UNCHANGED <<notice, approvals, again, direction, held, old, row, wms, gate, locals, counters>>

\* Measured from created_at, which no push or repush moves.
RecordAges ==
  /\ TimePasses /\ status # "none" /\ ~old
  /\ old' = TRUE
  /\ UNCHANGED <<notice, approvals, again, direction, late, held, row, wms, gate, locals, counters>>

\* SFInterception: a hold is never taken away, and the worker that set out
\* with one writes nothing into the record.
HoldIsPlaced ==
  /\ Outbound /\ ~held
  /\ held' = TRUE
  /\ UNCHANGED <<notice, approvals, again, direction, late, old, row, wms, gate, locals, counters>>

InterceptionCancels ==
  /\ held /\ order = "open"
  /\ order' = "cancelled"
  /\ UNCHANGED <<doc, row, placed, callback, gate, locals, counters>>

\* Packed or received: from here on the warehouse refuses to cancel.
WarehouseCloses ==
  /\ order = "open"
  /\ order' = "closed"
  /\ UNCHANGED <<doc, row, placed, callback, gate, locals, counters>>

\* The callback logged last counts, a repeated or corrected one as well.
CallbackArrives ==
  /\ order = "closed"
  /\ callback' \in {"match", "mismatch"} \ {callback}
  /\ UNCHANGED <<doc, row, order, placed, gate, locals, counters>>

-----------------------------------------------------------------------------
(* A call to SF: the gate, the warehouse, the answer. *)

\* outbound_gate refuses a call while another one is in progress and whenever
\* the bill is on hold; the inbound services have no gate. That the worker or
\* the creator of SFOutstock has the lock looks like an answer "no" here.
Calls(a) ==
  /\ pc[a] \in {"push", "cancel"}
  /\ IF Outbound /\ (gate # Free \/ held)
     THEN /\ got' = [got EXCEPT ![a] = "no"]
          /\ Goto(a, IF pc[a] = "push" THEN "pushed" ELSE "cancelled")
          /\ UNCHANGED gate
     ELSE /\ gate' = IF Outbound THEN a ELSE gate
          /\ Goto(a, IF pc[a] = "push" THEN "pushing" ELSE "cancelling")
          /\ UNCHANGED got
  /\ UNCHANGED <<doc, row, wms, seen, why, counters>>

Takes == order \in {"absent", "cancelled"} /\ placed < MaxOrders
Placed(a) == order' = "open" /\ placed' = placed + 1 /\ pushed' = seen[a].approval
NotPlaced == UNCHANGED <<order, placed, pushed>>

HangsUp(a, result, p) ==
  /\ gate' = IF gate = a THEN Free ELSE gate
  /\ got' = [got EXCEPT ![a] = result]
  /\ Goto(a, p)

\* "Order number exists" counts as success, with or without a number in it, and
\* whatever has become of the order.
Push(a) ==
  /\ pc[a] = "pushing"
  /\ \/ /\ Takes /\ Placed(a)
        /\ HangsUp(a, "ok", "pushed")
     \/ /\ order # "absent" /\ NotPlaced
        /\ HangsUp(a, "ok", "pushed") \/ HangsUp(a, "bare", "pushed")
     \/ /\ NotPlaced
        /\ HangsUp(a, "no", "pushed")
     \/ /\ AnswersGetLost /\ Takes /\ Placed(a)
        /\ HangsUp(a, "no", "pushed")
  /\ UNCHANGED <<doc, row, callback, seen, why, outages, calls>>

\* Connection trouble raises: the round, or the dashboard's request, ends.
PushRaises(a) ==
  /\ pc[a] = "pushing" /\ AnswersGetLost
  /\ NotPlaced \/ (Takes /\ Placed(a))
  /\ gate' = IF gate = a THEN Free ELSE gate
  /\ Rest(a)
  /\ UNCHANGED <<doc, row, callback, outages, calls>>

\* What SF says of the number, it says of the order under it by then.
Learns(a) == seen' = [seen EXCEPT ![a].gone = placed]

\* An exception becomes an answer in the watcher, and a 502 at the dashboard.
Cancel(a) ==
  /\ pc[a] = "cancelling"
  /\ \/ /\ order = "open"
        /\ order' = "cancelled"
        /\ Learns(a)
        /\ HangsUp(a, "ok", "cancelled")
     \/ /\ UNCHANGED <<order, seen>>
        /\ HangsUp(a, "no", "cancelled")
     \/ /\ AnswersGetLost /\ order = "open"
        /\ order' = "cancelled"
        /\ UNCHANGED seen
        /\ HangsUp(a, "no", "cancelled")
  /\ UNCHANGED <<doc, row, placed, callback, why, counters>>

CallStep(a) == Calls(a) \/ Push(a) \/ PushRaises(a) \/ Cancel(a)

\* The UPSERT of the scanners and the UPDATE of the retries, by key alone.
WritePushed(a) ==
  /\ pc[a] = "pushed"
  /\ Says(IF got[a] = "no" THEN "failed" ELSE "success")
  /\ receipt' = (got[a] = "ok")
  /\ Rest(a)
  /\ UNCHANGED <<doc, wms, gate, counters>>

-----------------------------------------------------------------------------
(* The scan for approved notices. *)

\* The prefilter leaves out what is on hold; already_pushed does not ask again.
ScanReads(s) ==
  /\ pc[s] = "idle" /\ notice = "approved" /\ ~late /\ ~held
  /\ status \in Rescanned \cup {"none"}
  /\ seen' = [seen EXCEPT ![s] = Fetched]
  /\ Goto(s, "fetched")
  /\ UNCHANGED <<doc, row, wms, gate, got, why, counters>>

\* Two queries disagree about the number of lines. _mark_failed writes an
\* 'outbound' row over whatever it says by now; for an inbound bill that is
\* another record than this one.
ScanRefuses(s) ==
  /\ pc[s] = "fetched"
  /\ IF Outbound THEN Says("failed") ELSE SaysNothing
  /\ Rest(s)
  /\ UNCHANGED <<doc, receipt, wms, gate, counters>>

\* already_pushed, read once for all bills of the round. No details, no push.
ScanChecksAgain(s) ==
  /\ pc[s] = "fetched"
  /\ \/ status \in Rescanned \cup {"none"} /\ Moves(s, "push")
     \/ status \notin Rescanned \cup {"none"} /\ Gives(s)
     \/ notice = "deleted" /\ Gives(s)

\* A SKU was not accepted, a field SF requires is empty (outbound), or the last
\* count of lines does not agree.
ScanFails(s) ==
  /\ pc[s] = "push"
  /\ Says("failed")
  /\ Rest(s)
  /\ UNCHANGED <<doc, receipt, wms, gate, counters>>

ScanStep(s) ==
  \/ ScanReads(s) \/ ScanRefuses(s) \/ ScanChecksAgain(s) \/ ScanFails(s)
  \/ CallStep(s) \/ WritePushed(s)

-----------------------------------------------------------------------------
(* The watcher: unaudited, deleted or re-approved notices. *)

\* Mutant: records that were pushed and not called back are left out.
WatchReadsLess(w) ==
  /\ pc[w] = "idle" /\ status \notin Unwatched \cup {"success"} /\ ~held /\ ~old
  /\ seen' = [seen EXCEPT ![w].status = status]
  /\ Goto(w, "look")
  /\ UNCHANGED <<doc, row, wms, gate, got, why, counters>>

\* A hold is one of outbound bills alone. The limit of 1000 records is taken
\* to be enough.
WatchReads(w) ==
  /\ pc[w] = "idle" /\ status \notin Unwatched /\ ~held /\ ~old
  /\ seen' = [seen EXCEPT ![w].status = status]
  /\ Goto(w, "look")
  /\ UNCHANGED <<doc, row, wms, gate, got, why, counters>>

CancelFor(w, reason) ==
  /\ why' = [why EXCEPT ![w] = reason]
  /\ Goto(w, "cancel")
  /\ UNCHANGED <<seen, got>>

WatchLooks(w) ==
  /\ pc[w] = "look"
  /\ \E answer \in {"approved", "unaudited", "unknown"} :
       /\ LooksUp(answer)
       /\ \/ /\ answer = "unknown" /\ seen[w].status = "success"
             /\ Goto(w, "lookAgain") /\ UNCHANGED <<seen, got, why>>
          \/ /\ answer = "approved" /\ again /\ seen[w].status = "success"
             /\ CancelFor(w, "reapproved")
          \/ /\ answer = "unaudited"
             /\ CancelFor(w, "unaudited")
          \/ /\ answer # "unaudited"
             /\ seen[w].status # "success" \/ (answer = "approved" /\ ~again)
             /\ Rest(w)
  /\ UNCHANGED <<doc, row, wms, gate, calls, pushed>>

\* Mutant: one lookup without a result is enough.
WatchTrustsFirst(w) ==
  pc[w] = "lookAgain" /\ CancelFor(w, "deleted") /\ UNCHANGED <<doc, row, wms, gate, counters>>

\* Only a second lookup without a result, 3 seconds later, means deleted.
WatchLooksAgain(w) ==
  /\ pc[w] = "lookAgain"
  /\ \E answer \in {"approved", "unaudited", "unknown"} :
       /\ LooksUp(answer)
       /\ IF answer = "unknown" THEN CancelFor(w, "deleted") ELSE Rest(w)
  /\ UNCHANGED <<doc, row, wms, gate, calls, pushed>>

WatchWrites(w) ==
  LET ok == got[w] = "ok" IN
  /\ pc[w] = "cancelled"
  /\ \/ /\ why[w] = "deleted" /\ ok
        /\ Marks(w, "cancelled_by_deletion")
        /\ Rest(w)
     \/ /\ why[w] = "unaudited" /\ ok
        /\ Marks(w, "cancelled_by_unaudit")
        /\ Rest(w)
     \/ /\ why[w] = "reapproved" /\ ok
        /\ Marks(w, "cancelled_by_unaudit")
        /\ Restarts(w, "retry")
     \/ /\ why[w] = "unaudited" /\ ~ok
        /\ Says("unaudit_cancel_failed")
        /\ Rest(w)
     \/ /\ why[w] \in {"deleted", "reapproved"} /\ ~ok
        /\ Rest(w) /\ SaysNothing
  /\ UNCHANGED <<doc, receipt, wms, gate, counters>>

\* retry_single_push asks Kingdee for the lines, not for the status, and does
\* not look at the record's status either; it leaves a bill on hold as it is.
Retries(a) ==
  /\ pc[a] = "retry"
  /\ IF notice = "deleted" \/ held
     THEN Rest(a)
     ELSE /\ seen' = [seen EXCEPT ![a] = Fetched]
          /\ Goto(a, "push")
          /\ UNCHANGED <<got, why>>
  /\ UNCHANGED <<doc, row, wms, gate, counters>>

WatchStep(w) ==
  \/ WatchReads(w) \/ WatchLooks(w) \/ WatchLooksAgain(w)
  \/ CallStep(w) \/ WatchWrites(w) \/ Retries(w) \/ WritePushed(w)

-----------------------------------------------------------------------------
(* The dashboard's buttons. *)

HumanRetries(h) ==
  /\ pc[h] = "idle" /\ calls < MaxCalls
  /\ status \in Retryable
  /\ calls' = calls + 1
  /\ Goto(h, "retry")
  /\ UNCHANGED <<doc, row, wms, gate, seen, got, why, outages, pushed>>

HumanCancels(h) ==
  /\ pc[h] = "idle" /\ calls < MaxCalls
  /\ status \notin {"none", "outstock_created"}
  /\ calls' = calls + 1
  /\ Goto(h, IF Outbound THEN "ask" ELSE "cancel")
  /\ UNCHANGED <<doc, row, wms, gate, seen, got, why, outages, pushed>>

\* An outbound order that SF reports as cancelled already needs no call.
HumanAsks(h) ==
  /\ pc[h] = "ask"
  /\ \/ /\ order = "cancelled"
        /\ Learns(h)
        /\ got' = [got EXCEPT ![h] = "ok"]
        /\ Goto(h, "cancelled")
     \/ /\ Goto(h, "cancel") /\ UNCHANGED <<seen, got>>
  /\ UNCHANGED <<doc, row, wms, gate, why, counters>>

\* Mutant: the record is marked whatever SF answers.
HumanWritesAnyway(h) ==
  /\ pc[h] = "cancelled"
  /\ status' = "cancelled" /\ told' = placed
  /\ Rest(h)
  /\ UNCHANGED <<doc, receipt, wms, gate, counters>>

HumanWrites(h) ==
  /\ pc[h] = "cancelled"
  /\ IF got[h] = "ok" THEN Marks(h, "cancelled") ELSE SaysNothing
  /\ Rest(h)
  /\ UNCHANGED <<doc, receipt, wms, gate, counters>>

HumanStep(h) ==
  \/ HumanRetries(h) \/ HumanCancels(h) \/ HumanAsks(h) \/ CallStep(h)
  \/ HumanWrites(h) \/ Retries(h) \/ WritePushed(h)

-----------------------------------------------------------------------------
(* The WMS status poll (outbound) and the callback validators. *)

SyncReads(y) ==
  /\ Outbound /\ pc[y] = "idle" /\ status \in Polled /\ ~old
  /\ Moves(y, "ask")

\* Only the warehouse's "cancelled" (1400) touches the record's status.
SyncAsks(y) ==
  /\ pc[y] = "ask"
  /\ \/ /\ order = "cancelled"
        /\ Learns(y)
        /\ Goto(y, "mark")
        /\ UNCHANGED <<doc, row, wms, gate, got, why, counters>>
     \/ Gives(y)

SyncWrites(y) ==
  /\ pc[y] = "mark"
  /\ IF status = "outstock_created" THEN SaysNothing ELSE Marks(y, "cancelled")
  /\ Rest(y)
  /\ UNCHANGED <<doc, receipt, wms, gate, counters>>

ValidateReads(v) ==
  /\ pc[v] = "idle" /\ status \in Validated
  /\ seen' = [seen EXCEPT ![v] = Snapshot]
  /\ Goto(v, "judge")
  /\ UNCHANGED <<doc, row, wms, gate, got, why, counters>>

\* Mutant: time has run out for a callback that is there.
JudgeTimeoutFirst(v) ==
  LET now == [match |-> "callback_ok", mismatch |-> "callback_mismatch", none |-> status]
  IN Says(IF seen[v].status = "success" /\ ~seen[v].receipt
          THEN "timeout_alert" ELSE now[callback])

\* The row of the snapshot may be a minute and 200 rows old.
Judge(v) ==
  LET was == seen[v].status
      now == CASE callback = "match" -> "callback_ok"
               [] callback = "mismatch" -> "callback_mismatch"
               [] callback = "none" /\ ~Outbound /\ seen[v].receipt
                    /\ was = "timeout_alert" -> "success"
               [] callback = "none" /\ ~seen[v].receipt
                    /\ was = "success" -> "timeout_alert"
               [] OTHER -> was
  IN IF now = was THEN SaysNothing ELSE Says(now)

\* A callback that never gets late enough is no timeout yet.
ValidateJudges(v) ==
  /\ pc[v] = "judge"
  /\ IF Outbound /\ callback = "match"
     THEN Judge(v) /\ Goto(v, "create") /\ UNCHANGED <<seen, got, why>>
     ELSE /\ Judge(v) \/ (callback = "none" /\ SaysNothing)
          /\ Rest(v)
  /\ UNCHANGED <<doc, receipt, wms, gate, counters>>

\* SFOutstock, as far as it succeeds: the creator rereads the status under its
\* lock, works in Kingdee, and writes by id.
ValidateRechecks(v) ==
  /\ pc[v] = "create"
  /\ IF status \in Validated \ {"callback_mismatch"} THEN Moves(v, "creating") ELSE Gives(v)

ValidateCreates(v) ==
  /\ pc[v] = "creating"
  /\ Says("outstock_created")
  /\ Rest(v)
  /\ UNCHANGED <<doc, receipt, wms, gate, counters>>

SyncStep(y) == SyncReads(y) \/ SyncAsks(y) \/ SyncWrites(y)
ValidateStep(v) ==
  ValidateReads(v) \/ ValidateJudges(v) \/ ValidateRechecks(v) \/ ValidateCreates(v)

-----------------------------------------------------------------------------
Outside ==
  \/ UserUnaudits \/ UserApproves \/ UserDeletes \/ ApprovalAges \/ RecordAges
  \/ HoldIsPlaced \/ InterceptionCancels \/ WarehouseCloses \/ CallbackArrives

Next ==
  \/ Outside
  \/ \E s \in Scanners : ScanStep(s)
  \/ \E w \in Watchers : WatchStep(w)
  \/ \E h \in Humans : HumanStep(h)
  \/ \E y \in Syncs : SyncStep(y)
  \/ \E v \in Validators : ValidateStep(v)

Spec == Init /\ [][Next]_vars

\* The jobs come round again and again, and every call ends.
FairSpec ==
  /\ Spec
  /\ \A s \in Scanners : WF_vars(ScanStep(s))
  /\ \A w \in Watchers : WF_vars(WatchStep(w))
  /\ \A v \in Validators : WF_vars(ValidateStep(v))
  /\ \A y \in Syncs : WF_vars(SyncStep(y))
  /\ \A h \in Humans : WF_vars(HumanStep(h) /\ pc[h] # "idle")

\* Sometimes the two counts of lines agree, and SF answers.
FairScans == \A s \in Scanners : SF_vars(ScanChecksAgain(s)) /\ SF_vars(Push(s))

FairScanSpec == FairSpec /\ FairScans

-----------------------------------------------------------------------------
TypeOK ==
  /\ notice \in {"approved", "unaudited", "deleted"}
  /\ approvals \in 0..MaxApprovals /\ pushed \in 0..MaxApprovals
  /\ again \in BOOLEAN /\ late \in BOOLEAN /\ held \in BOOLEAN /\ old \in BOOLEAN
  /\ status \in Statuses
  /\ receipt \in BOOLEAN
  /\ direction \in Directions
  /\ order \in {"absent", "open", "closed", "cancelled"}
  /\ placed \in 0..MaxOrders /\ told \in 0..MaxOrders
  /\ callback \in {"none", "match", "mismatch"}
  /\ gate \in Actors \cup {Free}
  /\ pc \in [Actors -> Pcs]
  /\ seen \in [Actors -> Snapshots]
  /\ got \in [Actors -> {"none", "ok", "bare", "no"}]
  /\ why \in [Actors -> {"none", "unaudited", "reapproved", "deleted"}]
  /\ outages \in 0..MaxOutages /\ calls \in 0..MaxCalls

Cancelled == {"cancelled", "cancelled_by_unaudit", "cancelled_by_deletion"}

\* The order with this number was cancelled in the warehouse.
IsGone(g) == g \in 1..placed /\ (g = placed => order = "cancelled")

\* A record that says cancelled speaks of an order the warehouse has cancelled,
\* the one under its number now or an earlier one: whoever overtakes whom between
\* SF's answer and the UPDATE, whatever is repushed meanwhile and whatever answer
\* is lost, no order that was never cancelled is written off.
CancelTellsTruth == status \in Cancelled => IsGone(told)

\* A record in one of the statuses of a pushed order has had one in the
\* warehouse, over lost answers, refusals by the gate and stale validators.
SuccessWasSent == status \in Polled => order # "absent"

\* An order is recalled as deleted only if its notice is: one status query
\* without an answer is not taken for a deletion (the second lookup).
OnlyDeletedIsRecalled == status = "cancelled_by_deletion" => notice = "deleted"

\* A notice that stays unaudited does not keep a record the watcher would
\* still have to deal with, unless the bill is on hold or its record has left the
\* 14 days, which no repush makes begin anew.
UnauditedIsHandled ==
  []<>(notice = "unaudited" => status \in Unwatched \/ held \/ old)

\* An approved notice without an order, or with one recalled for an unaudit, is
\* recorded as pushed or as failed by a later scan, unless it is on hold or its
\* approval has left the days the scans look back.
Unpushed == {"none", "cancelled_by_unaudit", "unaudit_cancel_failed"}
ApprovedIsPushed ==
  []<>(notice = "approved" => status \notin Unpushed \/ held \/ late)

\* What the record says follows the order and its callbacks as the contract of
\* a record promises: a row begins with a push, an alert never comes after the
\* callback it misses, verdicts are those of the latest callback, and goods that
\* did not leave are not booked out.
Life == INSTANCE OrderLife
ImplementsOrderLife == Life!Spec

\* Nothing goes both ways: of an order that the record has once called
\* cancelled it never says that its goods have left, through whatever repushes,
\* stale validators and cancellations still on their way.
CancelledForGood(g) ==
  [](status \in Cancelled /\ told = g => [](placed = g => status \notin Life!CalledBack))

\* An order is recalled as outdated only if the notice was approved after the
\* push (comment, sf_automation.py:3317).
OnlyOutdatedIsRecalled ==
  [][\A w \in Watchers : why[w] = "none" /\ why'[w] = "reapproved"
                           => pushed < approvals]_vars
=============================================================================
