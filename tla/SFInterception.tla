--------------------------- MODULE SFInterception ---------------------------
(***************************************************************************)
(* The refund-hold cancellation path: the market API (external) places a   *)
(* hold on a delivery notice and queues one CANCEL operation; the          *)
(* interception worker executes it at most once; every other SF dispatch   *)
(* of the same notice goes through a per-bill PostgreSQL advisory lock     *)
(* that the worker, the outbound gate and the outstock creator share.      *)
(*                                                                         *)
(*   app/services/sf_interception_worker.py    Worker actions              *)
(*   app/services/sf_interception_guard.py     Gate actions                *)
(*   migrations/20261104_sf_interception.sql   the four journal tables     *)
(*                                                                         *)
(* A handler is cut at every await that another actor can slip into: each  *)
(* database statement and each remote call is a step of its own.  Rows are *)
(* indexed by bill, which the schema makes a key (sf_api_hold.bill_no is   *)
(* the primary key, sf_api_cancel_once is unique on the CANCEL's bill_no). *)
(***************************************************************************)
EXTENDS Naturals

CONSTANTS
  Bills,           \* delivery notices (FHTZ numbers)
  Workers,         \* concurrent executions of the interception job
  Callers,         \* other tasks that take the order lock
  Free,            \* an advisory lock nobody holds
  SessionsMayDrop  \* whether PostgreSQL may close a lock-holding session

ASSUME LockOwnersAssumption ==
  /\ Workers \cap Callers = {}
  /\ Free \notin Workers \cup Callers
  /\ SessionsMayDrop \in BOOLEAN

VARIABLES
  malformed,   \* numbers that fail the worker's pattern: no order has one
  hold,        \* [bill -> owner of the sf_api_hold row, seen from the operation]
  op,          \* [bill -> status of its CANCEL row in sf_api_operation]
  sent,        \* [bill -> request_sent of that row]
  aged,        \* [bill -> its updated_at is more than ten minutes old]
  legacy,      \* [bill -> a row of sf_api_legacy_cancel exists]
  fit,         \* [bill -> its ads_sf_push_record is one the worker may cancel]
  callback,    \* [bill -> a shipment callback is in ods_sf_push_log]
  xsck,        \* [bill -> Kingdee has a sales outstock document]
  wms,         \* [bill -> state of the order in the SF warehouse]
  net,         \* requests handed to the network and not yet answered for
  lock,        \* [bill -> holder of the advisory lock lock_key(bill)]
  wpc, wbill, verdict,      \* program counter and locals of execute_one
  cpc, cbill, ckind,        \* program counter and locals of a lock caller
  dispatched,  \* history: cancel requests the worker has put on the network
  afterHold    \* history: gated dispatches made while the bill was held

order == <<hold, op, sent, aged, legacy, fit>>
world == <<malformed, callback, xsck, wms, net>>
worker == <<wpc, wbill, verdict>>
caller == <<cpc, cbill, ckind>>
history == <<dispatched, afterHold>>
vars == <<order, world, lock, worker, caller, history>>

-----------------------------------------------------------------------------
(* Values. *)

Owners == {"none", "requester", "other"}
OpStatus == {"ABSENT", "QUEUED", "PROCESSING", "SUCCEEDED", "BLOCKED", "UNKNOWN"}
Terminal == {"SUCCEEDED", "BLOCKED", "UNKNOWN"}
SentValues == {"NO", "UNKNOWN", "YES"}

\* Not in the warehouse; a status of PRE_PACK; any later status; 1400.
WmsStates == {"absent", "prepack", "packed", "cancelled"}

Verdicts == [status : Terminal, sent : SentValues]
NoVerdict == [status |-> "UNKNOWN", sent |-> "UNKNOWN"]

Kinds == {"push", "cancel", "outstock"}
Requests == {"push", "cancel", "workerCancel"} \X Bills

\* Mutant: an exception while the request is under way is taken for one before.
BeforeSendToo == {"claimed", "matched", "unshipped", "unattempted", "noXsck",
                  "prepack", "stillUnshipped", "ready", "journaled", "awaiting"}

\* Locals `sent` and `received` of execute_one, read off the program counter.
BeforeSend == {"claimed", "matched", "unshipped", "unattempted", "noXsck",
               "prepack", "stillUnshipped", "ready"}
AfterSend == {"journaled", "awaiting", "received", "acked", "gone", "kept",
              "goneNoXsck"}
InTry == BeforeSend \cup AfterSend
Claimed == InTry \cup {"finishing", "refinishing", "leaving"}
WorkerPc == Claimed \cup {"idle", "swept", "fetched", "locked"}
CallerPc == {"idle", "entered", "allowed", "intended", "waiting"}

-----------------------------------------------------------------------------
(* The world outside this service. *)

Init ==
  /\ hold = [b \in Bills |-> "none"]
  /\ op = [b \in Bills |-> "ABSENT"]
  /\ sent = [b \in Bills |-> "NO"]
  /\ aged = [b \in Bills |-> FALSE]
  /\ legacy = [b \in Bills |-> FALSE]
  /\ malformed \in SUBSET Bills
  /\ fit \in [Bills -> BOOLEAN] /\ \A b \in malformed : ~fit[b]
  /\ wms = [b \in Bills |-> IF fit[b] THEN "prepack" ELSE "absent"]
  /\ callback = [b \in Bills |-> FALSE]
  /\ xsck = [b \in Bills |-> FALSE]
  /\ net = {}
  /\ lock = [b \in Bills |-> Free]
  /\ wpc = [w \in Workers |-> "idle"]
  /\ wbill \in [Workers -> Bills]
  /\ verdict = [w \in Workers |-> NoVerdict]
  /\ cpc = [c \in Callers |-> "idle"]
  /\ cbill \in [Callers -> Bills]
  /\ ckind = [c \in Callers |-> "push"]
  /\ dispatched = [b \in Bills |-> 0]
  /\ afterHold = [b \in Bills |-> 0]

\* The market API inserts a hold; nothing in this service ever deletes one.
PlaceHold(b, o) ==
  /\ hold[b] = "none"
  /\ hold' = [hold EXCEPT ![b] = o]
  /\ UNCHANGED <<op, sent, aged, legacy, fit, world, lock, worker, caller, history>>

\* The market API queues the bill's only CANCEL operation.
QueueCancel(b) ==
  /\ op[b] = "ABSENT"
  /\ hold[b] # "none"
  /\ op' = [op EXCEPT ![b] = "QUEUED"]
  /\ UNCHANGED <<hold, sent, aged, legacy, fit, world, lock, worker, caller, history>>

\* Any job that writes the push record without taking the order lock.  The
\* record is fit while it exists, has the version the operation expects, has
\* no outstock_no, cancelled_at or unaudit_detected_at and is success or
\* timeout_alert; each of these may change, and change back, at any moment.
RecordChanges(b) ==
  /\ b \notin malformed
  /\ fit' = [fit EXCEPT ![b] = ~@]
  /\ UNCHANGED <<hold, op, sent, aged, legacy, world, lock, worker, caller, history>>

WarehousePacks(b) ==
  /\ wms[b] = "prepack"
  /\ wms' = [wms EXCEPT ![b] = "packed"]
  /\ UNCHANGED <<order, malformed, callback, xsck, net, lock, worker, caller, history>>

ShipmentCallback(b) ==
  /\ wms[b] = "packed" /\ ~callback[b]
  /\ callback' = [callback EXCEPT ![b] = TRUE]
  /\ UNCHANGED <<order, malformed, xsck, wms, net, lock, worker, caller, history>>

\* A Kingdee user raises the outstock document by hand, outside every lock.
KingdeeUserShips(b) ==
  /\ ~xsck[b] /\ b \notin malformed
  /\ xsck' = [xsck EXCEPT ![b] = TRUE]
  /\ UNCHANGED <<order, malformed, callback, wms, net, lock, worker, caller, history>>

\* The warehouse acts on a request that reached it, however late.  Only an
\* order that is not packed yet can be cancelled, and an order number that is
\* already there is refused.
Deliver(m) ==
  /\ m \in net
  /\ net' = net \ {m}
  /\ wms' = [wms EXCEPT ![m[2]] =
               CASE m[1] = "push" /\ @ = "absent" -> "prepack"
                 [] m[1] # "push" /\ @ = "prepack" -> "cancelled"
                 [] OTHER -> @]
  /\ UNCHANGED <<order, malformed, callback, xsck, lock, worker, caller, history>>

Lose(m) ==
  /\ m \in net
  /\ net' = net \ {m}
  /\ UNCHANGED <<order, malformed, callback, xsck, wms, lock, worker, caller, history>>

TenMinutesPass(b) ==
  /\ op[b] = "PROCESSING" /\ ~aged[b]
  /\ aged' = [aged EXCEPT ![b] = TRUE]
  /\ UNCHANGED <<hold, op, sent, legacy, fit, world, lock, worker, caller, history>>

\* A dropped session loses its advisory lock while its task runs on.
DropSession(b) ==
  /\ SessionsMayDrop
  /\ lock[b] # Free
  /\ lock' = [lock EXCEPT ![b] = Free]
  /\ UNCHANGED <<order, world, worker, caller, history>>

-----------------------------------------------------------------------------
(* The worker: run() and execute_one(). *)

Goto(w, pc) == wpc' = [wpc EXCEPT ![w] = pc]

Holds(p, b) == lock[b] = p

Unlock(p, b) == lock' = IF Holds(p, b) THEN [lock EXCEPT ![b] = Free] ELSE lock

\* Every path out of the try block ends in a call of finish().
Conclude(w, status, s) ==
  /\ wpc' = [wpc EXCEPT ![w] = "finishing"]
  /\ verdict' = [verdict EXCEPT ![w] = [status |-> status, sent |-> s]]

OnlyWorkerMoves == UNCHANGED <<order, world, lock, wbill, caller, history>>

\* A read that either ends the operation with a verdict or lets it go on.
Judge(w, ends, status, s, next) ==
  /\ IF ends THEN Conclude(w, status, s)
             ELSE Goto(w, next) /\ UNCHANGED verdict
  /\ OnlyWorkerMoves

\* Mutant: what an interrupted worker left behind is tried again.
SweepRequeues(w) ==
  /\ wpc[w] = "idle"
  /\ op' = [b \in Bills |-> IF op[b] = "PROCESSING" /\ aged[b] THEN "QUEUED" ELSE op[b]]
  /\ aged' = [b \in Bills |-> FALSE]
  /\ Goto(w, "swept")
  /\ UNCHANGED <<hold, sent, legacy, fit, world, lock, wbill, verdict, caller, history>>

\* Mutant: no sweep.
SweepsNothing(w) == wpc[w] = "idle" /\ Goto(w, "swept") /\ UNCHANGED verdict /\ OnlyWorkerMoves

\* run() first settles what an interrupted worker left behind.
Sweep(w) ==
  LET interrupted == {b \in Bills : op[b] = "PROCESSING" /\ aged[b]} IN
  /\ wpc[w] = "idle"
  /\ op' = [b \in Bills |-> IF b \in interrupted THEN "UNKNOWN" ELSE op[b]]
  /\ aged' = [b \in Bills |-> aged[b] /\ b \notin interrupted]
  /\ Goto(w, "swept")
  /\ UNCHANGED <<hold, sent, legacy, fit, world, lock, wbill, verdict, caller, history>>

Fetch(w, b) ==
  /\ wpc[w] = "swept"
  /\ op[b] = "QUEUED"
  /\ wbill' = [wbill EXCEPT ![w] = b]
  /\ Goto(w, "fetched")
  /\ UNCHANGED <<order, world, lock, verdict, caller, history>>

NothingQueued(w) ==
  /\ wpc[w] = "swept"
  /\ \A b \in Bills : op[b] # "QUEUED"
  /\ Goto(w, "idle")
  /\ UNCHANGED verdict
  /\ OnlyWorkerMoves

\* Mutant: a malformed number is skipped without a verdict.
SkipMalformed(w) ==
  /\ wpc[w] = "fetched" /\ wbill[w] \in malformed
  /\ Goto(w, "idle") /\ UNCHANGED verdict
  /\ OnlyWorkerMoves

\* finish() without a claim: the bill number is not one the worker serves.
RefuseMalformed(w) ==
  /\ wpc[w] = "fetched" /\ wbill[w] \in malformed
  /\ op' = [op EXCEPT ![wbill[w]] = "BLOCKED"]
  /\ sent' = [sent EXCEPT ![wbill[w]] = "NO"]
  /\ aged' = [aged EXCEPT ![wbill[w]] = FALSE]
  /\ Goto(w, "idle")
  /\ UNCHANGED <<hold, legacy, fit, world, lock, wbill, verdict, caller, history>>

\* pg_try_advisory_xact_lock: a busy order stays QUEUED for a later minute.
TryLock(w) ==
  /\ wpc[w] = "fetched" /\ wbill[w] \notin malformed
  /\ IF lock[wbill[w]] = Free
     THEN lock' = [lock EXCEPT ![wbill[w]] = w] /\ Goto(w, "locked")
     ELSE UNCHANGED lock /\ Goto(w, "idle")
  /\ UNCHANGED <<order, world, wbill, verdict, caller, history>>

\* Mutant: the claim does not ask whether the operation is still queued.
ClaimAnyStatus(w) ==
  /\ wpc[w] = "locked"
  /\ op' = [op EXCEPT ![wbill[w]] = "PROCESSING"]
  /\ aged' = [aged EXCEPT ![wbill[w]] = FALSE]
  /\ Goto(w, "claimed")
  /\ UNCHANGED <<hold, sent, legacy, fit, world, lock, wbill, verdict, caller, history>>

\* The claim commits on a connection of its own before anything external.
Claim(w) ==
  /\ wpc[w] = "locked"
  /\ IF op[wbill[w]] = "QUEUED"
     THEN /\ op' = [op EXCEPT ![wbill[w]] = "PROCESSING"]
          /\ aged' = [aged EXCEPT ![wbill[w]] = FALSE]
          /\ Goto(w, "claimed")
          /\ UNCHANGED lock
     ELSE /\ Unlock(w, wbill[w])
          /\ Goto(w, "idle")
          /\ UNCHANGED <<op, aged>>
  /\ UNCHANGED <<hold, sent, legacy, fit, world, wbill, verdict, caller, history>>

\* Hold, owner, version and state of the record, in the code's order; every
\* one of them ends in BLOCKED.
CheckOrder(w) ==
  /\ wpc[w] = "claimed" /\ Holds(w, wbill[w])
  /\ Judge(w, hold[wbill[w]] # "requester" \/ ~fit[wbill[w]],
           "BLOCKED", "NO", "matched")

CheckShipment(w) ==
  /\ wpc[w] = "matched" /\ Holds(w, wbill[w])
  /\ Judge(w, callback[wbill[w]], "BLOCKED", "NO", "unshipped")

\* Mutant: a cancellation made through the gate is overlooked.
IgnoreLegacyCancel(w) ==
  /\ wpc[w] = "unshipped" /\ Holds(w, wbill[w])
  /\ Judge(w, FALSE, "BLOCKED", "NO", "unattempted")

CheckLegacyCancel(w) ==
  /\ wpc[w] = "unshipped" /\ Holds(w, wbill[w])
  /\ Judge(w, legacy[wbill[w]], "BLOCKED", "NO", "unattempted")

\* strict_xscks: an incomplete answer is Raise, never "no document".
CheckXsck(w) ==
  /\ wpc[w] = "unattempted"
  /\ Judge(w, xsck[wbill[w]], "BLOCKED", "NO", "noXsck")

\* wms_state: an order the warehouse does not know is Raise as well.
CheckWarehouse(w) ==
  LET state == wms[wbill[w]] IN
  /\ wpc[w] = "noXsck"
  /\ state # "absent"
  /\ Judge(w, state # "prepack",
           IF state = "cancelled" THEN "SUCCEEDED" ELSE "BLOCKED", "NO", "prepack")

RecheckShipment(w) ==
  /\ wpc[w] = "prepack" /\ Holds(w, wbill[w])
  /\ Judge(w, callback[wbill[w]], "BLOCKED", "NO", "stillUnshipped")

RecheckXsck(w) ==
  /\ wpc[w] = "stillUnshipped"
  /\ Judge(w, xsck[wbill[w]], "BLOCKED", "NO", "ready")

\* Mutant: the journal is written after the request only.
JournalIntentLater(w) ==
  wpc[w] = "ready" /\ Goto(w, "journaled") /\ UNCHANGED verdict /\ OnlyWorkerMoves

\* request_sent leaves NO, committed, before the request leaves the process.
JournalIntent(w) ==
  /\ wpc[w] = "ready"
  /\ sent' = [sent EXCEPT ![wbill[w]] = "UNKNOWN"]
  /\ aged' = [aged EXCEPT ![wbill[w]] = FALSE]
  /\ Goto(w, "journaled")
  /\ UNCHANGED <<hold, op, legacy, fit, world, lock, wbill, verdict, caller, history>>

SendCancel(w) ==
  /\ wpc[w] = "journaled"
  /\ net' = net \cup {<<"workerCancel", wbill[w]>>}
  /\ dispatched' = [dispatched EXCEPT ![wbill[w]] = @ + 1]
  /\ Goto(w, "awaiting")
  /\ UNCHANGED <<order, malformed, callback, xsck, wms, lock, wbill, verdict, caller, afterHold>>

\* Any HTTP body counts as a response, an error page of a proxy included: the
\* request itself may still be on its way.
ReceiveResponse(w) ==
  /\ wpc[w] = "awaiting"
  /\ Goto(w, "received")
  /\ UNCHANGED verdict
  /\ OnlyWorkerMoves

\* Mutant: a value the column's CHECK does not know.
JournalReceiptAsTrue(w) ==
  /\ wpc[w] = "received"
  /\ sent' = [sent EXCEPT ![wbill[w]] = "TRUE"]
  /\ Goto(w, "acked")
  /\ UNCHANGED <<hold, op, aged, legacy, fit, world, lock, wbill, verdict, caller, history>>

JournalReceipt(w) ==
  /\ wpc[w] = "received"
  /\ sent' = [sent EXCEPT ![wbill[w]] = "YES"]
  /\ aged' = [aged EXCEPT ![wbill[w]] = FALSE]
  /\ Goto(w, "acked")
  /\ UNCHANGED <<hold, op, legacy, fit, world, lock, wbill, verdict, caller, history>>

\* Mutant: SF's answer to the request is trusted.
VerifyTransport(w) ==
  wpc[w] = "acked" /\ Goto(w, "gone") /\ UNCHANGED verdict /\ OnlyWorkerMoves

\* The warehouse is asked again; the answer is kept in `after`.
VerifyWarehouse(w) ==
  /\ wpc[w] = "acked"
  /\ wms[wbill[w]] # "absent"
  /\ Goto(w, IF wms[wbill[w]] = "cancelled" THEN "gone" ELSE "kept")
  /\ UNCHANGED verdict
  /\ OnlyWorkerMoves

\* `conflict` is XSCK or callback; whatever the first part says, the verdict
\* is UNKNOWN unless the warehouse had answered 1400.
VerifyXsck(w) ==
  /\ wpc[w] \in {"gone", "kept"}
  /\ Judge(w, xsck[wbill[w]] \/ wpc[w] = "kept", "UNKNOWN", "YES", "goneNoXsck")

VerifyShipment(w) ==
  /\ wpc[w] = "goneNoXsck" /\ Holds(w, wbill[w])
  /\ Conclude(w, IF callback[wbill[w]] THEN "UNKNOWN" ELSE "SUCCEEDED", "YES")
  /\ OnlyWorkerMoves

\* except Exception: a failed read, a lost session, a timeout, a failed write.
\* The handler's own finish() is the last one: nobody catches its exception.
Raise(w) ==
  /\ wpc[w] \in InTry
  /\ Goto(w, "refinishing")
  /\ verdict' = [verdict EXCEPT ![w] =
       [status |-> IF wpc[w] \in BeforeSend THEN "BLOCKED" ELSE "UNKNOWN",
        sent |-> IF wpc[w] \in BeforeSend THEN "NO"
                 ELSE IF wpc[w] \in {"journaled", "awaiting"} THEN "UNKNOWN" ELSE "YES"]]
  /\ OnlyWorkerMoves

\* The statement of JournalIntent commits and its confirmation is lost: the
\* local `sent` is still False, and so nothing is going to be sent.
IntentRaises(w) ==
  /\ wpc[w] = "ready"
  /\ sent' = [sent EXCEPT ![wbill[w]] = "UNKNOWN"]
  /\ aged' = [aged EXCEPT ![wbill[w]] = FALSE]
  /\ Goto(w, "refinishing")
  /\ verdict' = [verdict EXCEPT ![w] = [status |-> "BLOCKED", sent |-> "NO"]]
  /\ UNCHANGED <<hold, op, legacy, fit, world, lock, wbill, caller, history>>

\* The UPDATE of finish(): by operation_id alone, whatever the row says by now.
WriteVerdict(w) ==
  /\ op' = [op EXCEPT ![wbill[w]] = verdict[w].status]
  /\ sent' = [sent EXCEPT ![wbill[w]] = verdict[w].sent]
  /\ aged' = [aged EXCEPT ![wbill[w]] = FALSE]

Finish(w) ==
  /\ wpc[w] \in {"finishing", "refinishing"}
  /\ WriteVerdict(w)
  /\ Goto(w, "leaving")
  /\ UNCHANGED <<hold, legacy, fit, world, lock, wbill, verdict, caller, history>>

\* finish() raises, before its UPDATE or with the UPDATE committed (a timeout, a
\* connection lost before the confirmation).  The first time the handler writes
\* a second verdict, over whatever the first one left; the second time the row
\* stays as it is.
FinishFails(w) ==
  /\ \/ /\ wpc[w] = "finishing"
        /\ Goto(w, "refinishing")
        /\ verdict' = [verdict EXCEPT ![w].status =
                         IF verdict[w].sent = "NO" THEN "BLOCKED" ELSE "UNKNOWN"]
     \/ /\ wpc[w] = "refinishing"
        /\ Goto(w, "leaving")
        /\ UNCHANGED verdict
  /\ WriteVerdict(w) \/ UNCHANGED <<op, sent, aged>>
  /\ UNCHANGED <<hold, legacy, fit, world, lock, wbill, caller, history>>

\* Leaving the transaction block releases the advisory lock.
Leave(w) ==
  /\ wpc[w] = "leaving"
  /\ Unlock(w, wbill[w])
  /\ Goto(w, "idle")
  /\ verdict' = [verdict EXCEPT ![w] = NoVerdict]
  /\ UNCHANGED <<order, world, wbill, caller, history>>

\* The container is killed or the task cancelled: CancelledError is not an
\* Exception, so nothing is written; the session ends and its lock with it.  An
\* exception of the claim itself, committed or not, is outside the try block
\* and looks the same.
KillWorker(w) ==
  /\ wpc[w] # "idle"
  /\ Unlock(w, wbill[w])
  /\ Goto(w, "idle")
  /\ verdict' = [verdict EXCEPT ![w] = NoVerdict]
  /\ UNCHANGED <<order, world, wbill, caller, history>>

WorkerStep(w) ==
  \/ Sweep(w) \/ NothingQueued(w) \/ RefuseMalformed(w) \/ TryLock(w) \/ Claim(w)
  \/ \E b \in Bills : Fetch(w, b)
  \/ CheckOrder(w) \/ CheckShipment(w) \/ CheckLegacyCancel(w) \/ CheckXsck(w)
  \/ CheckWarehouse(w) \/ RecheckShipment(w) \/ RecheckXsck(w)
  \/ JournalIntent(w) \/ IntentRaises(w) \/ SendCancel(w) \/ ReceiveResponse(w)
  \/ JournalReceipt(w)
  \/ VerifyWarehouse(w) \/ VerifyXsck(w) \/ VerifyShipment(w)
  \/ Raise(w) \/ Finish(w) \/ FinishFails(w) \/ Leave(w)

-----------------------------------------------------------------------------
(* Every other holder of the order lock: outbound_gate around a push or a  *)
(* cancellation, and the outstock creator, which takes the same lock but   *)
(* never asks whether the bill is held.                                    *)

CGoto(c, pc) == cpc' = [cpc EXCEPT ![c] = pc]
CRest(c) == CGoto(c, "idle") /\ ckind' = [ckind EXCEPT ![c] = "push"]

\* pg_try_advisory_xact_lock for a dispatch of whatever kind: a busy order is
\* refused, which leaves no trace here.
CTryLock(c, b, k) ==
  /\ cpc[c] = "idle" /\ b \notin malformed
  /\ lock[b] = Free
  /\ lock' = [lock EXCEPT ![b] = c]
  /\ cbill' = [cbill EXCEPT ![c] = b]
  /\ ckind' = [ckind EXCEPT ![c] = k]
  /\ CGoto(c, IF k = "outstock" THEN "intended" ELSE "entered")
  /\ UNCHANGED <<order, world, worker, history>>

\* Mutant: the gate takes the lock and does not look for a hold.
GateSkipsHold(c) ==
  /\ cpc[c] = "entered"
  /\ CGoto(c, IF ckind[c] = "cancel" THEN "allowed" ELSE "intended")
  /\ UNCHANGED <<order, world, lock, worker, cbill, ckind, history>>

\* Mutant: a refusal forgets that the lock outlives the statement.
GateKeepsLock(c) ==
  LET b == cbill[c] IN
  /\ cpc[c] = "entered" /\ Holds(c, b)
  /\ IF hold[b] # "none"
     THEN CRest(c)
     ELSE /\ CGoto(c, IF ckind[c] = "cancel" THEN "allowed" ELSE "intended")
          /\ UNCHANGED ckind
  /\ UNCHANGED <<order, world, lock, worker, cbill, history>>

\* The hold is looked up under the lock, on the connection that holds it.
GateChecksHold(c) ==
  LET b == cbill[c] IN
  /\ cpc[c] = "entered" /\ Holds(c, b)
  /\ IF hold[b] # "none"
     THEN Unlock(c, b) /\ CRest(c)
     ELSE /\ CGoto(c, IF ckind[c] = "cancel" THEN "allowed" ELSE "intended")
          /\ UNCHANGED <<lock, ckind>>
  /\ UNCHANGED <<order, world, worker, cbill, history>>

\* A cancellation leaves a committed trace before it is sent.
GateJournalsCancel(c) ==
  /\ cpc[c] = "allowed" /\ Holds(c, cbill[c])
  /\ legacy' = [legacy EXCEPT ![cbill[c]] = TRUE]
  /\ CGoto(c, "intended")
  /\ UNCHANGED <<hold, op, sent, aged, fit, world, lock, worker, cbill, ckind, history>>

CDispatch(c) ==
  LET b == cbill[c] IN
  /\ cpc[c] = "intended"
  /\ IF ckind[c] = "outstock"
     THEN xsck' = [xsck EXCEPT ![b] = TRUE] /\ UNCHANGED <<net, afterHold>>
     ELSE /\ net' = net \cup {<<ckind[c], b>>}
          /\ afterHold' = [afterHold EXCEPT ![b] = IF hold[b] = "none" THEN @ ELSE @ + 1]
          /\ UNCHANGED xsck
  /\ CGoto(c, "waiting")
  /\ UNCHANGED <<order, malformed, callback, wms, lock, worker, cbill, ckind, dispatched>>

\* The response, an exception on the way, or the end of the process: each
\* of them releases the lock.
CLeave(c) ==
  /\ cpc[c] # "idle"
  /\ Unlock(c, cbill[c])
  /\ CRest(c)
  /\ UNCHANGED <<order, world, worker, cbill, history>>

CallerStep(c) ==
  \/ GateChecksHold(c) \/ GateJournalsCancel(c)
  \/ CDispatch(c) \/ CLeave(c)

-----------------------------------------------------------------------------
Outside ==
  \/ \E b \in Bills :
       \/ \E o \in {"requester", "other"} : PlaceHold(b, o)
       \/ QueueCancel(b)
       \/ RecordChanges(b)
       \/ WarehousePacks(b) \/ ShipmentCallback(b) \/ KingdeeUserShips(b)
       \/ TenMinutesPass(b) \/ DropSession(b)
  \/ \E m \in net : Deliver(m) \/ Lose(m)

Next ==
  \/ Outside
  \/ \E w \in Workers : WorkerStep(w) \/ KillWorker(w)
  \/ \E c \in Callers :
       CallerStep(c) \/ \E b \in Bills, k \in Kinds : CTryLock(c, b, k)

Spec == Init /\ [][Next]_vars

\* The scheduler runs the job every minute, every await ends (HTTP timeouts),
\* and the clock moves.  Nothing obliges anybody to call the gate.  The steps
\* up to the claim are strongly fair: they are tried again each minute, oldest
\* operation first, and a container is not killed at the same point of the job
\* for ever.
Fairness ==
  /\ \A b \in Bills : WF_vars(TenMinutesPass(b))
  /\ \A w \in Workers : /\ WF_vars(WorkerStep(w))
                         /\ \A b \in Bills : SF_vars(Fetch(w, b))
                         /\ SF_vars(RefuseMalformed(w))
                         /\ SF_vars(TryLock(w))
                         /\ SF_vars(Claim(w))
  /\ \A c \in Callers : WF_vars(CallerStep(c))

FairSpec == Spec /\ Fairness

-----------------------------------------------------------------------------
TypeOK ==
  /\ malformed \in SUBSET Bills
  /\ hold \in [Bills -> Owners]
  /\ op \in [Bills -> OpStatus]
  /\ sent \in [Bills -> SentValues]
  /\ aged \in [Bills -> BOOLEAN]
  /\ legacy \in [Bills -> BOOLEAN]
  /\ fit \in [Bills -> BOOLEAN]
  /\ callback \in [Bills -> BOOLEAN]
  /\ xsck \in [Bills -> BOOLEAN]
  /\ wms \in [Bills -> WmsStates]
  /\ net \subseteq Requests
  /\ lock \in [Bills -> Workers \cup Callers \cup {Free}]
  /\ wpc \in [Workers -> WorkerPc]
  /\ wbill \in [Workers -> Bills]
  /\ verdict \in [Workers -> Verdicts]
  /\ cpc \in [Callers -> CallerPc]
  /\ cbill \in [Callers -> Bills]
  /\ ckind \in [Callers -> Kinds]
  /\ dispatched \in [Bills -> Nat]
  /\ afterHold \in [Bills -> Nat]

\* At most one controlled cancel request per bill ever leaves the service,
\* over concurrent executions, kills, failed writes and sweeps ("A crash is
\* never replayed", execute_one).
AtMostOnce == \A b \in Bills : dispatched[b] <= 1

\* request_sent never says NO of a request that may have gone out: whoever
\* reads NO in the journal may still act on the order by other means.
JournalTellsOfSend == \A b \in Bills : dispatched[b] > 0 => sent[b] # "NO"

\* A BLOCKED operation never touched the warehouse ("no cancel was executed",
\* REASONS["EVIDENCE_UNAVAILABLE"]), and a YES stands for a real request.
VerdictIsHonest ==
  \A b \in Bills : /\ op[b] = "BLOCKED" => dispatched[b] = 0
                   /\ sent[b] = "YES" => dispatched[b] = 1

\* SUCCEEDED is written on the warehouse's word alone, never on a transport
\* success; the warehouse does not reopen a cancelled order number.
SucceededMeansCancelled ==
  \A b \in Bills : op[b] = "SUCCEEDED" => wms[b] = "cancelled"

\* A bill is never cancelled through two entries: the worker's request and a
\* gated cancellation exclude each other, whichever comes first.
OneCancelEntry == \A b \in Bills : ~(dispatched[b] > 0 /\ legacy[b])

\* Once a hold is committed only the dispatch that was already under way can
\* still leave; every later push or cancellation is refused (guard docstring).
HoldStopsDispatch == \A b \in Bills : afterHold[b] <= 1

\* What the queue waits for: a queued operation whose order lock is taken is kept
\* back by a caller in the middle of its dispatch, or by an execution that is
\* about to claim it, never by somebody who has left.
QueueWaitsForWork ==
  \A b \in Bills :
    op[b] = "QUEUED" /\ lock[b] # Free =>
      \/ \E c \in Callers : lock[b] = c /\ cbill[c] = b /\ cpc[c] # "idle"
      \/ \E w \in Workers : lock[b] = w /\ wbill[w] = b /\ wpc[w] = "locked"

\* A committed verdict is only ever weakened, and only by the execution that
\* wrote it and did not hear of it: BLOCKED is final, and SUCCEEDED is taken back
\* to what the handler would have said of the same request, whoever else stalled
\* or was swept (finish() writes by operation_id alone).
VerdictOnlyWeakens ==
  [][\A b \in Bills :
       /\ op[b] = "BLOCKED" => op'[b] = "BLOCKED" /\ sent'[b] = sent[b]
       /\ op[b] = "SUCCEEDED" /\ op'[b] # "SUCCEEDED" =>
            /\ op'[b] = IF dispatched[b] = 0 THEN "BLOCKED" ELSE "UNKNOWN"
            /\ sent'[b] = sent[b]
            /\ \E w \in Workers : wpc[w] = "refinishing" /\ wbill[w] = b]_vars

\* The journal as its readers see it: CancelOnce, with the program counters,
\* the locks and the world hidden.
Once == INSTANCE CancelOnce WITH status <- op, journal <- sent, out <- dispatched

\* Every step of every actor is a step of the journal's contract or leaves the
\* journal alone.
ImplementsCancelOnce == Once!Spec

\* A claimed operation is settled in the end, whoever was killed meanwhile.
ClaimSettles == \A b \in Bills : op[b] = "PROCESSING" ~> op[b] \in Terminal

\* A queued operation is taken up in the end, provided the other users of the
\* order lock come to rest: pg_try_advisory_xact_lock does not queue, and tasks
\* that kept taking the lock at the wrong moments could send the worker away
\* each minute.
QueueDrains ==
  <>[](\A c \in Callers : cpc[c] = "idle")
    => \A b \in Bills : op[b] = "QUEUED" ~> op[b] # "QUEUED"
=============================================================================
