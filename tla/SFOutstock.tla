----------------------------- MODULE SFOutstock -----------------------------
(***************************************************************************)
(* From a pushed delivery notice to one audited sales outstock document in *)
(* Kingdee (XSCK), for one notice: the per-notice advisory lock makes the  *)
(* notices independent of each other.                                      *)
(*                                                                         *)
(*   sf_automation.py   validate_outbound_callbacks      rounds            *)
(*                      _create_kingdee_outstock(_locked)                  *)
(*                      _retry_push_outbound             humans            *)
(*   sf_audit_retry.py  _retry_one                       retriers          *)
(*   sf_dashboard.py    recheck_kingdee_status_...       recheckers        *)
(*                                                                         *)
(* Every one of them reads the push record, talks to Kingdee or SF, and    *)
(* writes the record back by id; only rounds and retriers take the lock.   *)
(* A Kingdee write either happens or not, and its answer may be lost       *)
(* either way; it does not happen later than the client gives up on it.    *)
(* A query may leave documents out; what the service does to a document    *)
(* after such an answer is marked in the histories named Blind.            *)
(***************************************************************************)
EXTENDS Naturals, FiniteSets

CONSTANTS
  Docs,              \* outstock numbers Kingdee may hand out for the notice
  NoDoc,             \* no outstock_no
  Rounds,            \* executions of validate_outbound_callbacks
  Retriers,          \* executions of _retry_one
  Humans,            \* dashboard retries of the push
  Recheckers,        \* executions of the Kingdee recheck
  Free,              \* the lock when nobody holds it
  MaxAttempts,       \* MAX_ATTEMPTS
  MaxKills           \* bound: how often a task is killed

Actors == Rounds \cup Retriers \cup Humans \cup Recheckers

ASSUME OutstockAssumption ==
  /\ NoDoc \notin Docs
  /\ Free \notin Actors
  /\ Rounds \cap Retriers = {} /\ Humans \cap Recheckers = {}
  /\ (Rounds \cup Retriers) \cap (Humans \cup Recheckers) = {}
  /\ MaxAttempts \in Nat \ {0}
  /\ MaxKills \in Nat

VARIABLES
  doc,         \* [Docs -> status of the document in Kingdee]
  ours,        \* [Docs -> this service pushed it down]
  passed,      \* history: [Docs -> it has been audited]
  status,      \* status of the push record
  xno,         \* its outstock_no
  err,         \* kind of its error_message
  tries,       \* attempt number in the sf-audit-retry marker of that message
  stopped,     \* cancelled_at or unaudit_detected_at is set
  callback,    \* the latest outbound callback against the pushed quantity
  shipped,     \* sf_wms_status_text says the goods have left
  kills,       \* tasks killed so far
  lock,        \* holder of the lock sf_outstock:<bill_no>
  pc, seen, cur,  \* program counter and locals of every actor
  auditedByUs, \* history: [Docs -> this service audited it]
  pushedBlind, \* history: [Docs -> pushed down after an answer that left some out]
  auditedBlind,\* history: [Docs -> audited after an answer that left some out]
  onTrust,     \* history: the last creation rests on what Kingdee said of an audit
  audits       \* history: audits the retry asked for since the last failure

kingdee == <<doc, ours, passed>>
record == <<status, xno, err, tries, stopped>>
signals == <<callback, shipped, kills>>
locals == <<pc, seen, cur>>
history == <<auditedByUs, pushedBlind, auditedBlind, onTrust, audits>>
vars == <<kingdee, record, signals, lock, locals, history>>

-----------------------------------------------------------------------------
DocStates == {"unused", "A", "B", "C", "deleted"}
Live == {d \in Docs : doc[d] \in {"A", "B", "C"}}

Created == {"outstock_created", "outstock_created_no_callback"}
Candidates == {"success", "callback_ok", "callback_mismatch", "timeout_alert",
               "duplicate_outstock"}
\* Mutant: the status the round has just written is not one to create from.
CreatableBefore == {"success", "timeout_alert", "duplicate_outstock"}

Creatable == {"success", "callback_ok", "timeout_alert", "duplicate_outstock"}
Abnormal == {"outstock_failed", "callback_mismatch", "timeout_alert",
             "outstock_created_no_callback"}
Retryable == {"failed", "cancelled"} \cup Abnormal
Statuses == Created \cup Candidates \cup
            {"outstock_failed", "failed", "cancelled", "auto_resolved",
             "manual_resolved"}
Errors == {"none", "gsp", "other"}

\* seen.fallback is the snapshot's "goods have left" until a task is made of
\* it, and the task's via_wms_fallback from then on; seen.short says that the
\* creator's query left documents out.
Snapshots == [status : Statuses, xno : Docs \cup {NoDoc}, fallback : BOOLEAN,
              tries : 0..MaxAttempts, short : BOOLEAN]
Nothing == [status |-> "success", xno |-> NoDoc, fallback |-> FALSE, tries |-> 0,
            short |-> FALSE]
Snapshot == [status |-> status, xno |-> xno, fallback |-> shipped, tries |-> tries,
             short |-> FALSE]

\* Inside the lock: the creator, then the retry. A creator is "trusted" when
\* only Kingdee's answer tells it of an audit, and "doubting" when its final
\* write is committed and the call raised.
Creating == {"locked", "cleared", "empty", "duplicated", "draft", "submitted",
             "refused", "audited", "trusted", "already", "doubting", "failing",
             "failingGsp"}
Retrying == {"rLocked", "rDue", "rClaimed", "rAudit", "rAudited", "rVerified",
             "rFailing"}
InSection == Creating \cup Retrying
Pcs == InSection \cup {"idle", "read", "queued", "repushing", "rechecking",
                       "resolving"}

Init ==
  /\ doc = [d \in Docs |-> "unused"]
  /\ ours = [d \in Docs |-> FALSE]
  /\ passed = [d \in Docs |-> FALSE]
  /\ status = "success" /\ xno = NoDoc /\ err = "none" /\ tries = 0
  /\ stopped = FALSE
  /\ callback = "none" /\ shipped = FALSE
  /\ kills = 0
  /\ lock = Free
  /\ pc = [a \in Actors |-> "idle"]
  /\ seen = [a \in Actors |-> Nothing]
  /\ cur = [a \in Actors |-> NoDoc]
  /\ auditedByUs = [d \in Docs |-> FALSE]
  /\ pushedBlind = [d \in Docs |-> FALSE]
  /\ auditedBlind = [d \in Docs |-> FALSE]
  /\ onTrust = FALSE
  /\ audits = 0

Goto(a, p) == pc' = [pc EXCEPT ![a] = p]

Rest(a) ==
  /\ Goto(a, "idle")
  /\ seen' = [seen EXCEPT ![a] = Nothing]
  /\ cur' = [cur EXCEPT ![a] = NoDoc]

Unlock(a) == lock' = IF lock = a THEN Free ELSE lock

\* Mutant: an early return inside the lock.
ExitLocked(a) == Rest(a) /\ UNCHANGED lock

\* Every return from inside the lock, the transaction's or the finally's.
Exit(a) == Rest(a) /\ Unlock(a)

\* query() turns an answer that is no list into [], and the creator asks for
\* five rows, which one document with five lines fills.
Answers == SUBSET Live

OnlyPc == UNCHANGED <<kingdee, record, signals, lock, seen, cur, history>>

-----------------------------------------------------------------------------
(* Kingdee users, the warehouse, and the writers that need no snapshot. *)

UserPushes(d) ==
  /\ doc[d] = "unused"
  /\ doc' = [doc EXCEPT ![d] = "A"]
  /\ UNCHANGED <<ours, passed, record, signals, lock, locals, history>>

UserAudits(d) ==
  /\ doc[d] \in {"A", "B"}
  /\ doc' = [doc EXCEPT ![d] = "C"]
  /\ passed' = [passed EXCEPT ![d] = TRUE]
  /\ UNCHANGED <<ours, record, signals, lock, locals, history>>

\* Kingdee does not reuse a number.
UserDeletes(d) ==
  /\ d \in Live
  /\ doc' = [doc EXCEPT ![d] = "deleted"]
  /\ UNCHANGED <<ours, passed, record, signals, lock, locals, history>>

\* The callback logged last counts, a repeated or corrected one as well.
CallbackArrives ==
  /\ callback' \in {"match", "mismatch"} \ {callback}
  /\ UNCHANGED <<kingdee, record, shipped, kills, lock, locals, history>>

WmsSaysShipped ==
  /\ ~shipped
  /\ shipped' = TRUE
  /\ UNCHANGED <<kingdee, record, callback, kills, lock, locals, history>>

\* The dashboard, the unaudit watcher or the WMS sync marks the record; none
\* of them looks at the record again after its call to SF.
CancelRecord ==
  /\ status' = "cancelled"
  /\ stopped' = TRUE
  /\ UNCHANGED <<kingdee, xno, err, tries, signals, lock, locals, history>>

MarkResolved ==
  /\ status \in Abnormal
  /\ status' = "manual_resolved"
  /\ UNCHANGED <<kingdee, xno, err, tries, stopped, signals, lock, locals, history>>

-----------------------------------------------------------------------------
(* A round over the candidates: snapshot, callback, task. *)

RoundReads(r) ==
  /\ pc[r] = "idle" /\ status \in Candidates
  /\ seen' = [seen EXCEPT ![r] = Snapshot]
  /\ Goto(r, "read")
  /\ UNCHANGED <<kingdee, record, signals, lock, cur, history>>

\* An UPDATE by id whose WHERE does not repeat the snapshot's status.
Overwrite(r, s) == status' = IF seen[r].status = s THEN status ELSE s

MakeTask(r, fallback) ==
  /\ Goto(r, "queued")
  /\ seen' = [seen EXCEPT ![r] = [Nothing EXCEPT !.fallback = fallback]]
  /\ UNCHANGED cur

RoundFindsMismatch(r) ==
  /\ pc[r] = "read" /\ callback = "mismatch"
  /\ Overwrite(r, "callback_mismatch")
  /\ Rest(r)
  /\ UNCHANGED <<kingdee, xno, err, tries, stopped, signals, lock, history>>

\* A record with an outstock_no is taken up again only from the statuses that
\* say the document was left unfinished.
RoundFindsMatch(r) ==
  /\ pc[r] = "read" /\ callback = "match"
  /\ Overwrite(r, "callback_ok")
  /\ IF \/ seen[r].xno = NoDoc
        \/ seen[r].status \in {"callback_ok", "duplicate_outstock"}
     THEN MakeTask(r, FALSE)
     ELSE Rest(r)
  /\ UNCHANGED <<kingdee, xno, err, tries, stopped, signals, lock, history>>

FallsBack(r) ==
  /\ seen[r].status \in {"success", "timeout_alert"}
  /\ seen[r].fallback
  /\ seen[r].xno = NoDoc

RoundFallsBack(r) ==
  /\ pc[r] = "read" /\ callback = "none" /\ FallsBack(r)
  /\ MakeTask(r, TRUE)
  /\ UNCHANGED <<kingdee, record, signals, lock, history>>

\* Sixty minutes without a callback, and no receipt from SF either.
RoundTimesOut(r) ==
  /\ pc[r] = "read" /\ callback = "none" /\ ~FallsBack(r)
  /\ seen[r].status = "success"
  /\ status' = "timeout_alert"
  /\ Rest(r)
  /\ UNCHANGED <<kingdee, xno, err, tries, stopped, signals, lock, history>>

RoundWaits(r) ==
  /\ pc[r] = "read" /\ callback = "none" /\ ~FallsBack(r)
  /\ Rest(r)
  /\ UNCHANGED <<kingdee, record, signals, lock, history>>

-----------------------------------------------------------------------------
(* The creator, from the lock to the record's final status. *)

\* Mutant: the result of the try-lock is not looked at.
CreateLocksAnyway(r) ==
  /\ pc[r] = "queued"
  /\ lock' = r /\ Goto(r, "locked")
  /\ UNCHANGED <<seen, cur, kingdee, record, signals, history>>

CreateLocks(r) ==
  /\ pc[r] = "queued"
  /\ IF lock = Free
     THEN lock' = r /\ Goto(r, "locked") /\ UNCHANGED <<seen, cur>>
     ELSE Rest(r) /\ UNCHANGED lock
  /\ UNCHANGED <<kingdee, record, signals, history>>

\* Mutant: the status of the snapshot is good enough under the lock.
CreateTrustsRound(r) ==
  /\ pc[r] = "locked"
  /\ Goto(r, "cleared")
  /\ OnlyPc

CreateRechecks(r) ==
  /\ pc[r] = "locked"
  /\ IF status \in Creatable
     THEN Goto(r, "cleared") /\ UNCHANGED <<lock, seen, cur>>
     ELSE Exit(r)
  /\ UNCHANGED <<kingdee, record, signals, history>>

\* Mutant: the first of several documents is taken.
CreateQueriesFirst(r) ==
  /\ pc[r] = "cleared"
  /\ \/ /\ Live = {}
        /\ Goto(r, "empty") /\ UNCHANGED cur
     \/ \E d \in Live :
          /\ cur' = [cur EXCEPT ![r] = d]
          /\ Goto(r, CASE doc[d] = "A" -> "draft" [] doc[d] = "B" -> "submitted"
                       [] doc[d] = "C" -> "audited")
  /\ UNCHANGED <<kingdee, record, signals, lock, seen, history>>

\* What is in Kingdee already decides where to go on.
CreateQueries(r) ==
  /\ pc[r] = "cleared"
  /\ \E S \in Answers :
       /\ seen' = [seen EXCEPT ![r].short = S # Live]
       /\ \/ /\ S = {}
             /\ Goto(r, "empty") /\ UNCHANGED cur
          \/ \E d \in S :
               /\ cur' = [cur EXCEPT ![r] = d]
               /\ Goto(r, IF S # {d} THEN "duplicated"
                          ELSE CASE doc[d] = "A" -> "draft"
                                 [] doc[d] = "B" -> "submitted"
                                 [] doc[d] = "C" -> "audited")
  /\ UNCHANGED <<kingdee, record, signals, lock, history>>

\* More than one document: mark the record, leave the documents alone.
StopOnDuplicates(r) ==
  /\ pc[r] = "duplicated"
  /\ status' = "duplicate_outstock"
  /\ xno' = IF xno = NoDoc THEN cur[r] ELSE xno
  /\ err' = "other" /\ tries' = 0
  /\ Exit(r)
  /\ UNCHANGED <<kingdee, stopped, signals, history>>

\* Push down, and the answer that names the new document.
PushDoc(r, d) ==
  /\ pc[r] = "empty" /\ doc[d] = "unused"
  /\ doc' = [doc EXCEPT ![d] = "A"]
  /\ ours' = [ours EXCEPT ![d] = TRUE]
  /\ pushedBlind' = [pushedBlind EXCEPT ![d] = seen[r].short]
  /\ \/ cur' = [cur EXCEPT ![r] = d] /\ Goto(r, "draft")
     \/ UNCHANGED cur /\ Goto(r, "failing")
  /\ UNCHANGED <<passed, record, signals, lock, seen, auditedByUs, auditedBlind,
                 onTrust, audits>>

\* A Push refused with "already audited", with or without a number in the text.
PushRefused(r) ==
  /\ pc[r] = "empty"
  /\ \E n \in {d \in Docs : doc[d] = "C"} \cup {NoDoc} : cur' = [cur EXCEPT ![r] = n]
  /\ Goto(r, "already")
  /\ UNCHANGED <<kingdee, record, signals, lock, seen, history>>

\* Kingdee refuses what is submitted or audited already, in one of two texts;
\* an answer without a ResponseStatus passes for success.
Submit(r) ==
  LET d == cur[r] IN
  /\ pc[r] = "draft"
  /\ \/ /\ doc[d] = "A"
        /\ doc' = [doc EXCEPT ![d] = "B"]
        /\ Goto(r, "submitted") \/ Goto(r, "failing")
     \/ /\ \/ doc[d] \in {"B", "C"} /\ Goto(r, "refused")
           \/ doc[d] = "C" /\ Goto(r, "already")
           \/ Goto(r, "submitted")
        /\ UNCHANGED doc
  /\ UNCHANGED <<ours, passed, record, signals, lock, seen, cur, history>>

Audited(d, blind) ==
  /\ doc' = [doc EXCEPT ![d] = "C"]
  /\ passed' = [passed EXCEPT ![d] = TRUE]
  /\ auditedByUs' = [auditedByUs EXCEPT ![d] = TRUE]
  /\ auditedBlind' = [auditedBlind EXCEPT ![d] = blind]

NotAudited == UNCHANGED <<doc, passed, auditedByUs, auditedBlind>>

\* "Already audited" counts as success, and so does an answer without a
\* ResponseStatus; a GSP check may reject the document; from "refused" any
\* trouble ends in the first error.
Audit(r) ==
  LET d == cur[r] IN
  /\ pc[r] \in {"submitted", "refused"}
  /\ \/ /\ doc[d] = "B"
        /\ Audited(d, seen[r].short)
        /\ Goto(r, "audited") \/ Goto(r, "failing")
     \/ /\ \/ doc[d] = "B" /\ pc[r] = "submitted" /\ Goto(r, "failingGsp")
           \/ doc[d] = "C" /\ pc[r] = "submitted" /\ Goto(r, "already")
           \/ doc[d] = "C" /\ pc[r] = "refused" /\ Goto(r, "audited")
           \/ Goto(r, "trusted")
        /\ NotAudited
  /\ UNCHANGED <<ours, record, signals, lock, seen, cur, pushedBlind, onTrust, audits>>

\* Any other exception in the try block, the final write's included.
CreateRaises(r) ==
  /\ pc[r] \in {"cleared", "empty", "draft", "submitted", "refused", "audited",
                "trusted"}
  /\ Goto(r, "failing")
  /\ OnlyPc

\* Mutant: a submitted document counts as created.
WriteSubmitted(r) ==
  /\ pc[r] \in {"submitted", "audited", "already"}
  /\ status' = "outstock_created" /\ xno' = cur[r]
  /\ onTrust' = (cur[r] = NoDoc)
  /\ Exit(r)
  /\ UNCHANGED <<kingdee, err, tries, stopped, signals, auditedByUs, pushedBlind,
                 auditedBlind, audits>>

\* The old error message goes, unless the document is a new one. The call may
\* raise with the UPDATE committed, and so may the notice after it: inside the
\* try block that leads to the failure path.
WriteCreated(r) ==
  /\ pc[r] \in {"audited", "trusted", "already"}
  /\ status' = IF seen[r].fallback THEN "outstock_created_no_callback"
                                   ELSE "outstock_created"
  /\ xno' = cur[r]
  /\ onTrust' = (pc[r] = "trusted" \/ cur[r] = NoDoc)
  /\ \/ err' = "none" /\ tries' = 0
     \/ pc[r] # "already" /\ UNCHANGED <<err, tries>>
  /\ \/ Exit(r)
     \/ pc[r] # "already" /\ Goto(r, "doubting") /\ UNCHANGED <<lock, seen, cur>>
  /\ UNCHANGED <<kingdee, stopped, signals, auditedByUs, pushedBlind, auditedBlind,
                 audits>>

\* The new message replaces the old one, the retry's marker in it as well.
WriteFailed(r) ==
  /\ pc[r] \in {"failing", "failingGsp", "doubting"}
  /\ status' = "outstock_failed"
  /\ xno' = cur[r]
  /\ err' = IF pc[r] = "failingGsp" THEN "gsp" ELSE "other"
  /\ tries' = 0
  /\ audits' = 0
  /\ Exit(r)
  /\ UNCHANGED <<kingdee, stopped, signals, auditedByUs, pushedBlind, auditedBlind,
                 onTrust>>

RoundStep(r) ==
  \/ RoundReads(r) \/ RoundFindsMismatch(r) \/ RoundFindsMatch(r)
  \/ RoundFallsBack(r) \/ RoundTimesOut(r) \/ RoundWaits(r)
  \/ CreateLocks(r) \/ CreateRechecks(r) \/ CreateQueries(r) \/ StopOnDuplicates(r)
  \/ (\E d \in Docs : PushDoc(r, d)) \/ PushRefused(r)
  \/ Submit(r) \/ Audit(r) \/ CreateRaises(r) \/ WriteCreated(r) \/ WriteFailed(r)

-----------------------------------------------------------------------------
(* The delayed audit: at most MaxAttempts audits of a failed document.     *)

\* Mutant: no limit on the attempts.
DueForEver == status = "outstock_failed" /\ xno # NoDoc /\ ~stopped /\ err = "gsp"

\* retry_due, but for the backoff: the clock may have moved far enough or not.
Due ==
  /\ status = "outstock_failed"
  /\ xno # NoDoc
  /\ ~stopped
  /\ err = "gsp"
  /\ tries < MaxAttempts

RetryLocks(a) ==
  /\ pc[a] = "idle" /\ Due /\ lock = Free
  /\ lock' = a
  /\ Goto(a, "rLocked")
  /\ UNCHANGED <<kingdee, record, signals, seen, cur, history>>

RetryRereads(a) ==
  /\ pc[a] = "rLocked"
  /\ IF Due
     THEN /\ seen' = [seen EXCEPT ![a] = Snapshot]
          /\ Goto(a, "rDue")
          /\ UNCHANGED <<lock, cur>>
     ELSE Exit(a)
  /\ UNCHANGED <<kingdee, record, signals, history>>

\* Mutant: the attempt is put on record with its result only.
RetryClaimsLater(a) == pc[a] = "rDue" /\ Goto(a, "rClaimed") /\ OnlyPc

\* The attempt is on record before the audit it counts.
RetryClaims(a) ==
  /\ pc[a] = "rDue"
  /\ IF status = "outstock_failed" /\ ~stopped
     THEN /\ tries' = seen[a].tries + 1
          /\ err' = "gsp"
          /\ Goto(a, "rClaimed")
          /\ UNCHANGED <<lock, seen, cur>>
     ELSE Exit(a) /\ UNCHANGED <<err, tries>>
  /\ UNCHANGED <<kingdee, status, xno, stopped, signals, history>>

\* _document: exactly one, and the one the record names; it asks for 501 rows,
\* and an answer that is no list has none (RetryRaises).
RetryFindsDocument(a) ==
  /\ pc[a] = "rClaimed"
  /\ Goto(a, IF Live # {seen[a].xno} THEN "rFailing"
             ELSE CASE doc[seen[a].xno] = "B" -> "rAudit"
                    [] doc[seen[a].xno] = "C" -> "rVerified"
                    [] OTHER -> "rFailing")
  /\ OnlyPc

\* Whether an answer without a ResponseStatus did anything, RetryVerifies sees.
RetryAudits(a) ==
  LET d == seen[a].xno IN
  /\ pc[a] = "rAudit"
  /\ audits' = audits + 1
  /\ Goto(a, "rAudited") \/ Goto(a, "rFailing")
  /\ (doc[d] = "B" /\ Audited(d, FALSE)) \/ NotAudited
  /\ UNCHANGED <<ours, record, signals, lock, seen, cur, pushedBlind, onTrust>>

RetryVerifies(a) ==
  /\ pc[a] = "rAudited"
  /\ Goto(a, IF Live = {seen[a].xno} /\ doc[seen[a].xno] = "C"
             THEN "rVerified" ELSE "rFailing")
  /\ OnlyPc

RetryRaises(a) ==
  /\ pc[a] \in {"rClaimed", "rAudited", "rVerified"}
  /\ Goto(a, "rFailing")
  /\ OnlyPc

RetryResolves(a) ==
  /\ pc[a] = "rVerified"
  /\ status' = IF status = "outstock_failed" /\ ~stopped THEN "auto_resolved" ELSE status
  /\ Exit(a)
  /\ UNCHANGED <<kingdee, xno, err, tries, stopped, signals, history>>

RetryGivesUp(a) ==
  /\ pc[a] = "rFailing"
  /\ IF status = "outstock_failed"
     THEN err' = "gsp" /\ tries' = seen[a].tries + 1
     ELSE UNCHANGED <<err, tries>>
  /\ Exit(a)
  /\ UNCHANGED <<kingdee, status, xno, stopped, signals, history>>

RetryStep(a) ==
  \/ RetryLocks(a) \/ RetryRereads(a) \/ RetryClaims(a) \/ RetryFindsDocument(a)
  \/ RetryAudits(a) \/ RetryVerifies(a) \/ RetryRaises(a) \/ RetryResolves(a)
  \/ RetryGivesUp(a)

-----------------------------------------------------------------------------
(* A repeated push and the Kingdee recheck: no lock, a snapshot, a write.  *)

HumanReads(h) ==
  /\ pc[h] = "idle" /\ status \in Retryable
  /\ seen' = [seen EXCEPT ![h] = Snapshot]
  /\ Goto(h, "repushing")
  /\ UNCHANGED <<kingdee, record, signals, lock, cur, history>>

\* cancelled_at and unaudit_detected_at stay as they are.
HumanWrites(h) ==
  LET unfinished == /\ seen[h].xno # NoDoc
                    /\ seen[h].status \in {"outstock_failed", "callback_ok",
                                           "duplicate_outstock"}
  IN
  /\ pc[h] = "repushing"
  /\ status' \in {"failed", IF unfinished THEN "callback_ok" ELSE "success"}
  /\ err' = "none" /\ tries' = 0 /\ audits' = 0
  /\ Rest(h)
  /\ UNCHANGED <<kingdee, xno, stopped, signals, lock, auditedByUs, pushedBlind,
                 auditedBlind, onTrust>>

\* outstock_created_no_callback is left to a human (the docstring).
RecheckReads(k) ==
  /\ pc[k] = "idle"
  /\ status \in Abnormal \ {"outstock_created_no_callback"}
  /\ Goto(k, "rechecking")
  /\ OnlyPc

\* Mutant: a document is enough, audited or not.
RecheckAnyDocument(k) ==
  /\ pc[k] = "rechecking"
  /\ \E d \in Live : Live = {d} /\ cur' = [cur EXCEPT ![k] = d]
  /\ Goto(k, "resolving")
  /\ UNCHANGED <<kingdee, record, signals, lock, seen, history>>

RecheckQueries(k) ==
  /\ pc[k] = "rechecking"
  /\ \E S \in Answers :
       \/ /\ \E d \in S : /\ S = {d} /\ doc[d] = "C"
                          /\ cur' = [cur EXCEPT ![k] = d]
          /\ Goto(k, "resolving")
          /\ UNCHANGED seen
       \/ /\ ~ \E d \in S : S = {d} /\ doc[d] = "C"
          /\ Rest(k)
  /\ UNCHANGED <<kingdee, record, signals, lock, history>>

RecheckWrites(k) ==
  /\ pc[k] = "resolving"
  /\ status' = "auto_resolved"
  /\ xno' = IF xno = NoDoc THEN cur[k] ELSE xno
  /\ Rest(k)
  /\ UNCHANGED <<kingdee, err, tries, stopped, signals, lock, history>>

\* The container is killed, the task cancelled, or an exception leaves the
\* handler: the record stays as it is, the connection goes and the lock with it.
Kill(a) ==
  /\ pc[a] # "idle" /\ kills < MaxKills
  /\ kills' = kills + 1
  /\ Exit(a)
  /\ UNCHANGED <<kingdee, record, callback, shipped, history>>

-----------------------------------------------------------------------------
Outside ==
  \/ \E d \in Docs : UserPushes(d) \/ UserAudits(d) \/ UserDeletes(d)
  \/ CallbackArrives \/ WmsSaysShipped \/ CancelRecord \/ MarkResolved

Next ==
  \/ Outside
  \/ \E r \in Rounds : RoundStep(r)
  \/ \E a \in Retriers : RetryStep(a)
  \/ \E h \in Humans : HumanReads(h) \/ HumanWrites(h)
  \/ \E k \in Recheckers : RecheckReads(k) \/ RecheckQueries(k) \/ RecheckWrites(k)
  \/ \E a \in Actors : Kill(a)

Spec == Init /\ [][Next]_vars

\* The jobs run every minute and every await of them ends; the order lock is
\* found free at some of the minutes at which it is tried.
FairSpec ==
  /\ Spec
  /\ \A r \in Rounds : WF_vars(RoundStep(r)) /\ SF_vars(CreateLocks(r) /\ lock = Free)
  /\ \A a \in Retriers : WF_vars(RetryStep(a))

-----------------------------------------------------------------------------
TypeOK ==
  /\ doc \in [Docs -> DocStates]
  /\ ours \in [Docs -> BOOLEAN]
  /\ passed \in [Docs -> BOOLEAN]
  /\ status \in Statuses
  /\ xno \in Docs \cup {NoDoc}
  /\ err \in Errors
  /\ tries \in 0..MaxAttempts
  /\ stopped \in BOOLEAN
  /\ callback \in {"none", "match", "mismatch"}
  /\ shipped \in BOOLEAN
  /\ kills \in 0..MaxKills
  /\ lock \in Rounds \cup Retriers \cup {Free}
  /\ pc \in [Actors -> Pcs]
  /\ seen \in [Actors -> Snapshots]
  /\ cur \in [Actors -> Docs \cup {NoDoc}]
  /\ auditedByUs \in [Docs -> BOOLEAN]
  /\ pushedBlind \in [Docs -> BOOLEAN]
  /\ auditedBlind \in [Docs -> BOOLEAN]
  /\ onTrust \in BOOLEAN
  /\ audits \in Nat

\* Whatever rounds overlap, are killed, or lose the answer of a Push: of two
\* standing outstock documents that this service pushed for one notice, one was
\* pushed after an answer of Kingdee that left documents out (the lock in
\* _create_kingdee_outstock, after 54 notices were pushed twice).
OneServiceDoc ==
  \A d, e \in Docs :
    ours[d] /\ ours[e] /\ {d, e} \subseteq Live /\ d # e => pushedBlind[d] \/ pushedBlind[e]

\* The goods are taken off stock once: of two standing documents that this
\* service audited, its own or the users', it audited one after such an answer
\* ("never choose among duplicates").
NeverAuditsTwo ==
  \A d, e \in Docs :
    auditedByUs[d] /\ auditedByUs[e] /\ {d, e} \subseteq Live /\ d # e
      => auditedBlind[d] \/ auditedBlind[e]

\* A record that says the document was created names one that has been audited,
\* also when the text of an "already audited" answer is all the creator knows;
\* except where the text names no document, or Kingdee answered an audit
\* without saying what came of it.
CreatedIsFounded == status \in Created /\ ~onTrust => xno # NoDoc /\ passed[xno]

\* Once a record says created, no overlapping round, late failure or retry gives
\* it another number, takes its number away, or turns it into a duplicate one;
\* only the creator that wrote it turns it into a failed one, when its own final
\* write, or the notice after it, has raised (the reread under the lock in
\* _create_kingdee_outstock, and the except around the whole of it).
CreatedKeepsItsNumber ==
  [][(status \in Created) =>
       /\ (xno # NoDoc) => (xno' = xno)
       /\ status' # "duplicate_outstock"
       /\ (status' = "outstock_failed")
            => \E r \in Rounds : pc[r] = "doubting" /\ cur[r] = xno]_vars

\* What the bookkeeper sees: DocumentOnce, with the lock, the snapshots and the
\* retry's bookkeeping hidden.
Book == INSTANCE DocumentOnce WITH audited <- auditedByUs, number <- xno

\* Every step of every actor, killed, overtaken or without an answer, is a step
\* of that contract or leaves the documents and the record's status alone.
ImplementsDocumentOnce == Book!Spec

\* A record resolved by the retry or by the recheck had an audited document.
ResolvedWasAudited == status = "auto_resolved" => \E d \in Docs : passed[d]

\* Since the creator failed the retry has asked Kingdee for no more audits than
\* the failed record tells, and never for more than MaxAttempts, over crashes
\* ("crashes/restarts retain attempt and backoff") and repushes in between.
RetriesBounded ==
  /\ audits <= MaxAttempts
  /\ status = "outstock_failed" => audits <= tries

\* An order whose last callback matches gets an answer from the creator.
Pending == {"success", "timeout_alert", "callback_ok", "callback_mismatch"}
MatchedOrderSettles ==
  <>[](callback = "match") => (status \in Pending ~> status \notin Pending)

\* No path out of creator or retry keeps the lock.
LockReleased == lock # Free ~> lock = Free
=============================================================================
