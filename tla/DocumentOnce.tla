---------------------------- MODULE DocumentOnce ----------------------------
(***************************************************************************)
(* What the outstock creation of a notice promises to the bookkeeper, who  *)
(* sees its documents in Kingdee and the status and number of its push     *)
(* record: goods are taken off stock once by this service, whatever the    *)
(* users do with documents of their own, and the record names what it      *)
(* found. Two things it cannot promise, and owns up to: what it does to a  *)
(* document without having been told of all of them is marked so, and so   *)
(* is a creation that nobody verified. The statement has no lock, no       *)
(* snapshots, no crashes and no lost answers.                              *)
(***************************************************************************)
CONSTANTS Docs, NoDoc

VARIABLES
  doc,     \* [Docs -> status of the document in Kingdee]
  ours,    \* [Docs -> pushed down by this service]
  audited, \* [Docs -> audited by this service]
  passed,  \* [Docs -> audited by anybody]
  pushedBlind,  \* [Docs -> pushed down without having been told of all others]
  auditedBlind, \* [Docs -> audited without having been told of all others]
  status,  \* of the push record
  number,  \* the document it names
  onTrust  \* nobody verified the creation it speaks of

kingdee == <<doc, ours, audited, passed, pushedBlind, auditedBlind>>
record == <<status, number, onTrust>>
vars == <<kingdee, record>>

Standing == {d \in Docs : doc[d] \in {"A", "B", "C"}}

Created == {"outstock_created", "outstock_created_no_callback"}

\* Statuses that other jobs and users write, without a look at the documents.
Followed == {"success", "timeout_alert", "callback_ok", "callback_mismatch",
             "cancelled", "failed", "manual_resolved"}

Init ==
  /\ doc = [d \in Docs |-> "unused"]
  /\ ours = [d \in Docs |-> FALSE]
  /\ audited = [d \in Docs |-> FALSE]
  /\ passed = [d \in Docs |-> FALSE]
  /\ pushedBlind = [d \in Docs |-> FALSE]
  /\ auditedBlind = [d \in Docs |-> FALSE]
  /\ status = "success" /\ number = NoDoc /\ onTrust = FALSE

-----------------------------------------------------------------------------
(* Documents. *)

Becomes(d, s) == doc' = [doc EXCEPT ![d] = s]

UserPushes(d) ==
  /\ doc[d] = "unused" /\ Becomes(d, "A")
  /\ UNCHANGED <<ours, audited, passed, pushedBlind, auditedBlind, record>>

UserAudits(d) ==
  /\ doc[d] \in {"A", "B"} /\ Becomes(d, "C")
  /\ passed' = [passed EXCEPT ![d] = TRUE]
  /\ UNCHANGED <<ours, audited, pushedBlind, auditedBlind, record>>

UserDeletes(d) ==
  /\ d \in Standing /\ Becomes(d, "deleted")
  /\ UNCHANGED <<ours, audited, passed, pushedBlind, auditedBlind, record>>

\* The service adds a document when none that it pushed or audited stands,
\* or does so blindly ...
Push(d, blind) ==
  /\ doc[d] = "unused" /\ Becomes(d, "A")
  /\ blind \/ \A e \in Standing : ~ours[e] /\ ~audited[e]
  /\ ours' = [ours EXCEPT ![d] = TRUE]
  /\ pushedBlind' = [pushedBlind EXCEPT ![d] = blind]
  /\ UNCHANGED <<audited, passed, auditedBlind, record>>

Submit(d) ==
  /\ doc[d] = "A" /\ Becomes(d, "B")
  /\ UNCHANGED <<ours, audited, passed, pushedBlind, auditedBlind, record>>

\* ... and audits one when no other that it audited stands, or blindly.
Audit(d, blind) ==
  /\ doc[d] = "B" /\ Becomes(d, "C")
  /\ blind \/ \A e \in Standing : audited[e] => e = d
  /\ audited' = [audited EXCEPT ![d] = TRUE]
  /\ passed' = [passed EXCEPT ![d] = TRUE]
  /\ auditedBlind' = [auditedBlind EXCEPT ![d] = blind]
  /\ UNCHANGED <<ours, pushedBlind, record>>

-----------------------------------------------------------------------------
(* The record. A number is given and changed by the creator alone, and by  *)
(* nobody once the record says created; the others add it where there is   *)
(* none.                                                                   *)

\* With the number of an audited document, or on trust.
Creates(n, s, trust) ==
  /\ status \notin Created
  /\ trust \/ (n # NoDoc /\ passed[n])
  /\ status' = s /\ number' = n /\ onTrust' = trust
  /\ UNCHANGED kingdee

Fails(n) ==
  /\ status \notin Created
  /\ status' = "outstock_failed" /\ number' = n
  /\ UNCHANGED <<kingdee, onTrust>>

\* The creator does not know what became of its last word.
TakesBack ==
  /\ status \in Created /\ number # NoDoc
  /\ status' = "outstock_failed"
  /\ UNCHANGED <<kingdee, number, onTrust>>

Adds(d) == number' = IF number = NoDoc THEN d ELSE number

StopsOnDuplicates(d) ==
  /\ status \notin Created
  /\ status' = "duplicate_outstock" /\ Adds(d)
  /\ UNCHANGED <<kingdee, onTrust>>

Resolves(d) ==
  /\ passed[d]
  /\ status' = "auto_resolved" /\ (Adds(d) \/ UNCHANGED number)
  /\ UNCHANGED <<kingdee, onTrust>>

Follows(s) == status' = s /\ UNCHANGED <<kingdee, number, onTrust>>

Next ==
  \/ \E d \in Docs :
       \/ UserPushes(d) \/ UserAudits(d) \/ UserDeletes(d)
       \/ Submit(d)
       \/ \E blind \in BOOLEAN : Push(d, blind) \/ Audit(d, blind)
       \/ StopsOnDuplicates(d) \/ Resolves(d)
  \/ \E n \in Docs \cup {NoDoc} :
       \/ Fails(n)
       \/ \E s \in Created, trust \in BOOLEAN : Creates(n, s, trust)
  \/ TakesBack
  \/ \E s \in Followed : Follows(s)

Spec == Init /\ [][Next]_vars
=============================================================================
