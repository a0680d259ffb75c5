----------------------------- MODULE CancelOnce -----------------------------
(***************************************************************************)
(* What the operation journal promises to somebody who reads only the      *)
(* sf_api_operation row of a bill: a CANCEL is executed at most once, the  *)
(* row never denies a request that may have gone out, BLOCKED is final and *)
(* SUCCEEDED is at most taken back, never earned by a row that was BLOCKED.*)
(* SFInterception implements this specification.                           *)
(***************************************************************************)
EXTENDS Naturals

CONSTANT Bills

VARIABLES
  status,   \* [bill -> status of the CANCEL row]
  journal,  \* [bill -> its request_sent]
  out       \* [bill -> cancel requests handed to the network]

vars == <<status, journal, out>>

Init ==
  /\ status = [b \in Bills |-> "ABSENT"]
  /\ journal = [b \in Bills |-> "NO"]
  /\ out = [b \in Bills |-> 0]

Queue(b) ==
  /\ status[b] = "ABSENT"
  /\ status' = [status EXCEPT ![b] = "QUEUED"]
  /\ UNCHANGED <<journal, out>>

Claim(b) ==
  /\ status[b] = "QUEUED"
  /\ status' = [status EXCEPT ![b] = "PROCESSING"]
  /\ UNCHANGED <<journal, out>>

\* Once claimed an operation is settled by its executor or, when that one
\* seems to be gone, as UNKNOWN; an executor that was only slow may go on.
Open(b) == status[b] \in {"PROCESSING", "UNKNOWN"}

Announce(b) ==
  /\ Open(b) /\ out[b] = 0
  /\ journal' = [journal EXCEPT ![b] = "UNKNOWN"]
  /\ UNCHANGED <<status, out>>

Send(b) ==
  /\ Open(b) /\ out[b] = 0 /\ journal[b] = "UNKNOWN"
  /\ out' = [out EXCEPT ![b] = 1]
  /\ UNCHANGED <<status, journal>>

Acknowledge(b) ==
  /\ Open(b) /\ out[b] = 1
  /\ journal' = [journal EXCEPT ![b] = "YES"]
  /\ UNCHANGED <<status, out>>

\* The journal may be corrected, but only in keeping with what was sent.
Settle(b, verdict, s) ==
  /\ Open(b)
  /\ out[b] = 1 => s # "NO" /\ verdict # "BLOCKED"
  /\ out[b] = 0 => s # "YES"
  /\ status' = [status EXCEPT ![b] = verdict]
  /\ journal' = [journal EXCEPT ![b] = s]
  /\ UNCHANGED out

\* An executor that was not told of its own write of SUCCEEDED says less: UNKNOWN
\* if a request went out, BLOCKED if the order had been cancelled by others.
Reconsider(b) ==
  /\ status[b] = "SUCCEEDED"
  /\ status' = [status EXCEPT ![b] = IF out[b] = 0 THEN "BLOCKED" ELSE "UNKNOWN"]
  /\ UNCHANGED <<journal, out>>

\* The sweep settles all the operations that seem to be abandoned at once.
GiveUp(S) ==
  /\ \A b \in S : status[b] = "PROCESSING"
  /\ status' = [b \in Bills |-> IF b \in S THEN "UNKNOWN" ELSE status[b]]
  /\ UNCHANGED <<journal, out>>

Refuse(b) ==
  /\ status[b] = "QUEUED" /\ out[b] = 0
  /\ status' = [status EXCEPT ![b] = "BLOCKED"]
  /\ UNCHANGED <<journal, out>>

Next ==
  \/ \E b \in Bills :
       \/ Queue(b) \/ Claim(b) \/ Announce(b) \/ Send(b) \/ Acknowledge(b) \/ Refuse(b)
       \/ Reconsider(b)
       \/ \E verdict \in {"SUCCEEDED", "BLOCKED", "UNKNOWN"},
             s \in {"NO", "UNKNOWN", "YES"} : Settle(b, verdict, s)
  \/ \E S \in SUBSET Bills : GiveUp(S)

Spec == Init /\ [][Next]_vars
=============================================================================
