------------------------------ MODULE OrderLife ------------------------------
(***************************************************************************)
(* What a record of ads_sf_push_record promises to somebody who reads only *)
(* its status: how it follows the order in the warehouse and the callbacks *)
(* about it. The record is never written together with either; it is       *)
(* written from what was true of them, and it may lag behind, but not say  *)
(* what was not so. When it says cancelled, that is of an order that was;  *)
(* the number may have been given to another one meanwhile. SFPushRecord   *)
(* implements this specification. What becomes of a record whose outstock  *)
(* document cannot be finished is in SFOutstock.                           *)
(***************************************************************************)
EXTENDS Naturals

VARIABLES
  order,    \* in the warehouse, under the record's number
  placed,   \* how many there have been, this one the last
  callback, \* the latest one, against the pushed quantity
  status,   \* of the record
  told      \* which order it calls cancelled, 0 if it says something else

vars == <<order, placed, callback, status, told>>

Cancelled == {"cancelled", "cancelled_by_unaudit", "cancelled_by_deletion"}
CalledBack == {"callback_ok", "callback_mismatch", "outstock_created"}

Init ==
  /\ order = "absent" /\ placed = 0 /\ callback = "none"
  /\ status = "none" /\ told = 0

-----------------------------------------------------------------------------
\* An order ends in one of two ways, and is never taken back from either; after
\* a cancelled one, the number may be used again.
Place ==
  /\ order \in {"absent", "cancelled"}
  /\ order' = "open" /\ placed' = placed + 1
  /\ UNCHANGED <<callback, status, told>>
Close == order = "open" /\ order' = "closed" /\ UNCHANGED <<placed, callback, status, told>>
CallOff == order = "open" /\ order' = "cancelled" /\ UNCHANGED <<placed, callback, status, told>>

CallBack ==
  /\ order = "closed" /\ callback' \in {"match", "mismatch"}
  /\ UNCHANGED <<order, placed, status, told>>

-----------------------------------------------------------------------------
Writes(s) == status' = s /\ told' = 0 /\ UNCHANGED <<order, placed, callback>>

\* A row begins with a push, and any push may say that it failed.
Fail == Writes("failed")
Succeed == order # "absent" /\ Writes("success")

\* The rest is said of rows that are there.
Alert == status # "none" /\ order # "absent" /\ callback = "none" /\ Writes("timeout_alert")
Accept == status # "none" /\ callback = "match" /\ Writes("callback_ok")
Object == status # "none" /\ callback = "mismatch" /\ Writes("callback_mismatch")

IsGone(g) == g \in 1..placed /\ (g = placed => order = "cancelled")
Recall(s) ==
  /\ status # "none"
  /\ IsGone(told') /\ status' = s
  /\ UNCHANGED <<order, placed, callback>>
GiveUpRecall == status # "none" /\ Writes("unaudit_cancel_failed")

\* The outstock document follows goods that have left.
Create ==
  /\ status # "none" /\ order = "closed" /\ callback # "none"
  /\ Writes("outstock_created")

Next ==
  \/ Place \/ Close \/ CallOff \/ CallBack
  \/ Fail \/ Succeed \/ Alert \/ Accept \/ Object \/ Create \/ GiveUpRecall
  \/ \E s \in Cancelled : Recall(s)

Spec == Init /\ [][Next]_vars
=============================================================================
