----------------------------- MODULE SFResources -----------------------------
(***************************************************************************)
(* What the tasks of the process share: the connection pool (SFPool) and   *)
(* the Kingdee session (SFKingdeeSession). A task that both borrows        *)
(* connections and calls Kingdee keeps its connection during the call,     *)
(* like _create_kingdee_outstock, _retry_one and the interception worker.  *)
(***************************************************************************)
EXTENDS SFPool, SFKingdeeSession

vars == <<poolVars, sessionVars>>

Init == PoolInit /\ SessionInit

\* A task awaits one thing at a time.
Calling(b) == b \in Clients /\ call[b].pc # "idle"
MayCall(c) == c \in Borrowers => phase[c] = "holds"

Borrows(b) == ~Calling(b) /\ PoolStep(b) /\ UNCHANGED sessionVars

Starts(c) ==
  /\ MayCall(c) /\ \E kind \in {"read", "write"} : Begins(c, kind)
  /\ UNCHANGED poolVars

Calls(c) == CallStep(c) /\ UNCHANGED poolVars

SessionsFade == (\E s \in Sessions : Ages(s) \/ Dies(s)) /\ UNCHANGED poolVars

Next ==
  \/ \E b \in Borrowers : Borrows(b)
  \/ \E c \in Clients : Starts(c) \/ Calls(c)
  \/ SessionsFade

Spec == Init /\ [][Next]_vars

\* Requests and statements end (time limits of 60 s for both). Who waits for a
\* connection or for the login lock is woken in turn, and would have to be
\* overtaken each time not to get it. A task makes finitely many calls.
Fairness ==
  /\ \A b \in Borrowers :
       SF_vars(Borrows(b) /\ (Gets(b) \/ GetsSecond(b) \/ ReturnsSecond(b) \/ Returns(b)))
  /\ \A c \in Clients : SF_vars(Calls(c))

FairSpec == Spec /\ Fairness

-----------------------------------------------------------------------------
\* The types of both resources: a connection that is lent is with a task that
\* is under way, the login lock is held by a login that is under way.
TypeOK == PoolTypeOK /\ SessionTypeOK

\* Every task that asks for a connection finishes and gives it back, though it
\* may wait for a second connection, for a login and for Kingdee meanwhile.
TasksFinish == \A b \in Borrowers : phase[b] # "idle" ~> phase[b] = "idle"
=============================================================================
