------------------------------- MODULE SFPool -------------------------------
(***************************************************************************)
(* The asyncpg pool of db/pool.py: ten connections, and acquire() waits    *)
(* without a time limit. Most borrowers hold one connection for a few      *)
(* statements; outbound_gate and _retry_one hold theirs during the calls   *)
(* to SF and Kingdee (Single). Two ask for a second one while they hold    *)
(* their order lock's connection (Nested): the round that creates          *)
(* outstock documents, one at a time (scheduler.py), and the interception  *)
(* worker with its journal.                                                *)
(***************************************************************************)
EXTENDS Naturals, FiniteSets

CONSTANTS
  Conns,         \* the connections: max_size
  Nested, Single,
  NoOne,
  MaxInner       \* bound: second borrowings of one nested task

Borrowers == Nested \cup Single

\* Of ten connections two are for tasks that nest.
ASSUME PoolAssumption ==
  /\ IsFiniteSet(Conns) /\ IsFiniteSet(Nested)
  /\ Cardinality(Nested) < Cardinality(Conns)
  /\ Nested \cap Single = {} /\ NoOne \notin Borrowers
  /\ MaxInner \in Nat

VARIABLES
  lent,    \* [Conns -> who has it]
  phase,   \* [Borrowers -> how far the task is]
  inner    \* [Borrowers -> second borrowings so far]

poolVars == <<lent, phase, inner>>

Phases == {"idle", "asks", "holds", "asksSecond", "holdsSecond"}

Free(c) == lent[c] = NoOne

PoolInit ==
  /\ lent = [c \in Conns |-> NoOne]
  /\ phase = [b \in Borrowers |-> "idle"]
  /\ inner = [b \in Borrowers |-> 0]

MovesTo(b, p) == phase' = [phase EXCEPT ![b] = p]

\* The connections are alike; any one that is free will do.
Lends(b) ==
  /\ \E c \in Conns : Free(c)
  /\ lent' = [lent EXCEPT ![CHOOSE c \in Conns : Free(c)] = b]

Asks(b) ==
  /\ phase[b] = "idle" /\ MovesTo(b, "asks")
  /\ UNCHANGED <<lent, inner>>

\* Whoever comes first after a connection is back: a newcomer may be ahead of
\* a task that was waiting.
Gets(b) ==
  /\ phase[b] = "asks" /\ Lends(b) /\ MovesTo(b, "holds")
  /\ UNCHANGED inner

\* Mutant: everybody who holds a connection may ask for another one.
AnyoneAsksSecond(b) ==
  /\ phase[b] = "holds" /\ inner[b] < MaxInner
  /\ MovesTo(b, "asksSecond") /\ inner' = [inner EXCEPT ![b] = @ + 1]
  /\ UNCHANGED lent

\* A row is written, or the journal, while the lock's transaction is open.
AsksSecond(b) ==
  /\ b \in Nested
  /\ phase[b] = "holds" /\ inner[b] < MaxInner
  /\ MovesTo(b, "asksSecond") /\ inner' = [inner EXCEPT ![b] = @ + 1]
  /\ UNCHANGED lent

GetsSecond(b) ==
  /\ phase[b] = "asksSecond" /\ Lends(b) /\ MovesTo(b, "holdsSecond")
  /\ UNCHANGED inner

ReturnsSecond(b) ==
  /\ phase[b] = "holdsSecond"
  /\ lent' = [lent EXCEPT ![CHOOSE c \in Conns : lent[c] = b] = NoOne]
  /\ MovesTo(b, "holds")
  /\ UNCHANGED inner

\* Mutant: an exception leaves with the connection.
LeavesIt(b) ==
  /\ phase[b] = "holds" /\ MovesTo(b, "idle")
  /\ inner' = [inner EXCEPT ![b] = 0]
  /\ UNCHANGED lent

\* The task is done, or fails: async with gives the connection back.
Returns(b) ==
  /\ phase[b] = "holds" /\ MovesTo(b, "idle")
  /\ lent' = [c \in Conns |-> IF lent[c] = b THEN NoOne ELSE lent[c]]
  /\ inner' = [inner EXCEPT ![b] = 0]

PoolStep(b) ==
  \/ Asks(b) \/ Gets(b) \/ AsksSecond(b) \/ GetsSecond(b)
  \/ ReturnsSecond(b) \/ Returns(b)

PoolNext == \E b \in Borrowers : PoolStep(b)

PoolSpec == PoolInit /\ [][PoolNext]_poolVars

-----------------------------------------------------------------------------
\* A connection that is lent is with a task that is under way.
PoolTypeOK ==
  /\ lent \in [Conns -> Borrowers \cup {NoOne}]
  /\ phase \in [Borrowers -> Phases]
  /\ inner \in [Borrowers -> 0..MaxInner]
  /\ \A c \in Conns : ~Free(c) => phase[lent[c]] \notin {"idle", "asks"}

\* The connections are never all with tasks that wait for one more (comment in
\* outbound_gate: "Never borrow a second connection").
NoStandstill ==
  (\A c \in Conns : ~Free(c)) => \E c \in Conns : phase[lent[c]] # "asksSecond"
=============================================================================
