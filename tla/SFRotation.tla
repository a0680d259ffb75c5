----------------------------- MODULE SFRotation -----------------------------
(***************************************************************************)
(* Which records a job of the scheduler takes up in a round when there are *)
(* more of them than a round has time for. Four jobs choose by the oldest  *)
(* turn, each with a clock and a limit of its own:                         *)
(*                                                                         *)
(*   "poll"       sf_dashboard.py  sync_wms_status_batch, with the queue   *)
(*                sf_wms_polling.py WmsPollQueue: last attempt in memory,  *)
(*                before that created_at; 40 records that are due          *)
(*   "outstock"   sf_automation.py _run_outstock_tasks: last attempt in    *)
(*                memory, before that 0; a time budget after the first     *)
(*   "audit"      sf_audit_retry.py retry_failed_outstock_audits:          *)
(*                updated_at; three that are due, and a time budget        *)
(*   "logistics"  sf_automation.py _sync_recent_outstock_logistics:        *)
(*                updated_at; 30 records                                   *)
(*                                                                         *)
(* Rounds of one job never overlap (max_instances, _wms_poll_lock, the     *)
(* callback lock). Times are abstracted to the order of the sort keys: who *)
(* comes before whom, as a function from records to sets of records.       *)
(***************************************************************************)
EXTENDS Naturals, FiniteSets

CONSTANTS
  Newest,     \* the records are 1..Newest, in the order of created_at
  Slots,      \* records a round of poll, audit or logistics has room for
  Window,     \* rows the query of the delayed audit returns
  MaxStuck,   \* bound: records whose turns leave their key as it is
  MaxEvents   \* bound: arrivals, other writers, restarts, failed turns

Records == 1..Newest
Jobs == {"poll", "outstock", "audit", "logistics"}

ASSUME RotationAssumption ==
  /\ {Newest, Slots, Window, MaxStuck, MaxEvents} \subseteq Nat
  /\ 0 < Slots /\ Slots <= Window

VARIABLES
  job,        \* the job this is about
  candidates, \* the records its query selects
  older,      \* [r -> candidates whose sort key is before that of r]
  ready,      \* candidates that are due: not cooling down, not backing off
  stuck,      \* records whose turn does not get as far as the write of the key
  batch,      \* records the round has still to visit
  ahead,      \* [r -> those of the batch that the round visits before r]
  worked,     \* the round has made a turn that takes time
  events,     \* the bound's counter
  passed,     \* history: [r -> records that had a turn while r waited for one]
  overtaken   \* history: some record had two turns while another waited

round == <<batch, ahead, worked>>
vars == <<job, candidates, older, ready, stuck, round, events, passed, overtaken>>

-----------------------------------------------------------------------------
InMemory == job \in {"poll", "outstock"}
CoolsDown == job \in {"poll", "audit"}

\* Records that are owed a turn. A stuck one gets its turns out of order.
Waiting == ready \ stuck

Orders == [Records -> SUBSET Records]
NoOrder == [r \in Records |-> {}]
ByCreation(S) == [r \in Records |-> {p \in S : r \in S /\ p < r}]

\* The order without r.
Drop(order, r) == [p \in Records |-> IF p = r THEN {} ELSE order[p] \ {r}]

\* The candidates' order with r at its end.
ToEnd(r) ==
  [p \in Records |-> IF p = r THEN candidates \ {r} ELSE older[p] \ {r}]

\* Rows are read oldest first, then those that are not due are dropped. Only
\* the query of the delayed audit is cut before that.
Considered ==
  {r \in candidates : job = "audit" => Cardinality(older[r]) < Window}

\* Mutant: the newest come first.
NewestFirst(due) ==
  {r \in due : job # "outstock" => Cardinality({p \in due : r \in older[p]}) < Slots}

Chosen(due) ==
  {r \in due : job # "outstock" => Cardinality(older[r] \cap due) < Slots}

\* A record's own turns count from the last change of its place on.
Forget(r) == passed' = Drop(passed, r)

Init ==
  /\ job \in Jobs
  /\ candidates \in SUBSET Records
  /\ older = ByCreation(candidates)
  /\ ready = candidates
  /\ stuck \in {S \in SUBSET Records : Cardinality(S) <= MaxStuck}
  /\ InMemory => stuck = {}
  /\ batch = {} /\ ahead = NoOrder /\ worked = FALSE
  /\ events = 0
  /\ passed = NoOrder /\ overtaken = FALSE

Event == events < MaxEvents /\ events' = events + 1

-----------------------------------------------------------------------------
(* Other jobs, users, the clock. *)

\* A record becomes a candidate. Keys in memory start from created_at, or from
\* 0, which may be before those of all the others; updated_at has just been
\* written, and a failed audit backs off from then on.
Joins(r) ==
  /\ r \notin candidates /\ Event
  /\ candidates' = candidates \cup {r}
  /\ \E before \in SUBSET candidates :
       /\ \A p \in before : older[p] \subseteq before
       /\ ~InMemory => before = candidates
       /\ older' = [p \in Records |->
            IF p = r THEN before
            ELSE IF p \in candidates \ before THEN older[p] \cup {r} ELSE older[p]]
  /\ ready' = IF job = "audit" THEN ready ELSE ready \cup {r}
  /\ Forget(r)
  /\ UNCHANGED <<job, stuck, round, overtaken>>

\* Mutant: a record that is no candidate any more stays among the due ones.
LeavesDue(r) ==
  /\ r \in candidates
  /\ candidates' = candidates \ {r}
  /\ older' = Drop(older, r)
  /\ Forget(r)
  /\ UNCHANGED <<job, ready, stuck, round, events, overtaken>>

\* It is done, or cancelled, or too old; its memory is pruned by the next round.
Leaves(r) ==
  /\ r \in candidates
  /\ candidates' = candidates \ {r}
  /\ older' = Drop(older, r)
  /\ ready' = ready \ {r}
  /\ Forget(r)
  /\ UNCHANGED <<job, stuck, round, events, overtaken>>

\* Another job writes the row, and updated_at with it.
Touched(r) ==
  /\ ~InMemory /\ r \in candidates /\ Event
  /\ older' = ToEnd(r)
  /\ ready' = IF CoolsDown THEN ready \ {r} ELSE ready
  /\ Forget(r)
  /\ UNCHANGED <<job, candidates, stuck, round, overtaken>>

\* Ten minutes, two hours, or the back-off are over.
BecomesDue(r) ==
  /\ CoolsDown /\ r \in candidates \ ready
  /\ ready' = ready \cup {r}
  /\ UNCHANGED <<job, candidates, older, stuck, round, events, passed, overtaken>>

-----------------------------------------------------------------------------
(* A round. *)

\* The batch keeps the order it was sorted in, whatever happens to the keys.
RoundStarts ==
  LET due == Considered \cap ready IN
  /\ batch = {} /\ due # {}
  /\ batch' = Chosen(due)
  /\ ahead' = [r \in Records |-> {p \in Chosen(due) : r \in Chosen(due) /\ p \in older[r]}]
  /\ worked' = FALSE
  /\ UNCHANGED <<job, candidates, older, ready, stuck, events, passed, overtaken>>

\* Mutant: only a turn that succeeds counts.
StaysInFront(r, moves) == UNCHANGED older

\* mark_attempt, _outstock_last_attempt, updated_at: to the end of the line.
TakesItsPlace(r, moves) == older' = IF moves THEN ToEnd(r) ELSE older

\* The turn of r, one that moves it or not.
Turn(r, moves) ==
  /\ TakesItsPlace(r, moves)
  /\ ready' = IF moves /\ CoolsDown THEN ready \ {r} ELSE ready
  /\ worked' = (worked \/ moves)
  /\ passed' = [p \in Records |->
       IF p = r THEN {} ELSE IF moves /\ p \in Waiting THEN passed[p] \cup {r} ELSE passed[p]]
  /\ overtaken' = (overtaken \/ (moves /\ \E p \in Waiting \ {r} : r \in passed[p]))

\* A turn counts whether it succeeds or fails. In memory always; a row is left
\* as it was if the delayed audit does not get to claim it (order lock, bill
\* number, a second look at the row) or if Kingdee has no logistics data.
Visits(r) ==
  /\ r \in batch /\ ahead[r] = {}
  /\ batch' = batch \ {r}
  /\ ahead' = Drop(ahead, r)
  /\ \/ r \in candidates /\ Turn(r, r \notin stuck) /\ UNCHANGED events
     \/ r \in candidates /\ ~InMemory /\ Event /\ Turn(r, FALSE)
     \/ r \notin candidates /\ UNCHANGED <<older, ready, worked, events, passed, overtaken>>
  /\ UNCHANGED <<job, candidates, stuck>>

EndsRound == batch' = {} /\ ahead' = NoOrder /\ UNCHANGED worked

\* The budget is up; a turn without a remote call takes no time.
BudgetEnds ==
  /\ job \in {"outstock", "audit"} /\ worked /\ batch # {}
  /\ EndsRound
  /\ UNCHANGED <<job, candidates, older, ready, stuck, events, passed, overtaken>>

\* The process ends: the round is over and what was in memory is gone.
Restart ==
  /\ Event
  /\ EndsRound
  /\ IF InMemory
     THEN /\ older' = ByCreation(candidates)
          /\ ready' = candidates
          /\ passed' = NoOrder
     ELSE UNCHANGED <<older, ready, passed>>
  /\ UNCHANGED <<job, candidates, stuck, overtaken>>

Next ==
  \/ \E r \in Records : Joins(r) \/ Leaves(r) \/ Touched(r) \/ BecomesDue(r) \/ Visits(r)
  \/ RoundStarts \/ BudgetEnds \/ Restart

Spec == Init /\ [][Next]_vars

\* The scheduler starts a round every one to five minutes, remote calls have
\* time limits, and intervals pass.
Fairness ==
  /\ WF_vars(RoundStarts) /\ WF_vars(\E r \in Records : Visits(r))
  /\ \A r \in Records : WF_vars(BecomesDue(r))

FairSpec == Spec /\ Fairness

-----------------------------------------------------------------------------
TypeOK ==
  /\ job \in Jobs
  /\ candidates \subseteq Records
  /\ older \in Orders /\ \A r \in candidates : older[r] \subseteq candidates
  /\ ready \subseteq candidates
  /\ stuck \subseteq Records
  /\ batch \subseteq Records
  /\ ahead \in Orders /\ \A r \in batch : ahead[r] \subseteq batch
  /\ worked \in BOOLEAN /\ overtaken \in BOOLEAN
  /\ events \in Nat
  /\ passed \in Orders

\* While a record that is due waits for its turn, no other record gets a second
\* one: neither new records nor failing ones starve the old (docstrings of
\* WmsPollQueue and _run_outstock_tasks), as far as the job's clock is kept.
NoOvertaking == ~overtaken

\* A record that stays due gets turn after turn. Two limits of the code are
\* bounds here: arrivals end (a task of _run_outstock_tasks that is new sorts
\* before all that were tried), and fewer records than a round has slots keep
\* their place for good (30 rows without logistics data would fill every round).
DueGetsTurns ==
  \A r \in Records : <>[](r \in Waiting) => []<><<Visits(r)>>_vars
=============================================================================
