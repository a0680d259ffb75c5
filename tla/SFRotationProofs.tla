-------------------------- MODULE SFRotationProofs --------------------------
(***************************************************************************)
(* Proofs about SFRotation, for any number of records and slots, any       *)
(* window, and any number of arrivals, other writers, restarts and failed  *)
(* turns.                                                                  *)
(*                                                                         *)
(* A record that had a turn while p waited is behind p in the order of the *)
(* keys (PassedInv); a batch is an initial part of the due records in that *)
(* order, visited in it, so it cannot visit such a record before p.        *)
(***************************************************************************)
EXTENDS SFRotation, FiniteSetTheorems, TLAPS

\* The sort keys order the candidates strictly and totally.
OrderInv ==
  /\ \A r \in Records : /\ older[r] \subseteq candidates \ {r}
                        /\ r \notin candidates => older[r] = {}
  /\ \A p, r \in candidates : p # r => p \in older[r] \/ r \in older[p]
  /\ \A p, r \in candidates : p \in older[r] => older[p] \subseteq older[r]

\* What is ahead of a record of the batch is still to be visited.
BatchInv == \A r \in Records : ahead[r] \subseteq batch

\* Only a record that waits is passed, by records that are behind it now and
\* that the round, if it visits them again at all, visits after it.
PassedInv ==
  \A p, r \in Records :
    r \in passed[p] => /\ p \in Waiting
                       /\ r \in candidates /\ p \in older[r]
                       /\ r \in batch => p \in ahead[r]

RotationInv == TypeOK /\ OrderInv /\ BatchInv /\ PassedInv /\ NoOvertaking

-----------------------------------------------------------------------------
LEMMA FiniteRecords == \A S \in SUBSET Records : IsFiniteSet(S)
<1>1. Newest \in Int
  BY RotationAssumption
<1>2. IsFiniteSet(Records)
  BY <1>1, FS_Interval DEF Records
<1> QED
  BY <1>2, FS_Subset

\* What is considered or chosen with r is considered or chosen with all that
\* is before r.
LEMMA FewerBefore ==
  ASSUME NEW S \in SUBSET Records, NEW T \in SUBSET S, NEW n \in Nat, Cardinality(S) < n
  PROVE  Cardinality(T) < n
<1>1. IsFiniteSet(S)
  BY FiniteRecords
<1>2. Cardinality(T) \in Nat /\ Cardinality(S) \in Nat /\ Cardinality(T) <= Cardinality(S)
  BY <1>1, FS_Subset, FS_CardinalityType
<1> QED
  BY <1>2

\* The order of creation is one.
OrderFrom(S) ==
  /\ \A r \in Records : /\ ByCreation(S)[r] \subseteq S \ {r}
                        /\ r \notin S => ByCreation(S)[r] = {}
  /\ \A p, r \in S : p # r => p \in ByCreation(S)[r] \/ r \in ByCreation(S)[p]
  /\ \A p, r \in S : p \in ByCreation(S)[r] => ByCreation(S)[p] \subseteq ByCreation(S)[r]

LEMMA CreationIsOrder ==
  ASSUME NEW S \in SUBSET Records
  PROVE  OrderFrom(S)
<1>1. \A r \in Records : ByCreation(S)[r] = {p \in S : r \in S /\ p < r}
  BY DEF ByCreation
<1>2. Records \subseteq Int
  BY RotationAssumption DEF Records
<1>3. \A r \in Records : ByCreation(S)[r] \subseteq S \ {r} /\ (r \notin S => ByCreation(S)[r] = {})
  BY <1>1, <1>2
<1>4. \A p, r \in S : p # r => p \in ByCreation(S)[r] \/ r \in ByCreation(S)[p]
  BY <1>1, <1>2
<1>5. ASSUME NEW p \in S, NEW r \in S, p \in ByCreation(S)[r], NEW q \in ByCreation(S)[p]
      PROVE  q \in ByCreation(S)[r]
  <2>1. q \in S /\ q < p /\ p < r
    BY <1>1, <1>5
  <2>2. q \in Int /\ p \in Int /\ r \in Int
    BY <1>2, <2>1
  <2> QED
    BY <1>1, <2>1, <2>2
<1> QED
  BY <1>3, <1>4, <1>5 DEF OrderFrom

\* So is the order that a turn leaves behind.
LEMMA EndOrders ==
  ASSUME TypeOK, OrderInv, NEW r \in candidates, older' = ToEnd(r), UNCHANGED candidates
  PROVE  OrderInv'
<1>1. r \in Records
  BY DEF TypeOK
<1>2. /\ older'[r] = candidates \ {r}
      /\ \A p \in Records : p # r => older'[p] = older[p] \ {r}
  BY <1>1 DEF ToEnd
<1>3. candidates \subseteq Records
  BY DEF TypeOK
<1> QED
  BY <1>1, <1>2, <1>3 DEF OrderInv

LEMMA DropOrders ==
  ASSUME TypeOK, OrderInv, NEW r \in candidates, older' = Drop(older, r),
         candidates' = candidates \ {r}
  PROVE  OrderInv'
<1>1. r \in Records /\ candidates \subseteq Records
  BY DEF TypeOK
<1>2. /\ older'[r] = {}
      /\ \A p \in Records : p # r => older'[p] = older[p] \ {r}
  BY <1>1 DEF Drop
<1> QED
  BY <1>1, <1>2 DEF OrderInv

LEMMA JoinOrders ==
  ASSUME TypeOK, OrderInv, NEW r \in Records, Joins(r)
  PROVE  OrderInv' /\ older' \in Orders /\ (\A p, q \in Records : p \in older[q] => p \in older'[q])
<1>1. PICK before \in SUBSET candidates :
        /\ \A p \in before : older[p] \subseteq before
        /\ older' = [p \in Records |->
             IF p = r THEN before
             ELSE IF p \in candidates \ before THEN older[p] \cup {r} ELSE older[p]]
  BY DEF Joins
<1>2. r \notin candidates /\ candidates' = candidates \cup {r} /\ candidates \subseteq Records
  BY DEF Joins, TypeOK
<1>3. /\ older'[r] = before
      /\ \A p \in candidates \ before : older'[p] = older[p] \cup {r}
      /\ \A p \in Records : p # r /\ p \notin candidates \ before => older'[p] = older[p]
  BY <1>1, <1>2
<1>4. /\ \A q \in candidates : older[q] \subseteq candidates /\ q \notin older[q] /\ r \notin older[q]
      /\ \A q \in Records : q \notin candidates => older[q] = {}
      /\ \A p, q \in candidates : p # q => p \in older[q] \/ q \in older[p]
      /\ \A p, q \in candidates : p \in older[q] => older[p] \subseteq older[q]
  BY <1>2 DEF OrderInv
<1>5. \A q \in before, p \in candidates \ before : q \in older[p]
  BY <1>1, <1>4
<1>6. ASSUME NEW p \in Records
      PROVE  older'[p] \subseteq candidates' \ {p} /\ (p \notin candidates' => older'[p] = {})
  <2>1. CASE p = r
    BY <1>2, <1>3, <2>1
  <2>2. CASE p \in candidates \ before
    BY <1>2, <1>3, <1>4, <2>2
  <2>3. CASE p # r /\ p \notin candidates \ before
    <3>1. older'[p] = older[p]
      BY <1>3, <2>3
    <3>2. p \notin older[p] /\ older[p] \subseteq candidates
      BY <1>4
    <3> QED
      BY <1>2, <1>4, <2>3, <3>1, <3>2
  <2> QED
    BY <2>1, <2>2, <2>3
<1>7. ASSUME NEW p \in candidates', NEW q \in candidates', p # q
      PROVE  p \in older'[q] \/ q \in older'[p]
  <2>1. CASE p = r \/ q = r
    BY <1>2, <1>3, <1>7, <2>1
  <2>2. CASE p # r /\ q # r
    <3>1. \A u \in {p, q} : older[u] \subseteq older'[u]
      BY <1>2, <1>3, <2>2
    <3> QED
      BY <1>2, <1>4, <1>7, <2>2, <3>1
  <2> QED
    BY <2>1, <2>2
<1>8. ASSUME NEW p \in candidates', NEW q \in candidates', p \in older'[q]
      PROVE  older'[p] \subseteq older'[q]
  <2>1. CASE p = r
    <3>1. q \in candidates \ before /\ older'[q] = older[q] \cup {r}
      BY <1>2, <1>3, <1>4, <1>8, <2>1
    <3> QED
      BY <1>3, <1>5, <2>1, <3>1
  <2>2. CASE q = r
    <3>1. p \in before /\ p # r
      BY <1>2, <1>3, <1>8, <2>2
    <3> QED
      BY <1>1, <1>2, <1>3, <2>2, <3>1
  <2>3. CASE p # r /\ q # r
    <3>1. p \in candidates /\ q \in candidates /\ p \in older[q]
      BY <1>2, <1>3, <1>8, <2>3
    <3>2. older[p] \subseteq older[q] /\ (q \in before => p \in before)
      BY <1>1, <1>4, <3>1
    <3> QED
      BY <1>2, <1>3, <2>3, <3>1, <3>2
  <2> QED
    BY <2>1, <2>2, <2>3
<1>9. older' \in Orders
  BY <1>1, <1>2 DEF Orders, TypeOK
<1>10. ASSUME NEW p \in Records, NEW q \in Records, p \in older[q] PROVE p \in older'[q]
  <2>1. q # r
    BY <1>2, <1>4, <1>10
  <2> QED
    BY <1>2, <1>3, <1>10, <2>1
<1> QED
  BY <1>6, <1>7, <1>8, <1>9, <1>10 DEF OrderInv

-----------------------------------------------------------------------------
(* The steps. *)

LEMMA RotationInit == Init => RotationInv
<1> SUFFICES ASSUME Init PROVE RotationInv
  OBVIOUS
<1>1. TypeOK
  BY DEF Init, TypeOK, Orders, NoOrder, ByCreation
<1>2. OrderInv
  <2>1. OrderFrom(candidates)
    BY <1>1, CreationIsOrder DEF TypeOK
  <2> QED
    BY <2>1 DEF OrderFrom, OrderInv, Init
<1>3. BatchInv /\ PassedInv /\ NoOvertaking
  BY DEF Init, BatchInv, PassedInv, NoOvertaking, NoOrder
<1> QED
  BY <1>1, <1>2, <1>3 DEF RotationInv

LEMMA JoinsStep ==
  ASSUME RotationInv, NEW r \in Records, Joins(r)
  PROVE  RotationInv'
<1> USE DEF RotationInv
<1>1. /\ candidates' = candidates \cup {r} /\ r \notin candidates
      /\ ready \subseteq ready' /\ ready' \subseteq candidates'
      /\ UNCHANGED <<job, stuck, batch, ahead, worked, overtaken>>
      /\ events' = events + 1 /\ passed' = Drop(passed, r)
  BY DEF Joins, Forget, Event, round, TypeOK
<1>2. OrderInv' /\ older' \in Orders /\ (\A p, q \in Records : p \in older[q] => p \in older'[q])
  BY JoinOrders
<1>3. TypeOK'
  <2>1. \A p \in candidates' : older'[p] \subseteq candidates'
    BY <1>1, <1>2 DEF OrderInv, TypeOK
  <2> QED
    BY <1>1, <1>2, <2>1 DEF TypeOK, Drop, Orders
<1>4. PassedInv'
  <2>1. \A p, q \in Records : q \in passed'[p] => q \in passed[p] /\ p # r /\ q # r
    BY <1>1 DEF Drop
  <2> QED
    BY <1>1, <1>2, <2>1 DEF PassedInv, Waiting
<1> QED
  BY <1>1, <1>2, <1>3, <1>4 DEF BatchInv, NoOvertaking

LEMMA LeavesStep ==
  ASSUME RotationInv, NEW r \in Records, Leaves(r)
  PROVE  RotationInv'
<1> USE DEF RotationInv
<1>1. /\ candidates' = candidates \ {r} /\ r \in candidates
      /\ older' = Drop(older, r) /\ passed' = Drop(passed, r) /\ ready' = ready \ {r}
      /\ UNCHANGED <<job, stuck, batch, ahead, worked, overtaken, events>>
  BY DEF Leaves, Forget, round
<1>2. OrderInv'
  BY <1>1, DropOrders
<1>3. TypeOK'
  BY <1>1 DEF TypeOK, Drop, Orders
<1>4. PassedInv'
  <2>1. \A p, q \in Records : q \in passed'[p] => q \in passed[p] /\ p # r /\ q # r
    BY <1>1 DEF Drop
  <2>2. \A p, q \in Records : p # r /\ q # r /\ p \in older[q] => p \in older'[q]
    BY <1>1 DEF Drop
  <2> QED
    BY <1>1, <2>1, <2>2 DEF PassedInv, Waiting
<1> QED
  BY <1>1, <1>2, <1>3, <1>4 DEF BatchInv, NoOvertaking

LEMMA TouchedStep ==
  ASSUME RotationInv, NEW r \in Records, Touched(r)
  PROVE  RotationInv'
<1> USE DEF RotationInv
<1>1. /\ r \in candidates /\ older' = ToEnd(r) /\ passed' = Drop(passed, r)
      /\ ready \ {r} \subseteq ready' /\ ready' \subseteq ready /\ events' = events + 1
      /\ UNCHANGED <<job, candidates, stuck, batch, ahead, worked, overtaken>>
  BY DEF Touched, Forget, Event, round
<1>2. OrderInv'
  BY <1>1, EndOrders
<1>3. TypeOK'
  BY <1>1 DEF TypeOK, Drop, ToEnd, Orders
<1>4. PassedInv'
  <2>1. \A p, q \in Records : q \in passed'[p] => q \in passed[p] /\ p # r /\ q # r
    BY <1>1 DEF Drop
  <2>2. \A p, q \in Records : p # r /\ q # r /\ p \in older[q] => p \in older'[q]
    BY <1>1 DEF ToEnd
  <2> QED
    BY <1>1, <2>1, <2>2 DEF PassedInv, Waiting
<1> QED
  BY <1>1, <1>2, <1>3, <1>4 DEF BatchInv, NoOvertaking

LEMMA BecomesDueStep ==
  ASSUME RotationInv, NEW r \in Records, BecomesDue(r)
  PROVE  RotationInv'
BY DEF RotationInv, BecomesDue, round, TypeOK, OrderInv, BatchInv, PassedInv, Waiting, NoOvertaking

\* Whoever was passed by a record of the new batch is in it, ahead of that one.
LEMMA RoundStartsStep ==
  ASSUME RotationInv, RoundStarts
  PROVE  RotationInv'
<1> USE DEF RotationInv
<1> DEFINE due == Considered \cap ready
<1>1. /\ batch = {} /\ batch' = Chosen(due)
      /\ ahead' = [r \in Records |-> {p \in Chosen(due) : r \in Chosen(due) /\ p \in older[r]}]
      /\ worked' = FALSE
      /\ UNCHANGED <<job, candidates, older, ready, stuck, events, passed, overtaken>>
  BY DEF RoundStarts
<1>2. Chosen(due) \subseteq due /\ due \subseteq candidates /\ due \subseteq Records
  BY DEF Chosen, Considered, TypeOK
<1>3. TypeOK'
  BY <1>1, <1>2 DEF TypeOK, Orders
<1>4. ASSUME NEW p \in ready, NEW r \in Chosen(due), p \in older[r]
      PROVE  p \in Chosen(due)
  <2>1. /\ p \in candidates /\ r \in candidates /\ older[p] \subseteq older[r] /\ older[r] \in SUBSET Records
    BY <1>2, <1>4 DEF TypeOK, OrderInv
  <2>2. job = "audit" => Cardinality(older[p]) < Window
    BY <1>4, <2>1, FewerBefore, RotationAssumption DEF Chosen, Considered
  <2>3. p \in due
    BY <2>1, <2>2 DEF Considered
  <2>4. job # "outstock" => Cardinality(older[p] \cap due) < Slots
    <3>1. older[p] \cap due \subseteq older[r] \cap due
      BY <2>1
    <3>2. job # "outstock" => Cardinality(older[r] \cap due) < Slots
      BY <1>4 DEF Chosen
    <3> QED
      BY <2>1, <3>1, <3>2, FewerBefore, RotationAssumption
  <2> QED
    BY <2>3, <2>4 DEF Chosen
<1>5. PassedInv'
  <2>1. \A p, r \in Records : r \in passed[p] => p \in ready /\ p \in older[r]
    BY DEF PassedInv, Waiting
  <2>2. \A p, r \in Records : r \in passed[p] /\ r \in Chosen(due) => p \in ahead'[r]
    BY <1>1, <1>4, <2>1
  <2> QED
    BY <1>1, <2>2 DEF PassedInv, Waiting
<1> QED
  BY <1>1, <1>3, <1>5 DEF BatchInv, OrderInv, NoOvertaking

\* A record that waits is ahead of any that passed it, so the round does not
\* come to that one first.
LEMMA VisitsStep ==
  ASSUME RotationInv, NEW r \in Records, Visits(r)
  PROVE  RotationInv'
<1> USE DEF RotationInv
<1>1. /\ r \in batch /\ ahead[r] = {} /\ batch' = batch \ {r} /\ ahead' = Drop(ahead, r)
      /\ UNCHANGED <<job, candidates, stuck>>
  BY DEF Visits
<1>2. \A p \in Records : r \notin passed[p]
  BY <1>1 DEF PassedInv
<1>3. /\ ahead'[r] = {}
      /\ \A p \in Records : p # r => ahead'[p] = ahead[p] \ {r}
      /\ ahead' \in Orders
  BY <1>1 DEF Drop, TypeOK, Orders
<1>4. BatchInv' /\ \A p \in batch' : ahead'[p] \subseteq batch'
  BY <1>1, <1>3 DEF BatchInv, TypeOK
<1>5. ASSUME r \in candidates, NEW moves \in BOOLEAN, Turn(r, moves), moves => r \notin stuck,
             events' \in Nat
      PROVE  RotationInv'
  <2>1. /\ older' = IF moves THEN ToEnd(r) ELSE older
        /\ ready' = IF moves /\ CoolsDown THEN ready \ {r} ELSE ready
        /\ worked' \in BOOLEAN
        /\ passed'[r] = {}
        /\ \A p \in Records : p # r => passed'[p] = IF moves /\ p \in Waiting THEN passed[p] \cup {r}
                                                                             ELSE passed[p]
        /\ passed' \in Orders
    BY <1>5 DEF Turn, TakesItsPlace, TypeOK, Orders
  <2>2. overtaken' = FALSE
    BY <1>2, <1>5 DEF Turn, NoOvertaking, TypeOK, Waiting
  <2>3. OrderInv'
    BY <1>1, <1>5, <2>1, EndOrders DEF OrderInv
  <2>4. older' \in Orders /\ ready' \subseteq candidates'
    BY <1>1, <2>1 DEF TypeOK, ToEnd, Orders
  <2>5. TypeOK'
    BY <1>1, <1>3, <1>4, <1>5, <2>1, <2>2, <2>3, <2>4 DEF TypeOK, OrderInv
  <2>6. PassedInv'
    <3> SUFFICES ASSUME NEW p \in Records, NEW q \in Records, q \in passed'[p]
                 PROVE  /\ p \in Waiting' /\ q \in candidates' /\ p \in older'[q]
                        /\ q \in batch' => p \in ahead'[q]
      BY DEF PassedInv
    <3>1. p # r
      BY <2>1
    <3>2. CASE q = r
      <4>1. moves /\ p \in Waiting
        BY <1>2, <2>1, <3>1, <3>2
      <4>2. p \in candidates /\ older'[r] = candidates \ {r}
        BY <2>1, <4>1 DEF ToEnd, Waiting, TypeOK
      <4> QED
        BY <1>1, <1>5, <2>1, <3>1, <3>2, <4>1, <4>2 DEF Waiting
    <3>3. CASE q # r
      <4>1. q \in passed[p]
        BY <2>1, <3>1, <3>3
      <4>2. p \in Waiting /\ q \in candidates /\ p \in older[q] /\ (q \in batch => p \in ahead[q])
        BY <4>1 DEF PassedInv
      <4>3. p \in older'[q]
        BY <2>1, <3>1, <3>3, <4>2 DEF ToEnd
      <4> QED
        BY <1>1, <1>3, <2>1, <3>1, <3>3, <4>2, <4>3 DEF Waiting
    <3> QED
      BY <3>2, <3>3
  <2> QED
    BY <1>4, <2>2, <2>3, <2>5, <2>6 DEF NoOvertaking
<1>6. CASE r \in candidates /\ Turn(r, r \notin stuck) /\ UNCHANGED events
  <2>1. events' \in Nat
    BY <1>6 DEF TypeOK
  <2> DEFINE moves == r \notin stuck
  <2>2. moves \in BOOLEAN /\ Turn(r, moves) /\ (moves => r \notin stuck)
    BY <1>6
  <2> HIDE DEF moves
  <2> QED
    BY <1>5, <1>6, <2>1, <2>2
<1>7. CASE r \in candidates /\ Event /\ Turn(r, FALSE)
  <2>1. events' \in Nat
    BY <1>7 DEF Event, TypeOK
  <2> QED
    BY <1>5, <1>7, <2>1
<1>8. CASE r \notin candidates /\ UNCHANGED <<older, ready, worked, events, passed, overtaken>>
  <2>1. TypeOK' /\ OrderInv' /\ NoOvertaking'
    BY <1>1, <1>3, <1>4, <1>8 DEF TypeOK, OrderInv, NoOvertaking
  <2>2. PassedInv'
    <3>1. \A p \in Records : p \in Waiting => p # r
      BY <1>8 DEF Waiting, TypeOK
    <3> QED
      BY <1>1, <1>3, <1>8, <3>1 DEF PassedInv, Waiting
  <2> QED
    BY <1>4, <2>1, <2>2
<1> QED
  BY <1>6, <1>7, <1>8 DEF Visits

LEMMA EndsStep ==
  ASSUME RotationInv, BudgetEnds \/ Restart
  PROVE  RotationInv'
<1> USE DEF RotationInv
<1>1. /\ batch' = {} /\ ahead' = NoOrder
      /\ UNCHANGED <<job, candidates, stuck, worked, overtaken>>
  BY DEF BudgetEnds, Restart, EndsRound
<1>2. \/ UNCHANGED <<older, ready, passed>>
      \/ older' = ByCreation(candidates) /\ ready' = candidates /\ passed' = NoOrder
  BY DEF BudgetEnds, Restart
<1>3. events' \in Nat
  BY DEF BudgetEnds, Restart, Event, TypeOK
<1>4. OrderInv'
  <2>1. OrderFrom(candidates)
    BY CreationIsOrder DEF TypeOK
  <2> QED
    BY <1>1, <1>2, <2>1 DEF OrderFrom, OrderInv
<1>5. older' \in Orders /\ passed' \in Orders /\ ahead' \in Orders /\ ready' \subseteq candidates'
  BY <1>1, <1>2 DEF TypeOK, Orders, NoOrder, ByCreation
<1>6. TypeOK'
  BY <1>1, <1>3, <1>4, <1>5 DEF TypeOK, OrderInv
<1>7. BatchInv' /\ NoOvertaking'
  BY <1>1 DEF BatchInv, NoOrder, NoOvertaking
<1>8. PassedInv'
  BY <1>1, <1>2 DEF PassedInv, Waiting, NoOrder
<1> QED
  BY <1>4, <1>6, <1>7, <1>8

LEMMA RotationStep == RotationInv /\ [Next]_vars => RotationInv'
<1> SUFFICES ASSUME RotationInv, [Next]_vars PROVE RotationInv'
  OBVIOUS
<1>1. CASE UNCHANGED vars
  BY <1>1 DEF vars, round, RotationInv, TypeOK, OrderInv, BatchInv, PassedInv, Waiting, NoOvertaking
<1>2. CASE Next
  BY <1>2, JoinsStep, LeavesStep, TouchedStep, BecomesDueStep, VisitsStep, RoundStartsStep, EndsStep
  DEF Next
<1> QED
  BY <1>1, <1>2

LEMMA RotationInvariant == Spec => []RotationInv
BY RotationInit, RotationStep, PTL DEF Spec

\* The order of the keys, the batch and the history have their types in every
\* reachable state.
THEOREM RotationTypeCorrect == Spec => []TypeOK
<1>1. RotationInv => TypeOK
  BY DEF RotationInv
<1> QED
  BY <1>1, RotationInvariant, PTL

\* None of the four jobs gives a record a second turn while one that is due
\* waits for its first, whatever arrives, leaves, fails, or restarts.
THEOREM NobodyIsOvertaken == Spec => []NoOvertaking
<1>1. RotationInv => NoOvertaking
  BY DEF RotationInv
<1> QED
  BY <1>1, RotationInvariant, PTL

=============================================================================
