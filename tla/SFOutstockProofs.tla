-------------------------- MODULE SFOutstockProofs --------------------------
(***************************************************************************)
(* Theorems about SFOutstock, for any number of rounds, retriers, repushes,*)
(* rechecks, documents and kills.                                          *)
(*                                                                         *)
(* What the records say (CreatedIsFounded, ResolvedWasAudited) does not    *)
(* rest on the order lock: it follows from what every actor has seen of a  *)
(* document that cannot be un-audited. What is done in Kingdee             *)
(* (RetriesBounded, OneServiceDoc, NeverAuditsTwo) rests on it. BookStep   *)
(* puts them together: every step is one of the contract DocumentOnce.     *)
(***************************************************************************)
EXTENDS SFOutstock, TLAPS

-----------------------------------------------------------------------------
(* The inductive invariant. *)

\* A retrier that has found its record due.
DuePcs == {"rDue", "rClaimed", "rAudit", "rAudited", "rVerified", "rFailing"}

DueInv ==
  \A a \in Actors : pc[a] \in DuePcs => seen[a].tries < MaxAttempts /\ seen[a].xno # NoDoc

TypeInv == TypeOK /\ DueInv

\* Whoever is between the try-lock and the return holds the lock.
LockInv == \A a \in Actors : pc[a] \in InSection => lock = a

\* What an actor concluded from Kingdee's answers stays true.
PassedInv ==
  /\ \A d \in Docs : doc[d] = "C" => passed[d]
  /\ \A a \in Actors :
       /\ pc[a] \in {"duplicated", "draft", "submitted", "refused", "audited", "trusted",
                    "doubting", "resolving"}
            => cur[a] # NoDoc
       /\ pc[a] \in {"audited", "resolving"} => passed[cur[a]]
       /\ pc[a] = "already" /\ cur[a] # NoDoc => passed[cur[a]]
       /\ pc[a] = "rVerified" => \E d \in Docs : passed[d]

RecordInv == PassedInv /\ CreatedIsFounded /\ ResolvedWasAudited

\* A retrier has asked for as many audits as its snapshot tells, and for one
\* more once it has asked itself; while the record is still the failed one, its
\* claim is on record.
ClaimInv ==
  \A a \in Actors :
    /\ pc[a] \in {"rDue", "rClaimed", "rAudit"} => audits <= seen[a].tries
    /\ pc[a] \in DuePcs => audits <= seen[a].tries + 1
    /\ pc[a] \in {"rClaimed", "rAudit"} /\ status = "outstock_failed"
         => tries = seen[a].tries + 1

RetryInv == ClaimInv /\ RetriesBounded

\* Who is about to push sees no document of the service's own; who is about to
\* audit one sees no other that the service has audited; or the query was short.
WorkInv ==
  \A a \in Actors : \A d \in Docs :
    /\ pc[a] = "empty" /\ (ours[d] \/ auditedByUs[d]) /\ d \in Live => seen[a].short
    /\ pc[a] \in {"draft", "submitted", "refused"} /\ auditedByUs[d] /\ d \in Live
         => d = cur[a] \/ seen[a].short
    /\ pc[a] = "rAudit" /\ auditedByUs[d] /\ d \in Live => d = seen[a].xno

UsedInv == \A d \in Docs : ours[d] \/ auditedByUs[d] => doc[d] # "unused"

ServiceInv == WorkInv /\ UsedInv /\ OneServiceDoc /\ NeverAuditsTwo

\* The lock is with somebody inside, and whoever is beyond the reread of the
\* status is alone with a record that does not say created; if it does say so,
\* they wrote it themselves.
SectionInv ==
  /\ lock # Free => pc[lock] \in InSection
  /\ \A a \in Actors :
       /\ pc[a] \in Creating \ {"locked", "doubting"} => status \notin Created
       /\ pc[a] = "doubting" /\ status \in Created => cur[a] = xno

\* The steps that the holder of the lock has left, at most.
Left == [p \in InSection |->
          CASE p \in {"locked", "rLocked"} -> 7
            [] p \in {"cleared", "rDue"} -> 6
            [] p \in {"empty", "rClaimed"} -> 5
            [] p \in {"draft", "rAudit"} -> 4
            [] p \in {"submitted", "refused", "rAudited"} -> 3
            [] p \in {"audited", "trusted", "rVerified"} -> 2
            [] OTHER -> 1]

\* The steps of CreatedKeepsItsNumber.
KeepsNumber ==
  (status \in Created) =>
     /\ (xno # NoDoc) => (xno' = xno)
     /\ status' # "duplicate_outstock"
     /\ (status' = "outstock_failed")
          => \E r \in Rounds : pc[r] = "doubting" /\ cur[r] = xno

\* A step of the holder leads on, or out.
Advances ==
  \A a \in Actors :
    lock = a /\ lock' = a => pc'[a] = pc[a] \/ Left[pc'[a]] < Left[pc[a]]

-----------------------------------------------------------------------------
(* The steps. *)

LEMMA TypeStep ==
  ASSUME TypeInv, [Next]_vars
  PROVE  TypeInv'
<1> USE OutstockAssumption
  DEF kingdee, record, signals, locals, history, Goto, TypeInv, TypeOK, DueInv,
      DuePcs, Actors, Snapshots, Nothing, Statuses, Created, Candidates,
      Errors, DocStates, Pcs, InSection, Creating, Retrying
<1>1. ASSUME NEW d \in Docs, UserPushes(d) PROVE  TypeInv'
  BY <1>1 DEF UserPushes
<1>2. ASSUME NEW d \in Docs, UserAudits(d) PROVE  TypeInv'
  BY <1>2 DEF UserAudits, Live
<1>3. ASSUME NEW d \in Docs, UserDeletes(d) PROVE  TypeInv'
  BY <1>3 DEF UserDeletes, Live
<1>4. ASSUME CallbackArrives PROVE  TypeInv'
  BY <1>4 DEF CallbackArrives
<1>5. ASSUME WmsSaysShipped PROVE  TypeInv'
  BY <1>5 DEF WmsSaysShipped
<1>6. ASSUME CancelRecord PROVE  TypeInv'
  BY <1>6 DEF CancelRecord
<1>7. ASSUME MarkResolved PROVE  TypeInv'
  BY <1>7 DEF MarkResolved, Abnormal
<1>8. ASSUME NEW r \in Rounds, RoundReads(r) PROVE  TypeInv'
  BY <1>8 DEF RoundReads, Snapshot, Candidates
<1>9. ASSUME NEW r \in Rounds, RoundFindsMismatch(r) PROVE  TypeInv'
  BY <1>9 DEF RoundFindsMismatch, Overwrite, Rest
<1>10. ASSUME NEW r \in Rounds, RoundFindsMatch(r) PROVE  TypeInv'
  <2>1. CASE seen[r].xno = NoDoc \/ seen[r].status \in {"callback_ok", "duplicate_outstock"}
    <3>1. /\ pc' = [pc EXCEPT ![r] = "queued"]
          /\ seen' = [seen EXCEPT ![r] = [status |-> "success", xno |-> NoDoc,
                                          fallback |-> FALSE, tries |-> 0,
                                          short |-> FALSE]]
          /\ UNCHANGED cur
      BY <1>10, <2>1 DEF RoundFindsMatch, MakeTask, Nothing
    <3> QED BY <1>10, <3>1 DEF RoundFindsMatch, Overwrite
  <2>2. CASE ~(seen[r].xno = NoDoc \/ seen[r].status \in {"callback_ok", "duplicate_outstock"})
    <3>1. Rest(r)
      BY <1>10, <2>2 DEF RoundFindsMatch
    <3> QED BY <1>10, <2>2, <3>1 DEF RoundFindsMatch, Overwrite, Rest
  <2> QED BY <2>1, <2>2
<1>11. ASSUME NEW r \in Rounds, RoundFallsBack(r) PROVE  TypeInv'
  <2>1. Nothing \in Snapshots
    OBVIOUS
  <2>2. [Nothing EXCEPT !.fallback = TRUE] \in Snapshots
    <3> HIDE DEF Nothing
    <3> QED BY <2>1
  <2>3. PICK s \in Snapshots : /\ pc' = [pc EXCEPT ![r] = "queued"]
                              /\ seen' = [seen EXCEPT ![r] = s]
                              /\ UNCHANGED cur
    BY <1>11, <2>2 DEF RoundFallsBack, MakeTask
  <2> QED BY <1>11, <2>3 DEF RoundFallsBack
<1>12. ASSUME NEW r \in Rounds, RoundTimesOut(r) PROVE  TypeInv'
  BY <1>12 DEF RoundTimesOut, Rest, FallsBack
<1>13. ASSUME NEW r \in Rounds, RoundWaits(r) PROVE  TypeInv'
  BY <1>13 DEF RoundWaits, Rest, FallsBack
<1>14. ASSUME NEW r \in Rounds, CreateLocks(r) PROVE  TypeInv'
  <2>1. CASE lock = Free
    BY <1>14, <2>1 DEF CreateLocks
  <2>2. CASE lock # Free
    <3>1. Rest(r) /\ UNCHANGED lock
      BY <1>14, <2>2 DEF CreateLocks
    <3> QED BY <1>14, <2>2, <3>1 DEF CreateLocks, Rest
  <2> QED BY <2>1, <2>2
<1>15. ASSUME NEW r \in Rounds, CreateRechecks(r) PROVE  TypeInv'
  <2>1. CASE status \in Creatable
    BY <1>15, <2>1 DEF CreateRechecks
  <2>2. CASE status \notin Creatable
    <3>1. Rest(r) /\ Unlock(r)
      BY <1>15, <2>2 DEF CreateRechecks, Exit
    <3> QED BY <1>15, <2>2, <3>1 DEF CreateRechecks, Rest, Unlock
  <2> QED BY <2>1, <2>2
<1>16. ASSUME NEW r \in Rounds, CreateQueries(r) PROVE  TypeInv'
  <2>1. PICK short \in BOOLEAN : seen' = [seen EXCEPT ![r].short = short]
    BY <1>16 DEF CreateQueries
  <2>2. [seen[r] EXCEPT !.short = short] \in Snapshots
    OBVIOUS
  <2>3. seen' = [seen EXCEPT ![r] = [seen[r] EXCEPT !.short = short]]
    BY <2>1
  <2>4. seen' \in [Actors -> Snapshots]
    <3> HIDE DEF Snapshots
    <3> QED BY <2>2, <2>3
  <2>5. pc' \in [Actors -> Pcs] /\ cur' \in [Actors -> Docs \cup {NoDoc}]
    BY <1>16 DEF CreateQueries, Answers, Live
  <2>6. TypeOK'
    BY <1>16, <2>4, <2>5 DEF CreateQueries
  <2>7. DueInv'
    <3>1. \A a \in Actors : pc'[a] \in DuePcs => pc'[a] = pc[a] /\ a # r
      BY <1>16 DEF CreateQueries, Answers, Live
    <3> QED BY <2>3, <3>1
  <2> QED BY <2>6, <2>7
<1>17. ASSUME NEW r \in Rounds, StopOnDuplicates(r) PROVE  TypeInv'
  BY <1>17 DEF StopOnDuplicates, Exit, Rest, Unlock
<1>18. ASSUME NEW r \in Rounds, NEW d \in Docs, PushDoc(r, d) PROVE  TypeInv'
  BY <1>18 DEF PushDoc
<1>19. ASSUME NEW r \in Rounds, Submit(r) PROVE  TypeInv'
  BY <1>19 DEF Submit, Live
<1>20. ASSUME NEW r \in Rounds, Audit(r) PROVE  TypeInv'
  <2>1. /\ doc' \in [Docs -> DocStates]
        /\ passed' \in [Docs -> BOOLEAN]
        /\ auditedByUs' \in [Docs -> BOOLEAN]
        /\ auditedBlind' \in [Docs -> BOOLEAN]
    <3>1. CASE Audited(cur[r], seen[r].short)
      <4>1. seen[r].short \in BOOLEAN
        OBVIOUS
      <4> QED BY <3>1, <4>1 DEF Audited
    <3>2. CASE ~Audited(cur[r], seen[r].short)
      BY <1>20, <3>2 DEF Audit, NotAudited
    <3> QED BY <3>1, <3>2
  <2>2. PICK p \in {"audited", "trusted", "already", "failing", "failingGsp"} :
          pc' = [pc EXCEPT ![r] = p]
    BY <1>20 DEF Audit
  <2> QED BY <1>20, <2>1, <2>2 DEF Audit
<1>21. ASSUME NEW r \in Rounds, CreateRaises(r) PROVE  TypeInv'
  BY <1>21 DEF CreateRaises, OnlyPc
<1>22. ASSUME NEW r \in Rounds, WriteCreated(r) PROVE  TypeInv'
  <2>1. onTrust' \in BOOLEAN
    BY <1>22 DEF WriteCreated
  <2>2. CASE Exit(r)
    BY <1>22, <2>1, <2>2 DEF WriteCreated, Exit, Rest, Unlock
  <2>3. CASE Goto(r, "doubting") /\ UNCHANGED <<lock, seen, cur>>
    BY <1>22, <2>1, <2>3 DEF WriteCreated
  <2> QED BY <1>22, <2>2, <2>3 DEF WriteCreated
<1>23. ASSUME NEW r \in Rounds, WriteFailed(r) PROVE  TypeInv'
  BY <1>23 DEF WriteFailed, Exit, Rest, Unlock
<1>24. ASSUME NEW a \in Retriers, RetryLocks(a) PROVE  TypeInv'
  BY <1>24 DEF RetryLocks, Due
<1>25. ASSUME NEW a \in Retriers, RetryRereads(a) PROVE  TypeInv'
  <2>1. CASE Due
    <3>1. Snapshot \in Snapshots /\ Snapshot.tries < MaxAttempts /\ Snapshot.xno # NoDoc
      BY <2>1 DEF Due, Snapshot
    <3>2. pc' = [pc EXCEPT ![a] = "rDue"] /\ seen' = [seen EXCEPT ![a] = Snapshot]
      BY <1>25, <2>1 DEF RetryRereads
    <3>3. seen' \in [Actors -> Snapshots]
      <4> HIDE DEF Snapshots, Snapshot
      <4> QED BY <3>1, <3>2
    <3>4. TypeOK'
      BY <1>25, <2>1, <3>2, <3>3 DEF RetryRereads
    <3>5. DueInv'
      BY <3>1, <3>2
    <3> QED BY <3>4, <3>5
  <2>2. CASE ~Due
    <3>1. Rest(a) /\ Unlock(a)
      BY <1>25, <2>2 DEF RetryRereads, Exit
    <3> QED BY <1>25, <2>2, <3>1 DEF RetryRereads, Rest, Unlock
  <2> QED BY <2>1, <2>2
<1>26. ASSUME NEW a \in Retriers, RetryClaims(a) PROVE  TypeInv'
  <2>1. CASE status = "outstock_failed" /\ ~stopped
    BY <1>26, <2>1 DEF RetryClaims
  <2>2. CASE ~(status = "outstock_failed" /\ ~stopped)
    <3>1. Rest(a) /\ Unlock(a) /\ UNCHANGED <<err, tries>>
      BY <1>26, <2>2 DEF RetryClaims, Exit
    <3> QED BY <1>26, <2>2, <3>1 DEF RetryClaims, Rest, Unlock
  <2> QED BY <2>1, <2>2
<1>27. ASSUME NEW a \in Retriers, RetryFindsDocument(a) PROVE  TypeInv'
  BY <1>27 DEF RetryFindsDocument, OnlyPc, Live
<1>28. ASSUME NEW a \in Retriers, RetryAudits(a) PROVE  TypeInv'
  <2>1. /\ doc' \in [Docs -> DocStates]
        /\ passed' \in [Docs -> BOOLEAN]
        /\ auditedByUs' \in [Docs -> BOOLEAN]
        /\ auditedBlind' \in [Docs -> BOOLEAN]
    <3>1. CASE Audited(seen[a].xno, FALSE)
      BY <3>1 DEF Audited
    <3>2. CASE ~Audited(seen[a].xno, FALSE)
      BY <1>28, <3>2 DEF RetryAudits, NotAudited
    <3> QED BY <3>1, <3>2
  <2>2. PICK p \in {"rAudited", "rFailing"} : pc' = [pc EXCEPT ![a] = p]
    BY <1>28 DEF RetryAudits
  <2> QED BY <1>28, <2>1, <2>2 DEF RetryAudits
<1>29. ASSUME NEW a \in Retriers, RetryVerifies(a) PROVE  TypeInv'
  BY <1>29 DEF RetryVerifies, OnlyPc, Live
<1>30. ASSUME NEW a \in Retriers, RetryRaises(a) PROVE  TypeInv'
  BY <1>30 DEF RetryRaises, OnlyPc
<1>31. ASSUME NEW a \in Retriers, RetryResolves(a) PROVE  TypeInv'
  BY <1>31 DEF RetryResolves, Exit, Rest, Unlock
<1>32. ASSUME NEW a \in Retriers, RetryGivesUp(a) PROVE  TypeInv'
  BY <1>32 DEF RetryGivesUp, Exit, Rest, Unlock
<1>33. ASSUME NEW h \in Humans, HumanReads(h) PROVE  TypeInv'
  BY <1>33 DEF HumanReads, Snapshot
<1>34. ASSUME NEW h \in Humans, HumanWrites(h) PROVE  TypeInv'
  BY <1>34 DEF HumanWrites, Rest
<1>35. ASSUME NEW k \in Recheckers, RecheckReads(k) PROVE  TypeInv'
  BY <1>35 DEF RecheckReads, OnlyPc, Abnormal
<1>36. ASSUME NEW k \in Recheckers, RecheckQueries(k) PROVE  TypeInv'
  <2>1. \/ /\ pc' = [pc EXCEPT ![k] = "resolving"]
           /\ \E d \in Docs : cur' = [cur EXCEPT ![k] = d]
           /\ UNCHANGED seen
        \/ Rest(k)
    BY <1>36 DEF RecheckQueries, Answers, Live
  <2>2. CASE Rest(k)
    BY <1>36, <2>2 DEF RecheckQueries, Rest
  <2>3. CASE ~Rest(k)
    BY <1>36, <2>1, <2>3 DEF RecheckQueries
  <2> QED BY <2>2, <2>3
<1>37. ASSUME NEW k \in Recheckers, RecheckWrites(k) PROVE  TypeInv'
  BY <1>37 DEF RecheckWrites, Rest
<1>38. ASSUME NEW a \in Actors, Kill(a) PROVE  TypeInv'
  BY <1>38 DEF Kill, Exit, Rest, Unlock
<1>39. ASSUME UNCHANGED vars PROVE  TypeInv'
  BY <1>39 DEF vars
<1>40. ASSUME NEW r \in Rounds, PushRefused(r) PROVE  TypeInv'
  BY <1>40 DEF PushRefused
<1> HIDE DEF TypeInv
<1> QED BY <1>1, <1>2, <1>3, <1>4, <1>5, <1>6, <1>7, <1>8, <1>9, <1>10, <1>11,
     <1>12, <1>13, <1>14, <1>15, <1>16, <1>17, <1>18, <1>19, <1>20, <1>21,
     <1>22, <1>23, <1>24, <1>25, <1>26, <1>27, <1>28, <1>29, <1>30, <1>31,
     <1>32, <1>33, <1>34, <1>35, <1>36, <1>37, <1>38, <1>39, <1>40
  DEF Next, Outside, RoundStep, RetryStep

LEMMA LockStep ==
  ASSUME TypeInv, LockInv, [Next]_vars
  PROVE  LockInv'
<1> USE OutstockAssumption
  DEF kingdee, record, signals, locals, history, Goto, LockInv, TypeInv,
      TypeOK, Actors, InSection, Creating, Retrying
<1>1. ASSUME NEW d \in Docs, UserPushes(d) PROVE  LockInv'
  BY <1>1 DEF UserPushes
<1>2. ASSUME NEW d \in Docs, UserAudits(d) PROVE  LockInv'
  BY <1>2 DEF UserAudits, Live
<1>3. ASSUME NEW d \in Docs, UserDeletes(d) PROVE  LockInv'
  BY <1>3 DEF UserDeletes, Live
<1>4. ASSUME CallbackArrives PROVE  LockInv'
  BY <1>4 DEF CallbackArrives
<1>5. ASSUME WmsSaysShipped PROVE  LockInv'
  BY <1>5 DEF WmsSaysShipped
<1>6. ASSUME CancelRecord PROVE  LockInv'
  BY <1>6 DEF CancelRecord
<1>7. ASSUME MarkResolved PROVE  LockInv'
  BY <1>7 DEF MarkResolved, Abnormal
<1>8. ASSUME NEW r \in Rounds, RoundReads(r) PROVE  LockInv'
  BY <1>8 DEF RoundReads, Snapshot, Candidates
<1>9. ASSUME NEW r \in Rounds, RoundFindsMismatch(r) PROVE  LockInv'
  BY <1>9 DEF RoundFindsMismatch, Overwrite, Rest
<1>10. ASSUME NEW r \in Rounds, RoundFindsMatch(r) PROVE  LockInv'
  BY <1>10 DEF RoundFindsMatch, Overwrite, MakeTask, Rest
<1>11. ASSUME NEW r \in Rounds, RoundFallsBack(r) PROVE  LockInv'
  BY <1>11 DEF RoundFallsBack, MakeTask, FallsBack
<1>12. ASSUME NEW r \in Rounds, RoundTimesOut(r) PROVE  LockInv'
  BY <1>12 DEF RoundTimesOut, Rest, FallsBack
<1>13. ASSUME NEW r \in Rounds, RoundWaits(r) PROVE  LockInv'
  BY <1>13 DEF RoundWaits, Rest, FallsBack
<1>14. ASSUME NEW r \in Rounds, CreateLocks(r) PROVE  LockInv'
  BY <1>14 DEF CreateLocks, Rest
<1>15. ASSUME NEW r \in Rounds, CreateRechecks(r) PROVE  LockInv'
  BY <1>15 DEF CreateRechecks, Creatable, Exit, Rest, Unlock
<1>16. ASSUME NEW r \in Rounds, CreateQueries(r) PROVE  LockInv'
  BY <1>16 DEF CreateQueries, Answers, Live
<1>17. ASSUME NEW r \in Rounds, StopOnDuplicates(r) PROVE  LockInv'
  BY <1>17 DEF StopOnDuplicates, Exit, Rest, Unlock
<1>18. ASSUME NEW r \in Rounds, NEW d \in Docs, PushDoc(r, d) PROVE  LockInv'
  BY <1>18 DEF PushDoc
<1>19. ASSUME NEW r \in Rounds, Submit(r) PROVE  LockInv'
  BY <1>19 DEF Submit, Live
<1>20. ASSUME NEW r \in Rounds, Audit(r) PROVE  LockInv'
  BY <1>20 DEF Audit, Audited, NotAudited
<1>21. ASSUME NEW r \in Rounds, CreateRaises(r) PROVE  LockInv'
  BY <1>21 DEF CreateRaises, OnlyPc
<1>22. ASSUME NEW r \in Rounds, WriteCreated(r) PROVE  LockInv'
  BY <1>22 DEF WriteCreated, Exit, Rest, Unlock
<1>23. ASSUME NEW r \in Rounds, WriteFailed(r) PROVE  LockInv'
  BY <1>23 DEF WriteFailed, Exit, Rest, Unlock
<1>24. ASSUME NEW a \in Retriers, RetryLocks(a) PROVE  LockInv'
  BY <1>24 DEF RetryLocks, Due
<1>25. ASSUME NEW a \in Retriers, RetryRereads(a) PROVE  LockInv'
  BY <1>25 DEF RetryRereads, Due, Snapshot, Exit, Rest, Unlock
<1>26. ASSUME NEW a \in Retriers, RetryClaims(a) PROVE  LockInv'
  BY <1>26 DEF RetryClaims, Exit, Rest, Unlock
<1>27. ASSUME NEW a \in Retriers, RetryFindsDocument(a) PROVE  LockInv'
  BY <1>27 DEF RetryFindsDocument, OnlyPc, Live
<1>28. ASSUME NEW a \in Retriers, RetryAudits(a) PROVE  LockInv'
  BY <1>28 DEF RetryAudits, Audited, NotAudited
<1>29. ASSUME NEW a \in Retriers, RetryVerifies(a) PROVE  LockInv'
  BY <1>29 DEF RetryVerifies, OnlyPc, Live
<1>30. ASSUME NEW a \in Retriers, RetryRaises(a) PROVE  LockInv'
  BY <1>30 DEF RetryRaises, OnlyPc
<1>31. ASSUME NEW a \in Retriers, RetryResolves(a) PROVE  LockInv'
  BY <1>31 DEF RetryResolves, Exit, Rest, Unlock
<1>32. ASSUME NEW a \in Retriers, RetryGivesUp(a) PROVE  LockInv'
  BY <1>32 DEF RetryGivesUp, Exit, Rest, Unlock
<1>33. ASSUME NEW h \in Humans, HumanReads(h) PROVE  LockInv'
  BY <1>33 DEF HumanReads, Snapshot
<1>34. ASSUME NEW h \in Humans, HumanWrites(h) PROVE  LockInv'
  BY <1>34 DEF HumanWrites, Rest
<1>35. ASSUME NEW k \in Recheckers, RecheckReads(k) PROVE  LockInv'
  BY <1>35 DEF RecheckReads, OnlyPc, Abnormal
<1>36. ASSUME NEW k \in Recheckers, RecheckQueries(k) PROVE  LockInv'
  BY <1>36 DEF RecheckQueries, Answers, Live, Rest
<1>37. ASSUME NEW k \in Recheckers, RecheckWrites(k) PROVE  LockInv'
  BY <1>37 DEF RecheckWrites, Rest
<1>38. ASSUME NEW a \in Actors, Kill(a) PROVE  LockInv'
  BY <1>38 DEF Kill, Exit, Rest, Unlock
<1>39. ASSUME UNCHANGED vars PROVE  LockInv'
  BY <1>39 DEF vars
<1>40. ASSUME NEW r \in Rounds, PushRefused(r) PROVE  LockInv'
  BY <1>40 DEF PushRefused
<1> HIDE DEF LockInv
<1> QED BY <1>1, <1>2, <1>3, <1>4, <1>5, <1>6, <1>7, <1>8, <1>9, <1>10, <1>11,
     <1>12, <1>13, <1>14, <1>15, <1>16, <1>17, <1>18, <1>19, <1>20, <1>21,
     <1>22, <1>23, <1>24, <1>25, <1>26, <1>27, <1>28, <1>29, <1>30, <1>31,
     <1>32, <1>33, <1>34, <1>35, <1>36, <1>37, <1>38, <1>39, <1>40
  DEF Next, Outside, RoundStep, RetryStep

LEMMA RecordStep ==
  ASSUME TypeInv, RecordInv, [Next]_vars
  PROVE  RecordInv'
<1> USE OutstockAssumption
  DEF kingdee, record, signals, locals, history, Goto, TypeInv, TypeOK, Actors,
      Snapshots, DocStates, RecordInv, PassedInv, CreatedIsFounded,
      ResolvedWasAudited, Created
<1>1. ASSUME NEW d \in Docs, UserPushes(d) PROVE  RecordInv'
  BY <1>1 DEF UserPushes
<1>2. ASSUME NEW d \in Docs, UserAudits(d) PROVE  RecordInv'
  BY <1>2 DEF UserAudits, Live
<1>3. ASSUME NEW d \in Docs, UserDeletes(d) PROVE  RecordInv'
  BY <1>3 DEF UserDeletes, Live
<1>4. ASSUME CallbackArrives PROVE  RecordInv'
  BY <1>4 DEF CallbackArrives
<1>5. ASSUME WmsSaysShipped PROVE  RecordInv'
  BY <1>5 DEF WmsSaysShipped
<1>6. ASSUME CancelRecord PROVE  RecordInv'
  BY <1>6 DEF CancelRecord
<1>7. ASSUME MarkResolved PROVE  RecordInv'
  BY <1>7 DEF MarkResolved, Abnormal, Abnormal
<1>8. ASSUME NEW r \in Rounds, RoundReads(r) PROVE  RecordInv'
  BY <1>8 DEF RoundReads, Snapshot, Candidates
<1>9. ASSUME NEW r \in Rounds, RoundFindsMismatch(r) PROVE  RecordInv'
  BY <1>9 DEF RoundFindsMismatch, Overwrite, Rest
<1>10. ASSUME NEW r \in Rounds, RoundFindsMatch(r) PROVE  RecordInv'
  <2>1. CASE seen[r].xno = NoDoc \/ seen[r].status \in {"callback_ok", "duplicate_outstock"}
    <3>1. /\ pc' = [pc EXCEPT ![r] = "queued"]
          /\ seen' = [seen EXCEPT ![r] = [status |-> "success", xno |-> NoDoc,
                                          fallback |-> FALSE, tries |-> 0,
                                          short |-> FALSE]]
          /\ UNCHANGED cur
      BY <1>10, <2>1 DEF RoundFindsMatch, MakeTask, Nothing
    <3> QED BY <1>10, <3>1 DEF RoundFindsMatch, Overwrite
  <2>2. CASE ~(seen[r].xno = NoDoc \/ seen[r].status \in {"callback_ok", "duplicate_outstock"})
    <3>1. Rest(r)
      BY <1>10, <2>2 DEF RoundFindsMatch
    <3> QED BY <1>10, <2>2, <3>1 DEF RoundFindsMatch, Overwrite, Rest
  <2> QED BY <2>1, <2>2
<1>11. ASSUME NEW r \in Rounds, RoundFallsBack(r) PROVE  RecordInv'
  BY <1>11 DEF RoundFallsBack, MakeTask, FallsBack
<1>12. ASSUME NEW r \in Rounds, RoundTimesOut(r) PROVE  RecordInv'
  BY <1>12 DEF RoundTimesOut, Rest, FallsBack
<1>13. ASSUME NEW r \in Rounds, RoundWaits(r) PROVE  RecordInv'
  BY <1>13 DEF RoundWaits, Rest, FallsBack
<1>14. ASSUME NEW r \in Rounds, CreateLocks(r) PROVE  RecordInv'
  <2>1. CASE lock = Free
    BY <1>14, <2>1 DEF CreateLocks
  <2>2. CASE lock # Free
    <3>1. Rest(r) /\ UNCHANGED lock
      BY <1>14, <2>2 DEF CreateLocks
    <3> QED BY <1>14, <2>2, <3>1 DEF CreateLocks, Rest
  <2> QED BY <2>1, <2>2
<1>15. ASSUME NEW r \in Rounds, CreateRechecks(r) PROVE  RecordInv'
  <2>1. CASE status \in Creatable
    BY <1>15, <2>1 DEF CreateRechecks
  <2>2. CASE status \notin Creatable
    <3>1. Rest(r) /\ Unlock(r)
      BY <1>15, <2>2 DEF CreateRechecks, Exit
    <3> QED BY <1>15, <2>2, <3>1 DEF CreateRechecks, Rest, Unlock
  <2> QED BY <2>1, <2>2
<1>16. ASSUME NEW r \in Rounds, CreateQueries(r) PROVE  RecordInv'
  BY <1>16 DEF CreateQueries, Answers, Live
<1>17. ASSUME NEW r \in Rounds, StopOnDuplicates(r) PROVE  RecordInv'
  BY <1>17 DEF StopOnDuplicates, Exit, Rest, Unlock
<1>18. ASSUME NEW r \in Rounds, NEW d \in Docs, PushDoc(r, d) PROVE  RecordInv'
  BY <1>18 DEF PushDoc
<1>19. ASSUME NEW r \in Rounds, Submit(r) PROVE  RecordInv'
  BY <1>19 DEF Submit, Live
<1>20. ASSUME NEW r \in Rounds, Audit(r) PROVE  RecordInv'
  BY <1>20 DEF Audit, Audited, NotAudited
<1>21. ASSUME NEW r \in Rounds, CreateRaises(r) PROVE  RecordInv'
  BY <1>21 DEF CreateRaises, OnlyPc
<1>22. ASSUME NEW r \in Rounds, WriteCreated(r) PROVE  RecordInv'
  <2>1. PassedInv'
    BY <1>22 DEF WriteCreated, Exit, Rest, Unlock
  <2>2. ~onTrust' => cur[r] # NoDoc /\ pc[r] \in {"audited", "already"}
    BY <1>22 DEF WriteCreated
  <2>3. ~onTrust' => xno' # NoDoc /\ passed[xno']
    BY <1>22, <2>2 DEF WriteCreated
  <2>4. CreatedIsFounded'
    BY <1>22, <2>3 DEF WriteCreated
  <2>5. ResolvedWasAudited'
    BY <1>22 DEF WriteCreated
  <2> QED BY <2>1, <2>4, <2>5
<1>23. ASSUME NEW r \in Rounds, WriteFailed(r) PROVE  RecordInv'
  BY <1>23 DEF WriteFailed, Exit, Rest, Unlock
<1>24. ASSUME NEW a \in Retriers, RetryLocks(a) PROVE  RecordInv'
  BY <1>24 DEF RetryLocks, Due
<1>25. ASSUME NEW a \in Retriers, RetryRereads(a) PROVE  RecordInv'
  <2>1. CASE Due
    BY <1>25, <2>1 DEF RetryRereads, Due, Snapshot
  <2>2. CASE ~Due
    <3>1. Rest(a) /\ Unlock(a)
      BY <1>25, <2>2 DEF RetryRereads, Exit
    <3> QED BY <1>25, <2>2, <3>1 DEF RetryRereads, Rest, Unlock
  <2> QED BY <2>1, <2>2
<1>26. ASSUME NEW a \in Retriers, RetryClaims(a) PROVE  RecordInv'
  <2>1. CASE status = "outstock_failed" /\ ~stopped
    BY <1>26, <2>1 DEF RetryClaims
  <2>2. CASE ~(status = "outstock_failed" /\ ~stopped)
    <3>1. Rest(a) /\ Unlock(a) /\ UNCHANGED <<err, tries>>
      BY <1>26, <2>2 DEF RetryClaims, Exit
    <3> QED BY <1>26, <2>2, <3>1 DEF RetryClaims, Rest, Unlock
  <2> QED BY <2>1, <2>2
<1>27. ASSUME NEW a \in Retriers, RetryFindsDocument(a) PROVE  RecordInv'
  BY <1>27 DEF RetryFindsDocument, OnlyPc, Live, Live
<1>28. ASSUME NEW a \in Retriers, RetryAudits(a) PROVE  RecordInv'
  BY <1>28 DEF RetryAudits, Audited, NotAudited
<1>29. ASSUME NEW a \in Retriers, RetryVerifies(a) PROVE  RecordInv'
  BY <1>29 DEF RetryVerifies, OnlyPc, Live
<1>30. ASSUME NEW a \in Retriers, RetryRaises(a) PROVE  RecordInv'
  BY <1>30 DEF RetryRaises, OnlyPc
<1>31. ASSUME NEW a \in Retriers, RetryResolves(a) PROVE  RecordInv'
  BY <1>31 DEF RetryResolves, Exit, Rest, Unlock
<1>32. ASSUME NEW a \in Retriers, RetryGivesUp(a) PROVE  RecordInv'
  BY <1>32 DEF RetryGivesUp, Exit, Rest, Unlock
<1>33. ASSUME NEW h \in Humans, HumanReads(h) PROVE  RecordInv'
  BY <1>33 DEF HumanReads, Snapshot
<1>34. ASSUME NEW h \in Humans, HumanWrites(h) PROVE  RecordInv'
  BY <1>34 DEF HumanWrites, Rest
<1>35. ASSUME NEW k \in Recheckers, RecheckReads(k) PROVE  RecordInv'
  BY <1>35 DEF RecheckReads, OnlyPc, Abnormal
<1>36. ASSUME NEW k \in Recheckers, RecheckQueries(k) PROVE  RecordInv'
  BY <1>36 DEF RecheckQueries, Answers, Live, Rest
<1>37. ASSUME NEW k \in Recheckers, RecheckWrites(k) PROVE  RecordInv'
  BY <1>37 DEF RecheckWrites, Rest
<1>38. ASSUME NEW a \in Actors, Kill(a) PROVE  RecordInv'
  BY <1>38 DEF Kill, Exit, Rest, Unlock
<1>39. ASSUME UNCHANGED vars PROVE  RecordInv'
  BY <1>39 DEF vars
<1>40. ASSUME NEW r \in Rounds, PushRefused(r) PROVE  RecordInv'
  BY <1>40 DEF PushRefused
<1> HIDE DEF RecordInv
<1> QED BY <1>1, <1>2, <1>3, <1>4, <1>5, <1>6, <1>7, <1>8, <1>9, <1>10, <1>11,
     <1>12, <1>13, <1>14, <1>15, <1>16, <1>17, <1>18, <1>19, <1>20, <1>21,
     <1>22, <1>23, <1>24, <1>25, <1>26, <1>27, <1>28, <1>29, <1>30, <1>31,
     <1>32, <1>33, <1>34, <1>35, <1>36, <1>37, <1>38, <1>39, <1>40
  DEF Next, Outside, RoundStep, RetryStep

LEMMA ClaimStep ==
  ASSUME TypeInv, LockInv, RetryInv, [Next]_vars
  PROVE  RetryInv'
<1> USE OutstockAssumption
  DEF kingdee, record, signals, locals, history, Goto, TypeInv, TypeOK, Actors,
      Snapshots, DocStates, LockInv, RetryInv, ClaimInv, RetriesBounded,
      DuePcs, InSection, Creating, Retrying
<1>1. ASSUME NEW d \in Docs, UserPushes(d) PROVE  RetryInv'
  BY <1>1 DEF UserPushes
<1>2. ASSUME NEW d \in Docs, UserAudits(d) PROVE  RetryInv'
  BY <1>2 DEF UserAudits, Live
<1>3. ASSUME NEW d \in Docs, UserDeletes(d) PROVE  RetryInv'
  BY <1>3 DEF UserDeletes, Live
<1>4. ASSUME CallbackArrives PROVE  RetryInv'
  BY <1>4 DEF CallbackArrives
<1>5. ASSUME WmsSaysShipped PROVE  RetryInv'
  BY <1>5 DEF WmsSaysShipped
<1>6. ASSUME CancelRecord PROVE  RetryInv'
  BY <1>6 DEF CancelRecord
<1>7. ASSUME MarkResolved PROVE  RetryInv'
  BY <1>7 DEF MarkResolved, Abnormal
<1>8. ASSUME NEW r \in Rounds, RoundReads(r) PROVE  RetryInv'
  BY <1>8 DEF RoundReads, Snapshot, Candidates
<1>9. ASSUME NEW r \in Rounds, RoundFindsMismatch(r) PROVE  RetryInv'
  BY <1>9 DEF RoundFindsMismatch, Overwrite, Rest
<1>10. ASSUME NEW r \in Rounds, RoundFindsMatch(r) PROVE  RetryInv'
  <2>1. CASE seen[r].xno = NoDoc \/ seen[r].status \in {"callback_ok", "duplicate_outstock"}
    <3>1. /\ pc' = [pc EXCEPT ![r] = "queued"]
          /\ seen' = [seen EXCEPT ![r] = [status |-> "success", xno |-> NoDoc,
                                          fallback |-> FALSE, tries |-> 0,
                                          short |-> FALSE]]
          /\ UNCHANGED cur
      BY <1>10, <2>1 DEF RoundFindsMatch, MakeTask, Nothing
    <3> QED BY <1>10, <3>1 DEF RoundFindsMatch, Overwrite
  <2>2. CASE ~(seen[r].xno = NoDoc \/ seen[r].status \in {"callback_ok", "duplicate_outstock"})
    <3>1. Rest(r)
      BY <1>10, <2>2 DEF RoundFindsMatch
    <3> QED BY <1>10, <2>2, <3>1 DEF RoundFindsMatch, Overwrite, Rest
  <2> QED BY <2>1, <2>2
<1>11. ASSUME NEW r \in Rounds, RoundFallsBack(r) PROVE  RetryInv'
  BY <1>11 DEF RoundFallsBack, MakeTask, FallsBack
<1>12. ASSUME NEW r \in Rounds, RoundTimesOut(r) PROVE  RetryInv'
  BY <1>12 DEF RoundTimesOut, Rest, FallsBack
<1>13. ASSUME NEW r \in Rounds, RoundWaits(r) PROVE  RetryInv'
  BY <1>13 DEF RoundWaits, Rest, FallsBack
<1>14. ASSUME NEW r \in Rounds, CreateLocks(r) PROVE  RetryInv'
  <2>1. CASE lock = Free
    BY <1>14, <2>1 DEF CreateLocks
  <2>2. CASE lock # Free
    <3>1. Rest(r) /\ UNCHANGED lock
      BY <1>14, <2>2 DEF CreateLocks
    <3> QED BY <1>14, <2>2, <3>1 DEF CreateLocks, Rest
  <2> QED BY <2>1, <2>2
<1>15. ASSUME NEW r \in Rounds, CreateRechecks(r) PROVE  RetryInv'
  <2>1. CASE status \in Creatable
    BY <1>15, <2>1 DEF CreateRechecks
  <2>2. CASE status \notin Creatable
    <3>1. Rest(r) /\ Unlock(r)
      BY <1>15, <2>2 DEF CreateRechecks, Exit
    <3> QED BY <1>15, <2>2, <3>1 DEF CreateRechecks, Rest, Unlock
  <2> QED BY <2>1, <2>2
<1>16. ASSUME NEW r \in Rounds, CreateQueries(r) PROVE  RetryInv'
  BY <1>16 DEF CreateQueries, Answers, Live
<1>17. ASSUME NEW r \in Rounds, StopOnDuplicates(r) PROVE  RetryInv'
  BY <1>17 DEF StopOnDuplicates, Exit, Rest, Unlock
<1>18. ASSUME NEW r \in Rounds, NEW d \in Docs, PushDoc(r, d) PROVE  RetryInv'
  BY <1>18 DEF PushDoc
<1>19. ASSUME NEW r \in Rounds, Submit(r) PROVE  RetryInv'
  BY <1>19 DEF Submit, Live
<1>20. ASSUME NEW r \in Rounds, Audit(r) PROVE  RetryInv'
  BY <1>20 DEF Audit, Audited, NotAudited
<1>21. ASSUME NEW r \in Rounds, CreateRaises(r) PROVE  RetryInv'
  BY <1>21 DEF CreateRaises, OnlyPc
<1>22. ASSUME NEW r \in Rounds, WriteCreated(r) PROVE  RetryInv'
  BY <1>22 DEF WriteCreated, Exit, Rest, Unlock
<1>23. ASSUME NEW r \in Rounds, WriteFailed(r) PROVE  RetryInv'
  BY <1>23 DEF WriteFailed, Exit, Rest, Unlock
<1>24. ASSUME NEW a \in Retriers, RetryLocks(a) PROVE  RetryInv'
  BY <1>24 DEF RetryLocks, Due
<1>25. ASSUME NEW a \in Retriers, RetryRereads(a) PROVE  RetryInv'
  <2>1. CASE Due
    BY <1>25, <2>1 DEF RetryRereads, Due, Snapshot
  <2>2. CASE ~Due
    <3>1. Rest(a) /\ Unlock(a)
      BY <1>25, <2>2 DEF RetryRereads, Exit
    <3> QED BY <1>25, <2>2, <3>1 DEF RetryRereads, Rest, Unlock
  <2> QED BY <2>1, <2>2
<1>26. ASSUME NEW a \in Retriers, RetryClaims(a) PROVE  RetryInv'
  <2>1. CASE status = "outstock_failed" /\ ~stopped
    BY <1>26, <2>1 DEF RetryClaims
  <2>2. CASE ~(status = "outstock_failed" /\ ~stopped)
    <3>1. Rest(a) /\ Unlock(a) /\ UNCHANGED <<err, tries>>
      BY <1>26, <2>2 DEF RetryClaims, Exit
    <3> QED BY <1>26, <2>2, <3>1 DEF RetryClaims, Rest, Unlock
  <2> QED BY <2>1, <2>2
<1>27. ASSUME NEW a \in Retriers, RetryFindsDocument(a) PROVE  RetryInv'
  BY <1>27 DEF RetryFindsDocument, OnlyPc, Live
<1>28. ASSUME NEW a \in Retriers, RetryAudits(a) PROVE  RetryInv'
  <2>1. audits' = audits + 1 /\ audits <= seen[a].tries /\ UNCHANGED <<record, seen, lock>>
    BY <1>28 DEF RetryAudits
  <2>2. PICK p \in {"rAudited", "rFailing"} : pc' = [pc EXCEPT ![a] = p]
    BY <1>28 DEF RetryAudits
  <2>3. \A b \in Actors : b # a => pc'[b] \notin DuePcs
    BY <1>28, <2>2 DEF RetryAudits
  <2>4. ClaimInv'
    BY <2>1, <2>2, <2>3
  <2>5. a \in Actors /\ pc[a] = "rAudit"
    BY <1>28 DEF RetryAudits
  <2>6. seen[a].tries \in Nat /\ seen[a].tries < MaxAttempts
    BY <2>5 DEF DueInv
  <2>7. RetriesBounded'
    BY <2>1, <2>5, <2>6
  <2> QED BY <2>4, <2>7
<1>29. ASSUME NEW a \in Retriers, RetryVerifies(a) PROVE  RetryInv'
  BY <1>29 DEF RetryVerifies, OnlyPc, Live
<1>30. ASSUME NEW a \in Retriers, RetryRaises(a) PROVE  RetryInv'
  BY <1>30 DEF RetryRaises, OnlyPc
<1>31. ASSUME NEW a \in Retriers, RetryResolves(a) PROVE  RetryInv'
  BY <1>31 DEF RetryResolves, Exit, Rest, Unlock
<1>32. ASSUME NEW a \in Retriers, RetryGivesUp(a) PROVE  RetryInv'
  BY <1>32 DEF RetryGivesUp, Exit, Rest, Unlock
<1>33. ASSUME NEW h \in Humans, HumanReads(h) PROVE  RetryInv'
  BY <1>33 DEF HumanReads, Snapshot
<1>34. ASSUME NEW h \in Humans, HumanWrites(h) PROVE  RetryInv'
  BY <1>34 DEF HumanWrites, Rest
<1>35. ASSUME NEW k \in Recheckers, RecheckReads(k) PROVE  RetryInv'
  BY <1>35 DEF RecheckReads, OnlyPc, Abnormal
<1>36. ASSUME NEW k \in Recheckers, RecheckQueries(k) PROVE  RetryInv'
  BY <1>36 DEF RecheckQueries, Answers, Live, Rest
<1>37. ASSUME NEW k \in Recheckers, RecheckWrites(k) PROVE  RetryInv'
  BY <1>37 DEF RecheckWrites, Rest
<1>38. ASSUME NEW a \in Actors, Kill(a) PROVE  RetryInv'
  BY <1>38 DEF Kill, Exit, Rest, Unlock
<1>39. ASSUME UNCHANGED vars PROVE  RetryInv'
  BY <1>39 DEF vars
<1>40. ASSUME NEW r \in Rounds, PushRefused(r) PROVE  RetryInv'
  BY <1>40 DEF PushRefused
<1> HIDE DEF RetryInv
<1> QED BY <1>1, <1>2, <1>3, <1>4, <1>5, <1>6, <1>7, <1>8, <1>9, <1>10, <1>11,
     <1>12, <1>13, <1>14, <1>15, <1>16, <1>17, <1>18, <1>19, <1>20, <1>21,
     <1>22, <1>23, <1>24, <1>25, <1>26, <1>27, <1>28, <1>29, <1>30, <1>31,
     <1>32, <1>33, <1>34, <1>35, <1>36, <1>37, <1>38, <1>39, <1>40
  DEF Next, Outside, RoundStep, RetryStep

LEMMA ServiceStep ==
  ASSUME TypeInv, LockInv, ServiceInv, [Next]_vars
  PROVE  ServiceInv'
<1> USE OutstockAssumption
  DEF kingdee, record, signals, locals, history, Goto, TypeInv, TypeOK, Actors,
      Snapshots, DocStates, LockInv, ServiceInv, WorkInv, UsedInv,
      OneServiceDoc, NeverAuditsTwo, Live, InSection, Creating, Retrying
<1>1. ASSUME NEW d \in Docs, UserPushes(d) PROVE  ServiceInv'
  BY <1>1 DEF UserPushes
<1>2. ASSUME NEW d \in Docs, UserAudits(d) PROVE  ServiceInv'
  BY <1>2 DEF UserAudits, Live
<1>3. ASSUME NEW d \in Docs, UserDeletes(d) PROVE  ServiceInv'
  BY <1>3 DEF UserDeletes, Live
<1>4. ASSUME CallbackArrives PROVE  ServiceInv'
  BY <1>4 DEF CallbackArrives
<1>5. ASSUME WmsSaysShipped PROVE  ServiceInv'
  BY <1>5 DEF WmsSaysShipped
<1>6. ASSUME CancelRecord PROVE  ServiceInv'
  BY <1>6 DEF CancelRecord
<1>7. ASSUME MarkResolved PROVE  ServiceInv'
  BY <1>7 DEF MarkResolved, Abnormal
<1>8. ASSUME NEW r \in Rounds, RoundReads(r) PROVE  ServiceInv'
  BY <1>8 DEF RoundReads, Snapshot, Candidates
<1>9. ASSUME NEW r \in Rounds, RoundFindsMismatch(r) PROVE  ServiceInv'
  BY <1>9 DEF RoundFindsMismatch, Overwrite, Rest
<1>10. ASSUME NEW r \in Rounds, RoundFindsMatch(r) PROVE  ServiceInv'
  <2>1. CASE seen[r].xno = NoDoc \/ seen[r].status \in {"callback_ok", "duplicate_outstock"}
    <3>1. /\ pc' = [pc EXCEPT ![r] = "queued"]
          /\ seen' = [seen EXCEPT ![r] = [status |-> "success", xno |-> NoDoc,
                                          fallback |-> FALSE, tries |-> 0,
                                          short |-> FALSE]]
          /\ UNCHANGED cur
      BY <1>10, <2>1 DEF RoundFindsMatch, MakeTask, Nothing
    <3> QED BY <1>10, <3>1 DEF RoundFindsMatch, Overwrite
  <2>2. CASE ~(seen[r].xno = NoDoc \/ seen[r].status \in {"callback_ok", "duplicate_outstock"})
    <3>1. Rest(r)
      BY <1>10, <2>2 DEF RoundFindsMatch
    <3> QED BY <1>10, <2>2, <3>1 DEF RoundFindsMatch, Overwrite, Rest
  <2> QED BY <2>1, <2>2
<1>11. ASSUME NEW r \in Rounds, RoundFallsBack(r) PROVE  ServiceInv'
  BY <1>11 DEF RoundFallsBack, MakeTask, FallsBack
<1>12. ASSUME NEW r \in Rounds, RoundTimesOut(r) PROVE  ServiceInv'
  BY <1>12 DEF RoundTimesOut, Rest, FallsBack
<1>13. ASSUME NEW r \in Rounds, RoundWaits(r) PROVE  ServiceInv'
  BY <1>13 DEF RoundWaits, Rest, FallsBack
<1>14. ASSUME NEW r \in Rounds, CreateLocks(r) PROVE  ServiceInv'
  <2>1. CASE lock = Free
    BY <1>14, <2>1 DEF CreateLocks
  <2>2. CASE lock # Free
    <3>1. Rest(r) /\ UNCHANGED lock
      BY <1>14, <2>2 DEF CreateLocks
    <3> QED BY <1>14, <2>2, <3>1 DEF CreateLocks, Rest
  <2> QED BY <2>1, <2>2
<1>15. ASSUME NEW r \in Rounds, CreateRechecks(r) PROVE  ServiceInv'
  <2>1. CASE status \in Creatable
    BY <1>15, <2>1 DEF CreateRechecks
  <2>2. CASE status \notin Creatable
    <3>1. Rest(r) /\ Unlock(r)
      BY <1>15, <2>2 DEF CreateRechecks, Exit
    <3> QED BY <1>15, <2>2, <3>1 DEF CreateRechecks, Rest, Unlock
  <2> QED BY <2>1, <2>2
<1>16. ASSUME NEW r \in Rounds, CreateQueries(r) PROVE  ServiceInv'
  BY <1>16 DEF CreateQueries, Answers, Live, Answers
<1>17. ASSUME NEW r \in Rounds, StopOnDuplicates(r) PROVE  ServiceInv'
  BY <1>17 DEF StopOnDuplicates, Exit, Rest, Unlock
<1>18. ASSUME NEW r \in Rounds, NEW d \in Docs, PushDoc(r, d) PROVE  ServiceInv'
  BY <1>18 DEF PushDoc
<1>19. ASSUME NEW r \in Rounds, Submit(r) PROVE  ServiceInv'
  BY <1>19 DEF Submit, Live
<1>20. ASSUME NEW r \in Rounds, Audit(r) PROVE  ServiceInv'
  BY <1>20 DEF Audit, Audited, NotAudited
<1>21. ASSUME NEW r \in Rounds, CreateRaises(r) PROVE  ServiceInv'
  BY <1>21 DEF CreateRaises, OnlyPc
<1>22. ASSUME NEW r \in Rounds, WriteCreated(r) PROVE  ServiceInv'
  BY <1>22 DEF WriteCreated, Exit, Rest, Unlock
<1>23. ASSUME NEW r \in Rounds, WriteFailed(r) PROVE  ServiceInv'
  BY <1>23 DEF WriteFailed, Exit, Rest, Unlock
<1>24. ASSUME NEW a \in Retriers, RetryLocks(a) PROVE  ServiceInv'
  BY <1>24 DEF RetryLocks, Due
<1>25. ASSUME NEW a \in Retriers, RetryRereads(a) PROVE  ServiceInv'
  <2>1. CASE Due
    BY <1>25, <2>1 DEF RetryRereads, Due, Snapshot
  <2>2. CASE ~Due
    <3>1. Rest(a) /\ Unlock(a)
      BY <1>25, <2>2 DEF RetryRereads, Exit
    <3> QED BY <1>25, <2>2, <3>1 DEF RetryRereads, Rest, Unlock
  <2> QED BY <2>1, <2>2
<1>26. ASSUME NEW a \in Retriers, RetryClaims(a) PROVE  ServiceInv'
  <2>1. CASE status = "outstock_failed" /\ ~stopped
    BY <1>26, <2>1 DEF RetryClaims
  <2>2. CASE ~(status = "outstock_failed" /\ ~stopped)
    <3>1. Rest(a) /\ Unlock(a) /\ UNCHANGED <<err, tries>>
      BY <1>26, <2>2 DEF RetryClaims, Exit
    <3> QED BY <1>26, <2>2, <3>1 DEF RetryClaims, Rest, Unlock
  <2> QED BY <2>1, <2>2
<1>27. ASSUME NEW a \in Retriers, RetryFindsDocument(a) PROVE  ServiceInv'
  BY <1>27 DEF RetryFindsDocument, OnlyPc, Live
<1>28. ASSUME NEW a \in Retriers, RetryAudits(a) PROVE  ServiceInv'
  BY <1>28 DEF RetryAudits, Audited, NotAudited
<1>29. ASSUME NEW a \in Retriers, RetryVerifies(a) PROVE  ServiceInv'
  BY <1>29 DEF RetryVerifies, OnlyPc, Live
<1>30. ASSUME NEW a \in Retriers, RetryRaises(a) PROVE  ServiceInv'
  BY <1>30 DEF RetryRaises, OnlyPc
<1>31. ASSUME NEW a \in Retriers, RetryResolves(a) PROVE  ServiceInv'
  BY <1>31 DEF RetryResolves, Exit, Rest, Unlock
<1>32. ASSUME NEW a \in Retriers, RetryGivesUp(a) PROVE  ServiceInv'
  BY <1>32 DEF RetryGivesUp, Exit, Rest, Unlock
<1>33. ASSUME NEW h \in Humans, HumanReads(h) PROVE  ServiceInv'
  BY <1>33 DEF HumanReads, Snapshot
<1>34. ASSUME NEW h \in Humans, HumanWrites(h) PROVE  ServiceInv'
  BY <1>34 DEF HumanWrites, Rest
<1>35. ASSUME NEW k \in Recheckers, RecheckReads(k) PROVE  ServiceInv'
  BY <1>35 DEF RecheckReads, OnlyPc, Abnormal
<1>36. ASSUME NEW k \in Recheckers, RecheckQueries(k) PROVE  ServiceInv'
  BY <1>36 DEF RecheckQueries, Answers, Live, Rest
<1>37. ASSUME NEW k \in Recheckers, RecheckWrites(k) PROVE  ServiceInv'
  BY <1>37 DEF RecheckWrites, Rest
<1>38. ASSUME NEW a \in Actors, Kill(a) PROVE  ServiceInv'
  BY <1>38 DEF Kill, Exit, Rest, Unlock
<1>39. ASSUME UNCHANGED vars PROVE  ServiceInv'
  BY <1>39 DEF vars
<1>40. ASSUME NEW r \in Rounds, PushRefused(r) PROVE  ServiceInv'
  BY <1>40 DEF PushRefused
<1> HIDE DEF ServiceInv
<1> QED BY <1>1, <1>2, <1>3, <1>4, <1>5, <1>6, <1>7, <1>8, <1>9, <1>10, <1>11,
     <1>12, <1>13, <1>14, <1>15, <1>16, <1>17, <1>18, <1>19, <1>20, <1>21,
     <1>22, <1>23, <1>24, <1>25, <1>26, <1>27, <1>28, <1>29, <1>30, <1>31,
     <1>32, <1>33, <1>34, <1>35, <1>36, <1>37, <1>38, <1>39, <1>40
  DEF Next, Outside, RoundStep, RetryStep

LEMMA SectionStep ==
  ASSUME TypeInv, LockInv, SectionInv, [Next]_vars
  PROVE  SectionInv'
<1> USE OutstockAssumption
  DEF kingdee, record, signals, locals, history, Goto, TypeInv,
      TypeOK, Actors, LockInv, SectionInv, InSection, Creating, Retrying, Created, Creatable,
      Candidates
<1>1. ASSUME NEW d \in Docs, UserPushes(d) PROVE  SectionInv'
  BY <1>1 DEF UserPushes
<1>2. ASSUME NEW d \in Docs, UserAudits(d) PROVE  SectionInv'
  BY <1>2 DEF UserAudits, Live
<1>3. ASSUME NEW d \in Docs, UserDeletes(d) PROVE  SectionInv'
  BY <1>3 DEF UserDeletes, Live
<1>4. ASSUME CallbackArrives PROVE  SectionInv'
  BY <1>4 DEF CallbackArrives
<1>5. ASSUME WmsSaysShipped PROVE  SectionInv'
  BY <1>5 DEF WmsSaysShipped
<1>6. ASSUME CancelRecord PROVE  SectionInv'
  BY <1>6 DEF CancelRecord
<1>7. ASSUME MarkResolved PROVE  SectionInv'
  BY <1>7 DEF MarkResolved, Abnormal
<1>8. ASSUME NEW r \in Rounds, RoundReads(r) PROVE  SectionInv'
  BY <1>8 DEF RoundReads, Snapshot, Candidates
<1>9. ASSUME NEW r \in Rounds, RoundFindsMismatch(r) PROVE  SectionInv'
  BY <1>9 DEF RoundFindsMismatch, Overwrite, Rest
<1>10. ASSUME NEW r \in Rounds, RoundFindsMatch(r) PROVE  SectionInv'
  BY <1>10 DEF RoundFindsMatch, Overwrite, MakeTask, Rest
<1>11. ASSUME NEW r \in Rounds, RoundFallsBack(r) PROVE  SectionInv'
  BY <1>11 DEF RoundFallsBack, MakeTask, FallsBack
<1>12. ASSUME NEW r \in Rounds, RoundTimesOut(r) PROVE  SectionInv'
  BY <1>12 DEF RoundTimesOut, Rest, FallsBack
<1>13. ASSUME NEW r \in Rounds, RoundWaits(r) PROVE  SectionInv'
  BY <1>13 DEF RoundWaits, Rest, FallsBack
<1>14. ASSUME NEW r \in Rounds, CreateLocks(r) PROVE  SectionInv'
  BY <1>14 DEF CreateLocks, Rest
<1>15. ASSUME NEW r \in Rounds, CreateRechecks(r) PROVE  SectionInv'
  BY <1>15 DEF CreateRechecks, Creatable, Exit, Rest, Unlock
<1>16. ASSUME NEW r \in Rounds, CreateQueries(r) PROVE  SectionInv'
  BY <1>16 DEF CreateQueries, Answers, Live
<1>17. ASSUME NEW r \in Rounds, StopOnDuplicates(r) PROVE  SectionInv'
  BY <1>17 DEF StopOnDuplicates, Exit, Rest, Unlock
<1>18. ASSUME NEW r \in Rounds, NEW d \in Docs, PushDoc(r, d) PROVE  SectionInv'
  BY <1>18 DEF PushDoc
<1>19. ASSUME NEW r \in Rounds, Submit(r) PROVE  SectionInv'
  BY <1>19 DEF Submit, Live
<1>20. ASSUME NEW r \in Rounds, Audit(r) PROVE  SectionInv'
  BY <1>20 DEF Audit, Audited, NotAudited
<1>21. ASSUME NEW r \in Rounds, CreateRaises(r) PROVE  SectionInv'
  BY <1>21 DEF CreateRaises, OnlyPc
<1>22. ASSUME NEW r \in Rounds, WriteCreated(r) PROVE  SectionInv'
  BY <1>22 DEF WriteCreated, Exit, Rest, Unlock
<1>23. ASSUME NEW r \in Rounds, WriteFailed(r) PROVE  SectionInv'
  BY <1>23 DEF WriteFailed, Exit, Rest, Unlock
<1>24. ASSUME NEW a \in Retriers, RetryLocks(a) PROVE  SectionInv'
  BY <1>24 DEF RetryLocks, Due
<1>25. ASSUME NEW a \in Retriers, RetryRereads(a) PROVE  SectionInv'
  BY <1>25 DEF RetryRereads, Due, Snapshot, Exit, Rest, Unlock
<1>26. ASSUME NEW a \in Retriers, RetryClaims(a) PROVE  SectionInv'
  BY <1>26 DEF RetryClaims, Exit, Rest, Unlock
<1>27. ASSUME NEW a \in Retriers, RetryFindsDocument(a) PROVE  SectionInv'
  BY <1>27 DEF RetryFindsDocument, OnlyPc, Live
<1>28. ASSUME NEW a \in Retriers, RetryAudits(a) PROVE  SectionInv'
  BY <1>28 DEF RetryAudits, Audited, NotAudited
<1>29. ASSUME NEW a \in Retriers, RetryVerifies(a) PROVE  SectionInv'
  BY <1>29 DEF RetryVerifies, OnlyPc, Live
<1>30. ASSUME NEW a \in Retriers, RetryRaises(a) PROVE  SectionInv'
  BY <1>30 DEF RetryRaises, OnlyPc
<1>31. ASSUME NEW a \in Retriers, RetryResolves(a) PROVE  SectionInv'
  BY <1>31 DEF RetryResolves, Exit, Rest, Unlock
<1>32. ASSUME NEW a \in Retriers, RetryGivesUp(a) PROVE  SectionInv'
  BY <1>32 DEF RetryGivesUp, Exit, Rest, Unlock
<1>33. ASSUME NEW h \in Humans, HumanReads(h) PROVE  SectionInv'
  BY <1>33 DEF HumanReads, Snapshot
<1>34. ASSUME NEW h \in Humans, HumanWrites(h) PROVE  SectionInv'
  BY <1>34 DEF HumanWrites, Rest
<1>35. ASSUME NEW k \in Recheckers, RecheckReads(k) PROVE  SectionInv'
  BY <1>35 DEF RecheckReads, OnlyPc, Abnormal
<1>36. ASSUME NEW k \in Recheckers, RecheckQueries(k) PROVE  SectionInv'
  BY <1>36 DEF RecheckQueries, Answers, Live, Rest
<1>37. ASSUME NEW k \in Recheckers, RecheckWrites(k) PROVE  SectionInv'
  BY <1>37 DEF RecheckWrites, Rest
<1>38. ASSUME NEW a \in Actors, Kill(a) PROVE  SectionInv'
  BY <1>38 DEF Kill, Exit, Rest, Unlock
<1>39. ASSUME UNCHANGED vars PROVE  SectionInv'
  BY <1>39 DEF vars
<1>40. ASSUME NEW r \in Rounds, PushRefused(r) PROVE  SectionInv'
  BY <1>40 DEF PushRefused
<1> HIDE DEF SectionInv
<1> QED BY <1>1, <1>2, <1>3, <1>4, <1>5, <1>6, <1>7, <1>8, <1>9, <1>10, <1>11,
     <1>12, <1>13, <1>14, <1>15, <1>16, <1>17, <1>18, <1>19, <1>20, <1>21,
     <1>22, <1>23, <1>24, <1>25, <1>26, <1>27, <1>28, <1>29, <1>30, <1>31,
     <1>32, <1>33, <1>34, <1>35, <1>36, <1>37, <1>38, <1>39, <1>40
  DEF Next, Outside, RoundStep, RetryStep

LEMMA NumberStep ==
  ASSUME TypeInv, LockInv, RecordInv, SectionInv, [Next]_vars
  PROVE  KeepsNumber
<1> USE OutstockAssumption
  DEF kingdee, record, signals, locals, history, Goto, TypeInv,
      TypeOK, Actors, SectionInv, Created, Creating, KeepsNumber
<1>1. ASSUME NEW d \in Docs, UserPushes(d) PROVE  KeepsNumber
  BY <1>1 DEF UserPushes
<1>2. ASSUME NEW d \in Docs, UserAudits(d) PROVE  KeepsNumber
  BY <1>2 DEF UserAudits, Live
<1>3. ASSUME NEW d \in Docs, UserDeletes(d) PROVE  KeepsNumber
  BY <1>3 DEF UserDeletes, Live
<1>4. ASSUME CallbackArrives PROVE  KeepsNumber
  BY <1>4 DEF CallbackArrives
<1>5. ASSUME WmsSaysShipped PROVE  KeepsNumber
  BY <1>5 DEF WmsSaysShipped
<1>6. ASSUME CancelRecord PROVE  KeepsNumber
  BY <1>6 DEF CancelRecord
<1>7. ASSUME MarkResolved PROVE  KeepsNumber
  BY <1>7 DEF MarkResolved, Abnormal
<1>8. ASSUME NEW r \in Rounds, RoundReads(r) PROVE  KeepsNumber
  BY <1>8 DEF RoundReads, Snapshot, Candidates
<1>9. ASSUME NEW r \in Rounds, RoundFindsMismatch(r) PROVE  KeepsNumber
  BY <1>9 DEF RoundFindsMismatch, Overwrite, Rest
<1>10. ASSUME NEW r \in Rounds, RoundFindsMatch(r) PROVE  KeepsNumber
  BY <1>10 DEF RoundFindsMatch, Overwrite, MakeTask, Rest
<1>11. ASSUME NEW r \in Rounds, RoundFallsBack(r) PROVE  KeepsNumber
  BY <1>11 DEF RoundFallsBack, MakeTask, FallsBack
<1>12. ASSUME NEW r \in Rounds, RoundTimesOut(r) PROVE  KeepsNumber
  BY <1>12 DEF RoundTimesOut, Rest, FallsBack
<1>13. ASSUME NEW r \in Rounds, RoundWaits(r) PROVE  KeepsNumber
  BY <1>13 DEF RoundWaits, Rest, FallsBack
<1>14. ASSUME NEW r \in Rounds, CreateLocks(r) PROVE  KeepsNumber
  BY <1>14 DEF CreateLocks, Rest
<1>15. ASSUME NEW r \in Rounds, CreateRechecks(r) PROVE  KeepsNumber
  BY <1>15 DEF CreateRechecks, Creatable, Exit, Rest, Unlock
<1>16. ASSUME NEW r \in Rounds, CreateQueries(r) PROVE  KeepsNumber
  BY <1>16 DEF CreateQueries, Answers, Live
<1>17. ASSUME NEW r \in Rounds, StopOnDuplicates(r) PROVE  KeepsNumber
  BY <1>17 DEF StopOnDuplicates, Exit, Rest, Unlock
<1>18. ASSUME NEW r \in Rounds, NEW d \in Docs, PushDoc(r, d) PROVE  KeepsNumber
  BY <1>18 DEF PushDoc
<1>19. ASSUME NEW r \in Rounds, Submit(r) PROVE  KeepsNumber
  BY <1>19 DEF Submit, Live
<1>20. ASSUME NEW r \in Rounds, Audit(r) PROVE  KeepsNumber
  BY <1>20 DEF Audit, Audited, NotAudited
<1>21. ASSUME NEW r \in Rounds, CreateRaises(r) PROVE  KeepsNumber
  BY <1>21 DEF CreateRaises, OnlyPc
<1>22. ASSUME NEW r \in Rounds, WriteCreated(r) PROVE  KeepsNumber
  BY <1>22 DEF WriteCreated, Exit, Rest, Unlock
<1>23. ASSUME NEW r \in Rounds, WriteFailed(r) PROVE  KeepsNumber
  BY <1>23 DEF WriteFailed, Exit, Rest, Unlock
<1>24. ASSUME NEW a \in Retriers, RetryLocks(a) PROVE  KeepsNumber
  BY <1>24 DEF RetryLocks, Due
<1>25. ASSUME NEW a \in Retriers, RetryRereads(a) PROVE  KeepsNumber
  BY <1>25 DEF RetryRereads, Due, Snapshot, Exit, Rest, Unlock
<1>26. ASSUME NEW a \in Retriers, RetryClaims(a) PROVE  KeepsNumber
  BY <1>26 DEF RetryClaims, Exit, Rest, Unlock
<1>27. ASSUME NEW a \in Retriers, RetryFindsDocument(a) PROVE  KeepsNumber
  BY <1>27 DEF RetryFindsDocument, OnlyPc, Live
<1>28. ASSUME NEW a \in Retriers, RetryAudits(a) PROVE  KeepsNumber
  BY <1>28 DEF RetryAudits, Audited, NotAudited
<1>29. ASSUME NEW a \in Retriers, RetryVerifies(a) PROVE  KeepsNumber
  BY <1>29 DEF RetryVerifies, OnlyPc, Live
<1>30. ASSUME NEW a \in Retriers, RetryRaises(a) PROVE  KeepsNumber
  BY <1>30 DEF RetryRaises, OnlyPc
<1>31. ASSUME NEW a \in Retriers, RetryResolves(a) PROVE  KeepsNumber
  BY <1>31 DEF RetryResolves, Exit, Rest, Unlock
<1>32. ASSUME NEW a \in Retriers, RetryGivesUp(a) PROVE  KeepsNumber
  BY <1>32 DEF RetryGivesUp, Exit, Rest, Unlock
<1>33. ASSUME NEW h \in Humans, HumanReads(h) PROVE  KeepsNumber
  BY <1>33 DEF HumanReads, Snapshot
<1>34. ASSUME NEW h \in Humans, HumanWrites(h) PROVE  KeepsNumber
  BY <1>34 DEF HumanWrites, Rest
<1>35. ASSUME NEW k \in Recheckers, RecheckReads(k) PROVE  KeepsNumber
  BY <1>35 DEF RecheckReads, OnlyPc, Abnormal
<1>36. ASSUME NEW k \in Recheckers, RecheckQueries(k) PROVE  KeepsNumber
  BY <1>36 DEF RecheckQueries, Answers, Live, Rest
<1>37. ASSUME NEW k \in Recheckers, RecheckWrites(k) PROVE  KeepsNumber
  BY <1>37 DEF RecordInv, CreatedIsFounded, RecheckWrites, Rest
<1>38. ASSUME NEW a \in Actors, Kill(a) PROVE  KeepsNumber
  BY <1>38 DEF Kill, Exit, Rest, Unlock
<1>39. ASSUME UNCHANGED vars PROVE  KeepsNumber
  BY <1>39 DEF vars
<1>40. ASSUME NEW r \in Rounds, PushRefused(r) PROVE  KeepsNumber
  BY <1>40 DEF PushRefused
<1> HIDE DEF KeepsNumber
<1> QED BY <1>1, <1>2, <1>3, <1>4, <1>5, <1>6, <1>7, <1>8, <1>9, <1>10, <1>11,
     <1>12, <1>13, <1>14, <1>15, <1>16, <1>17, <1>18, <1>19, <1>20, <1>21,
     <1>22, <1>23, <1>24, <1>25, <1>26, <1>27, <1>28, <1>29, <1>30, <1>31,
     <1>32, <1>33, <1>34, <1>35, <1>36, <1>37, <1>38, <1>39, <1>40
  DEF Next, Outside, RoundStep, RetryStep

LEMMA HolderStep ==
  ASSUME TypeInv, LockInv, SectionInv, [Next]_vars
  PROVE  Advances
<1> USE OutstockAssumption
  DEF kingdee, record, signals, locals, history, Goto, TypeInv,
      TypeOK, Actors, SectionInv, LockInv, Advances, Left, InSection, Creating, Retrying
<1>1. ASSUME NEW d \in Docs, UserPushes(d) PROVE  Advances
  BY <1>1 DEF UserPushes
<1>2. ASSUME NEW d \in Docs, UserAudits(d) PROVE  Advances
  BY <1>2 DEF UserAudits, Live
<1>3. ASSUME NEW d \in Docs, UserDeletes(d) PROVE  Advances
  BY <1>3 DEF UserDeletes, Live
<1>4. ASSUME CallbackArrives PROVE  Advances
  BY <1>4 DEF CallbackArrives
<1>5. ASSUME WmsSaysShipped PROVE  Advances
  BY <1>5 DEF WmsSaysShipped
<1>6. ASSUME CancelRecord PROVE  Advances
  BY <1>6 DEF CancelRecord
<1>7. ASSUME MarkResolved PROVE  Advances
  BY <1>7 DEF MarkResolved, Abnormal
<1>8. ASSUME NEW r \in Rounds, RoundReads(r) PROVE  Advances
  BY <1>8 DEF RoundReads, Snapshot, Candidates
<1>9. ASSUME NEW r \in Rounds, RoundFindsMismatch(r) PROVE  Advances
  BY <1>9 DEF RoundFindsMismatch, Overwrite, Rest
<1>10. ASSUME NEW r \in Rounds, RoundFindsMatch(r) PROVE  Advances
  BY <1>10 DEF RoundFindsMatch, Overwrite, MakeTask, Rest
<1>11. ASSUME NEW r \in Rounds, RoundFallsBack(r) PROVE  Advances
  BY <1>11 DEF RoundFallsBack, MakeTask, FallsBack
<1>12. ASSUME NEW r \in Rounds, RoundTimesOut(r) PROVE  Advances
  BY <1>12 DEF RoundTimesOut, Rest, FallsBack
<1>13. ASSUME NEW r \in Rounds, RoundWaits(r) PROVE  Advances
  BY <1>13 DEF RoundWaits, Rest, FallsBack
<1>14. ASSUME NEW r \in Rounds, CreateLocks(r) PROVE  Advances
  BY <1>14 DEF CreateLocks, Rest
<1>15. ASSUME NEW r \in Rounds, CreateRechecks(r) PROVE  Advances
  BY <1>15 DEF CreateRechecks, Creatable, Exit, Rest, Unlock
<1>16. ASSUME NEW r \in Rounds, CreateQueries(r) PROVE  Advances
  BY <1>16 DEF CreateQueries, Answers, Live
<1>17. ASSUME NEW r \in Rounds, StopOnDuplicates(r) PROVE  Advances
  BY <1>17 DEF StopOnDuplicates, Exit, Rest, Unlock
<1>18. ASSUME NEW r \in Rounds, NEW d \in Docs, PushDoc(r, d) PROVE  Advances
  BY <1>18 DEF PushDoc
<1>19. ASSUME NEW r \in Rounds, Submit(r) PROVE  Advances
  BY <1>19 DEF Submit, Live
<1>20. ASSUME NEW r \in Rounds, Audit(r) PROVE  Advances
  BY <1>20 DEF Audit, Audited, NotAudited
<1>21. ASSUME NEW r \in Rounds, CreateRaises(r) PROVE  Advances
  BY <1>21 DEF CreateRaises, OnlyPc
<1>22. ASSUME NEW r \in Rounds, WriteCreated(r) PROVE  Advances
  BY <1>22 DEF WriteCreated, Exit, Rest, Unlock
<1>23. ASSUME NEW r \in Rounds, WriteFailed(r) PROVE  Advances
  BY <1>23 DEF WriteFailed, Exit, Rest, Unlock
<1>24. ASSUME NEW a \in Retriers, RetryLocks(a) PROVE  Advances
  BY <1>24 DEF RetryLocks, Due
<1>25. ASSUME NEW a \in Retriers, RetryRereads(a) PROVE  Advances
  BY <1>25 DEF RetryRereads, Due, Snapshot, Exit, Rest, Unlock
<1>26. ASSUME NEW a \in Retriers, RetryClaims(a) PROVE  Advances
  BY <1>26 DEF RetryClaims, Exit, Rest, Unlock
<1>27. ASSUME NEW a \in Retriers, RetryFindsDocument(a) PROVE  Advances
  BY <1>27 DEF RetryFindsDocument, OnlyPc, Live
<1>28. ASSUME NEW a \in Retriers, RetryAudits(a) PROVE  Advances
  BY <1>28 DEF RetryAudits, Audited, NotAudited
<1>29. ASSUME NEW a \in Retriers, RetryVerifies(a) PROVE  Advances
  BY <1>29 DEF RetryVerifies, OnlyPc, Live
<1>30. ASSUME NEW a \in Retriers, RetryRaises(a) PROVE  Advances
  BY <1>30 DEF RetryRaises, OnlyPc
<1>31. ASSUME NEW a \in Retriers, RetryResolves(a) PROVE  Advances
  BY <1>31 DEF RetryResolves, Exit, Rest, Unlock
<1>32. ASSUME NEW a \in Retriers, RetryGivesUp(a) PROVE  Advances
  BY <1>32 DEF RetryGivesUp, Exit, Rest, Unlock
<1>33. ASSUME NEW h \in Humans, HumanReads(h) PROVE  Advances
  BY <1>33 DEF HumanReads, Snapshot
<1>34. ASSUME NEW h \in Humans, HumanWrites(h) PROVE  Advances
  BY <1>34 DEF HumanWrites, Rest
<1>35. ASSUME NEW k \in Recheckers, RecheckReads(k) PROVE  Advances
  BY <1>35 DEF RecheckReads, OnlyPc, Abnormal
<1>36. ASSUME NEW k \in Recheckers, RecheckQueries(k) PROVE  Advances
  BY <1>36 DEF RecheckQueries, Answers, Live, Rest
<1>37. ASSUME NEW k \in Recheckers, RecheckWrites(k) PROVE  Advances
  BY <1>37 DEF RecheckWrites, Rest
<1>38. ASSUME NEW a \in Actors, Kill(a) PROVE  Advances
  BY <1>38 DEF Kill, Exit, Rest, Unlock
<1>39. ASSUME UNCHANGED vars PROVE  Advances
  BY <1>39 DEF vars
<1>40. ASSUME NEW r \in Rounds, PushRefused(r) PROVE  Advances
  BY <1>40 DEF PushRefused
<1> HIDE DEF Advances
<1> QED BY <1>1, <1>2, <1>3, <1>4, <1>5, <1>6, <1>7, <1>8, <1>9, <1>10, <1>11,
     <1>12, <1>13, <1>14, <1>15, <1>16, <1>17, <1>18, <1>19, <1>20, <1>21,
     <1>22, <1>23, <1>24, <1>25, <1>26, <1>27, <1>28, <1>29, <1>30, <1>31,
     <1>32, <1>33, <1>34, <1>35, <1>36, <1>37, <1>38, <1>39, <1>40
  DEF Next, Outside, RoundStep, RetryStep
\* No step of a round or of a retrier leaves it where it was.
LEMMA RoundMoves ==
  ASSUME TypeInv, NEW r \in Rounds, RoundStep(r)
  PROVE  pc'[r] # pc[r]
<1>1. pc \in [Actors -> Pcs] /\ r \in Actors
  BY DEF TypeInv, TypeOK, Actors
<1> USE <1>1 DEF Goto
<1>2. ASSUME RoundReads(r) PROVE pc'[r] # pc[r]
  BY <1>2 DEF RoundReads
<1>3. ASSUME RoundFindsMismatch(r) PROVE pc'[r] # pc[r]
  BY <1>3 DEF RoundFindsMismatch, Rest
<1>4. ASSUME RoundFindsMatch(r) PROVE pc'[r] # pc[r]
  BY <1>4 DEF RoundFindsMatch, MakeTask, Rest
<1>5. ASSUME RoundFallsBack(r) PROVE pc'[r] # pc[r]
  BY <1>5 DEF RoundFallsBack, MakeTask
<1>6. ASSUME RoundTimesOut(r) PROVE pc'[r] # pc[r]
  BY <1>6 DEF RoundTimesOut, Rest
<1>7. ASSUME RoundWaits(r) PROVE pc'[r] # pc[r]
  BY <1>7 DEF RoundWaits, Rest
<1>8. ASSUME CreateLocks(r) PROVE pc'[r] # pc[r]
  BY <1>8 DEF CreateLocks, Rest
<1>9. ASSUME CreateRechecks(r) PROVE pc'[r] # pc[r]
  BY <1>9 DEF CreateRechecks, Exit, Rest
<1>10. ASSUME CreateQueries(r) PROVE pc'[r] # pc[r]
  <2>1. \A S \in Answers : S \subseteq Live
    BY DEF Answers
  <2>2. \A d \in Live : doc[d] \in {"A", "B", "C"}
    BY DEF Live
  <2> QED BY <1>10, <2>1, <2>2 DEF CreateQueries
<1>11. ASSUME StopOnDuplicates(r) PROVE pc'[r] # pc[r]
  BY <1>11 DEF StopOnDuplicates, Exit, Rest
<1>12. ASSUME (\E d \in Docs : PushDoc(r, d)) \/ PushRefused(r) PROVE pc'[r] # pc[r]
  BY <1>12 DEF PushDoc, PushRefused
<1>13. ASSUME Submit(r) PROVE pc'[r] # pc[r]
  BY <1>13 DEF Submit
<1>14. ASSUME Audit(r) PROVE pc'[r] # pc[r]
  BY <1>14 DEF Audit
<1>15. ASSUME CreateRaises(r) PROVE pc'[r] # pc[r]
  BY <1>15 DEF CreateRaises
<1>16. ASSUME WriteCreated(r) PROVE pc'[r] # pc[r]
  BY <1>16 DEF WriteCreated, Exit, Rest
<1>17. ASSUME WriteFailed(r) PROVE pc'[r] # pc[r]
  BY <1>17 DEF WriteFailed, Exit, Rest
<1> QED BY <1>2, <1>3, <1>4, <1>5, <1>6, <1>7, <1>8, <1>9, <1>10, <1>11,
     <1>12, <1>13, <1>14, <1>15, <1>16, <1>17
  DEF RoundStep

LEMMA RetrierMoves ==
  ASSUME TypeInv, NEW a \in Retriers, RetryStep(a)
  PROVE  pc'[a] # pc[a]
<1>1. pc \in [Actors -> Pcs] /\ a \in Actors
  BY DEF TypeInv, TypeOK, Actors
<1> USE <1>1 DEF Goto
<1>2. ASSUME RetryLocks(a) PROVE pc'[a] # pc[a]
  BY <1>2 DEF RetryLocks
<1>3. ASSUME RetryRereads(a) PROVE pc'[a] # pc[a]
  BY <1>3 DEF RetryRereads, Exit, Rest
<1>4. ASSUME RetryClaims(a) PROVE pc'[a] # pc[a]
  BY <1>4 DEF RetryClaims, Exit, Rest
<1>5. ASSUME RetryFindsDocument(a) PROVE pc'[a] # pc[a]
  BY <1>5 DEF RetryFindsDocument
<1>6. ASSUME RetryAudits(a) PROVE pc'[a] # pc[a]
  BY <1>6 DEF RetryAudits
<1>7. ASSUME RetryVerifies(a) PROVE pc'[a] # pc[a]
  BY <1>7 DEF RetryVerifies
<1>8. ASSUME RetryRaises(a) PROVE pc'[a] # pc[a]
  BY <1>8 DEF RetryRaises
<1>9. ASSUME RetryResolves(a) PROVE pc'[a] # pc[a]
  BY <1>9 DEF RetryResolves, Exit, Rest
<1>10. ASSUME RetryGivesUp(a) PROVE pc'[a] # pc[a]
  BY <1>10 DEF RetryGivesUp, Exit, Rest
<1> QED BY <1>2, <1>3, <1>4, <1>5, <1>6, <1>7, <1>8, <1>9, <1>10
  DEF RetryStep

-----------------------------------------------------------------------------
(* The initial state, and the invariants. *)

LEMMA InitInv ==
  ASSUME Init
  PROVE  TypeInv /\ LockInv /\ RecordInv /\ RetryInv /\ ServiceInv /\ SectionInv
<1> USE OutstockAssumption DEF Init
<1>1. TypeInv
  <2>1. Nothing \in Snapshots
    BY DEF Nothing, Snapshots, Statuses, Candidates
  <2>2. /\ doc \in [Docs -> DocStates] /\ ours \in [Docs -> BOOLEAN]
        /\ passed \in [Docs -> BOOLEAN] /\ auditedByUs \in [Docs -> BOOLEAN]
        /\ pushedBlind \in [Docs -> BOOLEAN] /\ auditedBlind \in [Docs -> BOOLEAN]
        /\ cur \in [Actors -> Docs \cup {NoDoc}] /\ pc \in [Actors -> Pcs]
    BY DEF DocStates, Pcs
  <2>3. seen \in [Actors -> Snapshots]
    BY <2>1
  <2>4. /\ status \in Statuses /\ xno \in Docs \cup {NoDoc} /\ err \in Errors
        /\ callback \in {"none", "match", "mismatch"}
        /\ lock \in Rounds \cup Retriers \cup {Free}
    BY DEF Statuses, Candidates, Errors
  <2>5. tries \in 0..MaxAttempts /\ kills \in 0..MaxKills /\ audits \in Nat
    BY DEF Init
  <2>6. stopped \in BOOLEAN /\ shipped \in BOOLEAN /\ onTrust \in BOOLEAN
    BY DEF Init
  <2>7. DueInv
    BY DEF DueInv, DuePcs
  <2> QED BY <2>2, <2>3, <2>4, <2>5, <2>6, <2>7 DEF TypeInv, TypeOK
<1>2. LockInv
  BY DEF LockInv, InSection, Creating, Retrying
<1>3. RecordInv
  BY DEF RecordInv, PassedInv, CreatedIsFounded, ResolvedWasAudited, Created
<1>4. RetryInv
  BY DEF RetryInv, ClaimInv, RetriesBounded, DuePcs
<1>5. ServiceInv
  BY DEF ServiceInv, WorkInv, UsedInv, OneServiceDoc, NeverAuditsTwo
<1>6. SectionInv
  BY DEF SectionInv, Creating, Actors
<1> QED BY <1>1, <1>2, <1>3, <1>4, <1>5, <1>6

LEMMA Invariant == Spec => [](TypeInv /\ LockInv /\ RecordInv /\ RetryInv)
<1>1. Init => TypeInv /\ LockInv /\ RecordInv /\ RetryInv
  BY InitInv
<1>2. TypeInv /\ LockInv /\ RecordInv /\ RetryInv /\ [Next]_vars
        => TypeInv' /\ LockInv' /\ RecordInv' /\ RetryInv'
  BY TypeStep, LockStep, RecordStep, ClaimStep
<1> QED BY <1>1, <1>2, PTL DEF Spec

LEMMA SectionInvariant == Spec => []SectionInv
<1>1. Init => SectionInv
  BY InitInv
<1>2. TypeInv /\ LockInv /\ SectionInv /\ [Next]_vars => SectionInv'
  BY SectionStep
<1> QED BY <1>1, <1>2, Invariant, PTL DEF Spec

LEMMA ServiceInvariant == Spec => []ServiceInv
<1>1. Init => ServiceInv
  BY InitInv
<1>2. TypeInv /\ LockInv /\ ServiceInv /\ [Next]_vars => ServiceInv'
  BY ServiceStep
<1> QED BY <1>1, <1>2, Invariant, PTL DEF Spec

-----------------------------------------------------------------------------
\* Every reachable state has the declared types: no attempt beyond the limit is
\* ever put on record.
THEOREM OutstockTypeCorrect == Spec => []TypeOK
<1>1. TypeInv => TypeOK
  BY DEF TypeInv
<1> QED BY <1>1, Invariant, PTL

\* outstock_created names a document that has been audited, whatever rounds,
\* retries, users, lost and late answers interleave, unless the creator went by
\* an answer that names no document or says nothing of the audit.
THEOREM CreatedIsAudited == Spec => []CreatedIsFounded
<1>1. RecordInv => CreatedIsFounded
  BY DEF RecordInv
<1> QED BY <1>1, Invariant, PTL

\* A record that says created keeps its number and never becomes a duplicate one,
\* whatever rounds overlap: the status is reread under the lock, and what the
\* others write cannot make it created meanwhile. It becomes a failed one only by
\* the creator that wrote it and whose own write, or notice, raised.
THEOREM CreatedStaysCreated == Spec => CreatedKeepsItsNumber
<1>1. TypeInv /\ LockInv /\ RecordInv /\ SectionInv /\ [Next]_vars => [KeepsNumber]_vars
  BY NumberStep
<1>2. [KeepsNumber]_vars
        <=> [(status \in Created) =>
               /\ (xno # NoDoc) => (xno' = xno)
               /\ status' # "duplicate_outstock"
               /\ (status' = "outstock_failed")
                    => \E r \in Rounds : pc[r] = "doubting" /\ cur[r] = xno]_vars
  BY DEF KeepsNumber
<1> QED
  BY <1>1, <1>2, Invariant, SectionInvariant, PTL DEF Spec, CreatedKeepsItsNumber

\* What LockReleased needs beside fairness: the lock is never with somebody who
\* is not inside, and every step of its holder leads nearer to the return, which
\* is at most seven of them away. Nothing inside the lock is repeated.
THEOREM HolderLeadsOut ==
  Spec => /\ [](lock # Free => pc[lock] \in InSection)
          /\ [][Advances]_vars
          /\ [][\A r \in Rounds : RoundStep(r) => pc'[r] # pc[r]]_vars
          /\ [][\A a \in Retriers : RetryStep(a) => pc'[a] # pc[a]]_vars
<1>1. SectionInv => (lock # Free => pc[lock] \in InSection)
  BY DEF SectionInv
<1>2. TypeInv /\ LockInv /\ SectionInv /\ [Next]_vars => [Advances]_vars
  BY HolderStep
<1>3. TypeInv => [\A r \in Rounds : RoundStep(r) => pc'[r] # pc[r]]_vars
  BY RoundMoves
<1>4. TypeInv => [\A a \in Retriers : RetryStep(a) => pc'[a] # pc[a]]_vars
  BY RetrierMoves
<1> QED
  BY <1>1, <1>2, <1>3, <1>4, Invariant, SectionInvariant, PTL DEF Spec

\* auto_resolved, by the delayed audit or by the recheck, means that a document
\* of the notice has been audited.
THEOREM ResolvedIsAudited == Spec => []ResolvedWasAudited
<1>1. RecordInv => ResolvedWasAudited
  BY DEF RecordInv
<1> QED BY <1>1, Invariant, PTL

\* The attempts on record bound the audits asked for, over any number of kills.
THEOREM AuditsBounded == Spec => []RetriesBounded
<1>1. RetryInv => RetriesBounded
  BY DEF RetryInv
<1> QED BY <1>1, Invariant, PTL

\* No number of overlapping rounds leaves two documents of the service's own,
\* unless a query of the round that pushed the second left documents out.
THEOREM OneDocument == Spec => []OneServiceDoc
<1>1. ServiceInv => OneServiceDoc
  BY DEF ServiceInv
<1> QED BY <1>1, ServiceInvariant, PTL

\* The service never audits two documents that both stand, its own and the users'
\* taken together, unless a query before the second audit left documents out.
THEOREM NoTwoAudits == Spec => []NeverAuditsTwo
<1>1. ServiceInv => NeverAuditsTwo
  BY DEF ServiceInv
<1> QED BY <1>1, ServiceInvariant, PTL

-----------------------------------------------------------------------------
(* The contract DocumentOnce, step by step. *)

LEMMA BookRests ==
  ASSUME UNCHANGED <<doc, ours, auditedByUs, passed, pushedBlind, auditedBlind, status, xno,
                     onTrust>>
  PROVE  [Book!Next]_(Book!vars)
BY DEF Book!vars, Book!kingdee, Book!record

\* Writes of the status that take nothing from the documents.
LEMMA BookFollows ==
  ASSUME status' \in Book!Followed,
         UNCHANGED <<doc, ours, auditedByUs, passed, pushedBlind, auditedBlind, xno, onTrust>>
  PROVE  [Book!Next]_(Book!vars)
BY DEF Book!Next, Book!Follows, Book!kingdee

LEMMA BookStep ==
  ASSUME TypeInv, RecordInv, ServiceInv, SectionInv, [Next]_vars
  PROVE  [Book!Next]_(Book!vars)
<1> USE DEF kingdee, record, signals, locals, history
<1>0. /\ pc \in [Actors -> Pcs] /\ cur \in [Actors -> Docs \cup {NoDoc}]
      /\ Rounds \cup Retriers \cup Humans \cup Recheckers = Actors
  BY DEF TypeInv, TypeOK, Actors
<1>1. ASSUME NEW d \in Docs, UserPushes(d) PROVE [Book!Next]_(Book!vars)
  BY <1>1 DEF UserPushes, Book!Next, Book!UserPushes, Book!Becomes, Book!record
<1>2. ASSUME NEW d \in Docs, UserAudits(d) PROVE [Book!Next]_(Book!vars)
  BY <1>2 DEF UserAudits, Book!Next, Book!UserAudits, Book!Becomes, Book!record
<1>3. ASSUME NEW d \in Docs, UserDeletes(d) PROVE [Book!Next]_(Book!vars)
  BY <1>3 DEF UserDeletes, Live, Book!Next, Book!UserDeletes, Book!Standing, Book!Becomes,
              Book!record
<1>4. ASSUME CallbackArrives \/ WmsSaysShipped PROVE [Book!Next]_(Book!vars)
  BY <1>4, BookRests DEF CallbackArrives, WmsSaysShipped
<1>5. ASSUME CancelRecord \/ MarkResolved PROVE [Book!Next]_(Book!vars)
  BY <1>5, BookFollows DEF CancelRecord, MarkResolved, Book!Followed
<1>6. ASSUME NEW r \in Rounds, RoundReads(r) \/ RoundFallsBack(r) \/ RoundWaits(r)
      PROVE  [Book!Next]_(Book!vars)
  BY <1>6, BookRests DEF RoundReads, RoundFallsBack, RoundWaits
<1>7. ASSUME NEW r \in Rounds, RoundFindsMismatch(r) \/ RoundFindsMatch(r)
      PROVE  [Book!Next]_(Book!vars)
  BY <1>7, BookFollows, BookRests
  DEF RoundFindsMismatch, RoundFindsMatch, Overwrite, Book!Followed
<1>8. ASSUME NEW r \in Rounds, RoundTimesOut(r) PROVE [Book!Next]_(Book!vars)
  BY <1>8, BookFollows DEF RoundTimesOut, Book!Followed
<1>9. ASSUME NEW r \in Rounds,
             \/ CreateLocks(r) \/ CreateRechecks(r) \/ CreateQueries(r) \/ PushRefused(r)
             \/ CreateRaises(r)
      PROVE  [Book!Next]_(Book!vars)
  BY <1>9, BookRests
  DEF CreateLocks, CreateRechecks, CreateQueries, PushRefused, CreateRaises, OnlyPc
<1>10. ASSUME NEW r \in Rounds, StopOnDuplicates(r) PROVE [Book!Next]_(Book!vars)
  <2>1. cur[r] \in Docs /\ status \notin Created
    BY <1>0, <1>10 DEF StopOnDuplicates, RecordInv, PassedInv, SectionInv, Creating
  <2>2. Book!StopsOnDuplicates(cur[r])
    BY <1>10, <2>1 DEF StopOnDuplicates, Book!StopsOnDuplicates, Book!Adds, Book!kingdee,
                       Book!Created, Created
  <2> QED
    BY <2>1, <2>2 DEF Book!Next
<1>11. ASSUME NEW r \in Rounds, NEW d \in Docs, PushDoc(r, d) PROVE [Book!Next]_(Book!vars)
  <2>1. seen[r].short \in BOOLEAN
    BY <1>0 DEF TypeInv, TypeOK, Snapshots
  <2>2. seen[r].short \/ \A e \in Live : ~ours[e] /\ ~auditedByUs[e]
    BY <1>0, <1>11 DEF PushDoc, ServiceInv, WorkInv, Live
  <2>3. Book!Push(d, seen[r].short)
    BY <1>11, <2>2 DEF PushDoc, Live, Book!Push, Book!Becomes, Book!Standing, Book!record
  <2> QED
    BY <2>1, <2>3 DEF Book!Next
<1>12. ASSUME NEW r \in Rounds, Submit(r) PROVE [Book!Next]_(Book!vars)
  <2>1. cur[r] \in Docs
    BY <1>0, <1>12 DEF Submit, RecordInv, PassedInv
  <2>2. CASE doc[cur[r]] = "A" /\ doc' = [doc EXCEPT ![cur[r]] = "B"]
    <3>1. Book!Submit(cur[r])
      BY <1>12, <2>1, <2>2 DEF Submit, Book!Submit, Book!Becomes, Book!record
    <3> QED
      BY <2>1, <3>1 DEF Book!Next
  <2>3. CASE UNCHANGED doc
    BY <1>12, <2>3, BookRests DEF Submit
  <2> QED
    BY <1>12, <2>2, <2>3 DEF Submit
<1>13. ASSUME NEW d \in Docs, NEW blind \in BOOLEAN, doc[d] = "B", Audited(d, blind),
              blind \/ \A e \in Live : auditedByUs[e] => e = d,
              UNCHANGED <<ours, pushedBlind, status, xno, onTrust>>
       PROVE  [Book!Next]_(Book!vars)
  <2>1. Book!Audit(d, blind)
    BY <1>13 DEF Audited, Live, Book!Audit, Book!Standing, Book!Becomes, Book!record
  <2> QED
    BY <2>1 DEF Book!Next
<1>14. ASSUME NEW r \in Rounds, Audit(r) PROVE [Book!Next]_(Book!vars)
  <2>1. cur[r] \in Docs /\ seen[r].short \in BOOLEAN
    BY <1>0, <1>14 DEF Audit, RecordInv, PassedInv, TypeInv, TypeOK, Snapshots
  <2>2. seen[r].short \/ \A e \in Live : auditedByUs[e] => e = cur[r]
    BY <1>0, <1>14 DEF Audit, ServiceInv, WorkInv, Live
  <2>3. CASE doc[cur[r]] = "B" /\ Audited(cur[r], seen[r].short)
    BY <1>13, <1>14, <2>1, <2>2, <2>3 DEF Audit
  <2>4. CASE NotAudited
    BY <1>14, <2>4, BookRests DEF Audit, NotAudited
  <2> QED
    BY <1>14, <2>3, <2>4 DEF Audit
<1>15. ASSUME NEW r \in Rounds, WriteCreated(r) PROVE [Book!Next]_(Book!vars)
  <2>1. cur[r] \in Docs \cup {NoDoc} /\ status \notin Created
    BY <1>0, <1>15 DEF WriteCreated, SectionInv, Creating
  <2>2. onTrust' \in BOOLEAN /\ (onTrust' \/ (cur[r] # NoDoc /\ passed[cur[r]]))
    BY <1>0, <1>15 DEF WriteCreated, RecordInv, PassedInv
  <2>3. status' \in Book!Created
    BY <1>15 DEF WriteCreated, Book!Created
  <2>4. Book!Creates(cur[r], status', onTrust')
    BY <1>15, <2>1, <2>2 DEF WriteCreated, Book!Creates, Book!kingdee, Book!Created, Created
  <2> QED
    BY <2>1, <2>2, <2>3, <2>4 DEF Book!Next
<1>16. ASSUME NEW r \in Rounds, WriteFailed(r) PROVE [Book!Next]_(Book!vars)
  <2>1. cur[r] \in Docs \cup {NoDoc}
    BY <1>0
  <2>2. CASE status \notin Created
    <3>1. Book!Fails(cur[r])
      BY <1>16, <2>2 DEF WriteFailed, Book!Fails, Book!kingdee, Book!Created, Created
    <3> QED
      BY <2>1, <3>1 DEF Book!Next
  <2>3. CASE status \in Created
    <3>1. cur[r] = xno /\ xno # NoDoc
      BY <1>0, <1>16, <2>3 DEF WriteFailed, SectionInv, Creating, RecordInv, PassedInv
    <3>2. Book!TakesBack
      BY <1>16, <2>3, <3>1 DEF WriteFailed, Book!TakesBack, Book!kingdee, Book!Created, Created
    <3> QED
      BY <3>2 DEF Book!Next
  <2> QED
    BY <2>2, <2>3
<1>17. ASSUME NEW a \in Retriers,
              \/ RetryLocks(a) \/ RetryRereads(a) \/ RetryClaims(a) \/ RetryFindsDocument(a)
              \/ RetryVerifies(a) \/ RetryRaises(a) \/ RetryGivesUp(a)
       PROVE  [Book!Next]_(Book!vars)
  BY <1>17, BookRests
  DEF RetryLocks, RetryRereads, RetryClaims, RetryFindsDocument, RetryVerifies, RetryRaises,
      RetryGivesUp, OnlyPc
<1>18. ASSUME NEW a \in Retriers, RetryAudits(a) PROVE [Book!Next]_(Book!vars)
  <2>1. seen[a].xno \in Docs
    BY <1>0, <1>18 DEF RetryAudits, TypeInv, TypeOK, DueInv, DuePcs, Snapshots
  <2>2. \A e \in Live : auditedByUs[e] => e = seen[a].xno
    BY <1>0, <1>18 DEF RetryAudits, ServiceInv, WorkInv, Live
  <2>3. CASE doc[seen[a].xno] = "B" /\ Audited(seen[a].xno, FALSE)
    BY <1>13, <1>18, <2>1, <2>2, <2>3 DEF RetryAudits
  <2>4. CASE NotAudited
    BY <1>18, <2>4, BookRests DEF RetryAudits, NotAudited
  <2> QED
    BY <1>18, <2>3, <2>4 DEF RetryAudits
<1>19. ASSUME NEW a \in Retriers, RetryResolves(a) PROVE [Book!Next]_(Book!vars)
  <2>1. PICK d \in Docs : passed[d]
    BY <1>0, <1>19 DEF RetryResolves, RecordInv, PassedInv
  <2>2. CASE status' = status
    BY <1>19, <2>2, BookRests DEF RetryResolves
  <2>3. CASE status' = "auto_resolved"
    <3>1. Book!Resolves(d)
      BY <1>19, <2>1, <2>3 DEF RetryResolves, Book!Resolves, Book!Adds, Book!kingdee
    <3> QED
      BY <3>1 DEF Book!Next
  <2> QED
    BY <1>19, <2>2, <2>3 DEF RetryResolves
<1>20. ASSUME NEW h \in Humans, HumanReads(h) PROVE [Book!Next]_(Book!vars)
  BY <1>20, BookRests DEF HumanReads
<1>21. ASSUME NEW h \in Humans, HumanWrites(h) PROVE [Book!Next]_(Book!vars)
  BY <1>21, BookFollows DEF HumanWrites, Book!Followed
<1>22. ASSUME NEW k \in Recheckers, RecheckReads(k) \/ RecheckQueries(k)
       PROVE  [Book!Next]_(Book!vars)
  BY <1>22, BookRests DEF RecheckReads, RecheckQueries, OnlyPc
<1>23. ASSUME NEW k \in Recheckers, RecheckWrites(k) PROVE [Book!Next]_(Book!vars)
  <2>1. cur[k] \in Docs /\ passed[cur[k]]
    BY <1>0, <1>23 DEF RecheckWrites, RecordInv, PassedInv
  <2>2. Book!Resolves(cur[k])
    BY <1>23, <2>1 DEF RecheckWrites, Book!Resolves, Book!Adds, Book!kingdee
  <2> QED
    BY <2>1, <2>2 DEF Book!Next
<1>24. ASSUME NEW a \in Actors, Kill(a) PROVE [Book!Next]_(Book!vars)
  BY <1>24, BookRests DEF Kill
<1>25. CASE UNCHANGED vars
  BY <1>25, BookRests DEF vars
<1> QED
  BY <1>1, <1>2, <1>3, <1>4, <1>5, <1>6, <1>7, <1>8, <1>9, <1>10, <1>11, <1>12, <1>14,
     <1>15, <1>16, <1>17, <1>18, <1>19, <1>20, <1>21, <1>22, <1>23, <1>24, <1>25
  DEF Next, Outside, RoundStep, RetryStep

\* What the bookkeeper may rely on: every step of every round, retry, repush and
\* recheck is a step of DocumentOnce or nothing.
THEOREM BookkeeperMayRely == Spec => ImplementsDocumentOnce
<1>1. Init => Book!Init
  BY DEF Init, Book!Init
<1>2. TypeInv /\ RecordInv /\ ServiceInv /\ SectionInv /\ [Next]_vars
        => [Book!Next]_(Book!vars)
  BY BookStep
<1> QED
  BY <1>1, <1>2, Invariant, SectionInvariant, ServiceInvariant, PTL
  DEF Spec, ImplementsDocumentOnce, Book!Spec
=============================================================================
