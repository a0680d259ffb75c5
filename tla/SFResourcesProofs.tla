-------------------------- MODULE SFResourcesProofs --------------------------
(***************************************************************************)
(* Proofs about SFPool, SFKingdeeSession and their composition, for any    *)
(* number of connections, tasks, clients and sessions. Each component's    *)
(* invariant is proved of its own specification; SFResources implements    *)
(* both, so it has them as well.                                           *)
(***************************************************************************)
EXTENDS SFResources, FiniteSetTheorems, TLAPS

-----------------------------------------------------------------------------
(* The pool. *)

\* Who asks for a second connection is one of the few that nest and has exactly
\* one, so that the connections of those who wait are as many as they are.
OneEach ==
  /\ \A c \in Conns :
       phase[lent[c]] \in {"asksSecond", "holdsSecond"} /\ ~Free(c) => lent[c] \in Nested
  /\ \A c, d \in Conns :
       c # d /\ lent[c] = lent[d] /\ ~Free(c) => phase[lent[c]] = "holdsSecond"
  /\ \A c, d, e \in Conns :
       c # d /\ d # e /\ c # e /\ lent[c] = lent[d] /\ lent[d] = lent[e] => Free(c)
  /\ \A b \in Borrowers : phase[b] \in {"asksSecond", "holdsSecond"} => b \in Nested

PoolInv == PoolTypeOK /\ OneEach

LEMMA PoolStart == PoolInit => PoolInv
BY PoolAssumption DEF PoolInit, PoolInv, PoolTypeOK, OneEach, Free, Borrowers, Phases

\* One step of one borrower keeps the accounts.
LEMMA PoolStepKeeps ==
  ASSUME PoolInv, NEW b \in Borrowers, PoolStep(b)
  PROVE  PoolInv'
<1> USE PoolAssumption DEF PoolInv, PoolTypeOK, OneEach, Free, MovesTo
<1>1. b # NoOne
  BY DEF Borrowers
<1>2. CASE Asks(b)
  BY <1>1, <1>2 DEF Asks, Phases
<1>3. CASE AsksSecond(b)
  BY <1>1, <1>3 DEF AsksSecond, Phases
<1>4. CASE Lends(b) /\ ( \/ phase[b] = "asks" /\ MovesTo(b, "holds")
                         \/ phase[b] = "asksSecond" /\ MovesTo(b, "holdsSecond"))
           /\ UNCHANGED inner
  <2> DEFINE k == CHOOSE c \in Conns : Free(c)
  <2>1. k \in Conns /\ lent[k] = NoOne /\ lent' = [lent EXCEPT ![k] = b]
    BY <1>4 DEF Lends
  <2> HIDE DEF k
  <2>2. PoolTypeOK'
    BY <1>1, <1>4, <2>1 DEF Phases
  <2>3. OneEach'
    BY <1>1, <1>4, <2>1 DEF Phases
  <2> QED BY <2>2, <2>3
<1>5. CASE ReturnsSecond(b)
  <2> DEFINE k == CHOOSE c \in Conns : lent[c] = b
  <2>1. lent' = [lent EXCEPT ![k] = NoOne]
    BY <1>5 DEF ReturnsSecond
  <2>2. \A c \in Conns : lent[c] = b => k \in Conns /\ lent[k] = b
    OBVIOUS
  <2> HIDE DEF k
  <2>3. \A c \in Conns : lent'[c] = b => lent[c] = b /\ c # k
    BY <1>1, <2>1
  <2>4. \A c \in Conns : c # k => lent'[c] = lent[c]
    BY <2>1
  <2>5. k \in Conns => lent'[k] = NoOne
    BY <2>1
  <2>6. phase[b] = "holdsSecond" /\ phase' = [phase EXCEPT ![b] = "holds"] /\ inner' = inner
    BY <1>5 DEF ReturnsSecond
  <2>7. PoolTypeOK'
    BY <1>1, <2>1, <2>6 DEF Phases
  <2>8. \A c, d \in Conns : c # d /\ lent'[c] = lent'[d] /\ lent'[c] # NoOne => lent'[c] # b
    BY <2>2, <2>3, <1>1
  <2>9. OneEach'
    BY <1>1, <2>3, <2>4, <2>5, <2>6, <2>8
  <2> QED BY <2>7, <2>9
<1>6. CASE Returns(b)
  <2>1. \A c \in Conns : lent'[c] = IF lent[c] = b THEN NoOne ELSE lent[c]
    BY <1>6 DEF Returns
  <2>2. phase' = [phase EXCEPT ![b] = "idle"] /\ inner' = [inner EXCEPT ![b] = 0]
    BY <1>6 DEF Returns
  <2>3. PoolTypeOK'
    BY <1>1, <1>6, <2>1, <2>2 DEF Phases, Returns
  <2>4. OneEach'
    BY <1>1, <2>1, <2>2
  <2> QED BY <2>3, <2>4
<1> QED
  BY <1>2, <1>3, <1>4, <1>5, <1>6 DEF PoolStep, Gets, GetsSecond

LEMMA PoolInvariant == PoolSpec => []PoolInv
<1>1. PoolInv /\ UNCHANGED poolVars => PoolInv'
  BY DEF PoolInv, PoolTypeOK, OneEach, Free, poolVars
<1>2. PoolInv /\ [PoolNext]_poolVars => PoolInv'
  BY <1>1, PoolStepKeeps DEF PoolNext
<1> QED BY PoolStart, <1>2, PTL DEF PoolSpec

\* If everything were lent to waiting tasks, each of them would have one
\* connection, and there are fewer of them than connections.
LEMMA Counting == PoolInv => NoStandstill
<1> SUFFICES ASSUME PoolInv, \A c \in Conns : ~Free(c),
                    \A c \in Conns : phase[lent[c]] = "asksSecond"
             PROVE  FALSE
  BY DEF NoStandstill
<1>1. lent \in [Conns -> Nested]
  BY DEF PoolInv, PoolTypeOK, OneEach
<1>2. \A c, d \in Conns : lent[c] = lent[d] => c = d
  BY DEF PoolInv, OneEach
<1>3. lent \in Injection(Conns, Nested)
  BY <1>1, <1>2 DEF Injection, IsInjective
<1>4. Cardinality(Conns) <= Cardinality(Nested)
  BY <1>3, FS_Injection, PoolAssumption
<1>5. Cardinality(Conns) \in Nat /\ Cardinality(Nested) \in Nat
  BY FS_CardinalityType, PoolAssumption
<1> QED BY <1>4, <1>5, PoolAssumption

-----------------------------------------------------------------------------
(* The Kingdee session. *)

\* What the flags of a _call allow it to have sent by now.
Allowed(r) ==
  IF r.kind = "write" THEN (IF r.lostOK THEN 0 ELSE 1)
  ELSE (IF r.lostOK THEN 0 ELSE 2) + (IF r.gatewayOK THEN 0 ELSE 1)

\* A write is sent again only after a session Kingdee did not know, which means
\* that it has not been carried out.
Budget(r) ==
  /\ r.pc = "idle" => r.posts = 0 /\ r.lostOK /\ r.gatewayOK
  /\ r.pc # "reply" => r.posts <= Allowed(r) /\ r.runs = 0
  /\ r.pc = "reply" =>
       /\ r.posts <= Allowed(r) + 1 /\ r.runs <= 1
       /\ r.answer = "lost" \/ r.kind = "read" => r.runs = 0

\* A client that hears of a lost session hears of one that is gone for good.
Gone(r) ==
  /\ r.cookies <= made
  /\ r.pc = "reply" /\ r.answer = "lost" => r.cookies \notin alive

\* The part of one client.
Fits(c) ==
  /\ call[c] \in CallStates /\ Budget(call[c]) /\ Gone(call[c])
  /\ call[c].pc = "login" => lock = c /\ ~Usable(cache)

SessionInv == SessionTypeOK /\ \A c \in Clients : Fits(c)

LEMMA SessionStart == SessionInit => SessionInv
BY SessionAssumption
DEF SessionInit, SessionInv, SessionTypeOK, Fits, Budget, Allowed, Gone, CallIdle, CallStates,
    Answers

\* What the others know stays true while sessions come and go.
LEMMA FadingKeeps ==
  ASSUME SessionInv, NEW s \in Sessions, Ages(s) \/ Dies(s)
  PROVE  SessionInv'
<1> USE DEF SessionInv, SessionTypeOK, Fits, Gone, Usable, Budget, Allowed
<1>1. CASE Ages(s)
  BY <1>1 DEF Ages
<1>2. CASE Dies(s)
  BY <1>2 DEF Dies
<1> QED BY <1>1, <1>2

\* A step of c that leaves sessions, cache and lock alone need only keep c's part.
LEMMA OneMoves ==
  ASSUME SessionInv, NEW c \in Clients, NEW r \in CallStates,
         call' = [call EXCEPT ![c] = r],
         UNCHANGED <<cache, lock, alive, old, made>>,
         Budget(r), Gone(r), r.pc # "login", lock # c
  PROVE  SessionInv'
<1>1. call'[c] = r /\ \A d \in Clients \ {c} : call'[d] = call[d]
  BY DEF SessionInv, SessionTypeOK
<1>2. call' \in [Clients -> CallStates]
  BY DEF SessionInv, SessionTypeOK
<1>3. SessionTypeOK'
  BY <1>1, <1>2 DEF SessionInv, SessionTypeOK
<1>4. ASSUME NEW d \in Clients PROVE Fits(d)'
  <2>1. CASE d = c
    BY <1>1, <2>1 DEF Fits, Budget, Allowed, Gone
  <2>2. CASE d # c
    BY <1>1, <2>2 DEF SessionInv, Fits, Budget, Allowed, Gone, Usable
  <2> QED BY <2>1, <2>2
<1> QED BY <1>3, <1>4 DEF SessionInv

LEMMA BeginsKeeps ==
  ASSUME SessionInv, NEW c \in Clients, NEW kind \in {"read", "write"}, Begins(c, kind)
  PROVE  SessionInv'
<1>1. PICK k \in {0, call[c].cookies} :
        call' = [call EXCEPT ![c] = [@ EXCEPT !.pc = "call", !.kind = kind, !.cookies = k]]
  BY DEF Begins
<1> DEFINE r == [call[c] EXCEPT !.pc = "call", !.kind = kind, !.cookies = k]
<1>2. call[c] \in CallStates /\ Fits(c) /\ call[c].pc = "idle"
  BY DEF SessionInv, SessionTypeOK, Begins
<1>k. k \in 0..MaxSessions /\ k <= made
  BY <1>2, SessionAssumption DEF SessionInv, SessionTypeOK, CallStates, Fits, Gone
<1>3. r \in CallStates /\ Budget(r) /\ Gone(r) /\ r.pc = "call"
  <2>1. r \in CallStates
    BY <1>2, <1>k DEF CallStates
  <2>2. /\ r.pc = "call" /\ r.kind = kind /\ r.cookies = k
        /\ r.posts = call[c].posts /\ r.runs = call[c].runs
        /\ r.lostOK = call[c].lostOK /\ r.gatewayOK = call[c].gatewayOK /\ r.answer = call[c].answer
    BY <1>2, <1>k DEF CallStates
  <2> HIDE DEF r
  <2>3. Budget(r) /\ Gone(r)
    BY <2>2, <1>2, <1>k DEF CallStates, Fits, Budget, Allowed, Gone
  <2> QED BY <2>1, <2>2, <2>3
<1>4. lock # c
  BY <1>2, SessionAssumption DEF SessionInv, SessionTypeOK
<1>5. call' = [call EXCEPT ![c] = r] /\ UNCHANGED <<cache, lock, alive, old, made>>
  BY <1>1 DEF Begins
<1> HIDE DEF r
<1> QED BY <1>3, <1>4, <1>5, OneMoves

\* Own cookies, or those of the cache, are of a session that was made.
LEMMA TakesKeeps ==
  ASSUME SessionInv, NEW c \in Clients, UsesOwn(c) \/ Reuses(c)
  PROVE  SessionInv'
<1>1. PICK k \in {cache, call[c].cookies} :
        call' = [call EXCEPT ![c] = [@ EXCEPT !.pc = "post", !.cookies = k]]
  <2>1. CASE UsesOwn(c)
    <3>1. [call[c] EXCEPT !.pc = "post"]
            = [call[c] EXCEPT !.pc = "post", !.cookies = call[c].cookies]
      BY DEF SessionInv, Fits, CallStates
    <3> QED BY <2>1, <3>1 DEF UsesOwn
  <2>2. CASE Reuses(c)
    BY <2>2 DEF Reuses
  <2> QED BY <2>1, <2>2
<1> DEFINE r == [call[c] EXCEPT !.pc = "post", !.cookies = k]
<1>2. call[c] \in CallStates /\ Fits(c) /\ call[c].pc = "call" /\ cache \in 0..made
      /\ made \in 0..MaxSessions
  BY DEF SessionInv, SessionTypeOK, UsesOwn, Reuses
<1>k. k \in 0..MaxSessions /\ k <= made
  BY <1>2, SessionAssumption DEF CallStates, Fits, Gone
<1>3. r \in CallStates /\ Budget(r) /\ Gone(r) /\ r.pc = "post"
  <2>1. r \in CallStates
    BY <1>2, <1>k DEF CallStates
  <2>2. /\ r.pc = "post" /\ r.kind = call[c].kind /\ r.cookies = k
        /\ r.posts = call[c].posts /\ r.runs = call[c].runs
        /\ r.lostOK = call[c].lostOK /\ r.gatewayOK = call[c].gatewayOK /\ r.answer = call[c].answer
    BY <1>2, <1>k DEF CallStates
  <2> HIDE DEF r
  <2>3. Budget(r) /\ Gone(r)
    BY <2>2, <1>2, <1>k DEF CallStates, Fits, Budget, Allowed, Gone
  <2> QED BY <2>1, <2>2, <2>3
<1>4. lock # c
  BY <1>2, SessionAssumption DEF SessionInv, SessionTypeOK
<1>5. call' = [call EXCEPT ![c] = r] /\ UNCHANGED <<cache, lock, alive, old, made>>
  BY <1>1 DEF UsesOwn, Reuses
<1> HIDE DEF r
<1> QED BY <1>3, <1>4, <1>5, OneMoves

LEMMA PostsKeeps ==
  ASSUME SessionInv, NEW c \in Clients, Posts(c)
  PROVE  SessionInv'
<1>1. PICK ran \in BOOLEAN, a \in Answers \ {"none"} :
        /\ ran => call[c].cookies \in alive
        /\ a = "lost" => call[c].cookies \notin alive
        /\ call' = [call EXCEPT ![c] =
             [@ EXCEPT !.pc = "reply", !.answer = a, !.posts = call[c].posts + 1,
                       !.runs = Counts(c, ran)]]
  BY DEF Posts
<1> DEFINE n == Counts(c, ran)
           m == call[c].posts + 1
           r == [call[c] EXCEPT !.pc = "reply", !.answer = a, !.posts = m, !.runs = n]
<1>2. call[c] \in CallStates /\ Fits(c) /\ call[c].pc = "post"
  BY DEF SessionInv, SessionTypeOK, Posts
<1>3. n \in 0..1 /\ (a = "lost" \/ call[c].kind = "read" => n = 0)
  BY <1>1, <1>2 DEF CallStates, Fits, Budget, Counts
<1>4. n \in Nat /\ m \in Nat /\ m = call[c].posts + 1
  BY <1>2, <1>3 DEF CallStates
<1>7. call' = [call EXCEPT ![c] = r] /\ UNCHANGED <<cache, lock, alive, old, made>>
  BY <1>1 DEF Posts
<1> HIDE DEF n, m
<1>5. r \in CallStates /\ Budget(r) /\ Gone(r) /\ r.pc = "reply"
  <2>1. r \in CallStates
    BY <1>2, <1>4 DEF CallStates
  <2>2. /\ r.pc = "reply" /\ r.kind = call[c].kind /\ r.cookies = call[c].cookies
        /\ r.posts = m /\ r.runs = n
        /\ r.lostOK = call[c].lostOK /\ r.gatewayOK = call[c].gatewayOK /\ r.answer = a
    BY <1>2, <1>4 DEF CallStates
  <2> HIDE DEF r
  <2>3. Budget(r) /\ Gone(r)
    BY <2>2, <1>2, <1>4, <1>1, <1>3 DEF CallStates, Fits, Budget, Allowed, Gone
  <2> QED BY <2>1, <2>2, <2>3
<1>6. lock # c
  BY <1>2, SessionAssumption DEF SessionInv, SessionTypeOK
<1> HIDE DEF r
<1> QED BY <1>5, <1>6, <1>7, OneMoves

LEMMA RepeatsKeeps ==
  ASSUME SessionInv, NEW c \in Clients, HearsGateway(c)
  PROVE  SessionInv'
<1> DEFINE r == [call[c] EXCEPT !.pc = "call", !.answer = "none", !.gatewayOK = FALSE]
<1>1. call[c] \in CallStates /\ Fits(c) /\ call[c].pc = "reply" /\ call[c].kind = "read"
      /\ call[c].gatewayOK
  BY DEF SessionInv, SessionTypeOK, HearsGateway, Repeats
<1>2. r \in CallStates /\ Budget(r) /\ Gone(r) /\ r.pc = "call"
  <2>1. r \in CallStates
    BY <1>1 DEF CallStates, Answers
  <2>2. /\ r.pc = "call" /\ r.kind = call[c].kind /\ r.cookies = call[c].cookies
        /\ r.posts = call[c].posts /\ r.runs = call[c].runs
        /\ r.lostOK = call[c].lostOK /\ r.gatewayOK = FALSE /\ r.answer = "none"
    BY <1>1 DEF CallStates, Answers
  <2> HIDE DEF r
  <2>3. Budget(r) /\ Gone(r)
    BY <2>2, <1>1 DEF CallStates, Fits, Budget, Allowed, Gone
  <2> QED BY <2>1, <2>2, <2>3
<1>3. lock # c
  BY <1>1, SessionAssumption DEF SessionInv, SessionTypeOK
<1>4. call' = [call EXCEPT ![c] = r] /\ UNCHANGED <<cache, lock, alive, old, made>>
  BY DEF HearsGateway
<1> HIDE DEF r
<1> QED BY <1>2, <1>3, <1>4, OneMoves

LEMMA EndsKeeps ==
  ASSUME SessionInv, NEW c \in Clients, Ends(c)
  PROVE  SessionInv'
<1> DEFINE r == [CallIdle EXCEPT !.cookies = call[c].cookies]
<1>1. call[c] \in CallStates /\ Fits(c) /\ call[c].pc = "reply"
  BY DEF SessionInv, SessionTypeOK, Ends
<1>2. r \in CallStates /\ Budget(r) /\ Gone(r) /\ r.pc = "idle"
  <2>1. r \in CallStates
    BY <1>1 DEF CallIdle, CallStates, Answers
  <2>2. /\ r.pc = "idle" /\ r.kind = "read" /\ r.cookies = call[c].cookies
        /\ r.posts = 0 /\ r.runs = 0
        /\ r.lostOK = TRUE /\ r.gatewayOK = TRUE /\ r.answer = "none"
    BY <1>1 DEF CallIdle, CallStates, Answers
  <2> HIDE DEF r
  <2>3. Budget(r) /\ Gone(r)
    BY <2>2, <1>1 DEF CallStates, Fits, Budget, Allowed, Gone
  <2> QED BY <2>1, <2>2, <2>3
<1>3. lock # c
  BY <1>1, SessionAssumption DEF SessionInv, SessionTypeOK
<1>4. call' = [call EXCEPT ![c] = r] /\ UNCHANGED <<cache, lock, alive, old, made>>
  BY DEF Ends, Idles
<1> HIDE DEF r
<1> QED BY <1>2, <1>3, <1>4, OneMoves

\* The lock is free and nothing in the cache is of use: the login may start.
LEMMA StartsKeeps ==
  ASSUME SessionInv, NEW c \in Clients, StartsLogin(c)
  PROVE  SessionInv'
<1> DEFINE r == [call[c] EXCEPT !.pc = "login"]
<1>1. /\ call[c] \in CallStates /\ Fits(c) /\ call[c].pc = "call"
      /\ lock = Nobody /\ ~Usable(cache) /\ lock' = c
      /\ call' = [call EXCEPT ![c] = r] /\ UNCHANGED <<cache, alive, old, made>>
  BY DEF SessionInv, SessionTypeOK, StartsLogin
<1>2. r \in CallStates /\ r.pc = "login" /\ Budget(r) /\ Gone(r)
  BY <1>1 DEF CallStates, Fits, Budget, Allowed, Gone
<1>3. call'[c] = r /\ \A d \in Clients \ {c} : call'[d] = call[d]
  BY <1>1 DEF SessionInv, SessionTypeOK
<1>4. SessionTypeOK'
  BY <1>1, <1>2, <1>3, SessionAssumption DEF SessionInv, SessionTypeOK
<1>5. ASSUME NEW d \in Clients \ {c} PROVE call[d].pc # "login"
  BY <1>1, SessionAssumption DEF SessionInv, Fits
<1> HIDE DEF r
<1>6. ASSUME NEW d \in Clients PROVE Fits(d)'
  <2>1. CASE d = c
    BY <1>1, <1>2, <1>3, <2>1 DEF Fits, Budget, Allowed, Gone, Usable
  <2>2. CASE d # c
    BY <1>1, <1>3, <1>5, <2>2 DEF SessionInv, Fits, Budget, Allowed, Gone
  <2> QED BY <2>1, <2>2
<1> QED BY <1>4, <1>6 DEF SessionInv

\* The new session is nobody else's, and nobody else is logging in.
LEMMA LogsInKeeps ==
  ASSUME SessionInv, NEW c \in Clients, LogsIn(c)
  PROVE  SessionInv'
<1> DEFINE m == made + 1
           r == [call[c] EXCEPT !.pc = "post", !.cookies = m]
<1>1. /\ call[c] \in CallStates /\ Fits(c) /\ call[c].pc = "login"
      /\ made \in Nat /\ m \in 1..MaxSessions /\ made' = m /\ m > made
      /\ alive' = alive \cup {m} /\ alive \subseteq 1..made /\ old \subseteq 1..made
      /\ cache' = m /\ lock' = Nobody /\ old' = old
      /\ call' = [call EXCEPT ![c] = r]
  BY SessionAssumption DEF SessionInv, SessionTypeOK, LogsIn
<1> HIDE DEF m
<1>2. r \in CallStates
  <2>1. call[c] \in CallStates /\ m \in 0..MaxSessions
    BY <1>1
  <2> QED BY <2>1 DEF CallStates
<1>3. /\ r.pc = "post" /\ r.kind = call[c].kind /\ r.cookies = m
      /\ r.posts = call[c].posts /\ r.runs = call[c].runs
      /\ r.lostOK = call[c].lostOK /\ r.gatewayOK = call[c].gatewayOK
  BY <1>1 DEF CallStates
<1> HIDE DEF r
<1>4. call'[c] = r /\ \A d \in Clients \ {c} : call'[d] = call[d]
  BY <1>1 DEF SessionInv, SessionTypeOK
<1>5. SessionTypeOK'
  BY <1>1, <1>2, SessionAssumption DEF SessionInv, SessionTypeOK
<1>6. ASSUME NEW d \in Clients \ {c} PROVE call[d].pc # "login"
  BY <1>1 DEF SessionInv, Fits
<1>7. ASSUME NEW d \in Clients PROVE Fits(d)'
  <2>1. CASE d = c
    BY <1>1, <1>2, <1>3, <1>4, <2>1 DEF Fits, Budget, Allowed, Gone
  <2>2. CASE d # c
    <3>1. call[d] \in CallStates /\ Fits(d) /\ call'[d] = call[d] /\ call[d].pc # "login"
      BY <1>4, <1>6, <2>2 DEF SessionInv, Fits
    <3>2. Gone(call[d])'
      BY <1>1, <3>1 DEF Fits, Gone, CallStates
    <3> QED BY <3>1, <3>2 DEF Fits, Budget, Allowed
  <2> QED BY <2>1, <2>2
<1> QED BY <1>5, <1>7 DEF SessionInv

LEMMA LoginFailsKeeps ==
  ASSUME SessionInv, NEW c \in Clients, LoginFails(c)
  PROVE  SessionInv'
<1> DEFINE r == [CallIdle EXCEPT !.cookies = call[c].cookies]
<1>1. /\ call[c] \in CallStates /\ Fits(c) /\ call[c].pc = "login" /\ lock' = Nobody
      /\ call' = [call EXCEPT ![c] = r] /\ UNCHANGED <<cache, alive, old, made>>
  BY DEF SessionInv, SessionTypeOK, LoginFails, Idles
<1>2. r \in CallStates /\ r.pc = "idle" /\ Budget(r) /\ Gone(r)
  <2>1. call[c] \in CallStates /\ Fits(c)
    BY <1>1
  <2>2. r \in CallStates
    BY <2>1 DEF CallIdle, CallStates, Answers
  <2>3. /\ r.pc = "idle" /\ r.kind = "read" /\ r.cookies = call[c].cookies
        /\ r.posts = 0 /\ r.runs = 0 /\ r.lostOK = TRUE /\ r.gatewayOK = TRUE
    BY <2>1 DEF CallIdle, CallStates
  <2> HIDE DEF r
  <2> QED BY <2>1, <2>2, <2>3 DEF Fits, Budget, Allowed, Gone
<1> HIDE DEF r
<1>3. call'[c] = r /\ \A d \in Clients \ {c} : call'[d] = call[d]
  BY <1>1 DEF SessionInv, SessionTypeOK
<1>4. SessionTypeOK'
  BY <1>1, <1>2, <1>3 DEF SessionInv, SessionTypeOK
<1>5. ASSUME NEW d \in Clients \ {c} PROVE call[d].pc # "login"
  BY <1>1 DEF SessionInv, Fits
<1>6. ASSUME NEW d \in Clients PROVE Fits(d)'
  <2>1. CASE d = c
    BY <1>1, <1>2, <1>3, <2>1 DEF Fits, Budget, Allowed, Gone
  <2>2. CASE d # c
    BY <1>1, <1>3, <1>5, <2>2 DEF SessionInv, Fits, Budget, Allowed, Gone
  <2> QED BY <2>1, <2>2
<1> QED BY <1>4, <1>6 DEF SessionInv

\* The one retry after a loss; an empty cache suits whoever is logging in.
LEMMA LostKeeps ==
  ASSUME SessionInv, NEW c \in Clients, HearsLost(c)
  PROVE  SessionInv'
<1> DEFINE r == [call[c] EXCEPT !.pc = "call", !.answer = "none", !.cookies = 0,
                                !.lostOK = FALSE, !.gatewayOK = TRUE]
<1>1. /\ call[c] \in CallStates /\ Fits(c) /\ call[c].pc = "reply"
      /\ call[c].answer = "lost" /\ call[c].lostOK
      /\ call' = [call EXCEPT ![c] = r] /\ UNCHANGED <<lock, alive, old, made>>
      /\ cache' \in {0, cache} /\ made \in Nat
  BY SessionAssumption
  DEF SessionInv, SessionTypeOK, HearsLost, OnceMore, Evicts
<1>2. r \in CallStates
  <2>1. call[c] \in CallStates /\ 0 \in 0..MaxSessions
    BY <1>1, SessionAssumption
  <2> QED BY <2>1 DEF CallStates, Answers
<1>3. /\ r.pc = "call" /\ r.kind = call[c].kind /\ r.cookies = 0
      /\ r.posts = call[c].posts /\ r.runs = call[c].runs
      /\ r.lostOK = FALSE /\ r.gatewayOK = TRUE
  BY <1>1 DEF CallStates
<1> HIDE DEF r
<1>4. Budget(r) /\ Gone(r)
  BY <1>1, <1>3 DEF CallStates, Fits, Budget, Allowed, Gone
<1>5. call'[c] = r /\ \A d \in Clients \ {c} : call'[d] = call[d]
  BY <1>1 DEF SessionInv, SessionTypeOK
<1>6. lock # c
  BY <1>1, SessionAssumption DEF SessionInv, SessionTypeOK
<1>7. SessionTypeOK'
  BY <1>1, <1>2, <1>5, <1>6 DEF SessionInv, SessionTypeOK
<1>8. ASSUME NEW d \in Clients PROVE Fits(d)'
  <2>1. CASE d = c
    BY <1>1, <1>2, <1>3, <1>4, <1>5, <2>1 DEF Fits, Budget, Allowed, Gone
  <2>2. CASE d # c
    BY <1>1, <1>5, <2>2 DEF SessionInv, Fits, Budget, Allowed, Gone, Usable
  <2> QED BY <2>1, <2>2
<1> QED BY <1>7, <1>8 DEF SessionInv

LEMMA SessionInvariant == SessionSpec => []SessionInv
<1>1. ASSUME SessionInv, UNCHANGED sessionVars PROVE SessionInv'
  BY <1>1 DEF SessionInv, SessionTypeOK, Fits, Budget, Allowed, Gone, Usable, sessionVars
<1>2. ASSUME SessionInv, SessionNext PROVE SessionInv'
  <2>1. CASE \E s \in Sessions : Ages(s) \/ Dies(s)
    BY <1>2, <2>1, FadingKeeps
  <2>2. CASE \E c \in Clients : CallStep(c)
    BY <1>2, <2>2, TakesKeeps, StartsKeeps, LogsInKeeps, LoginFailsKeeps, PostsKeeps,
       LostKeeps, RepeatsKeeps, EndsKeeps
    DEF CallStep, TakesSession, Answered
  <2>3. CASE \E c \in Clients, kind \in {"read", "write"} : Begins(c, kind)
    BY <1>2, <2>3, BeginsKeeps
  <2> QED BY <1>2, <2>1, <2>2, <2>3 DEF SessionNext
<1> QED BY SessionStart, <1>1, <1>2, PTL DEF SessionSpec

\* What the invariant says of a call.
LEMMA CallBounds == SessionInv => WriteRunsOnce /\ PostsBounded /\ NoNeedlessLogin
<1> SUFFICES ASSUME SessionInv, NEW c \in Clients
             PROVE  /\ call[c].kind = "write" => call[c].runs <= 1
                    /\ call[c].posts <= IF call[c].kind = "write" THEN 2 ELSE 4
                    /\ call[c].pc = "login" => lock = c /\ ~Usable(cache)
  BY DEF WriteRunsOnce, PostsBounded, NoNeedlessLogin
<1>1. call[c] \in CallStates /\ Budget(call[c])
  BY DEF SessionInv, Fits
<1>2. call[c].runs <= 1
  BY <1>1 DEF CallStates, Budget
<1>3. call[c].posts <= IF call[c].kind = "write" THEN 2 ELSE 4
  BY <1>1 DEF CallStates, Budget, Allowed
<1> QED BY <1>2, <1>3 DEF SessionInv, Fits

-----------------------------------------------------------------------------
(* The composition. *)

\* A step of the process is a step of the pool or leaves it alone.
LEMMA HasPool == Spec => PoolSpec
<1>1. [Next]_vars => [PoolNext]_poolVars
  BY DEF Next, vars, Borrows, Starts, Calls, SessionsFade, PoolNext
<1> QED BY <1>1, PTL DEF Spec, Init, PoolSpec

LEMMA HasSession == Spec => SessionSpec
<1>1. [Next]_vars => [SessionNext]_sessionVars
  BY DEF Next, vars, Borrows, Starts, Calls, SessionsFade, SessionNext
<1> QED BY <1>1, PTL DEF Spec, Init, SessionSpec

\* A connection that is lent is with a task that is under way, and the login
\* lock is held only by a login that is under way.
THEOREM ResourcesTypeCorrect == Spec => []TypeOK
<1>1. PoolInv /\ SessionInv => TypeOK
  BY DEF PoolInv, SessionInv, TypeOK
<1> QED BY <1>1, HasPool, PoolInvariant, HasSession, SessionInvariant, PTL

\* With more connections than tasks that nest, the pool never comes to a
\* standstill, whatever else borrows from it.
THEOREM PoolNeverStuck == Spec => []NoStandstill
BY HasPool, PoolInvariant, Counting, PTL

\* A write is carried out at most once by each _call, with any number of
\* clients, lost sessions and failing gateways.
THEOREM WritesAreNotRepeated == Spec => []WriteRunsOnce
BY HasSession, SessionInvariant, CallBounds, PTL

\* The recursion of _call ends after two requests for a write, four for a read.
THEOREM CallsAreBounded == Spec => []PostsBounded
BY HasSession, SessionInvariant, CallBounds, PTL

\* Logins are serialized, and none is made beside a session of use.
THEOREM LoginsAreNeeded == Spec => []NoNeedlessLogin
BY HasSession, SessionInvariant, CallBounds, PTL

\* The late failure of an old session never evicts a newer login.
THEOREM NewerLoginStays == Spec => EvictsOnlyDead
<1>1. ASSUME SessionInv, [SessionNext]_sessionVars, cache # 0, cache' # cache
      PROVE  cache \notin alive \/ cache \in old
  <2>1. SessionNext
    BY <1>1 DEF sessionVars
  <2>2. PICK c \in Clients : LogsIn(c) \/ HearsLost(c)
    BY <1>1, <2>1
    DEF SessionNext, CallStep, TakesSession, Answered, Ages, Dies, Begins, UsesOwn, Reuses,
        StartsLogin, LoginFails, Posts, HearsGateway, Ends
  <2>3. CASE LogsIn(c)
    BY <1>1, <2>3 DEF SessionInv, Fits, LogsIn, Usable
  <2>4. CASE HearsLost(c)
    BY <1>1, <2>4 DEF SessionInv, Fits, Gone, HearsLost, Evicts
  <2> QED BY <2>2, <2>3, <2>4
<1>2. SessionInv /\ [SessionNext]_sessionVars
        => [cache # 0 /\ cache' # cache => cache \notin alive \/ cache \in old]_sessionVars
  BY <1>1
<1> QED BY <1>2, HasSession, SessionInvariant, PTL DEF SessionSpec, EvictsOnlyDead
=============================================================================
