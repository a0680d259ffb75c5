-------------------------- MODULE SFKingdeeSession --------------------------
(***************************************************************************)
(* clients/kingdee.py: the sessions of the account of the integration,     *)
(* which all its KingdeeClients share in the process (_SF_SESSIONS), and   *)
(* what _call does about lost sessions and failing gateways. Each task has *)
(* a client of its own and makes one call at a time. logout and login_kick *)
(* are called nowhere.                                                     *)
(***************************************************************************)
EXTENDS Naturals, FiniteSets

CONSTANTS
  Clients,
  Writers,       \* those that also write; item pushes only read
  Nobody,
  MaxSessions,   \* bound: logins that succeed
  MaxFaded       \* bound: sessions that age or that Kingdee ends

ASSUME SessionAssumption ==
  Writers \subseteq Clients /\ Nobody \notin Clients /\ MaxSessions \in Nat /\ MaxFaded \in Nat

VARIABLES
  cache,   \* session in _SF_SESSIONS; 0 for none
  lock,    \* holder of the login lock
  alive,   \* sessions Kingdee knows
  old,     \* sessions older than _SESSION_TTL
  made,    \* logins so far
  call     \* [Clients -> the client and its _call]

sessionVars == <<cache, lock, alive, old, made, call>>

Sessions == 1..MaxSessions

\* "final": a result, or any failure that _call does nothing about.
Answers == {"none", "final", "gateway", "lost"}

\* Read: View and ExecuteBillQuery; everything else counts as a write.
CallStates ==
  [pc : {"idle", "call", "login", "post", "reply"}, kind : {"read", "write"},
   cookies : 0..MaxSessions, lostOK : BOOLEAN, gatewayOK : BOOLEAN,
   answer : Answers,
   posts : Nat,   \* history: requests of this call
   runs : Nat]    \* history: times Kingdee has carried out a write

CallIdle == [pc |-> "idle", kind |-> "read", cookies |-> 0, lostOK |-> TRUE,
             gatewayOK |-> TRUE, answer |-> "none", posts |-> 0, runs |-> 0]

SessionInit ==
  /\ cache = 0 /\ lock = Nobody
  /\ alive = {} /\ old = {} /\ made = 0
  /\ call = [c \in Clients |-> CallIdle]

\* A session that is still worth using, as far as its age tells.
Usable(s) == s # 0 /\ s \notin old

-----------------------------------------------------------------------------
(* Time, and Kingdee. *)

Fading == Cardinality(1..made \ alive) + Cardinality(old) < MaxFaded

Ages(s) ==
  /\ s \in 1..made /\ s \notin old /\ Fading
  /\ old' = old \cup {s}
  /\ UNCHANGED <<cache, lock, alive, made, call>>

\* It expires, or another login of the account ends it.
Dies(s) ==
  /\ s \in alive /\ Fading
  /\ alive' = alive \ {s}
  /\ UNCHANGED <<cache, lock, old, made, call>>

-----------------------------------------------------------------------------
(* _call, _ensure_login, login. *)

Idles(c) == call' = [call EXCEPT ![c] = [CallIdle EXCEPT !.cookies = call[c].cookies]]

\* A task goes on with its client, or has a new one.
Begins(c, kind) ==
  /\ call[c].pc = "idle" /\ (kind = "write" => c \in Writers)
  /\ \E k \in {0, call[c].cookies} :
       call' = [call EXCEPT ![c] = [@ EXCEPT !.pc = "call", !.kind = kind, !.cookies = k]]
  /\ UNCHANGED <<cache, lock, alive, old, made>>

UsesOwn(c) ==
  /\ call[c].pc = "call" /\ Usable(call[c].cookies)
  /\ call' = [call EXCEPT ![c].pc = "post"]
  /\ UNCHANGED <<cache, lock, alive, old, made>>

\* Under the login lock, which is free again at once.
Reuses(c) ==
  /\ call[c].pc = "call" /\ ~Usable(call[c].cookies)
  /\ lock = Nobody /\ Usable(cache)
  /\ call' = [call EXCEPT ![c] = [@ EXCEPT !.pc = "post", !.cookies = cache]]
  /\ UNCHANGED <<cache, lock, alive, old, made>>

\* Mutant: nobody waits for the login of another.
LogsInAtOnce(c) ==
  /\ call[c].pc = "call" /\ ~Usable(call[c].cookies)
  /\ ~Usable(cache)
  /\ lock' = c
  /\ call' = [call EXCEPT ![c].pc = "login"]
  /\ UNCHANGED <<cache, alive, old, made>>

StartsLogin(c) ==
  /\ call[c].pc = "call" /\ ~Usable(call[c].cookies)
  /\ lock = Nobody /\ ~Usable(cache)
  /\ lock' = c
  /\ call' = [call EXCEPT ![c].pc = "login"]
  /\ UNCHANGED <<cache, alive, old, made>>

LogsIn(c) ==
  /\ call[c].pc = "login" /\ made < MaxSessions
  /\ made' = made + 1 /\ alive' = alive \cup {made + 1}
  /\ cache' = made + 1 /\ lock' = Nobody
  /\ call' = [call EXCEPT ![c] = [@ EXCEPT !.pc = "post", !.cookies = made + 1]]
  /\ UNCHANGED old

\* Mutant: the lock is not released when the login raises.
FailsLocked(c) ==
  /\ call[c].pc = "login"
  /\ Idles(c)
  /\ UNCHANGED <<cache, lock, alive, old, made>>

\* The login fails and the call with it; where the bound on logins is met it must.
LoginFails(c) ==
  /\ call[c].pc = "login"
  /\ lock' = Nobody
  /\ Idles(c)
  /\ UNCHANGED <<cache, alive, old, made>>

Counts(c, ran) == call[c].runs + IF ran /\ call[c].kind = "write" THEN 1 ELSE 0

\* The request. Only a session that Kingdee does not know is sure to have done
\* nothing; a time-out, or a gateway's 502, 503 or 504, tells neither.
Posts(c) ==
  /\ call[c].pc = "post"
  /\ \E ran \in BOOLEAN, a \in Answers \ {"none"} :
       /\ ran => call[c].cookies \in alive
       /\ a = "lost" => call[c].cookies \notin alive
       /\ call' = [call EXCEPT ![c] =
            [@ EXCEPT !.pc = "reply", !.answer = a, !.posts = call[c].posts + 1,
                      !.runs = Counts(c, ran)]]
  /\ UNCHANGED <<cache, lock, alive, old, made>>

\* Mutant: whatever session is in the cache goes.
EvictsAny(c) == cache' = 0

\* A late answer to an old session does not take away a newer one.
Evicts(c) == cache' = IF cache = call[c].cookies THEN 0 ELSE cache

\* retry_on_session_lost=False; the flag for the gateway has its default again.
OnceMore(c) ==
  call' = [call EXCEPT ![c] = [@ EXCEPT !.pc = "call", !.answer = "none", !.cookies = 0,
                                        !.lostOK = FALSE, !.gatewayOK = TRUE]]

HearsLost(c) ==
  /\ call[c].pc = "reply" /\ call[c].answer = "lost" /\ call[c].lostOK
  /\ Evicts(c) /\ OnceMore(c)
  /\ UNCHANGED <<lock, alive, old, made>>

\* Mutant: writes are repeated, too.
AnyRepeats(c) == call[c].answer = "gateway" /\ call[c].gatewayOK

\* Mutant: a gateway that goes on failing is asked again and again.
AlwaysRepeats(c) == call[c].answer = "gateway" /\ call[c].kind = "read"

Repeats(c) == call[c].answer = "gateway" /\ call[c].gatewayOK /\ call[c].kind = "read"

HearsGateway(c) ==
  /\ call[c].pc = "reply" /\ Repeats(c)
  /\ call' = [call EXCEPT ![c] = [@ EXCEPT !.pc = "call", !.answer = "none", !.gatewayOK = FALSE]]
  /\ UNCHANGED <<cache, lock, alive, old, made>>

\* The answer is returned, a second loss of the session like any other, or the
\* failure is raised.
Ends(c) ==
  /\ call[c].pc = "reply" /\ ~Repeats(c)
  /\ ~(call[c].answer = "lost" /\ call[c].lostOK)
  /\ Idles(c)
  /\ UNCHANGED <<cache, lock, alive, old, made>>

TakesSession(c) == UsesOwn(c) \/ Reuses(c) \/ StartsLogin(c)
Answered(c) == HearsLost(c) \/ HearsGateway(c) \/ Ends(c)
CallStep(c) ==
  TakesSession(c) \/ LogsIn(c) \/ LoginFails(c) \/ Posts(c) \/ Answered(c)

SessionNext ==
  \/ \E s \in Sessions : Ages(s) \/ Dies(s)
  \/ \E c \in Clients : CallStep(c) \/ \E kind \in {"read", "write"} : Begins(c, kind)

SessionSpec == SessionInit /\ [][SessionNext]_sessionVars

-----------------------------------------------------------------------------
\* The login lock is held by a login that is under way.
SessionTypeOK ==
  /\ cache \in 0..made /\ made \in 0..MaxSessions
  /\ lock \in Clients \cup {Nobody}
  /\ alive \subseteq 1..made /\ old \subseteq 1..made
  /\ call \in [Clients -> CallStates]
  /\ lock # Nobody => call[lock].pc = "login"

\* A session leaves the cache only when Kingdee has ended it or its time is up:
\* the late failure of an old session never evicts a newer login (comment in
\* _invalidate_shared_session).
EvictsOnlyDead ==
  [][cache # 0 /\ cache' # cache => cache \notin alive \/ cache \in old]_sessionVars

\* Refreshes are serialized: no two clients log in at once, and none logs in
\* beside a session in the cache that it could have used.
NoNeedlessLogin ==
  \A c \in Clients : call[c].pc = "login" => lock = c /\ ~Usable(cache)

\* Kingdee carries out a write (Push, Save, Submit, Audit) at most once, however
\* often _call repeats it.
WriteRunsOnce == \A c \in Clients : call[c].kind = "write" => call[c].runs <= 1

\* The two flags bound the recursion of _call, although one resets the other: at
\* most two requests for a write and four for a read.
PostsBounded ==
  \A c \in Clients : call[c].posts <= IF call[c].kind = "write" THEN 2 ELSE 4
=============================================================================
