---------------------------- MODULE MemoryStore ----------------------------
(***************************************************************************)
(* internal/store/memory: three maps behind one mutex, called by           *)
(* session.Manager (Issue, Replay, Claim, Close).                          *)
(*                                                                         *)
(* The manager reads the clock BEFORE it takes the store's mutex, so an    *)
(* operation runs with any reading `now' between the start and the present *)
(* clock: callers overtake one another and an operation may be applied     *)
(* after one that carries a later time.  Each operation first cleans up    *)
(* with its own `now'; nothing else ever expires a lease or a session.     *)
(***************************************************************************)
EXTENDS SessionModel

VARIABLES
  clock,      \* wall clock of the process
  sessions,   \* Store.sessions
  byKey,      \* Store.byKey
  leases,     \* Store.leases: expiry and subject of the lease of a session
  drawn,      \* IDs that randomID has returned so far
  access,     \* history: ExpiresAt given to the connection that holds i, or 0
  grants,     \* history: how often Claim succeeded for i
  reply       \* history: the answer to the last call

storeVars == <<sessions, byKey, leases>>
vars == <<clock, sessions, byKey, leases, drawn, access, grants, reply>>

Reply == [op : {"start", "issue", "replay", "claim", "close"},
          err : Errors, id : Ids \cup {None}, ticket : Ids \cup {None},
          now : Nat]

Answer(op, err, id, ticket, now) ==
  [op |-> op, err |-> err, id |-> id, ticket |-> ticket, now |-> now]

Refusal(op, err) == Answer(op, err, None, None, 0)

TypeOK ==
  /\ clock \in Nat
  /\ sessions \in [Ids -> Session \cup {None}]
  /\ byKey \in [Keys -> Ids \cup {None}]
  /\ leases \in [Ids -> Lease \cup {None}]
  /\ drawn \subseteq Ids
  /\ access \in [Ids -> Nat]
  /\ grants \in [Ids -> Nat]
  /\ reply \in Reply

-----------------------------------------------------------------------------
(* cleanup(now): close the sessions whose lease expired, then forget those *)
(* whose tombstone expired.                                                *)

\* Mutants: off by one in either direction.
LeaseExpiredEarly(i, now) == leases[i] # None /\ now + 1 >= leases[i].expiresAt
LeaseExpiredLate(i, now) == leases[i] # None /\ now > leases[i].expiresAt

LeaseExpired(i, now) == leases[i] # None /\ now >= leases[i].expiresAt

MaxDurationReached(s, lease) ==
  [s EXCEPT !.state = "closed", !.closedAt = lease.expiresAt,
            !.closeReason = "max_duration", !.cipher = None]

\* The second loop reaches session i through byKey (the first loop leaves
\* tombstones alone).
Buried(i, now) ==
  /\ \E k \in Keys : byKey[k] = i
  /\ sessions[i] # None
  /\ now >= sessions[i].tombstoneExpiresAt

CleanSessions(now) ==
  [i \in Ids |->
     IF Buried(i, now) THEN None
     ELSE IF LeaseExpired(i, now)
          THEN MaxDurationReached(sessions[i], leases[i])
     ELSE sessions[i]]

\* Mutant: the key of a closed session is given up at once.
CleanByKeyOfClosed(now) ==
  [k \in Keys |-> IF byKey[k] # None /\ sessions[byKey[k]].state = "closed"
                  THEN None ELSE byKey[k]]

CleanByKey(now) ==
  [k \in Keys |-> IF byKey[k] # None /\ Buried(byKey[k], now)
                  THEN None ELSE byKey[k]]

\* Mutant: only forgotten sessions lose their lease.
CleanLeasesOfBuried(now) == [i \in Ids |-> IF Buried(i, now) THEN None ELSE leases[i]]

CleanLeases(now) ==
  [i \in Ids |-> IF LeaseExpired(i, now) \/ Buried(i, now)
                 THEN None ELSE leases[i]]

-----------------------------------------------------------------------------
Active(ls) == {i \in Ids : ls[i] # None}
ActiveOf(ls, u) == {i \in Active(ls) : ls[i].subject = u}

\* Mutant: one lease too many.
AtCapacityOffByOne(ls, u) ==
  \/ Cardinality(Active(ls)) > MaxActive
  \/ Cardinality(ActiveOf(ls, u)) > MaxActivePerSubject

\* The two limits that ClaimAndReserve checks.
AtCapacity(ls, u) ==
  \/ Cardinality(Active(ls)) >= MaxActive
  \/ Cardinality(ActiveOf(ls, u)) >= MaxActivePerSubject

Init ==
  /\ clock = 1
  /\ sessions = [i \in Ids |-> None]
  /\ byKey = [k \in Keys |-> None]
  /\ leases = [i \in Ids |-> None]
  /\ drawn = {}
  /\ access = [i \in Ids |-> 0]
  /\ grants = [i \in Ids |-> 0]
  /\ reply = Answer("start", "ok", None, None, 0)

\* Issue: CreateOrGet under the mutex, then the ticket that Issue returns (the
\* fresh one, or the stored ciphertext decrypted).  The candidate's ID and
\* ticket are drawn whether or not the candidate is kept.
CreateOrGet(k, intent, id, now) ==
  LET S == CleanSessions(now)
      K == CleanByKey(now)
  IN /\ id \notin drawn
     /\ drawn' = drawn \cup {id}
     /\ leases' = CleanLeases(now)
     /\ byKey' = IF K[k] = None THEN [K EXCEPT ![k] = id] ELSE K
     /\ UNCHANGED <<clock, access, grants>>
     /\ \/ /\ K[k] = None
           /\ sessions' = [S EXCEPT ![id] = Candidate(id, k, intent, now)]
           /\ reply' = Answer("issue", "ok", id, id, now)
        \/ /\ K[k] # None
           /\ S[K[k]].intent # intent
           /\ sessions' = S
           /\ reply' = Refusal("issue", "Conflict")
        \/ /\ K[k] # None
           /\ S[K[k]].intent = intent
           /\ ~Usable(S[K[k]], now)
           /\ sessions' = IF S[K[k]].state = "issued"
                          THEN [S EXCEPT ![K[k]] = TicketExpired(@, now)]
                          ELSE S
           /\ reply' = Refusal("issue", "FailedPrecondition")
        \/ /\ K[k] # None
           /\ S[K[k]].intent = intent
           /\ Usable(S[K[k]], now)
           /\ sessions' = S
           /\ reply' = IF S[K[k]].cipher = None
                       THEN Refusal("issue", "FailedPrecondition")
                       ELSE Answer("issue", "replayed", K[k], S[K[k]].cipher, now)

\* Replay: GetByKey reads without cleaning up; the manager then compares its
\* copy with the request and with the clock.
Replay(k, u, console, now) ==
  LET s == IF byKey[k] = None THEN None ELSE sessions[byKey[k]]
      verdict == ReplayVerdict(s, u, console, now)
  IN /\ reply' = IF verdict = "replayed"
                 THEN Answer("replay", verdict, byKey[k], s.cipher, now)
                 ELSE Refusal("replay", verdict)
     /\ UNCHANGED <<clock, storeVars, drawn, access, grants>>

\* Claim: ClaimAndReserve under the mutex.  The digest presented matches iff
\* the ticket does.
ClaimAndReserve(id, ticket, now) ==
  LET S == CleanSessions(now)
      L == CleanLeases(now)
      Refuse(answer) == /\ leases' = L
                        /\ UNCHANGED <<access, grants>>
                        /\ reply' = answer
      Full == AtCapacity(L, Subject(S[id]))
  IN /\ byKey' = CleanByKey(now)
     /\ UNCHANGED <<clock, drawn>>
     /\ \/ /\ S[id] = None
           /\ sessions' = S
           /\ Refuse(Refusal("claim", "NotFound"))
        \/ /\ S[id] # None
           /\ ~Usable(S[id], now)
           /\ sessions' = IF S[id].state = "issued"
                          THEN [S EXCEPT ![id] = TicketExpired(@, now)]
                          ELSE S
           /\ Refuse(Refusal("claim", "FailedPrecondition"))
        \/ /\ S[id] # None
           /\ Usable(S[id], now)
           /\ ticket # id
           /\ sessions' = S
           /\ Refuse(Refusal("claim", "InvalidTicket"))
        \/ /\ S[id] # None
           /\ Usable(S[id], now)
           /\ ticket = id
           /\ Full
           /\ sessions' = S
           /\ Refuse(Answer("claim", "Capacity", id, None, now))
        \/ /\ S[id] # None
           /\ Usable(S[id], now)
           /\ ticket = id
           /\ ~Full
           /\ sessions' = [S EXCEPT ![id] = Claimed(@, now)]
           /\ leases' = [L EXCEPT ![id] =
                           [expiresAt |-> now + SessionMaxDuration,
                            subject |-> Subject(S[id])]]
           /\ access' = [access EXCEPT ![id] = now + SessionMaxDuration]
           /\ grants' = [grants EXCEPT ![id] = @ + 1]
           /\ reply' = Answer("claim", "ok", id, None, 0)

\* Close: CloseAndRelease.  Only the connection that was granted the lease
\* calls it, once, with a clock read after the grant.
CloseAndRelease(id, now) ==
  LET S == CleanSessions(now)
      L == CleanLeases(now)
      Holds == S[id] # None /\ S[id].state = "claimed"
      err == IF S[id] = None THEN "NotFound"
             ELSE IF S[id].state \in {"claimed", "closed"} THEN "ok"
             ELSE "FailedPrecondition"
  IN /\ access[id] # 0
     /\ now + SessionMaxDuration >= access[id]
     /\ access' = [access EXCEPT ![id] = 0]
     /\ sessions' = IF Holds THEN [S EXCEPT ![id] = Released(@, now)] ELSE S
     /\ leases' = IF Holds THEN [L EXCEPT ![id] = None] ELSE L
     /\ byKey' = CleanByKey(now)
     /\ reply' = Answer("close", err, None, None, 0)
     /\ UNCHANGED <<clock, drawn, grants>>

Tick ==
  /\ clock < MaxTime
  /\ clock' = clock + 1
  /\ UNCHANGED <<storeVars, drawn, access, grants, reply>>

Next ==
  \/ \E k \in Keys, intent \in Intents, id \in Ids, now \in 1..clock :
        CreateOrGet(k, intent, id, now)
  \/ \E k \in Keys, u \in Subjects, console \in Consoles, now \in 1..clock :
        Replay(k, u, console, now)
  \/ \E id \in Ids, ticket \in Ids, now \in 1..clock :
        ClaimAndReserve(id, ticket, now)
  \/ \E id \in Ids, now \in 1..clock : CloseAndRelease(id, now)
  \/ Tick

Spec == Init /\ [][Next]_vars

-----------------------------------------------------------------------------
(* Properties                                                              *)

\* The lease map and the session map agree: a session has a lease exactly
\* while it is claimed, and the lease carries its expiry and its subject.
\* Claim, Close and both loops of cleanup each edit the two maps separately.
LeaseIffClaimed ==
  \A i \in Ids :
    /\ leases[i] # None <=> sessions[i] # None /\ sessions[i].state = "claimed"
    /\ leases[i] # None => /\ leases[i].expiresAt = sessions[i].expiresAt
                           /\ leases[i].subject = Subject(sessions[i])

\* byKey is an exact index: cleanup walks byKey to delete from sessions, so a
\* session its key does not lead to would never be forgotten.
KeyIndexExact ==
  /\ \A k \in Keys : byKey[k] # None =>
        sessions[byKey[k]] # None /\ sessions[byKey[k]].key = k
  /\ \A i \in Ids : sessions[i] # None => byKey[sessions[i].key] = i

\* ClaimAndReserve never reserves past MaxActive or MaxActivePerSubject.
LeasesWithinLimits ==
  /\ Cardinality(Active(leases)) <= MaxActive
  /\ \A u \in Subjects : Cardinality(ActiveOf(leases, u)) <= MaxActivePerSubject

\* A connection that Claim admitted keeps its lease until it closes or its
\* ExpiresAt passes, whatever stale clock readings the other callers sweep with.
AccessKeepsLease ==
  \A i \in Ids : access[i] > clock =>
    leases[i] # None /\ leases[i].expiresAt = access[i]

\* Hence the connections alive at any moment respect both limits: those of the
\* handlers that hold an unexpired access, not just those of the lease map.
LiveConnectionsWithinLimits ==
  LET live == {i \in Ids : access[i] > clock}
  IN /\ Cardinality(live) <= MaxActive
     /\ \A u \in Subjects :
          Cardinality({i \in live : Subject(sessions[i]) = u})
            <= MaxActivePerSubject

\* A ticket admits one connection, ever: not a second one after a close, an
\* expiry, or the deletion of the session by cleanup.
SingleClaim == \A i \in Ids : grants[i] <= 1

\* Claim answers ErrCapacity only when leases that are unexpired at the
\* caller's time fill a limit: expired leases of crashed handlers do not count.
CapacityRefusalIsReal ==
  reply.op = "claim" /\ reply.err = "Capacity" =>
    LET alive == {i \in Active(leases) : leases[i].expiresAt > reply.now}
    IN \/ Cardinality(alive) >= MaxActive
       \/ Cardinality({i \in alive :
                         leases[i].subject = Subject(sessions[reply.id])})
            >= MaxActivePerSubject

\* A ticket that Issue or Replay hands out is the ticket of the session it
\* names, and that session could be claimed when the answer was computed.
IssuedTicketOpensSession ==
  reply.op \in {"issue", "replay"} /\ reply.err \in {"ok", "replayed"} =>
    /\ reply.ticket = reply.id
    /\ sessions[reply.id] # None
    /\ Usable(sessions[reply.id], reply.now)

\* An idempotency key is given up only when the tombstone of its session has
\* passed, and, if the session was claimed and is still held, not before
\* IdempotencyTTL after the end of that access.
KeyHeldUntilTombstone ==
  [][\A k \in Keys : byKey[k] # None /\ byKey'[k] # byKey[k] =>
       /\ clock >= sessions[byKey[k]].tombstoneExpiresAt
       /\ access[byKey[k]] # 0 => clock >= access[byKey[k]] + IdempotencyTTL]_vars
-----------------------------------------------------------------------------
(* Refinement                                                              *)

InState(state) ==
  {c \in Ids \X Subjects : /\ sessions[c[1]] # None
                           /\ sessions[c[1]].state = state
                           /\ Subject(sessions[c[1]]) = c[2]}

Contract == INSTANCE SessionStore WITH
  fresh <- Ids \ drawn,
  offers <- InState("issued"),
  active <- InState("claimed"),
  owner <- byKey

\* The memory store implements the store contract: sessions are offered and
\* claimed once, within the limits, and never come back.
ImplementsContract == Contract!Spec
=============================================================================
