------------------------- MODULE MemoryStoreProofs -------------------------
(***************************************************************************)
(* Proofs about MemoryStore, for all sets of sessions, keys and subjects,  *)
(* all durations and all limits.                                           *)
(*                                                                         *)
(* Every operation first cleans up and then edits the result, so the       *)
(* invariants are stated about a triple of maps (S, K, L): cleanup takes   *)
(* the store's maps to a triple that satisfies them (CleanConsistent), and *)
(* each operation takes that triple to the next state.                     *)
(***************************************************************************)
EXTENDS MemoryStore, SessionModelProofs, FiniteSetTheorems, TLAPS

\* The maps have their types, leases are those of the claimed sessions, byKey
\* indexes the sessions, and every stored session has a drawn ID.
Consistent(S, K, L, D) ==
  /\ S \in [Ids -> Session \cup {None}]
  /\ K \in [Keys -> Ids \cup {None}]
  /\ L \in [Ids -> Lease \cup {None}]
  /\ D \subseteq Ids
  /\ \A i \in Ids :
       /\ L[i] # None <=> S[i] # None /\ S[i].state = "claimed"
       /\ L[i] # None => /\ L[i].expiresAt = S[i].expiresAt
                         /\ L[i].subject = Subject(S[i])
  /\ \A k \in Keys : K[k] # None => S[K[k]] # None /\ S[K[k]].key = k
  /\ \A i \in Ids : S[i] # None => K[S[i].key] = i /\ i \in D

StoreInv ==
  /\ clock \in Nat
  /\ access \in [Ids -> Nat]
  /\ grants \in [Ids -> Nat]
  /\ reply \in Reply
  /\ Consistent(sessions, byKey, leases, drawn)

\* The rewriting that only cleanup does, of a session whose lease has lapsed,
\* gives a session.
LEMMA MaxDurationUpdate ==
  ASSUME NEW s \in Session, NEW lease \in Lease
  PROVE  MaxDurationReached(s, lease) \in Session
BY DEF MaxDurationReached, Session, Lease, States, Reasons

\* cleanup keeps the three maps consistent, whatever time it is called with.
LEMMA CleanConsistent ==
  ASSUME StoreInv, NEW now \in Nat
  PROVE  Consistent(CleanSessions(now), CleanByKey(now), CleanLeases(now), drawn)
<1> USE NoneAssumption
<1> DEFINE S == CleanSessions(now)
           K == CleanByKey(now)
           L == CleanLeases(now)
<1>1. ASSUME NEW i \in Ids, LeaseExpired(i, now)
      PROVE  /\ sessions[i] \in Session
             /\ MaxDurationReached(sessions[i], leases[i]) \in Session
             /\ MaxDurationReached(sessions[i], leases[i]).state = "closed"
             /\ MaxDurationReached(sessions[i], leases[i]).key = sessions[i].key
  <2>1. leases[i] \in Lease /\ sessions[i] \in Session
    BY <1>1 DEF StoreInv, Consistent, LeaseExpired
  <2>2. leases[i].expiresAt \in Nat
    BY <2>1 DEF Lease
  <2>3. MaxDurationReached(sessions[i], leases[i]) \in Session
    BY <2>1, <2>2, MaxDurationUpdate
  <2> QED BY <2>1, <2>3 DEF MaxDurationReached, Session
<1>2. S \in [Ids -> Session \cup {None}]
  BY <1>1 DEF StoreInv, Consistent, CleanSessions
<1>3. K \in [Keys -> Ids \cup {None}]
  BY DEF StoreInv, Consistent, CleanByKey
<1>4. L \in [Ids -> Lease \cup {None}]
  BY DEF StoreInv, Consistent, CleanLeases
<1>5. ASSUME NEW i \in Ids
      PROVE  /\ L[i] # None <=> S[i] # None /\ S[i].state = "claimed"
             /\ L[i] # None => /\ L[i].expiresAt = S[i].expiresAt
                               /\ L[i].subject = Subject(S[i])
  BY <1>1 DEF StoreInv, Consistent, CleanSessions, CleanLeases
<1>6. ASSUME NEW k \in Keys, K[k] # None
      PROVE  S[K[k]] # None /\ S[K[k]].key = k
  BY <1>1, <1>6 DEF StoreInv, Consistent, CleanSessions, CleanByKey
<1>7. ASSUME NEW i \in Ids, S[i] # None
      PROVE  K[S[i].key] = i /\ i \in drawn
  <2>1. sessions[i] # None /\ S[i].key = sessions[i].key /\ ~Buried(i, now)
    BY <1>1, <1>7 DEF CleanSessions
  <2>2. sessions[i].key \in Keys /\ byKey[sessions[i].key] = i /\ i \in drawn
    BY <2>1 DEF StoreInv, Consistent, Session
  <2> QED BY <2>1, <2>2 DEF CleanByKey
<1> HIDE DEF S, K, L
<1>8. drawn \subseteq Ids
  BY DEF StoreInv, Consistent
<1>9. Consistent(S, K, L, drawn)
  BY <1>2, <1>3, <1>4, <1>5, <1>6, <1>7, <1>8 DEF Consistent
<1> QED BY <1>9 DEF S, K, L
\* Issue keeps the maps consistent: the candidate's ID is new to all of them.
LEMMA CreateStep ==
  ASSUME StoreInv, NEW k \in Keys, NEW intent \in Intents, NEW id \in Ids,
         NEW now \in Nat, CreateOrGet(k, intent, id, now)
  PROVE  StoreInv'
<1> USE NoneAssumption
<1> DEFINE S == CleanSessions(now)
           K == CleanByKey(now)
           L == CleanLeases(now)
<1>1. Consistent(S, K, L, drawn)
  BY CleanConsistent
<1>2. /\ id \notin drawn
      /\ drawn' = drawn \cup {id}
      /\ leases' = L
      /\ byKey' = IF K[k] = None THEN [K EXCEPT ![k] = id] ELSE K
      /\ clock' = clock /\ access' = access /\ grants' = grants
  BY DEF CreateOrGet
<1>3. clock' \in Nat /\ access' \in [Ids -> Nat] /\ grants' \in [Ids -> Nat]
  BY <1>2 DEF StoreInv
<1>4. Candidate(id, k, intent, now) \in Session
  <2>1. now + TicketTTL \in Nat /\ now + TicketTTL + IdempotencyTTL \in Nat
    BY LimitsAssumption
  <2> QED BY <2>1 DEF Candidate, Session, States, Reasons
<1>5. CASE /\ K[k] = None
           /\ sessions' = [S EXCEPT ![id] = Candidate(id, k, intent, now)]
           /\ reply' = Answer("issue", "ok", id, id, now)
  <2>1. reply' \in Reply
    BY <1>5 DEF Answer, Reply, Errors
  <2>2. Candidate(id, k, intent, now).state = "issued" /\ Candidate(id, k, intent, now).key = k
    BY DEF Candidate
  <2> HIDE DEF S, K, L
  <2>3. S[id] = None /\ L[id] = None
    BY <1>1, <1>2 DEF Consistent
  <2>4. Consistent(sessions', byKey', leases', drawn')
    BY <1>1, <1>2, <1>4, <1>5, <2>2, <2>3 DEF Consistent, Session
  <2> QED BY <1>3, <2>1, <2>4 DEF StoreInv
<1>6. CASE /\ K[k] # None
           /\ sessions' = S
           /\ reply' \in Reply
  <2> HIDE DEF S, K, L
  <2>1. Consistent(sessions', byKey', leases', drawn')
    BY <1>1, <1>2, <1>6 DEF Consistent
  <2> QED BY <1>3, <1>6, <2>1 DEF StoreInv
<1>7. CASE /\ K[k] # None
           /\ S[K[k]].state = "issued"
           /\ sessions' = [S EXCEPT ![K[k]] = TicketExpired(@, now)]
           /\ reply' \in Reply
  <2> HIDE DEF S, K, L
  <2>1. S[K[k]] \in Session /\ K[k] \in Ids
    BY <1>1, <1>7 DEF Consistent
  <2>2. /\ TicketExpired(S[K[k]], now) \in Session
        /\ TicketExpired(S[K[k]], now).key = S[K[k]].key
        /\ TicketExpired(S[K[k]], now).state = "closed"
    BY <2>1, SessionUpdates DEF TicketExpired, Session
  <2>3. Consistent(sessions', byKey', leases', drawn')
    BY <1>1, <1>2, <1>7, <2>1, <2>2 DEF Consistent
  <2> QED BY <1>3, <1>7, <2>3 DEF StoreInv
<1>8. Refusal("issue", "Conflict") \in Reply /\ Refusal("issue", "FailedPrecondition") \in Reply
  BY DEF Refusal, Answer, Reply, Errors
<1>9. ASSUME K[k] # None
      PROVE  S[K[k]].cipher # None => Answer("issue", "replayed", K[k], S[K[k]].cipher, now) \in Reply
  <2> HIDE DEF S, K, L
  <2>1. S[K[k]] \in Session /\ K[k] \in Ids
    BY <1>1, <1>9 DEF Consistent
  <2> QED BY <2>1 DEF Answer, Reply, Errors, Session
<1> QED BY <1>5, <1>6, <1>7, <1>8, <1>9 DEF CreateOrGet

\* Replay reads only.
LEMMA ReplayStep ==
  ASSUME StoreInv, NEW k \in Keys, NEW u \in Subjects, NEW console \in Consoles,
         NEW now \in Nat, Replay(k, u, console, now)
  PROVE  StoreInv' /\ UNCHANGED <<clock, storeVars, drawn, access, grants>>
<1> USE NoneAssumption
<1>1. UNCHANGED <<clock, storeVars, drawn, access, grants>>
  BY DEF Replay
<1>2. \A e \in Errors : Refusal("replay", e) \in Reply
  BY DEF Refusal, Answer, Reply
<1> DEFINE s == IF byKey[k] = None THEN None ELSE sessions[byKey[k]]
<1>3. ASSUME ReplayVerdict(s, u, console, now) = "replayed"
      PROVE  Answer("replay", "replayed", byKey[k], s.cipher, now) \in Reply
  <2>1. s # None
    BY <1>3 DEF ReplayVerdict
  <2>2. byKey[k] \in Ids /\ s \in Session
    BY <2>1 DEF StoreInv, Consistent
  <2> QED BY <2>2 DEF Answer, Reply, Errors, Session
<1>4. reply' \in Reply
  BY <1>2, <1>3 DEF Replay, ReplayVerdict, Errors
<1> QED BY <1>1, <1>4 DEF StoreInv, Consistent, storeVars

\* Claim rewrites the session and adds its lease together.
LEMMA ClaimStep ==
  ASSUME StoreInv, NEW id \in Ids, NEW ticket \in Ids, NEW now \in Nat,
         ClaimAndReserve(id, ticket, now)
  PROVE  StoreInv'
<1> USE NoneAssumption
<1> DEFINE S == CleanSessions(now)
           K == CleanByKey(now)
           L == CleanLeases(now)
<1>1. Consistent(S, K, L, drawn)
  BY CleanConsistent
<1>2. byKey' = K /\ clock' = clock /\ drawn' = drawn
  BY DEF ClaimAndReserve
<1>3. \A e \in Errors : /\ Refusal("claim", e) \in Reply
                        /\ Answer("claim", e, id, None, 0) \in Reply
                        /\ Answer("claim", e, id, None, now) \in Reply
  BY DEF Refusal, Answer, Reply
<1>4. CASE /\ sessions' = S /\ leases' = L
           /\ access' = access /\ grants' = grants
           /\ reply' \in Reply
  BY <1>1, <1>2, <1>4 DEF StoreInv
<1>5. CASE /\ S[id] # None
           /\ S[id].state = "issued"
           /\ sessions' = [S EXCEPT ![id] = TicketExpired(@, now)]
           /\ leases' = L
           /\ access' = access /\ grants' = grants
           /\ reply' \in Reply
  <2> HIDE DEF S, K, L
  <2>1. S[id] \in Session
    BY <1>1, <1>5 DEF Consistent
  <2>2. /\ TicketExpired(S[id], now) \in Session
        /\ TicketExpired(S[id], now).key = S[id].key
        /\ TicketExpired(S[id], now).state = "closed"
    BY <2>1, SessionUpdates DEF TicketExpired, Session
  <2>3. Consistent(sessions', byKey', leases', drawn')
    BY <1>1, <1>2, <1>5, <2>1, <2>2 DEF Consistent
  <2> QED BY <1>2, <1>5, <2>3 DEF StoreInv
<1>6. CASE /\ S[id] # None
           /\ Usable(S[id], now)
           /\ sessions' = [S EXCEPT ![id] = Claimed(@, now)]
           /\ leases' = [L EXCEPT ![id] =
                           [expiresAt |-> now + SessionMaxDuration,
                            subject |-> Subject(S[id])]]
           /\ access' = [access EXCEPT ![id] = now + SessionMaxDuration]
           /\ grants' = [grants EXCEPT ![id] = @ + 1]
           /\ reply' \in Reply
  <2> HIDE DEF S, K, L
  <2>1. S[id] \in Session
    BY <1>1, <1>6 DEF Consistent
  <2>2. now + SessionMaxDuration \in Nat /\ Subject(S[id]) \in Subjects
    BY <2>1, LimitsAssumption, SetsAssumption DEF Subject, Session
  <2>3. /\ Claimed(S[id], now) \in Session
        /\ Claimed(S[id], now).key = S[id].key
        /\ Subject(Claimed(S[id], now)) = Subject(S[id])
        /\ Claimed(S[id], now).state = "claimed"
        /\ Claimed(S[id], now).expiresAt = now + SessionMaxDuration
    BY <2>1, SessionUpdates DEF Claimed, Session, Subject
  <2>4. DEFINE lease == [expiresAt |-> now + SessionMaxDuration,
                         subject |-> Subject(S[id])]
  <2>5. lease \in Lease /\ lease # None /\ lease.expiresAt = now + SessionMaxDuration
        /\ lease.subject = Subject(S[id])
    BY <2>2 DEF Lease
  <2>6. leases' = [L EXCEPT ![id] = lease]
    BY <1>6
  <2> HIDE DEF lease
  <2>7. Consistent(sessions', byKey', leases', drawn')
    BY <1>1, <1>2, <1>6, <2>1, <2>3, <2>5, <2>6 DEF Consistent
  <2>8. access' \in [Ids -> Nat] /\ grants' \in [Ids -> Nat]
    BY <1>6, <2>2 DEF StoreInv
  <2> QED BY <1>2, <1>6, <2>7, <2>8 DEF StoreInv
<1> QED BY <1>3, <1>4, <1>5, <1>6 DEF ClaimAndReserve, Errors

\* Close removes the lease and ends the session together.
LEMMA CloseStep ==
  ASSUME StoreInv, NEW id \in Ids, NEW now \in Nat, CloseAndRelease(id, now)
  PROVE  StoreInv'
<1> USE NoneAssumption
<1> DEFINE S == CleanSessions(now)
           K == CleanByKey(now)
           L == CleanLeases(now)
           Holds == S[id] # None /\ S[id].state = "claimed"
<1>1. Consistent(S, K, L, drawn)
  BY CleanConsistent
<1>2. /\ byKey' = K /\ clock' = clock /\ drawn' = drawn /\ grants' = grants
      /\ access' = [access EXCEPT ![id] = 0]
      /\ sessions' = IF Holds THEN [S EXCEPT ![id] = Released(@, now)] ELSE S
      /\ leases' = IF Holds THEN [L EXCEPT ![id] = None] ELSE L
  BY DEF CloseAndRelease
<1>3. reply' \in Reply
  BY DEF CloseAndRelease, Answer, Reply, Errors
<1>4. access' \in [Ids -> Nat]
  BY <1>2 DEF StoreInv
<1> HIDE DEF S, K, L
<1>5. Consistent(sessions', byKey', leases', drawn')
  <2>1. CASE ~Holds
    BY <1>1, <1>2, <2>1
  <2>2. CASE Holds
    <3>1. S[id] \in Session
      BY <1>1, <2>2 DEF Consistent
    <3>2. /\ Released(S[id], now) \in Session
          /\ Released(S[id], now).key = S[id].key
          /\ Released(S[id], now).state = "closed"
      BY <3>1, SessionUpdates DEF Released, Session
    <3> QED BY <1>1, <1>2, <2>2, <3>1, <3>2 DEF Consistent
  <2> QED BY <2>1, <2>2
<1> QED BY <1>2, <1>3, <1>4, <1>5 DEF StoreInv

\* The clock only tells the time.
LEMMA TickStep ==
  ASSUME StoreInv, Tick
  PROVE  StoreInv'
BY DEF StoreInv, Consistent, Tick, storeVars

\* StoreInv is inductive.
THEOREM StoreInvariant == Spec => []StoreInv
<1>1. Init => StoreInv
  BY NoneAssumption
  DEF Init, StoreInv, Consistent, Answer, Reply, Errors
<1>2. StoreInv /\ [Next]_vars => StoreInv'
  <2> SUFFICES ASSUME StoreInv, [Next]_vars PROVE StoreInv'
    OBVIOUS
  <2>1. \A now \in 1..clock : now \in Nat
    BY DEF StoreInv
  <2>2. CASE \E k \in Keys, intent \in Intents, id \in Ids, now \in 1..clock :
               CreateOrGet(k, intent, id, now)
    BY <2>1, <2>2, CreateStep
  <2>3. CASE \E k \in Keys, u \in Subjects, console \in Consoles, now \in 1..clock :
               Replay(k, u, console, now)
    BY <2>1, <2>3, ReplayStep
  <2>4. CASE \E id \in Ids, ticket \in Ids, now \in 1..clock :
               ClaimAndReserve(id, ticket, now)
    BY <2>1, <2>4, ClaimStep
  <2>5. CASE \E id \in Ids, now \in 1..clock : CloseAndRelease(id, now)
    BY <2>1, <2>5, CloseStep
  <2>6. CASE Tick
    BY <2>6, TickStep
  <2>7. CASE UNCHANGED vars
    BY <2>7 DEF vars, StoreInv, Consistent
  <2> QED BY <2>2, <2>3, <2>4, <2>5, <2>6, <2>7 DEF Next
<1> QED BY <1>1, <1>2, PTL DEF Spec

\* Every variable of the store keeps its type.
THEOREM TypeCorrect == Spec => []TypeOK
<1>1. StoreInv => TypeOK
  BY DEF StoreInv, Consistent, TypeOK
<1> QED BY <1>1, StoreInvariant, PTL

\* In every state the lease map and the claimed sessions agree.
THEOREM LeasesAreClaims == Spec => []LeaseIffClaimed
<1>1. StoreInv => LeaseIffClaimed
  BY DEF StoreInv, Consistent, LeaseIffClaimed
<1> QED BY <1>1, StoreInvariant, PTL

\* In every state byKey is an exact index of the sessions.
THEOREM KeyIndex == Spec => []KeyIndexExact
<1>1. StoreInv => KeyIndexExact
  BY DEF StoreInv, Consistent, KeyIndexExact
<1> QED BY <1>1, StoreInvariant, PTL

-----------------------------------------------------------------------------
(* One claim per ticket                                                    *)

\* cleanup only drops and closes: what is still issued or claimed after it was
\* so before, unchanged.
LEMMA CleanNarrows ==
  ASSUME StoreInv, NEW now \in Nat, NEW i \in Ids, CleanSessions(now)[i] # None
  PROVE  /\ sessions[i] # None
         /\ CleanSessions(now)[i].state # "closed" =>
              CleanSessions(now)[i] = sessions[i]
         /\ CleanSessions(now)[i].tombstoneExpiresAt = sessions[i].tombstoneExpiresAt
<1>1. CASE LeaseExpired(i, now)
  <2>1. sessions[i] # None /\ sessions[i] \in Session
    BY <1>1, NoneAssumption DEF StoreInv, Consistent, LeaseExpired
  <2> QED BY <1>1, <2>1 DEF CleanSessions, MaxDurationReached, Session
<1>2. CASE ~LeaseExpired(i, now)
  BY <1>2 DEF CleanSessions
<1> QED BY <1>1, <1>2

\* A session that was claimed is not issued any more, and an ID that was never
\* drawn was never claimed.
GrantInv ==
  \A i \in Ids :
    /\ grants[i] <= 1
    /\ grants[i] # 0 => /\ i \in drawn
                        /\ sessions[i] # None => sessions[i].state # "issued"

\* No step makes a session claimable again.
LEMMA GrantStep ==
  ASSUME StoreInv, GrantInv, [Next]_vars
  PROVE  GrantInv'
<1> USE NoneAssumption
<1>0. grants \in [Ids -> Nat] /\ \A now \in 1..clock : now \in Nat
  BY DEF StoreInv
<1>1. ASSUME NEW now \in Nat
      PROVE  /\ Consistent(CleanSessions(now), CleanByKey(now), CleanLeases(now), drawn)
             /\ \A i \in Ids : /\ CleanSessions(now)[i] # None
                               /\ grants[i] # 0
                               => CleanSessions(now)[i].state # "issued"
  BY <1>1, CleanConsistent, CleanNarrows DEF GrantInv
<1>2. ASSUME NEW k \in Keys, NEW intent \in Intents, NEW id \in Ids,
             NEW now \in 1..clock, CreateOrGet(k, intent, id, now)
      PROVE  GrantInv'
  <2> DEFINE S == CleanSessions(now)
             K == CleanByKey(now)
  <2>1. grants' = grants /\ drawn' = drawn \cup {id} /\ grants[id] = 0
    BY <1>0, <1>2 DEF CreateOrGet, GrantInv
  <2>2. \/ sessions' = S
        \/ sessions' = [S EXCEPT ![id] = Candidate(id, k, intent, now)]
        \/ K[k] # None /\ sessions' = [S EXCEPT ![K[k]] = TicketExpired(@, now)]
    BY <1>2 DEF CreateOrGet
  <2>3. ASSUME K[k] # None
        PROVE  K[k] \in Ids /\ TicketExpired(S[K[k]], now).state = "closed"
    <3>1. K[k] \in Ids /\ S[K[k]] \in Session
      BY <1>0, <1>1, <2>3 DEF Consistent
    <3> QED BY <3>1 DEF TicketExpired, Session
  <2>4. S \in [Ids -> Session \cup {None}]
    BY <1>0, <1>1 DEF Consistent
  <2>5. \A i \in Ids : S[i] # None /\ grants[i] # 0 => S[i].state # "issued"
    BY <1>0, <1>1
  <2> HIDE DEF S, K
  <2> QED BY <1>0, <2>1, <2>2, <2>3, <2>4, <2>5 DEF GrantInv
<1>3. ASSUME NEW id \in Ids, NEW ticket \in Ids, NEW now \in 1..clock,
             ClaimAndReserve(id, ticket, now)
      PROVE  GrantInv'
  <2> DEFINE S == CleanSessions(now)
  <2>1. /\ drawn' = drawn
        /\ \/ grants' = grants /\ sessions' = S
           \/ /\ grants' = grants /\ S[id] # None
              /\ sessions' = [S EXCEPT ![id] = TicketExpired(@, now)]
           \/ /\ S[id] # None /\ S[id].state = "issued"
              /\ grants' = [grants EXCEPT ![id] = @ + 1]
              /\ sessions' = [S EXCEPT ![id] = Claimed(@, now)]
    BY <1>3 DEF ClaimAndReserve, Usable
  <2>2. ASSUME S[id] # None
        PROVE  /\ TicketExpired(S[id], now).state = "closed"
               /\ Claimed(S[id], now).state = "claimed"
               /\ id \in drawn
    <3>1. S \in [Ids -> Session \cup {None}] /\ \A i \in Ids : S[i] # None => i \in drawn
      BY <1>0, <1>1 DEF Consistent
    <3>2. S[id] \in Session /\ id \in drawn
      BY <2>2, <3>1
    <3> QED BY <3>2 DEF TicketExpired, Claimed, Session
  <2>3. S \in [Ids -> Session \cup {None}]
    BY <1>0, <1>1 DEF Consistent
  <2>4. \A i \in Ids : S[i] # None /\ grants[i] # 0 => S[i].state # "issued"
    BY <1>0, <1>1
  <2> HIDE DEF S
  <2> QED BY <1>0, <2>1, <2>2, <2>3, <2>4 DEF GrantInv
<1>4. ASSUME NEW id \in Ids, NEW now \in 1..clock, CloseAndRelease(id, now)
      PROVE  GrantInv'
  <2> DEFINE S == CleanSessions(now)
  <2>1. /\ drawn' = drawn /\ grants' = grants
        /\ \/ sessions' = S
           \/ S[id] # None /\ sessions' = [S EXCEPT ![id] = Released(@, now)]
    BY <1>4 DEF CloseAndRelease
  <2>2. ASSUME S[id] # None PROVE Released(S[id], now).state = "closed"
    <3>1. S[id] \in Session
      BY <1>0, <1>1, <2>2 DEF Consistent
    <3> QED BY <3>1 DEF Released, Session
  <2>3. S \in [Ids -> Session \cup {None}]
    BY <1>0, <1>1 DEF Consistent
  <2>4. \A i \in Ids : S[i] # None /\ grants[i] # 0 => S[i].state # "issued"
    BY <1>0, <1>1
  <2> HIDE DEF S
  <2> QED BY <1>0, <2>1, <2>2, <2>3, <2>4 DEF GrantInv
<1>5. ASSUME NEW k \in Keys, NEW u \in Subjects, NEW console \in Consoles,
             NEW now \in 1..clock, Replay(k, u, console, now)
      PROVE  GrantInv'
  BY <1>5 DEF Replay, storeVars, GrantInv
<1>6. CASE Tick
  BY <1>6 DEF Tick, storeVars, GrantInv
<1>7. CASE UNCHANGED vars
  BY <1>7 DEF vars, GrantInv
<1> QED BY <1>2, <1>3, <1>4, <1>5, <1>6, <1>7 DEF Next

\* A ticket admits at most one connection, for ever.
THEOREM OneClaimPerTicket == Spec => []SingleClaim
<1>1. Init => GrantInv
  BY DEF Init, GrantInv
<1>2. StoreInv /\ GrantInv /\ [Next]_vars => GrantInv'
  BY GrantStep
<1>3. GrantInv => SingleClaim
  BY DEF GrantInv, SingleClaim
<1> QED BY <1>1, <1>2, <1>3, StoreInvariant, PTL DEF Spec

-----------------------------------------------------------------------------
(* Limits                                                                  *)

\* cleanup only takes leases away.
LEMMA CleanFewerLeases ==
  ASSUME StoreInv, NEW now \in Nat
  PROVE  \A i \in Ids : CleanLeases(now)[i] # None =>
           leases[i] # None /\ CleanLeases(now)[i] = leases[i]
BY DEF CleanLeases

\* A lease map that only lost entries stays within the limits.
LEMMA FewerLeasesWithinLimits ==
  ASSUME LeasesWithinLimits, NEW L \in [Ids -> Lease \cup {None}],
         \A i \in Ids : L[i] # None => leases[i] # None /\ L[i] = leases[i]
  PROVE  /\ Cardinality(Active(L)) <= MaxActive
         /\ \A u \in Subjects : Cardinality(ActiveOf(L, u)) <= MaxActivePerSubject
<1>1. IsFiniteSet(Active(leases)) /\ \A u \in Subjects : IsFiniteSet(ActiveOf(leases, u))
  BY SetsAssumption, FS_Subset DEF Active, ActiveOf
<1>2. Active(L) \subseteq Active(leases)
  BY DEF Active
<1>3. \A u \in Subjects : ActiveOf(L, u) \subseteq ActiveOf(leases, u)
  BY DEF Active, ActiveOf
<1>4. /\ Cardinality(Active(L)) \in Nat
      /\ Cardinality(Active(leases)) \in Nat
      /\ Cardinality(Active(L)) <= Cardinality(Active(leases))
  BY <1>1, <1>2, FS_Subset, FS_CardinalityType
<1>5. \A u \in Subjects :
        /\ Cardinality(ActiveOf(L, u)) \in Nat
        /\ Cardinality(ActiveOf(leases, u)) \in Nat
        /\ Cardinality(ActiveOf(L, u)) <= Cardinality(ActiveOf(leases, u))
  BY <1>1, <1>3, FS_Subset, FS_CardinalityType
<1> QED BY <1>4, <1>5, LimitsAssumption DEF LeasesWithinLimits

\* Adding the lease that the two tests of ClaimAndReserve let through keeps the
\* map within the limits.
LEMMA OneMoreLease ==
  ASSUME NEW L \in [Ids -> Lease \cup {None}], NEW id \in Ids, NEW lease \in Lease,
         Cardinality(Active(L)) < MaxActive,
         Cardinality(ActiveOf(L, lease.subject)) < MaxActivePerSubject,
         \A u \in Subjects : Cardinality(ActiveOf(L, u)) <= MaxActivePerSubject,
         L[id] = None
  PROVE  LET M == [L EXCEPT ![id] = lease]
         IN /\ Cardinality(Active(M)) <= MaxActive
            /\ \A u \in Subjects : Cardinality(ActiveOf(M, u)) <= MaxActivePerSubject
<1> DEFINE M == [L EXCEPT ![id] = lease]
<1> USE NoneAssumption
<1>1. IsFiniteSet(Active(L)) /\ \A u \in Subjects : IsFiniteSet(ActiveOf(L, u))
  BY SetsAssumption, FS_Subset DEF Active, ActiveOf
<1>2. Active(M) = Active(L) \cup {id} /\ id \notin Active(L)
  BY DEF Active
<1>3. Cardinality(Active(M)) = Cardinality(Active(L)) + 1
  BY <1>1, <1>2, FS_AddElement
<1>4. Cardinality(Active(L)) \in Nat
  BY <1>1, FS_CardinalityType
<1>5. ASSUME NEW u \in Subjects
      PROVE  Cardinality(ActiveOf(M, u)) <= MaxActivePerSubject
  <2>1. CASE u = lease.subject
    <3>1. ActiveOf(M, u) = ActiveOf(L, u) \cup {id} /\ id \notin ActiveOf(L, u)
      BY <2>1 DEF Active, ActiveOf
    <3>2. Cardinality(ActiveOf(M, u)) = Cardinality(ActiveOf(L, u)) + 1
      BY <1>1, <3>1, FS_AddElement
    <3>3. Cardinality(ActiveOf(L, u)) \in Nat
      BY <1>1, FS_CardinalityType
    <3> QED BY <2>1, <3>2, <3>3, LimitsAssumption
  <2>2. CASE u # lease.subject
    <3>1. ActiveOf(M, u) = ActiveOf(L, u)
      BY <2>2 DEF Active, ActiveOf
    <3> QED BY <3>1
  <2> QED BY <2>1, <2>2
<1> HIDE DEF M
<1>6. Cardinality(Active(M)) <= MaxActive
  BY <1>3, <1>4, LimitsAssumption
<1> QED BY <1>5, <1>6 DEF M

\* Only Claim adds a lease, and it tests both limits on the swept map.
LEMMA LimitsStep ==
  ASSUME StoreInv, LeasesWithinLimits, [Next]_vars
  PROVE  LeasesWithinLimits'
<1> USE NoneAssumption
<1>0. \A now \in 1..clock : now \in Nat
  BY DEF StoreInv
<1>1. ASSUME leases' \in [Ids -> Lease \cup {None}],
             \A i \in Ids : leases'[i] # None => leases[i] # None /\ leases'[i] = leases[i]
      PROVE  LeasesWithinLimits'
  BY <1>1, FewerLeasesWithinLimits DEF LeasesWithinLimits, Active, ActiveOf
<1>2. ASSUME NEW now \in Nat
      PROVE  /\ CleanLeases(now) \in [Ids -> Lease \cup {None}]
             /\ \A i \in Ids : CleanLeases(now)[i] # None =>
                  leases[i] # None /\ CleanLeases(now)[i] = leases[i]
  BY <1>2, CleanConsistent, CleanFewerLeases DEF Consistent
<1>3. ASSUME NEW k \in Keys, NEW intent \in Intents, NEW id \in Ids,
             NEW now \in 1..clock, CreateOrGet(k, intent, id, now)
      PROVE  LeasesWithinLimits'
  BY <1>0, <1>1, <1>2, <1>3 DEF CreateOrGet
<1>4. ASSUME NEW id \in Ids, NEW ticket \in Ids, NEW now \in 1..clock,
             ClaimAndReserve(id, ticket, now)
      PROVE  LeasesWithinLimits'
  <2> DEFINE S == CleanSessions(now)
             L == CleanLeases(now)
             lease == [expiresAt |-> now + SessionMaxDuration,
                       subject |-> Subject(S[id])]
  <2>1. CASE leases' = L
    BY <1>0, <1>1, <1>2, <2>1
  <2>2. CASE /\ S[id] # None
             /\ S[id].state = "issued"
             /\ ~(Cardinality(Active(L)) >= MaxActive)
             /\ ~(Cardinality(ActiveOf(L, Subject(S[id]))) >= MaxActivePerSubject)
             /\ leases' = [L EXCEPT ![id] = lease]
    <3>1. Consistent(S, CleanByKey(now), L, drawn)
      BY <1>0, CleanConsistent
    <3>2. L \in [Ids -> Lease \cup {None}]
      BY <1>0, <1>2
    <3>3. /\ Cardinality(Active(L)) <= MaxActive
          /\ \A u \in Subjects : Cardinality(ActiveOf(L, u)) <= MaxActivePerSubject
      BY <1>0, <1>2, FewerLeasesWithinLimits
    <3> HIDE DEF S, L
    <3>4. L[id] = None /\ S[id] \in Session
      BY <2>2, <3>1 DEF Consistent
    <3>5. Subject(S[id]) \in Subjects
      BY <3>4, SetsAssumption DEF Subject, Session
    <3>6. lease \in Lease /\ lease.subject = Subject(S[id])
      BY <1>0, <3>5, LimitsAssumption DEF Lease
    <3>7. /\ Cardinality(Active(L)) \in Nat
          /\ Cardinality(ActiveOf(L, Subject(S[id]))) \in Nat
      BY SetsAssumption, FS_Subset, FS_CardinalityType DEF Active, ActiveOf
    <3>8. /\ Cardinality(Active(L)) < MaxActive
          /\ Cardinality(ActiveOf(L, lease.subject)) < MaxActivePerSubject
      BY <2>2, <3>6, <3>7, LimitsAssumption
    <3> HIDE DEF lease
    <3>9. /\ Cardinality(Active(leases')) <= MaxActive
          /\ \A u \in Subjects : Cardinality(ActiveOf(leases', u)) <= MaxActivePerSubject
      BY <2>2, <3>2, <3>3, <3>4, <3>6, <3>8, OneMoreLease
    <3> QED BY <3>9 DEF LeasesWithinLimits, Active, ActiveOf
  <2> QED BY <1>4, <2>1, <2>2 DEF ClaimAndReserve, Usable, AtCapacity
<1>5. ASSUME NEW id \in Ids, NEW now \in 1..clock, CloseAndRelease(id, now)
      PROVE  LeasesWithinLimits'
  <2>1. leases' = CleanLeases(now) \/ leases' = [CleanLeases(now) EXCEPT ![id] = None]
    BY <1>5 DEF CloseAndRelease
  <2> QED BY <1>0, <1>1, <1>2, <2>1
<1>6. CASE UNCHANGED leases
  BY <1>6 DEF LeasesWithinLimits, Active, ActiveOf
<1> QED BY <1>3, <1>4, <1>5, <1>6 DEF Next, Replay, Tick, storeVars, vars

\* The leases never exceed MaxActive, nor MaxActivePerSubject for one subject.
THEOREM CapacityRespected == Spec => []LeasesWithinLimits
<1>1. Init => LeasesWithinLimits
  <2> SUFFICES ASSUME Init PROVE LeasesWithinLimits
    OBVIOUS
  <2>1. Active(leases) = {} /\ \A u \in Subjects : ActiveOf(leases, u) = {}
    BY DEF Init, Active, ActiveOf
  <2> QED BY <2>1, FS_EmptySet, LimitsAssumption DEF LeasesWithinLimits
<1>2. StoreInv /\ LeasesWithinLimits /\ [Next]_vars => LeasesWithinLimits'
  BY LimitsStep
<1> QED BY <1>1, <1>2, StoreInvariant, PTL DEF Spec

-----------------------------------------------------------------------------
(* The access a connection was granted                                     *)

\* The session of a held access is remembered for IdempotencyTTL after the end
\* of that access, and the access keeps its lease as long as it lasts.
AccessInv ==
  \A i \in Ids :
    /\ access[i] # 0 =>
         /\ i \in drawn
         /\ sessions[i] # None =>
              sessions[i].tombstoneExpiresAt = access[i] + IdempotencyTTL
    /\ access[i] > clock =>
         leases[i] # None /\ leases[i].expiresAt = access[i]

\* A caller's clock reading is never ahead of the clock, so its cleanup touches
\* neither the lease nor the session of an access that still lasts.
LEMMA CleanKeepsAccess ==
  ASSUME StoreInv, AccessInv, NEW now \in 1..clock, NEW i \in Ids
  PROVE  /\ access[i] # 0 =>
              /\ i \in drawn
              /\ CleanSessions(now)[i] # None =>
                   CleanSessions(now)[i].tombstoneExpiresAt = access[i] + IdempotencyTTL
         /\ access[i] > clock =>
              /\ CleanLeases(now)[i] # None
              /\ CleanLeases(now)[i].expiresAt = access[i]
<1>1. now \in Nat /\ clock \in Nat /\ access[i] \in Nat /\ now <= clock
  BY DEF StoreInv
<1>2. access[i] # 0 /\ CleanSessions(now)[i] # None =>
        CleanSessions(now)[i].tombstoneExpiresAt = access[i] + IdempotencyTTL
  BY <1>1, CleanNarrows DEF AccessInv
<1>3. ASSUME access[i] > clock
      PROVE  /\ CleanLeases(now)[i] # None
             /\ CleanLeases(now)[i].expiresAt = access[i]
  <2>1. leases[i] # None /\ leases[i].expiresAt = access[i]
    BY <1>3 DEF AccessInv
  <2>2. ~LeaseExpired(i, now)
    BY <1>1, <1>3, <2>1 DEF LeaseExpired
  <2>3. sessions[i] # None /\ sessions[i].tombstoneExpiresAt = access[i] + IdempotencyTTL
    BY <1>1, <1>3, <2>1 DEF StoreInv, Consistent, AccessInv
  <2>4. ~Buried(i, now)
    BY <1>1, <1>3, <2>3, LimitsAssumption DEF Buried
  <2> QED BY <2>1, <2>2, <2>4 DEF CleanLeases
<1> QED BY <1>2, <1>3 DEF AccessInv

\* No step takes the lease of an access that still lasts.
LEMMA AccessStep ==
  ASSUME StoreInv, AccessInv, [Next]_vars
  PROVE  AccessInv'
<1> USE NoneAssumption
<1>0. /\ access \in [Ids -> Nat] /\ clock \in Nat
      /\ \A now \in 1..clock : now \in Nat
  BY DEF StoreInv
<1>1. ASSUME NEW k \in Keys, NEW intent \in Intents, NEW id \in Ids,
             NEW now \in 1..clock, CreateOrGet(k, intent, id, now)
      PROVE  AccessInv'
  <2> DEFINE S == CleanSessions(now)
             K == CleanByKey(now)
             L == CleanLeases(now)
  <2>1. /\ id \notin drawn /\ drawn' = drawn \cup {id}
        /\ leases' = L /\ access' = access /\ clock' = clock
        /\ \/ sessions' = S
           \/ sessions' = [S EXCEPT ![id] = Candidate(id, k, intent, now)]
           \/ K[k] # None /\ sessions' = [S EXCEPT ![K[k]] = TicketExpired(@, now)]
    BY <1>1 DEF CreateOrGet
  <2>2. Consistent(S, K, L, drawn)
    BY <1>0, CleanConsistent
  <2>3. \A i \in Ids :
          /\ access[i] # 0 =>
               /\ i \in drawn
               /\ S[i] # None => S[i].tombstoneExpiresAt = access[i] + IdempotencyTTL
          /\ access[i] > clock => L[i] # None /\ L[i].expiresAt = access[i]
    BY CleanKeepsAccess
  <2>4. access[id] = 0
    BY <2>1, <2>3
  <2> HIDE DEF S, K, L
  <2>5. ASSUME K[k] # None
        PROVE  /\ K[k] \in Ids /\ S[K[k]] # None
               /\ TicketExpired(S[K[k]], now).tombstoneExpiresAt
                    = S[K[k]].tombstoneExpiresAt
    <3>1. K[k] \in Ids /\ S[K[k]] # None /\ S[K[k]] \in Session
      BY <2>2, <2>5 DEF Consistent
    <3> QED BY <3>1 DEF TicketExpired, Session
  <2>6. S \in [Ids -> Session \cup {None}]
    BY <2>2 DEF Consistent
  <2> QED BY <2>1, <2>3, <2>4, <2>5, <2>6 DEF AccessInv
<1>2. ASSUME NEW id \in Ids, NEW ticket \in Ids, NEW now \in 1..clock,
             ClaimAndReserve(id, ticket, now)
      PROVE  AccessInv'
  <2> DEFINE S == CleanSessions(now)
             L == CleanLeases(now)
             expires == now + SessionMaxDuration
             lease == [expiresAt |-> expires, subject |-> Subject(S[id])]
  <2>1. /\ drawn' = drawn /\ clock' = clock
        /\ \/ sessions' = S /\ leases' = L /\ access' = access
           \/ /\ S[id] # None
              /\ sessions' = [S EXCEPT ![id] = TicketExpired(@, now)]
              /\ leases' = L /\ access' = access
           \/ /\ S[id] # None
              /\ sessions' = [S EXCEPT ![id] = Claimed(@, now)]
              /\ leases' = [L EXCEPT ![id] = lease]
              /\ access' = [access EXCEPT ![id] = expires]
    BY <1>2 DEF ClaimAndReserve
  <2>2. Consistent(S, CleanByKey(now), L, drawn)
    BY <1>0, CleanConsistent
  <2>3. \A i \in Ids :
          /\ access[i] # 0 =>
               /\ i \in drawn
               /\ S[i] # None => S[i].tombstoneExpiresAt = access[i] + IdempotencyTTL
          /\ access[i] > clock => L[i] # None /\ L[i].expiresAt = access[i]
    BY CleanKeepsAccess
  <2> HIDE DEF S, L
  <2>4. ASSUME S[id] # None
        PROVE  /\ TicketExpired(S[id], now).tombstoneExpiresAt = S[id].tombstoneExpiresAt
               /\ Claimed(S[id], now).tombstoneExpiresAt = expires + IdempotencyTTL
               /\ id \in drawn /\ lease # None
    <3>1. S[id] \in Session /\ id \in drawn
      BY <2>2, <2>4 DEF Consistent
    <3>2. Subject(S[id]) \in Subjects
      BY <3>1, SetsAssumption DEF Subject, Session
    <3>3. lease \in Lease
      BY <1>0, <3>2, LimitsAssumption DEF Lease
    <3> QED BY <3>1, <3>3 DEF TicketExpired, Claimed, Session
  <2>5. lease.expiresAt = expires
    OBVIOUS
  <2>6. /\ S \in [Ids -> Session \cup {None}]
        /\ L \in [Ids -> Lease \cup {None}]
    BY <2>2 DEF Consistent
  <2> HIDE DEF lease, expires
  <2>7. CASE sessions' = S /\ leases' = L /\ access' = access
    BY <2>1, <2>3, <2>7 DEF AccessInv
  <2>8. CASE /\ S[id] # None
             /\ sessions' = [S EXCEPT ![id] = TicketExpired(@, now)]
             /\ leases' = L /\ access' = access
    BY <2>1, <2>3, <2>4, <2>6, <2>8 DEF AccessInv
  <2>9. CASE /\ S[id] # None
             /\ sessions' = [S EXCEPT ![id] = Claimed(@, now)]
             /\ leases' = [L EXCEPT ![id] = lease]
             /\ access' = [access EXCEPT ![id] = expires]
    BY <1>0, <2>1, <2>3, <2>4, <2>5, <2>6, <2>9 DEF AccessInv
  <2> QED BY <2>1, <2>7, <2>8, <2>9
<1>3. ASSUME NEW id \in Ids, NEW now \in 1..clock, CloseAndRelease(id, now)
      PROVE  AccessInv'
  <2> DEFINE S == CleanSessions(now)
             L == CleanLeases(now)
  <2>1. /\ drawn' = drawn /\ clock' = clock
        /\ access' = [access EXCEPT ![id] = 0]
        /\ \/ sessions' = S /\ leases' = L
           \/ /\ sessions' = [S EXCEPT ![id] = Released(@, now)]
              /\ leases' = [L EXCEPT ![id] = None]
    BY <1>3 DEF CloseAndRelease
  <2>2. \A i \in Ids :
          /\ access[i] # 0 =>
               /\ i \in drawn
               /\ S[i] # None => S[i].tombstoneExpiresAt = access[i] + IdempotencyTTL
          /\ access[i] > clock => L[i] # None /\ L[i].expiresAt = access[i]
    BY CleanKeepsAccess
  <2>3. /\ S \in [Ids -> Session \cup {None}]
        /\ L \in [Ids -> Lease \cup {None}]
    BY <1>0, CleanConsistent DEF Consistent
  <2> HIDE DEF S, L
  <2>4. access'[id] = 0 /\ \A i \in Ids \ {id} : access'[i] = access[i]
    BY <1>0, <2>1
  <2>5. \A i \in Ids \ {id} : sessions'[i] = S[i] /\ leases'[i] = L[i]
    BY <2>1, <2>3
  <2> QED BY <1>0, <2>1, <2>2, <2>4, <2>5 DEF AccessInv
<1>4. CASE UNCHANGED <<clock, storeVars, drawn, access>>
  BY <1>4 DEF storeVars, AccessInv
<1>5. CASE Tick
  BY <1>0, <1>5 DEF Tick, storeVars, AccessInv
<1> QED BY <1>1, <1>2, <1>3, <1>4, <1>5 DEF Next, Replay, storeVars, vars

\* AccessInv is inductive relative to StoreInv.
THEOREM AccessInvariant == Spec => []AccessInv
<1>1. Init => AccessInv
  BY DEF Init, AccessInv
<1>2. StoreInv /\ AccessInv /\ [Next]_vars => AccessInv'
  BY AccessStep
<1> QED BY <1>1, <1>2, StoreInvariant, PTL DEF Spec

\* An admitted connection keeps its lease until it closes or its time is up.
THEOREM LiveAccessKeepsLease == Spec => []AccessKeepsLease
<1>1. AccessInv => AccessKeepsLease
  BY DEF AccessInv, AccessKeepsLease
<1> QED BY <1>1, AccessInvariant, PTL

\* The connections that are alive respect both limits.
THEOREM LiveConnectionsBounded == Spec => []LiveConnectionsWithinLimits
<1>1. StoreInv /\ AccessInv /\ LeasesWithinLimits => LiveConnectionsWithinLimits
  <2> SUFFICES ASSUME StoreInv, AccessInv, LeasesWithinLimits
               PROVE  LiveConnectionsWithinLimits
    OBVIOUS
  <2> DEFINE live == {i \in Ids : access[i] > clock}
             liveOf(u) == {i \in live : Subject(sessions[i]) = u}
  <2>1. live \subseteq Active(leases)
    BY DEF AccessInv, Active
  <2>2. \A u \in Subjects : liveOf(u) \subseteq ActiveOf(leases, u)
    BY <2>1 DEF StoreInv, Consistent, Active, ActiveOf
  <2>3. IsFiniteSet(Active(leases)) /\ \A u \in Subjects : IsFiniteSet(ActiveOf(leases, u))
    BY SetsAssumption, FS_Subset DEF Active, ActiveOf
  <2> HIDE DEF live, liveOf
  <2>4. /\ Cardinality(live) \in Nat /\ Cardinality(Active(leases)) \in Nat
        /\ Cardinality(live) <= Cardinality(Active(leases))
    BY <2>1, <2>3, FS_Subset, FS_CardinalityType
  <2>5. \A u \in Subjects :
          /\ Cardinality(liveOf(u)) \in Nat /\ Cardinality(ActiveOf(leases, u)) \in Nat
          /\ Cardinality(liveOf(u)) <= Cardinality(ActiveOf(leases, u))
    BY <2>2, <2>3, FS_Subset, FS_CardinalityType
  <2>6. /\ Cardinality(live) <= MaxActive
        /\ \A u \in Subjects : Cardinality(liveOf(u)) <= MaxActivePerSubject
    BY <2>4, <2>5, LimitsAssumption DEF LeasesWithinLimits
  <2> QED BY <2>6 DEF LiveConnectionsWithinLimits, live, liveOf
<1> QED BY <1>1, StoreInvariant, AccessInvariant, CapacityRespected, PTL

\* An idempotency key is given up only after its session's tombstone.
THEOREM KeyReservedUntilTombstone == Spec => KeyHeldUntilTombstone
<1> DEFINE A == \A k \in Keys : byKey[k] # None /\ byKey'[k] # byKey[k] =>
                  /\ clock >= sessions[byKey[k]].tombstoneExpiresAt
                  /\ access[byKey[k]] # 0 =>
                       clock >= access[byKey[k]] + IdempotencyTTL
<1>1. StoreInv /\ AccessInv /\ [Next]_vars => [A]_vars
  <2> SUFFICES ASSUME StoreInv, AccessInv, Next,
                      NEW k \in Keys, byKey[k] # None, byKey'[k] # byKey[k]
               PROVE  /\ clock >= sessions[byKey[k]].tombstoneExpiresAt
                      /\ access[byKey[k]] # 0 =>
                           clock >= access[byKey[k]] + IdempotencyTTL
    OBVIOUS
  <2>1. PICK now \in 1..clock : byKey'[k] # byKey[k] => CleanByKey(now)[k] # byKey[k]
    <3>1. \A now : CleanByKey(now) \in [Keys -> Ids \cup {None}]
      BY DEF StoreInv, Consistent, CleanByKey
    <3>2. ASSUME NEW j \in Keys, NEW intent \in Intents, NEW id \in Ids,
                 NEW now \in 1..clock, CreateOrGet(j, intent, id, now)
          PROVE  CleanByKey(now)[k] # byKey[k]
      BY <3>1, <3>2 DEF CreateOrGet
    <3> QED BY <3>2 DEF Next, Replay, ClaimAndReserve, CloseAndRelease, Tick, storeVars
  <2>2. /\ byKey[k] \in Ids
        /\ sessions[byKey[k]] # None
        /\ now >= sessions[byKey[k]].tombstoneExpiresAt
    BY <2>1, NoneAssumption DEF CleanByKey, Buried, StoreInv, Consistent
  <2>3. sessions[byKey[k]].tombstoneExpiresAt \in Nat
    BY <2>2 DEF StoreInv, Consistent, Session
  <2>4. clock >= sessions[byKey[k]].tombstoneExpiresAt
    BY <2>2, <2>3 DEF StoreInv
  <2> QED BY <2>2, <2>4 DEF AccessInv
<1>2. Spec => [][A]_vars
  BY <1>1, StoreInvariant, AccessInvariant, PTL DEF Spec
<1> QED BY <1>2 DEF KeyHeldUntilTombstone

-----------------------------------------------------------------------------
(* The memory store implements the contract                                *)

\* The contract counts with the same Cardinality.
LEMMA SameCardinality == \A S : Contract!Cardinality(S) = Cardinality(S)
BY DEF Contract!Cardinality, Cardinality, Contract!IsFiniteSet, IsFiniteSet

\* Session i ends, or keeps its record: no step revives or re-offers it.
Narrowed(i) ==
  sessions'[i] # None /\ sessions'[i].state # "closed" => sessions'[i] = sessions[i]

\* A key that cleanup gives up named a session that it forgets.
LEMMA CleanGivesUp ==
  ASSUME StoreInv, NEW now \in Nat, NEW k \in Keys
  PROVE  \/ CleanByKey(now)[k] = byKey[k]
         \/ /\ CleanByKey(now)[k] = None /\ byKey[k] \in Ids
            /\ CleanSessions(now)[byKey[k]] = None
<1>1. byKey[k] \in Ids \cup {None}
  BY DEF StoreInv, Consistent
<1> QED BY <1>1 DEF CleanByKey, CleanSessions

\* A step that offers nothing and claims nothing answers a request by ending
\* sessions.
LEMMA NarrowingAnswers ==
  ASSUME StoreInv, StoreInv', \A i \in Ids : Narrowed(i), drawn \subseteq drawn',
         \A k \in Keys : \/ byKey'[k] = byKey[k]
                         \/ /\ byKey'[k] = None /\ byKey[k] \in Ids
                            /\ sessions'[byKey[k]] = None
  PROVE  Contract!Next
<1>1. byKey' \in [Keys -> Ids \cup {None}]
  BY DEF StoreInv, Consistent
<1>2. InState("issued")' \subseteq InState("issued")
  BY DEF Narrowed, InState
<1>3. InState("claimed")' \subseteq InState("claimed")
  BY DEF Narrowed, InState
<1>4. ASSUME NEW i \in Ids, sessions'[i] = None PROVE Contract!Over(i)
  BY <1>4 DEF Contract!Over, InState
<1>5. Contract!GivenUp(Keys)
  BY <1>4 DEF Contract!GivenUp
<1>6. Contract!Answer
  BY <1>2, <1>3, <1>5 DEF Contract!Answer
<1> QED BY <1>1, <1>6 DEF Contract!Next

\* The limits, of the claimed sessions instead of the leases.
ClaimsWithinLimits ==
  /\ Cardinality(InState("claimed")) <= MaxActive
  /\ \A u \in Subjects :
       Cardinality({c \in InState("claimed") : c[2] = u}) <= MaxActivePerSubject

\* The leases that the contract counts are those of the lease map.
LEMMA LimitsOfClaims == StoreInv /\ LeasesWithinLimits => ClaimsWithinLimits
<1> SUFFICES ASSUME StoreInv, LeasesWithinLimits PROVE ClaimsWithinLimits
  OBVIOUS
<1>1. \A c \in InState("claimed") :
        c[1] \in Active(leases) /\ c[1] \in ActiveOf(leases, c[2])
  BY DEF InState, Active, ActiveOf, StoreInv, Consistent
<1>2. \A c, d \in InState("claimed") : c[1] = d[1] => c = d
  BY DEF InState
<1>3. /\ IsFiniteSet(Active(leases))
      /\ \A u \in Subjects : IsFiniteSet(ActiveOf(leases, u))
  BY SetsAssumption, FS_Subset DEF Active, ActiveOf
<1>4. \A S : IsFiniteSet(S) => Cardinality(S) \in Nat
  BY FS_CardinalityType
<1>5. Cardinality(InState("claimed")) <= MaxActive
  <2>1. /\ IsFiniteSet(InState("claimed"))
        /\ Cardinality(InState("claimed")) <= Cardinality(Active(leases))
    BY <1>1, <1>2, <1>3, PairsBounded
  <2> QED BY <1>3, <1>4, <2>1, LimitsAssumption DEF LeasesWithinLimits
<1>6. ASSUME NEW u \in Subjects
      PROVE  Cardinality({c \in InState("claimed") : c[2] = u}) <= MaxActivePerSubject
  <2> DEFINE P == {c \in InState("claimed") : c[2] = u}
  <2>1. /\ \A c \in P : c[1] \in ActiveOf(leases, u)
        /\ \A c, d \in P : c[1] = d[1] => c = d
    BY <1>1, <1>2
  <2>2. IsFiniteSet(P) /\ Cardinality(P) <= Cardinality(ActiveOf(leases, u))
    <3> HIDE DEF P
    <3> QED BY <1>3, <2>1, PairsBounded
  <2> HIDE DEF P
  <2>3. Cardinality(P) <= MaxActivePerSubject
    BY <1>3, <1>4, <2>2, LimitsAssumption DEF LeasesWithinLimits
  <2> QED BY <2>3 DEF P
<1> QED BY <1>5, <1>6 DEF ClaimsWithinLimits

\* The same after a step.
LEMMA LimitsOfClaimsNext == StoreInv' /\ LeasesWithinLimits' => ClaimsWithinLimits'
BY LimitsOfClaims, PTL

\* Issue offers a fresh session, or answers.
LEMMA CreateImplements ==
  ASSUME StoreInv, StoreInv', NEW k \in Keys, NEW intent \in Intents, NEW id \in Ids,
         NEW now \in Nat, CreateOrGet(k, intent, id, now)
  PROVE  Contract!Next
<1> USE NoneAssumption
<1> DEFINE S == CleanSessions(now)
           K == CleanByKey(now)
           new == Candidate(id, k, intent, now)
<1>1. Consistent(S, K, CleanLeases(now), drawn)
  BY CleanConsistent
<1>2. \A i \in Ids : S[i] # None /\ S[i].state # "closed" => S[i] = sessions[i]
  BY CleanNarrows
<1>3. \A x \in Keys : K[x] = byKey[x] \/ (K[x] = None /\ byKey[x] \in Ids /\ S[byKey[x]] = None)
  BY CleanGivesUp
<1>4. id \notin drawn /\ drawn' = drawn \cup {id} /\ drawn \subseteq Ids
  BY DEF CreateOrGet, StoreInv, Consistent
<1>5. CASE K[k] # None /\ byKey' = K /\ sessions' = S
  BY <1>2, <1>3, <1>4, <1>5, NarrowingAnswers DEF Narrowed
<1>6. CASE /\ K[k] # None /\ byKey' = K
           /\ sessions' = [S EXCEPT ![K[k]] = TicketExpired(@, now)]
  <2>1. K[k] \in Ids /\ S[K[k]] \in Session /\ S \in [Ids -> Session \cup {None}]
    BY <1>1, <1>6 DEF Consistent
  <2>2. TicketExpired(S[K[k]], now).state = "closed"
    BY <2>1, SessionUpdates
  <2> HIDE DEF S, K
  <2>3. \A i \in Ids : Narrowed(i)
    BY <1>2, <1>6, <2>1, <2>2 DEF Narrowed
  <2>4. \A x \in Keys : S[byKey[x]] = None /\ byKey[x] \in Ids => sessions'[byKey[x]] = None
    BY <1>1, <1>6, <2>1 DEF Consistent
  <2> QED BY <1>3, <1>4, <1>6, <2>3, <2>4, NarrowingAnswers
<1>7. CASE /\ K[k] = None /\ byKey' = [K EXCEPT ![k] = id]
           /\ sessions' = [S EXCEPT ![id] = new]
  <2>1. /\ new.state = "issued" /\ new # None /\ Subject(new) = SubjectOf[intent]
        /\ SubjectOf[intent] \in Subjects
    <3>1. new \in Session /\ new.state = "issued" /\ new.intent = intent
      BY CandidateFields
    <3> QED BY <3>1, SetsAssumption DEF Subject
  <2> DEFINE u == SubjectOf[intent]
  <2> HIDE DEF S, K, new
  <2>2. /\ sessions'[id] = new /\ \A i \in Ids \ {id} : sessions'[i] = S[i]
        /\ byKey'[k] = id /\ \A x \in Keys \ {k} : byKey'[x] = K[x]
    BY <1>1, <1>7 DEF Consistent
  <2>3. /\ <<id, u>> \in InState("issued")'
        /\ InState("issued")' \subseteq InState("issued") \cup {<<id, u>>}
    BY <1>2, <2>1, <2>2 DEF InState
  <2>4. InState("claimed")' \subseteq InState("claimed")
    BY <1>2, <2>1, <2>2 DEF InState
  <2>5. \A x \in Keys : byKey[x] \in Ids => byKey[x] # id
    BY <1>4 DEF StoreInv, Consistent
  <2>6. ASSUME NEW i \in Ids, sessions'[i] = None PROVE Contract!Over(i)
    BY <2>6 DEF Contract!Over, InState
  <2>7. Contract!GivenUp(Keys \ {k})
    BY <1>3, <2>2, <2>5, <2>6 DEF Contract!GivenUp
  <2>8. byKey[k] = None \/ Contract!Over(byKey[k])
    BY <1>3, <1>7, <2>2, <2>5, <2>6
  <2>9. Contract!Issue(k, id, u)
    BY <1>4, <2>2, <2>3, <2>4, <2>7, <2>8 DEF Contract!Issue
  <2>10. byKey' \in [Keys -> Ids \cup {None}]
    BY DEF StoreInv, Consistent
  <2> QED BY <2>1, <2>9, <2>10 DEF Contract!Next
<1> QED BY <1>5, <1>6, <1>7 DEF CreateOrGet

\* Claim consumes its offer within the limits, or answers.
LEMMA ClaimImplements ==
  ASSUME StoreInv, StoreInv', LeasesWithinLimits', NEW id \in Ids, NEW ticket \in Ids,
         NEW now \in Nat, ClaimAndReserve(id, ticket, now)
  PROVE  Contract!Next
<1> USE NoneAssumption
<1> DEFINE S == CleanSessions(now)
           K == CleanByKey(now)
           new == Claimed(S[id], now)
<1>1. Consistent(S, K, CleanLeases(now), drawn)
  BY CleanConsistent
<1>2. \A i \in Ids : S[i] # None /\ S[i].state # "closed" => S[i] = sessions[i]
  BY CleanNarrows
<1>3. \A x \in Keys : K[x] = byKey[x] \/ (K[x] = None /\ byKey[x] \in Ids /\ S[byKey[x]] = None)
  BY CleanGivesUp
<1>4. byKey' = K /\ drawn' = drawn
  BY DEF ClaimAndReserve
<1>5. CASE sessions' = S
  BY <1>2, <1>3, <1>4, <1>5, NarrowingAnswers DEF Narrowed
<1>6. CASE S[id] # None /\ sessions' = [S EXCEPT ![id] = TicketExpired(@, now)]
  <2>1. S[id] \in Session /\ S \in [Ids -> Session \cup {None}]
    BY <1>1, <1>6 DEF Consistent
  <2>2. TicketExpired(S[id], now).state = "closed"
    BY <2>1, SessionUpdates
  <2> HIDE DEF S, K
  <2>3. \A i \in Ids : Narrowed(i)
    BY <1>2, <1>6, <2>1, <2>2 DEF Narrowed
  <2>4. \A x \in Keys : S[byKey[x]] = None /\ byKey[x] \in Ids => sessions'[byKey[x]] = None
    BY <1>6, <2>1
  <2> QED BY <1>3, <1>4, <2>3, <2>4, NarrowingAnswers
<1>7. CASE S[id] # None /\ S[id].state = "issued" /\ sessions' = [S EXCEPT ![id] = new]
  <2>1. S[id] \in Session /\ S \in [Ids -> Session \cup {None}] /\ S[id] = sessions[id]
    BY <1>1, <1>2, <1>7 DEF Consistent
  <2>2. /\ new.state = "claimed" /\ Subject(new) = Subject(sessions[id])
        /\ Subject(sessions[id]) \in Subjects
    <3>1. new.state = "claimed" /\ new.intent = S[id].intent
      BY <2>1, SessionUpdates
    <3>2. Subject(S[id]) \in Subjects
      BY <2>1, SessionFields
    <3> HIDE DEF new, S
    <3> QED BY <2>1, <3>1, <3>2 DEF Subject
  <2>3. new # None
    <3>1. new \in Session
      BY <2>1, SessionUpdates
    <3> QED BY <3>1, SessionFields
  <2> DEFINE u == Subject(sessions[id])
  <2> HIDE DEF S, K, new
  <2>4. sessions'[id] = new /\ \A i \in Ids \ {id} : sessions'[i] = S[i]
    BY <1>7, <2>1
  <2>5. <<id, u>> \in InState("issued")
    BY <1>7, <2>1, <2>2 DEF InState
  <2>6. InState("issued")' \subseteq InState("issued") \ {<<id, u>>}
    BY <1>2, <2>2, <2>4 DEF InState
  <2>7. /\ <<id, u>> \in InState("claimed")'
        /\ InState("claimed")' \subseteq InState("claimed") \cup {<<id, u>>}
    BY <1>2, <2>2, <2>3, <2>4 DEF InState
  <2>8. /\ Cardinality(InState("claimed")') <= MaxActive
        /\ Cardinality({c \in InState("claimed")' : c[2] = u}) <= MaxActivePerSubject
    BY <2>2, LimitsOfClaimsNext DEF ClaimsWithinLimits
  <2>9. ASSUME NEW i \in Ids, sessions'[i] = None PROVE Contract!Over(i)
    BY <2>9 DEF Contract!Over, InState
  <2>10. Contract!GivenUp(Keys)
    BY <1>3, <1>4, <1>7, <2>4, <2>9 DEF Contract!GivenUp
  <2>11. Contract!Claim(id, u)
    BY <1>4, <2>2, <2>5, <2>6, <2>7, <2>8, <2>10, SameCardinality DEF Contract!Claim
  <2>12. byKey' \in [Keys -> Ids \cup {None}]
    BY DEF StoreInv, Consistent
  <2> QED BY <2>2, <2>11, <2>12 DEF Contract!Next
<1> QED BY <1>5, <1>6, <1>7 DEF ClaimAndReserve, Usable

\* Close answers.
LEMMA CloseImplements ==
  ASSUME StoreInv, StoreInv', NEW id \in Ids, NEW now \in Nat, CloseAndRelease(id, now)
  PROVE  Contract!Next
<1> USE NoneAssumption
<1> DEFINE S == CleanSessions(now)
           K == CleanByKey(now)
<1>1. S \in [Ids -> Session \cup {None}]
  BY CleanConsistent DEF Consistent
<1>2. \A i \in Ids : S[i] # None /\ S[i].state # "closed" => S[i] = sessions[i]
  BY CleanNarrows
<1>3. \A x \in Keys : K[x] = byKey[x] \/ (K[x] = None /\ byKey[x] \in Ids /\ S[byKey[x]] = None)
  BY CleanGivesUp
<1>4. byKey' = K /\ drawn' = drawn
  BY DEF CloseAndRelease
<1>5. CASE sessions' = S
  BY <1>2, <1>3, <1>4, <1>5, NarrowingAnswers DEF Narrowed
<1>6. CASE S[id] # None /\ sessions' = [S EXCEPT ![id] = Released(@, now)]
  <2>1. S[id] \in Session
    BY <1>1, <1>6
  <2>2. Released(S[id], now).state = "closed"
    BY <2>1, SessionUpdates
  <2> HIDE DEF S, K
  <2>3. \A i \in Ids : Narrowed(i)
    BY <1>1, <1>2, <1>6, <2>2 DEF Narrowed
  <2>4. \A x \in Keys : S[byKey[x]] = None /\ byKey[x] \in Ids => sessions'[byKey[x]] = None
    BY <1>1, <1>6
  <2> QED BY <1>3, <1>4, <2>3, <2>4, NarrowingAnswers
<1> QED BY <1>5, <1>6 DEF CloseAndRelease

\* The memory store implements the contract of session.Store: every step of its
\* maps is a step of the contract or leaves the contract's state alone.
THEOREM MemoryImplementsContract == Spec => ImplementsContract
<1>1. Init => Contract!Init
  BY DEF Init, Contract!Init, InState
<1>2. /\ StoreInv /\ StoreInv' /\ LeasesWithinLimits' /\ [Next]_vars
      => [Contract!Next]_(Contract!vars)
  <2> SUFFICES ASSUME StoreInv, StoreInv', LeasesWithinLimits', [Next]_vars
               PROVE  Contract!Next \/ UNCHANGED Contract!vars
    OBVIOUS
  <2>1. \A now \in 1..clock : now \in Nat
    BY DEF StoreInv
  <2>2. CASE \E k \in Keys, intent \in Intents, id \in Ids, now \in 1..clock :
               CreateOrGet(k, intent, id, now)
    BY <2>1, <2>2, CreateImplements
  <2>3. CASE \E id \in Ids, ticket \in Ids, now \in 1..clock :
               ClaimAndReserve(id, ticket, now)
    BY <2>1, <2>3, ClaimImplements
  <2>4. CASE \E id \in Ids, now \in 1..clock : CloseAndRelease(id, now)
    BY <2>1, <2>4, CloseImplements
  <2>5. CASE UNCHANGED <<sessions, byKey, drawn>>
    BY <2>5 DEF Contract!vars, InState
  <2> QED BY <2>2, <2>3, <2>4, <2>5 DEF Next, Replay, Tick, vars, storeVars
<1> QED BY <1>1, <1>2, StoreInvariant, CapacityRespected, PTL
        DEF Spec, ImplementsContract, Contract!Spec

-----------------------------------------------------------------------------
(* What the answers say                                                    *)

\* The answers that a property looks at, field by field.
LEMMA AnswerFields ==
  ASSUME NEW op, NEW err, NEW id, NEW ticket, NEW now
  PROVE  LET r == Answer(op, err, id, ticket, now)
         IN r.op = op /\ r.err = err /\ r.id = id /\ r.ticket = ticket /\ r.now = now
BY DEF Answer

\* A refusal for want of capacity leaves the leases that its cleanup kept, and
\* those are unexpired at its time.
LEMMA CapacityStep ==
  ASSUME StoreInv, CapacityRefusalIsReal, [Next]_vars
  PROVE  CapacityRefusalIsReal'
<1> USE NoneAssumption
<1>1. CASE UNCHANGED <<sessions, leases, reply>>
  BY <1>1 DEF CapacityRefusalIsReal, Active
<1>2. CASE reply'.op # "claim" \/ reply'.err # "Capacity"
  BY <1>2 DEF CapacityRefusalIsReal
<1>3. ASSUME NEW id \in Ids, NEW ticket \in Ids, NEW now \in 1..clock,
             ClaimAndReserve(id, ticket, now)
      PROVE  CapacityRefusalIsReal'
  <2> DEFINE S == CleanSessions(now)
             L == CleanLeases(now)
             full == Answer("claim", "Capacity", id, None, now)
  <2>1. /\ \A e \in {"NotFound", "FailedPrecondition", "InvalidTicket"} :
             Refusal("claim", e).err # "Capacity"
        /\ Answer("claim", "ok", id, None, 0).err # "Capacity"
    BY DEF Refusal, Answer
  <2>2. \/ reply'.err # "Capacity"
        \/ /\ reply' = full /\ leases' = L /\ sessions' = S
           /\ AtCapacity(L, Subject(S[id]))
    BY <1>3, <2>1 DEF ClaimAndReserve
  <2>3. CASE /\ reply' = full /\ leases' = L /\ sessions' = S
             /\ AtCapacity(L, Subject(S[id]))
    <3>1. reply'.id = id /\ reply'.now = now
      BY <2>3, AnswerFields
    <3>2. now \in Nat /\ \A i \in Ids : L[i] # None => L[i].expiresAt \in Nat
      BY CleanConsistent DEF StoreInv, Consistent, Lease
    <3>3. \A i \in Ids : L[i] # None => L[i].expiresAt > now
      BY <3>2 DEF CleanLeases, LeaseExpired
    <3> HIDE DEF L, S, full
    <3>4. {i \in Active(leases') : leases'[i].expiresAt > reply'.now} = Active(L)
      BY <2>3, <3>1, <3>3 DEF Active
    <3>5. {i \in Active(L) : leases'[i].subject = Subject(sessions'[reply'.id])}
            = ActiveOf(L, Subject(S[id]))
      BY <2>3, <3>1 DEF ActiveOf
    <3> QED BY <2>3, <3>4, <3>5 DEF CapacityRefusalIsReal, AtCapacity, Active
  <2> QED BY <1>2, <2>2, <2>3
<1>4. ASSUME NEW k \in Keys, NEW intent \in Intents, NEW id \in Ids,
             NEW now \in 1..clock, CreateOrGet(k, intent, id, now)
      PROVE  reply'.op # "claim"
  BY <1>4, AnswerFields DEF CreateOrGet, Refusal
<1>5. ASSUME NEW k \in Keys, NEW u \in Subjects, NEW console \in Consoles,
             NEW now \in 1..clock, Replay(k, u, console, now)
      PROVE  reply'.op # "claim"
  BY <1>5, AnswerFields DEF Replay, Refusal
<1>6. ASSUME NEW id \in Ids, NEW now \in 1..clock, CloseAndRelease(id, now)
      PROVE  reply'.op # "claim"
  BY <1>6, AnswerFields DEF CloseAndRelease
<1> QED BY <1>1, <1>2, <1>3, <1>4, <1>5, <1>6 DEF Next, Tick, vars, storeVars

\* ErrCapacity is answered only when unexpired leases fill a limit.
THEOREM CapacityRefusals == Spec => []CapacityRefusalIsReal
<1>1. Init => CapacityRefusalIsReal
  BY AnswerFields DEF Init, CapacityRefusalIsReal
<1>2. StoreInv /\ CapacityRefusalIsReal /\ [Next]_vars => CapacityRefusalIsReal'
  BY CapacityStep
<1> QED BY <1>1, <1>2, StoreInvariant, PTL DEF Spec

\* The ciphertext that session i stores, until it is cleared, is that of its own
\* ticket.
CipherIsTicket ==
  \A i \in Ids : sessions[i] # None => sessions[i].cipher \in {None, i}

\* cleanup keeps or clears the ciphertext.
LEMMA CleanCipher ==
  ASSUME StoreInv, CipherIsTicket, NEW now \in Nat, NEW i \in Ids,
         CleanSessions(now)[i] # None
  PROVE  CleanSessions(now)[i].cipher \in {None, i}
<1>1. CASE LeaseExpired(i, now)
  <2>1. sessions[i] \in Session
    BY <1>1, NoneAssumption DEF StoreInv, Consistent, LeaseExpired
  <2> QED BY <1>1, <2>1 DEF CleanSessions, MaxDurationReached, Session
<1>2. CASE ~LeaseExpired(i, now)
  BY <1>2 DEF CleanSessions, CipherIsTicket
<1> QED BY <1>1, <1>2

\* Each step stores a ciphertext of the session's own ticket or none, and hands
\* out only a ticket that opens the session it names.
LEMMA TicketStep ==
  ASSUME StoreInv, CipherIsTicket, IssuedTicketOpensSession, [Next]_vars
  PROVE  CipherIsTicket' /\ IssuedTicketOpensSession'
<1> USE NoneAssumption
<1>1. CASE UNCHANGED <<sessions, reply>>
  BY <1>1 DEF CipherIsTicket, IssuedTicketOpensSession, Usable
<1>2. ASSUME NEW id, \A i \in Ids \ {id} : sessions'[i] # None => sessions'[i].cipher \in {None, i},
             id \in Ids /\ sessions'[id] # None => sessions'[id].cipher \in {None, id}
      PROVE  CipherIsTicket'
  BY <1>2 DEF CipherIsTicket
<1>3. ASSUME \/ reply'.op \notin {"issue", "replay"}
             \/ reply'.err \notin {"ok", "replayed"}
             \/ \E i \in Ids, now \in Nat :
                  /\ reply'.id = i /\ reply'.ticket = i /\ reply'.now = now
                  /\ sessions'[i] # None /\ Usable(sessions'[i], now)
      PROVE  IssuedTicketOpensSession'
  BY <1>3 DEF IssuedTicketOpensSession, Usable
<1>4. ASSUME NEW k \in Keys, NEW intent \in Intents, NEW id \in Ids,
             NEW now \in 1..clock, CreateOrGet(k, intent, id, now)
      PROVE  CipherIsTicket' /\ IssuedTicketOpensSession'
  <2> DEFINE S == CleanSessions(now)
             K == CleanByKey(now)
             new == Candidate(id, k, intent, now)
  <2>1. /\ now \in Nat /\ S \in [Ids -> Session \cup {None}]
        /\ \A i \in Ids : S[i] # None => S[i].cipher \in {None, i}
        /\ K[k] # None => K[k] \in Ids /\ S[K[k]] # None
    BY CleanConsistent, CleanCipher DEF StoreInv, Consistent
  <2>2. /\ Refusal("issue", "Conflict").err = "Conflict"
        /\ Refusal("issue", "FailedPrecondition").err = "FailedPrecondition"
    BY AnswerFields DEF Refusal
  <2>3. CASE K[k] = None
    <3>1. sessions' = [S EXCEPT ![id] = new] /\ reply' = Answer("issue", "ok", id, id, now)
      BY <1>4, <2>3 DEF CreateOrGet
    <3>2. /\ new.cipher = id /\ new.state = "issued" /\ new.ticketExpiresAt = now + TicketTTL
          /\ new \in Session
      BY <2>1, CandidateFields
    <3>3. new # None
      BY <3>2
    <3> HIDE DEF S, K, new
    <3>4. sessions'[id] = new /\ \A i \in Ids \ {id} : sessions'[i] = S[i]
      BY <2>1, <3>1
    <3>5. CipherIsTicket'
      BY <1>2, <2>1, <3>2, <3>4
    <3>6. reply'.id = id /\ reply'.ticket = id /\ reply'.now = now
      BY <3>1, AnswerFields
    <3>7. Usable(sessions'[id], now)
      BY <2>1, <3>2, <3>4, LimitsAssumption DEF Usable
    <3> QED BY <1>3, <2>1, <3>3, <3>4, <3>5, <3>6, <3>7
  <2>4. CASE K[k] # None /\ sessions' = S /\ reply'.err \notin {"ok", "replayed"}
    BY <1>2, <1>3, <2>1, <2>4
  <2>5. CASE /\ K[k] # None /\ sessions' = [S EXCEPT ![K[k]] = TicketExpired(@, now)]
             /\ reply'.err \notin {"ok", "replayed"}
    <3>1. S[K[k]] \in Session
      BY <2>1, <2>5
    <3>2. TicketExpired(S[K[k]], now).cipher = None
      BY <2>1, <3>1, SessionUpdates
    <3> HIDE DEF S, K
    <3> QED BY <1>2, <1>3, <2>1, <2>5, <3>2
  <2>6. CASE /\ K[k] # None /\ sessions' = S /\ Usable(S[K[k]], now)
             /\ S[K[k]].cipher # None
             /\ reply' = Answer("issue", "replayed", K[k], S[K[k]].cipher, now)
    <3> HIDE DEF S, K
    <3>1. reply'.id = K[k] /\ reply'.ticket = K[k] /\ reply'.now = now
      BY <2>1, <2>6, AnswerFields
    <3> QED BY <1>2, <1>3, <2>1, <2>6, <3>1
  <2> QED BY <1>4, <2>2, <2>3, <2>4, <2>5, <2>6 DEF CreateOrGet
<1>5. ASSUME NEW k \in Keys, NEW u \in Subjects, NEW console \in Consoles,
             NEW now \in 1..clock, Replay(k, u, console, now)
      PROVE  CipherIsTicket' /\ IssuedTicketOpensSession'
  <2> DEFINE s == IF byKey[k] = None THEN None ELSE sessions[byKey[k]]
             verdict == ReplayVerdict(s, u, console, now)
  <2>1. CipherIsTicket' /\ sessions' = sessions
    BY <1>5 DEF Replay, storeVars, CipherIsTicket
  <2>2. CASE verdict # "replayed"
    <3>1. reply' = Refusal("replay", verdict) /\ verdict # "ok"
      BY <1>5, <2>2 DEF Replay, ReplayVerdict
    <3> HIDE DEF verdict
    <3>2. reply'.err = verdict
      BY <3>1, AnswerFields DEF Refusal
    <3> QED BY <1>3, <2>1, <2>2, <3>1, <3>2
  <2>3. CASE verdict = "replayed"
    <3>1. reply' = Answer("replay", "replayed", byKey[k], s.cipher, now)
      BY <1>5, <2>3 DEF Replay
    <3>2. s # None /\ Usable(s, now) /\ s.cipher # None
      BY <2>3 DEF ReplayVerdict
    <3>3. byKey[k] \in Ids /\ s = sessions[byKey[k]] /\ s.cipher = byKey[k] /\ now \in Nat
      BY <3>2 DEF StoreInv, Consistent, CipherIsTicket
    <3> HIDE DEF s, verdict
    <3>4. reply'.id = byKey[k] /\ reply'.ticket = byKey[k] /\ reply'.now = now
      BY <3>1, <3>3, AnswerFields
    <3> QED BY <1>3, <2>1, <3>2, <3>3, <3>4
  <2> QED BY <2>2, <2>3
<1>6. ASSUME NEW id \in Ids, NEW now \in 1..clock, NEW s,
             LET S == CleanSessions(now)
             IN /\ \/ sessions' = S
                   \/ /\ S[id] # None /\ sessions' = [S EXCEPT ![id] = s]
                      /\ S[id] \in Session => s.cipher = None
                /\ reply'.op \notin {"issue", "replay"}
      PROVE  CipherIsTicket' /\ IssuedTicketOpensSession'
  <2> DEFINE S == CleanSessions(now)
  <2>1. /\ now \in Nat /\ S \in [Ids -> Session \cup {None}]
        /\ \A i \in Ids : S[i] # None => S[i].cipher \in {None, i}
    BY CleanConsistent, CleanCipher DEF StoreInv, Consistent
  <2>2. /\ \/ sessions' = S
           \/ S[id] # None /\ sessions' = [S EXCEPT ![id] = s] /\ s.cipher = None
        /\ reply'.op \notin {"issue", "replay"}
    BY <1>6, <2>1
  <2> HIDE DEF S
  <2> QED BY <1>2, <1>3, <2>1, <2>2
<1>7. ASSUME NEW id \in Ids, NEW ticket \in Ids, NEW now \in 1..clock,
             ClaimAndReserve(id, ticket, now)
      PROVE  CipherIsTicket' /\ IssuedTicketOpensSession'
  <2> DEFINE S == CleanSessions(now)
  <2>1. reply'.op = "claim"
    BY <1>7, AnswerFields DEF ClaimAndReserve, Refusal
  <2>2. S[id] \in Session => /\ TicketExpired(S[id], now).cipher = None
                            /\ Claimed(S[id], now).cipher = None
    <3>1. now \in Nat
      BY DEF StoreInv
    <3> HIDE DEF S
    <3> QED BY <3>1, SessionUpdates
  <2>3. \/ sessions' = S
        \/ S[id] # None /\ sessions' = [S EXCEPT ![id] = TicketExpired(S[id], now)]
        \/ S[id] # None /\ sessions' = [S EXCEPT ![id] = Claimed(S[id], now)]
    BY <1>7 DEF ClaimAndReserve
  <2> HIDE DEF S
  <2> QED BY <1>6, <2>1, <2>2, <2>3 DEF S
<1>8. ASSUME NEW id \in Ids, NEW now \in 1..clock, CloseAndRelease(id, now)
      PROVE  CipherIsTicket' /\ IssuedTicketOpensSession'
  <2> DEFINE S == CleanSessions(now)
  <2>1. reply'.op = "close"
    BY <1>8, AnswerFields DEF CloseAndRelease
  <2>2. S[id] \in Session => Released(S[id], now).cipher = None
    BY SessionUpdates DEF StoreInv
  <2>3. \/ sessions' = S
        \/ S[id] # None /\ sessions' = [S EXCEPT ![id] = Released(S[id], now)]
    BY <1>8 DEF CloseAndRelease
  <2> HIDE DEF S
  <2> QED BY <1>6, <2>1, <2>2, <2>3 DEF S
<1> QED BY <1>1, <1>4, <1>5, <1>7, <1>8 DEF Next, Tick, vars, storeVars

\* A ticket that Issue or Replay hands out is that of the session it names, which
\* could be claimed when the answer was computed.
THEOREM TicketsOpenSessions == Spec => []IssuedTicketOpensSession
<1>1. Init => CipherIsTicket /\ IssuedTicketOpensSession
  BY AnswerFields DEF Init, CipherIsTicket, IssuedTicketOpensSession
<1>2. StoreInv /\ (CipherIsTicket /\ IssuedTicketOpensSession) /\ [Next]_vars
      => (CipherIsTicket /\ IssuedTicketOpensSession)'
  BY TicketStep
<1> QED BY <1>1, <1>2, StoreInvariant, PTL DEF Spec
=============================================================================
