-------------------------- MODULE RedisStoreProofs --------------------------
(***************************************************************************)
(* Proofs about RedisStore, for all sets of callers, sessions, keys and    *)
(* subjects, all durations and limits, any clock skew and any number of    *)
(* resends.                                                                *)
(***************************************************************************)
EXTENDS RedisStore, SessionModelProofs, FiniteSetTheorems, TLAPS

-----------------------------------------------------------------------------
(* Calls                                                                   *)

\* What a call has filled in by the time it reaches its pc, at time t with the
\* IDs in D drawn; its reading of the clock is not further ahead than the skew.
CallOK(m, t, D) ==
  /\ m.pc \notin {"idle", "get"} => m.id \in D
  /\ m.pc = "create" => m.key \in Keys /\ m.intent \in Intents
  /\ m.pc = "loadIssue" => m.intent \in Intents
  /\ m.pc = "get" => m.key \in Keys
  /\ m.pc \in {"claim", "loadClaim"} => m.key \in Keys
  /\ m.pc \in {"claim", "loadClaim", "close"} => m.subject \in Subjects
  /\ m.now <= t + ClockSkew

\* Nothing that has expired is stored, every stored or held session has a drawn
\* ID, and every call is well formed.
CallInv ==
  /\ TypeOK
  /\ \A i \in Ids : hash[i] # None => clock < hash[i].tombstoneExpiresAt
  /\ \A k \in Keys : idem[k] # None => clock < idem[k].expiresAt
  /\ \A i \in Ids : hash[i] # None \/ access[i] # 0 => i \in drawn
  /\ \A k \in Keys : idem[k] # None => idem[k].id \in drawn
  /\ \A c \in Callers : CallOK(caller[c], clock, drawn)

\* n is call m, sent once more.
Resent(n, m) ==
  /\ n.pc = m.pc /\ n.key = m.key /\ n.intent = m.intent /\ n.id = m.id
  /\ n.ticket = m.ticket /\ n.subject = m.subject /\ n.console = m.console
  /\ n.fresh = m.fresh /\ n.now = m.now /\ n.tries = m.tries + 1

\* n is call m at its next round trip, pc.
Advanced(n, m, pc) ==
  /\ n.pc = pc /\ n.key = m.key /\ n.intent = m.intent /\ n.id = m.id
  /\ n.ticket = m.ticket /\ n.subject = m.subject /\ n.console = m.console
  /\ n.now = m.now /\ n.tries = 0

\* The fields of a call in flight.
LEMMA CallFields ==
  ASSUME NEW m \in Call
  PROVE  /\ m.pc \in Pcs /\ m.key \in Keys \cup {None}
         /\ m.intent \in Intents \cup {None} /\ m.id \in Ids \cup {None}
         /\ m.ticket \in Ids \cup {None} /\ m.subject \in Subjects \cup {None}
         /\ m.console \in Consoles \cup {None} /\ m.fresh \in BOOLEAN
         /\ m.now \in Nat /\ m.tries \in 0..MaxRetries
BY DEF Call

\* A caller between two calls, and the reply that says nothing.
LEMMA IdleCall ==
  /\ Idle \in Call /\ Idle.pc = "idle" /\ Idle.now = 0 /\ Idle.tries = 0
  /\ Silent \in Reply /\ Silent.op = "none"
BY RetryAssumption DEF Idle, Call, Pcs, Silent, Reply, Errors

\* What Arrive does to the caller's call.
LEMMA ArriveEffect ==
  ASSUME caller \in [Callers -> Call], NEW c \in Callers, NEW next \in Call,
         NEW answer \in Reply, Arrive(c, next, answer)
  PROVE  /\ reply' \in Reply
         /\ \E n \in Call :
              /\ caller' = [caller EXCEPT ![c] = n]
              /\ \/ /\ Advanced(n, next, next.pc) /\ n.fresh = next.fresh
                    /\ reply' = answer
                 \/ Resent(n, caller[c]) /\ reply' = Silent
<1> DEFINE m == caller[c]
           a == [next EXCEPT !.tries = 0]
           b == [m EXCEPT !.tries = @ + 1]
<1>1. m \in Call
  OBVIOUS
<1>2. a \in Call /\ Advanced(a, next, next.pc) /\ a.fresh = next.fresh
  BY RetryAssumption DEF Call, Advanced
<1>3. m.tries < MaxRetries => b \in Call /\ Resent(b, m)
  <2>1. m.tries < MaxRetries => m.tries + 1 \in 0..MaxRetries
    BY <1>1, CallFields, RetryAssumption
  <2> QED BY <1>1, <2>1 DEF Call, Resent
<1>4. CASE caller' = [caller EXCEPT ![c] = a] /\ reply' = answer
  BY <1>2, <1>4
<1>5. CASE /\ m.tries < MaxRetries
           /\ caller' = [caller EXCEPT ![c].tries = @ + 1] /\ reply' = Silent
  <2>1. caller' = [caller EXCEPT ![c] = b]
    BY <1>5
  <2> HIDE DEF b
  <2> QED BY <1>3, <1>5, <2>1, IdleCall
<1> QED BY <1>4, <1>5 DEF Arrive
-----------------------------------------------------------------------------
(* Steps.  Each action moves one caller c to a call n; what it does to the *)
(* rest is restated here field by field, with the records expanded once.   *)

\* StartIssue
IssueStep(c, n) ==
  /\ caller[c].pc = "idle"
  /\ n.pc = "create" /\ n.key \in Keys /\ n.intent \in Intents
  /\ n.id \in Ids \ drawn /\ n.tries = 0
  /\ n.now <= clock + ClockSkew
  /\ drawn' = drawn \cup {n.id}
  /\ UNCHANGED <<clock, hash, idem, global, bySubject, access, grants>>

\* The actions that write nothing to Redis
ReadStep(c, n) ==
  LET m == caller[c]
  IN /\ UNCHANGED <<clock, hash, idem, global, bySubject, drawn, grants>>
     /\ n.now <= clock + ClockSkew
     /\ \/ n.pc = "idle" /\ UNCHANGED access
        \/ n.pc = "get" /\ n.key \in Keys /\ UNCHANGED access
        \/ /\ n.pc = "loadReplay" /\ UNCHANGED access
           /\ \E k \in Keys : idem[k] # None /\ n.id = idem[k].id
        \/ /\ n.pc = "identity" /\ n.id \in drawn /\ UNCHANGED access
           /\ n.now + ClockSkew >= clock
        \/ /\ m.pc = "identity" /\ n.pc = "claim" /\ n.id = m.id /\ n.now = m.now
           /\ hash[m.id] # None /\ UNCHANGED access
           /\ n.key = hash[m.id].key /\ n.subject = Subject(hash[m.id])
        \/ /\ m.pc = "loadClaim" /\ n.pc = "idle" /\ hash[m.id] # None
           /\ access' = [access EXCEPT ![m.id] = m.now + SessionMaxDuration]
        \/ /\ m.pc = "idle" /\ n.pc = "subject" /\ n.id \in Ids /\ access[n.id] # 0
           /\ access' = [access EXCEPT ![n.id] = 0]
        \/ /\ m.pc = "subject" /\ n.pc = "close" /\ n.id = m.id /\ n.now = m.now
           /\ hash[m.id] # None /\ UNCHANGED access
           /\ n.subject = Subject(hash[m.id])

\* The call is over, or the script is sent again.
Returns(n, m) == (n.pc = "idle" /\ n.now = 0) \/ Resent(n, m)

\* What a key or a session that is written with expiry t holds afterwards.
Kept(v, t) == IF clock >= t THEN None ELSE v

\* Session i, if its ticket was still out, is now known to have expired.
MayExpire(i, t) ==
  \/ hash' = hash
  \/ /\ hash[i] # None /\ hash[i].state = "issued"
     /\ hash' = [hash EXCEPT ![i] = TicketExpired(hash[i], t)]

\* CreateScript
CreateStep(c, n) ==
  LET m == caller[c]
      sid == idem[m.key].id
      tombstone == m.now + TicketTTL + IdempotencyTTL
  IN /\ m.pc = "create" /\ Deliverable(m)
     /\ UNCHANGED <<clock, global, bySubject, drawn, access, grants>>
     /\ \/ /\ idem[m.key] = None
           /\ hash' = [hash EXCEPT ![m.id] =
                         Kept(Candidate(m.id, m.key, m.intent, m.now), tombstone)]
           /\ idem' = [idem EXCEPT ![m.key] =
                         Kept([id |-> m.id, expiresAt |-> tombstone], tombstone)]
           /\ Advanced(n, m, "loadIssue") \/ Resent(n, m)
        \/ /\ idem[m.key] # None
           /\ MayExpire(sid, m.now)
           /\ UNCHANGED idem
           /\ Returns(n, m)
        \/ /\ idem[m.key] # None /\ hash[sid] # None
           /\ hash[sid].intent = m.intent
           /\ UNCHANGED <<hash, idem>>
           /\ \/ n.pc = "loadIssue" /\ n.id = sid /\ n.intent = m.intent /\ n.now = m.now
              \/ Resent(n, m)

\* ClaimScript
ClaimStep(c, n) ==
  LET m == caller[c]
      G == ZRemRangeByScore(global, m.now)
      U == ZRemRangeByScore(bySubject[m.subject], m.now)
      expires == m.now + SessionMaxDuration
      tombstone == expires + IdempotencyTTL
  IN /\ m.pc = "claim" /\ Deliverable(m)
     /\ UNCHANGED <<clock, drawn, access>>
     /\ \/ /\ UNCHANGED <<hash, idem, global, bySubject, grants>>
           /\ Returns(n, m)
        \/ /\ MayExpire(m.id, m.now)
           /\ global' = G
           /\ bySubject' = [bySubject EXCEPT ![m.subject] = U]
           /\ UNCHANGED <<idem, grants>>
           /\ Returns(n, m)
        \/ /\ hash[m.id] # None /\ hash[m.id].state = "issued"
           /\ ~AtCapacity(G, U)
           /\ hash' = [hash EXCEPT ![m.id] = Kept(Claimed(hash[m.id], m.now), tombstone)]
           /\ idem' = IF idem[m.key] = None THEN idem
                      ELSE [idem EXCEPT ![m.key] =
                              Kept([id |-> idem[m.key].id, expiresAt |-> tombstone],
                                   tombstone)]
           /\ global' = ZAdd(G, m.id, expires)
           /\ bySubject' = [bySubject EXCEPT ![m.subject] = ZAdd(U, m.id, expires)]
           /\ grants' = [grants EXCEPT ![m.id] = grants[m.id] + 1]
           /\ Advanced(n, m, "loadClaim") \/ Resent(n, m)

\* CloseScript
CloseStep(c, n) ==
  LET m == caller[c]
  IN /\ m.pc = "close" /\ Deliverable(m)
     /\ Returns(n, m)
     /\ UNCHANGED <<clock, idem, drawn, access, grants>>
     /\ \/ UNCHANGED <<hash, global, bySubject>>
        \/ /\ hash[m.id] # None /\ hash[m.id].state = "claimed"
           /\ hash' = [hash EXCEPT ![m.id] = Released(hash[m.id], m.now)]
           /\ global' = [global EXCEPT ![m.id] = 0]
           /\ bySubject' = [bySubject EXCEPT ![m.subject] =
                              [bySubject[m.subject] EXCEPT ![m.id] = 0]]

Steps ==
  \/ \E c \in Callers, n \in Call :
       /\ caller' = [caller EXCEPT ![c] = n]
       /\ \/ IssueStep(c, n) \/ ReadStep(c, n) \/ CreateStep(c, n)
          \/ ClaimStep(c, n) \/ CloseStep(c, n)
  \/ \E i \in Ids : HolderDies(i)
  \/ Tick

\* A reading of the clock is a natural number within the skew.
LEMMA ReadingsType ==
  ASSUME clock \in Nat, NEW now \in Readings
  PROVE  /\ now \in Nat /\ now > 0
         /\ now <= clock + ClockSkew /\ now + ClockSkew >= clock
BY RetryAssumption DEF Readings

\* A call that begins leaves Redis alone.
LEMMA BeginEffect ==
  ASSUME NEW c \in Callers, NEW call \in Call, NEW now \in Nat, Begin(c, call, now)
  PROVE  /\ caller[c].pc = "idle"
         /\ UNCHANGED <<clock, hash, idem, global, bySubject, grants>>
         /\ reply' = Silent
         /\ \E n \in Call :
              /\ caller' = [caller EXCEPT ![c] = n]
              /\ n.pc = call.pc /\ n.key = call.key /\ n.intent = call.intent
              /\ n.id = call.id /\ n.ticket = call.ticket
              /\ n.subject = call.subject /\ n.console = call.console
              /\ n.tries = call.tries /\ n.now = now
<1> DEFINE n == [call EXCEPT !.now = now]
<1>1. /\ n \in Call
      /\ n.pc = call.pc /\ n.key = call.key /\ n.intent = call.intent
      /\ n.id = call.id /\ n.ticket = call.ticket
      /\ n.subject = call.subject /\ n.console = call.console
      /\ n.tries = call.tries /\ n.now = now
  BY DEF Call
<1>2. /\ caller[c].pc = "idle" /\ reply' = Silent
      /\ UNCHANGED <<clock, hash, idem, global, bySubject, grants>>
      /\ caller' = [caller EXCEPT ![c] = n]
  BY DEF Begin, redis
<1> HIDE DEF n
<1> QED BY <1>1, <1>2

\* What the start of Manager.Issue does: the caller draws a new ID and sends the
\* create script.
LEMMA StartIssueEffect ==
  ASSUME CallInv, NEW c \in Callers, NEW k \in Keys, NEW intent \in Intents,
         NEW id \in Ids, NEW now \in Readings, StartIssue(c, k, intent, id, now)
  PROVE  /\ reply' = Silent
         /\ \E n \in Call : caller' = [caller EXCEPT ![c] = n] /\ IssueStep(c, n)
<1> DEFINE call == [Idle EXCEPT !.pc = "create", !.key = k, !.intent = intent, !.id = id]
<1>1. /\ call \in Call /\ call.pc = "create" /\ call.key = k
      /\ call.intent = intent /\ call.id = id /\ call.tries = 0
  BY IdleCall DEF Call, Pcs
<1>2. Begin(c, call, now) /\ id \notin drawn /\ drawn' = drawn \cup {id} /\ access' = access
  BY DEF StartIssue
<1>3. now \in Nat /\ now <= clock + ClockSkew
  BY ReadingsType DEF CallInv, TypeOK
<1> HIDE DEF call
<1>4. PICK n \in Call :
        /\ caller' = [caller EXCEPT ![c] = n]
        /\ n.pc = "create" /\ n.key = k /\ n.intent = intent
        /\ n.id = id /\ n.tries = 0 /\ n.now = now
  BY <1>1, <1>2, <1>3, BeginEffect
<1>5. /\ caller[c].pc = "idle" /\ reply' = Silent
      /\ UNCHANGED <<clock, hash, idem, global, bySubject, grants>>
  BY <1>1, <1>2, <1>3, BeginEffect
<1>6. IssueStep(c, n)
  BY <1>2, <1>3, <1>4, <1>5 DEF IssueStep
<1> QED BY <1>4, <1>5, <1>6

\* A call that ends without writing.
LEMMA FinishEffect ==
  ASSUME CallInv, NEW c \in Callers, NEW answer, Finish(c, answer),
         UNCHANGED <<clock, redis, drawn, access, grants>>
  PROVE  \E n \in Call : caller' = [caller EXCEPT ![c] = n] /\ ReadStep(c, n)
<1>1. ReadStep(c, Idle)
  BY IdleCall, RetryAssumption DEF ReadStep, redis, CallInv, TypeOK
<1> QED BY <1>1, IdleCall DEF Finish

\* A call that goes on to its next round trip without writing.
LEMMA CallUpdate ==
  ASSUME NEW m \in Call, NEW pc \in Pcs, NEW k \in Keys \cup {None},
         NEW id \in Ids \cup {None}, NEW u \in Subjects \cup {None}
  PROVE  LET n == [m EXCEPT !.pc = pc, !.key = k, !.id = id, !.subject = u]
         IN /\ n \in Call /\ n.pc = pc /\ n.key = k /\ n.id = id /\ n.subject = u
            /\ n.now = m.now
BY DEF Call

\* The actions that write nothing to Redis are ReadSteps.
LEMMA ReadEffects ==
  ASSUME CallInv, NEW c \in Callers,
         \/ LoadIssue(c)
         \/ \E k \in Keys, u \in Subjects, console \in Consoles :
               StartReplay(c, k, u, console)
         \/ Get(c)
         \/ \E now \in Readings : LoadReplay(c, now)
         \/ \E id \in drawn, ticket \in Ids, now \in Readings :
               StartClaim(c, id, ticket, now)
         \/ ReadIdentity(c)
         \/ LoadClaim(c)
         \/ \E id \in Ids, now \in Readings : StartClose(c, id, now)
         \/ ReadSubject(c)
         \/ Fail(c)
  PROVE  \E n \in Call : caller' = [caller EXCEPT ![c] = n] /\ ReadStep(c, n)
<1> DEFINE m == caller[c]
           Goal == \E n \in Call : caller' = [caller EXCEPT ![c] = n] /\ ReadStep(c, n)
<1>1. /\ m \in Call /\ clock \in Nat /\ drawn \subseteq Ids
      /\ CallOK(m, clock, drawn) /\ m.now \in Nat
  BY CallFields DEF CallInv, TypeOK
<1>2. ASSUME LoadIssue(c) \/ Fail(c) \/ \E now \in Readings : LoadReplay(c, now)
      PROVE  Goal
  BY <1>2, FinishEffect DEF LoadIssue, Fail, LoadReplay
<1>3. ASSUME NEW k \in Keys, NEW u \in Subjects, NEW console \in Consoles,
             StartReplay(c, k, u, console)
      PROVE  Goal
  <2> DEFINE call == [Idle EXCEPT !.pc = "get", !.key = k, !.subject = u,
                                  !.console = console]
  <2>1. call \in Call /\ call.pc = "get" /\ call.key = k
    BY IdleCall DEF Call, Pcs
  <2>2. Begin(c, call, 0) /\ UNCHANGED <<drawn, access>>
    BY <1>3 DEF StartReplay
  <2> HIDE DEF call
  <2>3. UNCHANGED <<clock, hash, idem, global, bySubject, drawn, access, grants>>
    BY <2>1, <2>2, BeginEffect
  <2>4. PICK n \in Call : /\ caller' = [caller EXCEPT ![c] = n]
                          /\ n.pc = "get" /\ n.key = k /\ n.now = 0
    BY <2>1, <2>2, BeginEffect
  <2>5. ReadStep(c, n)
    BY <1>1, <2>3, <2>4, RetryAssumption DEF ReadStep
  <2> QED BY <2>4, <2>5
<1>4. ASSUME Get(c)
      PROVE  Goal
  <2>1. m.pc = "get" /\ m.key \in Keys
    BY <1>1, <1>4 DEF Get, CallOK
  <2>2. CASE idem[m.key] = None
    BY <1>4, <2>2, FinishEffect DEF Get
  <2>3. CASE idem[m.key] # None
    <3> DEFINE n == [m EXCEPT !.pc = "loadReplay", !.id = idem[m.key].id]
    <3>1. idem[m.key].id \in Ids
      BY <2>1, <2>3 DEF CallInv, TypeOK, Entry
    <3>2. n \in Call /\ n.pc = "loadReplay" /\ n.id = idem[m.key].id /\ n.now = m.now
      BY <1>1, <3>1 DEF Call, Pcs
    <3>3. /\ caller' = [caller EXCEPT ![c] = n]
          /\ UNCHANGED <<clock, hash, idem, global, bySubject, drawn, access, grants>>
      BY <1>4, <2>3 DEF Get, redis
    <3> HIDE DEF n
    <3>4. ReadStep(c, n)
      BY <1>1, <2>1, <2>3, <3>2, <3>3 DEF ReadStep, CallOK
    <3> QED BY <3>2, <3>3, <3>4
  <2> QED BY <2>2, <2>3
<1>5. ASSUME NEW id \in drawn, NEW ticket \in Ids, NEW now \in Readings,
             StartClaim(c, id, ticket, now)
      PROVE  Goal
  <2> DEFINE call == [Idle EXCEPT !.pc = "identity", !.id = id, !.ticket = ticket]
  <2>1. call \in Call /\ call.pc = "identity" /\ call.id = id
    BY <1>1, IdleCall DEF Call, Pcs
  <2>2. Begin(c, call, now) /\ UNCHANGED <<drawn, access>>
    BY <1>5 DEF StartClaim
  <2>3. now \in Nat /\ now <= clock + ClockSkew /\ now + ClockSkew >= clock
    BY <1>1, ReadingsType
  <2> HIDE DEF call
  <2>4. UNCHANGED <<clock, hash, idem, global, bySubject, drawn, access, grants>>
    BY <2>1, <2>2, <2>3, BeginEffect
  <2>5. PICK n \in Call : /\ caller' = [caller EXCEPT ![c] = n]
                          /\ n.pc = "identity" /\ n.id = id /\ n.now = now
    BY <2>1, <2>2, <2>3, BeginEffect
  <2>6. ReadStep(c, n)
    BY <2>3, <2>4, <2>5 DEF ReadStep
  <2> QED BY <2>5, <2>6
<1>6. ASSUME ReadIdentity(c)
      PROVE  Goal
  <2>1. m.pc = "identity" /\ m.id \in Ids
    BY <1>1, <1>6 DEF ReadIdentity, CallOK
  <2>2. CASE hash[m.id] = None
    BY <1>6, <2>2, FinishEffect DEF ReadIdentity
  <2>3. CASE hash[m.id] # None
    <3> DEFINE s == hash[m.id]
               n == [m EXCEPT !.pc = "claim", !.key = s.key, !.subject = Subject(s)]
    <3>1. s.key \in Keys /\ Subject(s) \in Subjects
      BY <2>1, <2>3, SessionFields DEF CallInv, TypeOK
    <3>2. /\ n \in Call /\ n.pc = "claim" /\ n.id = m.id /\ n.now = m.now
          /\ n.key = s.key /\ n.subject = Subject(s)
      BY <1>1, <3>1 DEF Call, Pcs
    <3>3. /\ caller' = [caller EXCEPT ![c] = n]
          /\ UNCHANGED <<clock, hash, idem, global, bySubject, drawn, access, grants>>
      BY <1>6, <2>3 DEF ReadIdentity, redis
    <3> HIDE DEF n
    <3>4. ReadStep(c, n)
      BY <1>1, <2>1, <2>3, <3>2, <3>3 DEF ReadStep, CallOK
    <3> QED BY <3>2, <3>3, <3>4
  <2> QED BY <2>2, <2>3
<1>7. ASSUME LoadClaim(c)
      PROVE  Goal
  <2>1. CASE hash[m.id] = None
    BY <1>7, <2>1, FinishEffect DEF LoadClaim
  <2>2. CASE hash[m.id] # None
    <3>1. ReadStep(c, Idle) /\ caller' = [caller EXCEPT ![c] = Idle]
      BY <1>1, <1>7, <2>2, IdleCall, RetryAssumption DEF LoadClaim, ReadStep, Finish, redis
    <3> QED BY <3>1, IdleCall
  <2> QED BY <2>1, <2>2
<1>8. ASSUME NEW id \in Ids, NEW now \in Readings, StartClose(c, id, now)
      PROVE  Goal
  <2> DEFINE call == [Idle EXCEPT !.pc = "subject", !.id = id]
  <2>1. call \in Call /\ call.pc = "subject" /\ call.id = id
    BY IdleCall DEF Call, Pcs
  <2>2. /\ Begin(c, call, now) /\ UNCHANGED drawn /\ access[id] # 0
        /\ access' = [access EXCEPT ![id] = 0]
    BY <1>8 DEF StartClose
  <2>3. now \in Nat /\ now <= clock + ClockSkew
    BY <1>1, ReadingsType
  <2> HIDE DEF call
  <2>4. /\ caller[c].pc = "idle"
        /\ UNCHANGED <<clock, hash, idem, global, bySubject, drawn, grants>>
    BY <2>1, <2>2, <2>3, BeginEffect
  <2>5. PICK n \in Call : /\ caller' = [caller EXCEPT ![c] = n]
                          /\ n.pc = "subject" /\ n.id = id /\ n.now = now
    BY <2>1, <2>2, <2>3, BeginEffect
  <2>6. ReadStep(c, n)
    BY <2>2, <2>3, <2>4, <2>5 DEF ReadStep
  <2> QED BY <2>5, <2>6
<1>9. ASSUME ReadSubject(c)
      PROVE  Goal
  <2>1. m.pc = "subject" /\ m.id \in Ids
    BY <1>1, <1>9 DEF ReadSubject, CallOK
  <2>2. CASE hash[m.id] = None
    BY <1>9, <2>2, FinishEffect DEF ReadSubject
  <2>3. CASE hash[m.id] # None
    <3> DEFINE s == hash[m.id]
               n == [m EXCEPT !.pc = "close", !.subject = Subject(s)]
    <3>1. Subject(s) \in Subjects
      BY <2>1, <2>3, SessionFields DEF CallInv, TypeOK
    <3>2. /\ n \in Call /\ n.pc = "close" /\ n.id = m.id /\ n.now = m.now
          /\ n.subject = Subject(s)
      BY <1>1, <3>1 DEF Call, Pcs
    <3>3. /\ caller' = [caller EXCEPT ![c] = n]
          /\ UNCHANGED <<clock, hash, idem, global, bySubject, drawn, access, grants>>
      BY <1>9, <2>3 DEF ReadSubject, redis
    <3> HIDE DEF n
    <3>4. ReadStep(c, n)
      BY <1>1, <2>1, <2>3, <3>2, <3>3 DEF ReadStep, CallOK
    <3> QED BY <3>2, <3>3, <3>4
  <2> QED BY <2>2, <2>3
<1> QED BY <1>2, <1>3, <1>4, <1>5, <1>6, <1>7, <1>8, <1>9

\* Writing one session or one key when nothing stored has expired expires at
\* most what was written.
LEMMA WriteExpires ==
  ASSUME CallInv
  PROVE  /\ \A i \in Ids, s \in Session :
              UnexpiredHashes([hash EXCEPT ![i] = s], clock)
                = [hash EXCEPT ![i] = Kept(s, s.tombstoneExpiresAt)]
         /\ \A k \in Keys, e \in Entry :
              UnexpiredKeys([idem EXCEPT ![k] = e], clock)
                = [idem EXCEPT ![k] = Kept(e, e.expiresAt)]
<1>1. ASSUME NEW i \in Ids, NEW s \in Session
      PROVE  UnexpiredHashes([hash EXCEPT ![i] = s], clock)
               = [hash EXCEPT ![i] = Kept(s, s.tombstoneExpiresAt)]
  <2>1. s # None
    BY SessionFields
  <2>2. ASSUME NEW j \in Ids, hash[j] # None
        PROVE  ~(clock >= hash[j].tombstoneExpiresAt)
    <3>1. hash[j].tombstoneExpiresAt \in Nat
      BY <2>2, SessionFields DEF CallInv, TypeOK
    <3> QED BY <2>2, <3>1 DEF CallInv, TypeOK
  <2> QED BY <2>1, <2>2 DEF UnexpiredHashes, Kept, CallInv, TypeOK
<1>2. ASSUME NEW k \in Keys, NEW e \in Entry
      PROVE  UnexpiredKeys([idem EXCEPT ![k] = e], clock)
               = [idem EXCEPT ![k] = Kept(e, e.expiresAt)]
  <2>1. e # None
    BY EntryAssumption
  <2>2. ASSUME NEW j \in Keys, idem[j] # None
        PROVE  ~(clock >= idem[j].expiresAt)
    <3>1. idem[j].expiresAt \in Nat
      BY <2>2 DEF CallInv, TypeOK, Entry
    <3> QED BY <2>2, <3>1 DEF CallInv, TypeOK
  <2> QED BY <2>1, <2>2 DEF UnexpiredKeys, Kept, CallInv, TypeOK
<1> QED BY <1>1, <1>2

\* The create script.
LEMMA CreateEffect ==
  ASSUME CallInv, NEW c \in Callers, CreateScript(c)
  PROVE  /\ reply' = Silent
         /\ \E n \in Call : caller' = [caller EXCEPT ![c] = n] /\ CreateStep(c, n)
<1> DEFINE m == caller[c]
           sid == IF idem[m.key] = None THEN None ELSE idem[m.key].id
           s == IF sid = None THEN None ELSE hash[sid]
           new == Candidate(m.id, m.key, m.intent, m.now)
           entry == [id |-> m.id, expiresAt |-> new.tombstoneExpiresAt]
<1>1. /\ m \in Call /\ m.pc = "create" /\ m.key \in Keys /\ m.intent \in Intents
      /\ m.id \in Ids /\ m.now \in Nat /\ Deliverable(m)
      /\ caller \in [Callers -> Call]
      /\ UNCHANGED <<clock, global, bySubject, drawn, access, grants>>
  BY CallFields DEF CreateScript, CallInv, TypeOK, CallOK
<1>2. idem[m.key] # None => sid = idem[m.key].id /\ sid \in Ids /\ sid # None
  BY <1>1, NoneAssumption DEF CallInv, TypeOK, Entry
<1>3. /\ new \in Session
      /\ new.tombstoneExpiresAt = m.now + TicketTTL + IdempotencyTTL
      /\ entry \in Entry /\ entry.expiresAt = new.tombstoneExpiresAt
  <2>1. /\ new \in Session
        /\ new.tombstoneExpiresAt = m.now + TicketTTL + IdempotencyTTL
    BY <1>1, CandidateFields
  <2>2. new.tombstoneExpiresAt \in Nat
    BY <2>1, SessionFields
  <2> QED BY <1>1, <2>1, <2>2 DEF Entry
<1>4. CASE /\ sid = None
           /\ hash' = UnexpiredHashes([hash EXCEPT ![m.id] = new], clock)
           /\ idem' = UnexpiredKeys([idem EXCEPT ![m.key] = entry], clock)
           /\ Arrive(c, [m EXCEPT !.pc = "loadIssue", !.fresh = TRUE], Silent)
  <2> DEFINE next == [m EXCEPT !.pc = "loadIssue", !.fresh = TRUE]
  <2>1. next \in Call /\ Advanced([next EXCEPT !.tries = 0], m, "loadIssue")
    BY <1>1, RetryAssumption DEF Call, Pcs, Advanced
  <2>2. \A n : Advanced(n, next, next.pc) => Advanced(n, m, "loadIssue")
    BY <1>1 DEF Call, Advanced
  <2> HIDE DEF next
  <2>3. PICK n \in Call : /\ caller' = [caller EXCEPT ![c] = n]
                          /\ Advanced(n, m, "loadIssue") \/ Resent(n, m)
                          /\ reply' = Silent
    BY <1>1, <1>4, <2>1, <2>2, IdleCall, ArriveEffect DEF next
  <2>4. hash' = [hash EXCEPT ![m.id] = Kept(new, new.tombstoneExpiresAt)]
    BY <1>1, <1>3, <1>4, WriteExpires
  <2>5. idem' = [idem EXCEPT ![m.key] = Kept(entry, entry.expiresAt)]
    BY <1>1, <1>3, <1>4, WriteExpires
  <2>6. CreateStep(c, n)
    BY <1>1, <1>2, <1>3, <1>4, <2>3, <2>4, <2>5 DEF CreateStep
  <2> QED BY <2>3, <2>6
<1>5. CASE /\ sid # None
           /\ hash' = IF s # None /\ s.state = "issued"
                      THEN [hash EXCEPT ![sid] = TicketExpired(@, m.now)]
                      ELSE hash
           /\ idem' = idem
           /\ Arrive(c, Idle, Silent)
  <2>1. PICK n \in Call : /\ caller' = [caller EXCEPT ![c] = n]
                          /\ Returns(n, m) /\ reply' = Silent
    BY <1>1, <1>5, IdleCall, ArriveEffect DEF Returns, Advanced
  <2>2. MayExpire(sid, m.now)
    BY <1>5 DEF MayExpire
  <2>3. CreateStep(c, n)
    BY <1>1, <1>2, <1>5, <2>1, <2>2 DEF CreateStep
  <2> QED BY <2>1, <2>3
<1>6. CASE /\ sid # None /\ s # None
           /\ hash' = hash /\ idem' = idem
           /\ Arrive(c, Idle, Silent)
  <2>1. PICK n \in Call : /\ caller' = [caller EXCEPT ![c] = n]
                          /\ Returns(n, m) /\ reply' = Silent
    BY <1>1, <1>6, IdleCall, ArriveEffect DEF Returns, Advanced
  <2>2. CreateStep(c, n)
    BY <1>1, <1>2, <1>6, <2>1 DEF CreateStep, MayExpire
  <2> QED BY <2>1, <2>2
<1>7. CASE /\ sid # None /\ s # None /\ s.intent = m.intent
           /\ hash' = hash /\ idem' = idem
           /\ Arrive(c, [m EXCEPT !.pc = "loadIssue", !.id = sid], Silent)
  <2> DEFINE next == [m EXCEPT !.pc = "loadIssue", !.id = sid]
  <2>0. idem[m.key] # None /\ sid \in Ids
    BY <1>2, <1>7
  <2>1. /\ next \in Call /\ next.pc = "loadIssue" /\ next.id = sid
        /\ next.intent = m.intent /\ next.now = m.now
    BY <1>1, <2>0 DEF Call, Pcs
  <2>5. Arrive(c, next, Silent)
    BY <1>7
  <2> HIDE DEF next, sid, s
  <2>2. PICK n \in Call : /\ caller' = [caller EXCEPT ![c] = n]
                          /\ Advanced(n, next, next.pc) \/ Resent(n, m)
                          /\ reply' = Silent
    BY <1>1, <2>1, <2>5, IdleCall, ArriveEffect
  <2>3. \/ n.pc = "loadIssue" /\ n.id = sid /\ n.intent = m.intent /\ n.now = m.now
        \/ Resent(n, m)
    BY <2>1, <2>2 DEF Advanced
  <2>4. CreateStep(c, n)
    BY <1>1, <1>2, <1>7, <2>0, <2>2, <2>3 DEF CreateStep, sid, s
  <2> QED BY <2>2, <2>4
<1> HIDE DEF new, entry
<1> QED BY <1>4, <1>5, <1>6, <1>7 DEF CreateScript, new, entry

\* The claim script.
LEMMA ClaimEffect ==
  ASSUME CallInv, NEW c \in Callers, ClaimScript(c)
  PROVE  /\ reply' \in Reply
         /\ reply'.op \in {"none", "claim"}
         /\ \E n \in Call : caller' = [caller EXCEPT ![c] = n] /\ ClaimStep(c, n)
<1> DEFINE m == caller[c]
           s == hash[m.id]
           G == ZRemRangeByScore(global, m.now)
           U == ZRemRangeByScore(bySubject[m.subject], m.now)
           expires == m.now + SessionMaxDuration
           Goal == /\ reply' \in Reply /\ reply'.op \in {"none", "claim"}
                   /\ \E n \in Call : /\ caller' = [caller EXCEPT ![c] = n]
                                      /\ ClaimStep(c, n)
<1>1. /\ m \in Call /\ m.pc = "claim" /\ m.key \in Keys /\ m.subject \in Subjects
      /\ m.id \in Ids /\ m.now \in Nat /\ Deliverable(m)
      /\ caller \in [Callers -> Call]
      /\ UNCHANGED <<clock, drawn, access>>
  BY CallFields DEF ClaimScript, CallInv, TypeOK, CallOK
<1>2. ASSUME NEW answer \in Reply, answer.op \in {"none", "claim"}, Arrive(c, Idle, answer)
      PROVE  /\ reply' \in Reply /\ reply'.op \in {"none", "claim"}
             /\ \E n \in Call : caller' = [caller EXCEPT ![c] = n] /\ Returns(n, m)
  BY <1>1, <1>2, IdleCall, ArriveEffect DEF Returns, Advanced
<1>3. CASE /\ s = None
           /\ UNCHANGED <<redis, grants>>
           /\ Arrive(c, Idle, Silent)
  BY <1>1, <1>2, <1>3, IdleCall DEF ClaimStep, redis
<1>4. ASSUME NEW answer \in Reply, answer.op \in {"none", "claim"},
             MayExpire(m.id, m.now),
             global' = G, bySubject' = [bySubject EXCEPT ![m.subject] = U],
             UNCHANGED <<idem, grants>>,
             Arrive(c, Idle, answer)
      PROVE  Goal
  BY <1>1, <1>2, <1>4 DEF ClaimStep
<1>5. CASE /\ s # None
           /\ hash' = IF s.state = "issued"
                      THEN [hash EXCEPT ![m.id] = TicketExpired(@, m.now)]
                      ELSE hash
           /\ global' = G /\ bySubject' = [bySubject EXCEPT ![m.subject] = U]
           /\ UNCHANGED <<idem, grants>>
           /\ Arrive(c, Idle, Silent)
  <2>1. MayExpire(m.id, m.now)
    BY <1>5 DEF MayExpire
  <2> HIDE DEF G, U
  <2> QED BY <1>4, <1>5, <2>1, IdleCall
<1>6. CASE /\ hash' = hash
           /\ global' = G /\ bySubject' = [bySubject EXCEPT ![m.subject] = U]
           /\ UNCHANGED <<idem, grants>>
           /\ Arrive(c, Idle, Silent)
  <2> HIDE DEF G, U
  <2> QED BY <1>4, <1>6, IdleCall DEF MayExpire
<1>7. CASE /\ s # None
           /\ hash' = hash
           /\ global' = G /\ bySubject' = [bySubject EXCEPT ![m.subject] = U]
           /\ UNCHANGED <<idem, grants>>
           /\ Arrive(c, Idle, [op |-> "claim", err |-> "Capacity", id |-> m.id,
                               ticket |-> None, intent |-> s.intent, now |-> m.now])
  <2> DEFINE answer == [op |-> "claim", err |-> "Capacity", id |-> m.id,
                        ticket |-> None, intent |-> s.intent, now |-> m.now]
  <2>1. s.intent \in Intents
    BY <1>1, <1>7, SessionFields DEF CallInv, TypeOK
  <2>2. answer \in Reply /\ answer.op = "claim"
    BY <1>1, <2>1 DEF Reply, Errors
  <2> HIDE DEF G, U, answer
  <2> QED BY <1>4, <1>7, <2>2 DEF MayExpire, answer
<1>8. CASE /\ s # None /\ Usable(s, m.now)
           /\ ~AtCapacity(G, U)
           /\ hash' = UnexpiredHashes([hash EXCEPT ![m.id] = Claimed(@, m.now)], clock)
           /\ idem' = IF idem[m.key] = None THEN idem
                      ELSE UnexpiredKeys([idem EXCEPT ![m.key].expiresAt =
                                            expires + IdempotencyTTL], clock)
           /\ global' = ZAdd(G, m.id, expires)
           /\ bySubject' = [bySubject EXCEPT ![m.subject] = ZAdd(U, m.id, expires)]
           /\ grants' = [grants EXCEPT ![m.id] = @ + 1]
           /\ Arrive(c, [m EXCEPT !.pc = "loadClaim"], Silent)
  <2> DEFINE next == [m EXCEPT !.pc = "loadClaim"]
             new == Claimed(s, m.now)
             entry == [id |-> idem[m.key].id, expiresAt |-> expires + IdempotencyTTL]
  <2>1. next \in Call /\ \A n : Advanced(n, next, next.pc) => Advanced(n, m, "loadClaim")
    BY <1>1 DEF Call, Pcs, Advanced
  <2>2. Arrive(c, next, Silent)
    BY <1>8
  <2>3. new \in Session /\ new.tombstoneExpiresAt = expires + IdempotencyTTL
    <3>1. s \in Session
      BY <1>1, <1>8 DEF CallInv, TypeOK
    <3> HIDE DEF s
    <3> QED BY <1>1, <3>1, SessionUpdates
  <2>4. hash' = [hash EXCEPT ![m.id] = Kept(new, expires + IdempotencyTTL)]
    <3>1. hash' = UnexpiredHashes([hash EXCEPT ![m.id] = new], clock)
      BY <1>8
    <3> HIDE DEF new
    <3>2. UnexpiredHashes([hash EXCEPT ![m.id] = new], clock)
            = [hash EXCEPT ![m.id] = Kept(new, new.tombstoneExpiresAt)]
      BY <1>1, <2>3, WriteExpires
    <3> HIDE DEF expires
    <3> QED BY <2>3, <3>1, <3>2
  <2>5. ASSUME idem[m.key] # None
        PROVE  idem' = [idem EXCEPT ![m.key] = Kept(entry, expires + IdempotencyTTL)]
    <3>1. idem[m.key] \in Entry /\ expires + IdempotencyTTL \in Nat
      BY <1>1, <2>5, LimitsAssumption DEF CallInv, TypeOK
    <3>2. entry \in Entry /\ [idem[m.key] EXCEPT !.expiresAt = expires + IdempotencyTTL] = entry
      BY <3>1 DEF Entry
    <3>3. entry.expiresAt = expires + IdempotencyTTL
      OBVIOUS
    <3>4. idem' = UnexpiredKeys([idem EXCEPT ![m.key] = entry], clock)
      BY <1>8, <2>5, <3>2
    <3> HIDE DEF entry
    <3>5. UnexpiredKeys([idem EXCEPT ![m.key] = entry], clock)
            = [idem EXCEPT ![m.key] = Kept(entry, entry.expiresAt)]
      BY <1>1, <3>2, WriteExpires
    <3> HIDE DEF expires
    <3> QED BY <3>3, <3>4, <3>5
  <2>6. s.state = "issued"
    BY <1>8 DEF Usable
  <2> HIDE DEF next
  <2>7. PICK n \in Call : /\ caller' = [caller EXCEPT ![c] = n]
                          /\ Advanced(n, m, "loadClaim") \/ Resent(n, m)
                          /\ reply' = Silent
    BY <1>1, <2>1, <2>2, IdleCall, ArriveEffect
  <2> HIDE DEF G, U
  <2>8. ClaimStep(c, n)
    BY <1>1, <1>8, <2>4, <2>5, <2>6, <2>7 DEF ClaimStep, G, U
  <2> QED BY <2>7, <2>8, IdleCall
<1> QED BY <1>3, <1>5, <1>6, <1>7, <1>8 DEF ClaimScript

\* The close script.
LEMMA CloseEffect ==
  ASSUME CallInv, NEW c \in Callers, CloseScript(c)
  PROVE  /\ reply' = Silent
         /\ \E n \in Call : caller' = [caller EXCEPT ![c] = n] /\ CloseStep(c, n)
<1> DEFINE m == caller[c]
<1>1. /\ m \in Call /\ m.pc = "close" /\ m.subject \in Subjects
      /\ m.id \in Ids /\ m.now \in Nat /\ Deliverable(m)
      /\ caller \in [Callers -> Call] /\ bySubject \in [Subjects -> [Ids -> Nat]]
      /\ Arrive(c, Idle, Silent)
      /\ UNCHANGED <<clock, idem, drawn, access, grants>>
  BY CallFields DEF CloseScript, CallInv, TypeOK, CallOK
<1>2. PICK n \in Call : /\ caller' = [caller EXCEPT ![c] = n]
                        /\ Returns(n, m) /\ reply' = Silent
  BY <1>1, IdleCall, ArriveEffect DEF Returns, Advanced
<1>3. \/ UNCHANGED <<hash, global, bySubject>>
      \/ /\ hash[m.id] # None /\ hash[m.id].state = "claimed"
         /\ hash' = [hash EXCEPT ![m.id] = Released(hash[m.id], m.now)]
         /\ global' = [global EXCEPT ![m.id] = 0]
         /\ bySubject' = [bySubject EXCEPT ![m.subject] =
                            [bySubject[m.subject] EXCEPT ![m.id] = 0]]
  BY DEF CloseScript, ZRem
<1>4. CloseStep(c, n)
  BY <1>1, <1>2, <1>3 DEF CloseStep
<1> QED BY <1>2, <1>4

\* Every action of Next is one of the Steps.
LEMMA NextIsSteps ==
  ASSUME CallInv, Next
  PROVE  Steps
<1>1. ASSUME NEW c \in Callers,
             \/ \E k \in Keys, intent \in Intents, id \in Ids, now \in Readings :
                   StartIssue(c, k, intent, id, now)
             \/ CreateScript(c)
             \/ ClaimScript(c)
             \/ CloseScript(c)
      PROVE  Steps
  BY <1>1, StartIssueEffect, CreateEffect, ClaimEffect, CloseEffect DEF Steps
<1>2. ASSUME NEW c \in Callers, NEW n \in Call,
             caller' = [caller EXCEPT ![c] = n], ReadStep(c, n)
      PROVE  Steps
  BY <1>2 DEF Steps
<1>3. (\E i \in Ids : HolderDies(i)) \/ Tick => Steps
  BY DEF Steps
<1> QED BY <1>1, <1>2, <1>3, ReadEffects DEF Next

\* Who answers: the end of Issue, of Replay and the claim script.
LEMMA ReplyCases ==
  ASSUME CallInv, Next
  PROVE  \/ reply' = Silent
         \/ \E c \in Callers : LoadIssue(c)
         \/ \E c \in Callers, now \in Readings : LoadReplay(c, now)
         \/ \E c \in Callers : ClaimScript(c)
<1>1. ASSUME NEW c \in Callers, NEW call, NEW now, Begin(c, call, now)
      PROVE  reply' = Silent
  BY <1>1 DEF Begin
<1>2. ASSUME NEW c \in Callers, CreateScript(c) \/ CloseScript(c)
      PROVE  reply' = Silent
  BY <1>2, CreateEffect, CloseEffect
<1>3. ASSUME NEW c \in Callers,
             Get(c) \/ ReadIdentity(c) \/ LoadClaim(c) \/ ReadSubject(c) \/ Fail(c)
      PROVE  reply' = Silent
  BY <1>3 DEF Get, ReadIdentity, LoadClaim, ReadSubject, Fail, Finish
<1>4. (\E i \in Ids : HolderDies(i)) \/ Tick => reply' = Silent
  BY DEF HolderDies, Tick
<1>5. ASSUME NEW c \in Callers,
             \/ \E k \in Keys, intent \in Intents, id \in Ids, now \in Readings :
                   StartIssue(c, k, intent, id, now)
             \/ \E k \in Keys, u \in Subjects, console \in Consoles :
                   StartReplay(c, k, u, console)
             \/ \E id \in drawn, ticket \in Ids, now \in Readings :
                   StartClaim(c, id, ticket, now)
             \/ \E id \in Ids, now \in Readings : StartClose(c, id, now)
      PROVE  reply' = Silent
  BY <1>5, <1>1 DEF StartIssue, StartReplay, StartClaim, StartClose
<1> QED BY <1>2, <1>3, <1>4, <1>5 DEF Next

\* What Issue and Replay answer, field by field.
LEMMA LoadReplies ==
  ASSUME CallInv, NEW c \in Callers,
         LoadIssue(c) \/ \E now \in Readings : LoadReplay(c, now)
  PROVE  LET m == caller[c]
             s == hash[m.id]
         IN /\ hash' = hash /\ m.id \in Ids /\ reply' \in Reply
            /\ \/ reply' = Silent
               \/ /\ m.pc = "loadIssue" /\ s # None
                  /\ reply'.op = "issue" /\ reply'.id = m.id /\ reply'.intent = m.intent
                  /\ \/ reply'.err = "ok" /\ reply'.ticket = m.id
                     \/ reply'.err = "replayed" /\ reply'.ticket = s.cipher /\ s.cipher # None
               \/ /\ s # None /\ s.state = "issued"
                  /\ reply'.op = "replay" /\ reply'.err = "replayed" /\ reply'.id = m.id
                  /\ reply'.ticket = s.cipher
<1> DEFINE m == caller[c]
           s == hash[m.id]
           ticket == IF m.fresh THEN m.id ELSE s.cipher
<1>1. CASE LoadIssue(c)
  <2>1. /\ m \in Call /\ m.pc = "loadIssue" /\ m.id \in Ids /\ m.intent \in Intents
        /\ m.now \in Nat /\ m.fresh \in BOOLEAN /\ hash' = hash
        /\ s # None => s.cipher \in Ids \cup {None}
    BY <1>1, CallFields, SessionFields DEF LoadIssue, CallInv, CallOK, TypeOK, redis
  <2>2. \/ reply' = Silent
        \/ /\ s # None /\ ticket # None
           /\ reply' = [op |-> "issue", err |-> IF m.fresh THEN "ok" ELSE "replayed",
                        id |-> m.id, ticket |-> ticket, intent |-> m.intent,
                        now |-> m.now]
    BY <1>1 DEF LoadIssue, Finish
  <2>3. reply' \in Reply
    BY <2>1, <2>2, IdleCall DEF Reply, Errors
  <2> QED BY <2>1, <2>2, <2>3
<1>2. CASE \E now \in Readings : LoadReplay(c, now)
  <2>1. PICK now \in Readings : LoadReplay(c, now)
    BY <1>2
  <2>2. /\ m \in Call /\ m.id \in Ids /\ now \in Nat /\ hash' = hash
        /\ s # None => s.cipher \in Ids \cup {None}
    BY <2>1, CallFields, SessionFields, ReadingsType
       DEF LoadReplay, CallInv, CallOK, TypeOK, redis
  <2>3. \/ reply' = Silent
        \/ /\ s # None /\ s.state = "issued"
           /\ reply' = [op |-> "replay", err |-> "replayed", id |-> m.id,
                        ticket |-> s.cipher, intent |-> None, now |-> now]
    BY <2>1 DEF LoadReplay, Finish, ReplayVerdict, Usable
  <2>4. reply' \in Reply
    BY <2>2, <2>3, IdleCall DEF Reply, Errors
  <2> QED BY <2>2, <2>3, <2>4
<1> QED BY <1>1, <1>2

\* An answer has its type.
LEMMA ReplyType ==
  ASSUME CallInv, Next
  PROVE  reply' \in Reply
BY ReplyCases, LoadReplies, ClaimEffect, IdleCall

\* CallInv is inductive: every call is well formed at every round trip.
LEMMA CallInvStep ==
  ASSUME CallInv, [Next]_vars
  PROVE  CallInv'
<1> USE NoneAssumption
<1>1. CASE UNCHANGED vars
  BY <1>1 DEF vars, CallInv, TypeOK, CallOK
<1> SUFFICES ASSUME Next PROVE CallInv'
  BY <1>1
<1>2. reply' \in Reply
  BY ReplyType
<1>3. /\ clock \in Nat /\ hash \in [Ids -> Session \cup {None}]
      /\ idem \in [Keys -> Entry \cup {None}] /\ global \in [Ids -> Nat]
      /\ bySubject \in [Subjects -> [Ids -> Nat]] /\ caller \in [Callers -> Call]
      /\ drawn \subseteq Ids /\ access \in [Ids -> Nat] /\ grants \in [Ids -> Nat]
  BY DEF CallInv, TypeOK
<1>4. ASSUME NEW c \in Callers, NEW n \in Call, caller' = [caller EXCEPT ![c] = n],
             clock' = clock, drawn \subseteq drawn',
             CallOK(n, clock, drawn')
      PROVE  /\ caller' \in [Callers -> Call]
             /\ \A d \in Callers : CallOK(caller'[d], clock', drawn')
  BY <1>3, <1>4 DEF CallInv, CallOK
<1>5. ASSUME NEW c \in Callers, NEW n \in Call, Resent(n, caller[c])
      PROVE  CallOK(n, clock, drawn)
  BY <1>5 DEF Resent, CallInv, CallOK
<1>6. ASSUME NEW c \in Callers, NEW n \in Call, Returns(n, caller[c])
      PROVE  CallOK(n, clock, drawn)
  BY <1>3, <1>5, <1>6, RetryAssumption DEF Returns, CallOK
<1>7. ASSUME NEW i \in Ids, NEW t \in Nat, MayExpire(i, t)
      PROVE  /\ hash' \in [Ids -> Session \cup {None}]
             /\ \A j \in Ids : hash'[j] # None =>
                  /\ hash[j] # None
                  /\ hash'[j].tombstoneExpiresAt = hash[j].tombstoneExpiresAt
  <2>1. CASE hash' = hash
    BY <1>3, <2>1
  <2>2. CASE /\ hash[i] # None
             /\ hash' = [hash EXCEPT ![i] = TicketExpired(hash[i], t)]
    <3>1. hash[i] \in Session
      BY <1>3, <2>2
    <3>2. /\ TicketExpired(hash[i], t) \in Session
          /\ TicketExpired(hash[i], t).tombstoneExpiresAt = hash[i].tombstoneExpiresAt
      BY <3>1, SessionUpdates
    <3> QED BY <1>3, <2>2, <3>2
  <2> QED BY <1>7, <2>1, <2>2 DEF MayExpire
<1>8. ASSUME NEW c \in Callers, NEW n \in Call, caller' = [caller EXCEPT ![c] = n],
             IssueStep(c, n)
      PROVE  CallInv'
  <2>1. CallOK(n, clock, drawn')
    BY <1>8 DEF IssueStep, CallOK
  <2>2. /\ caller' \in [Callers -> Call]
        /\ \A d \in Callers : CallOK(caller'[d], clock', drawn')
    BY <1>4, <1>8, <2>1 DEF IssueStep
  <2> QED BY <1>2, <1>3, <1>8, <2>2 DEF IssueStep, CallInv, TypeOK
<1>9. ASSUME NEW c \in Callers, NEW n \in Call, caller' = [caller EXCEPT ![c] = n],
             ReadStep(c, n)
      PROVE  CallInv'
  <2> DEFINE m == caller[c]
  <2>1. /\ m \in Call /\ m.now \in Nat /\ CallOK(m, clock, drawn)
        /\ m.now + SessionMaxDuration \in Nat
    BY <1>3, CallFields, LimitsAssumption DEF CallInv
  <2>2. CallOK(n, clock, drawn)
    <3>1. \A i \in Ids : hash[i] # None => hash[i].key \in Keys /\ Subject(hash[i]) \in Subjects
      BY <1>3, SessionFields
    <3> QED BY <1>3, <1>9, <2>1, <3>1 DEF ReadStep, CallOK, CallInv
  <2>3. access' \in [Ids -> Nat] /\ \A i \in Ids : access'[i] # 0 => i \in drawn
    BY <1>3, <1>9, <2>1 DEF ReadStep, CallInv, CallOK
  <2>4. /\ caller' \in [Callers -> Call]
        /\ \A d \in Callers : CallOK(caller'[d], clock', drawn')
    BY <1>4, <1>9, <2>2 DEF ReadStep
  <2>5. UNCHANGED <<clock, hash, idem, global, bySubject, drawn, grants>>
    BY <1>9 DEF ReadStep
  <2> QED BY <1>2, <1>3, <2>3, <2>4, <2>5 DEF CallInv, TypeOK
<1>10. ASSUME NEW c \in Callers, NEW n \in Call, caller' = [caller EXCEPT ![c] = n],
              CreateStep(c, n)
       PROVE  CallInv'
  <2> DEFINE m == caller[c]
             sid == idem[m.key].id
             tombstone == m.now + TicketTTL + IdempotencyTTL
             new == Candidate(m.id, m.key, m.intent, m.now)
             entry == [id |-> m.id, expiresAt |-> tombstone]
  <2>1. /\ m \in Call /\ m.pc = "create" /\ m.now \in Nat /\ CallOK(m, clock, drawn)
        /\ m.key \in Keys /\ m.intent \in Intents /\ m.id \in drawn /\ m.id \in Ids
        /\ UNCHANGED <<clock, global, bySubject, drawn, access, grants>>
    BY <1>3, <1>10, CallFields DEF CallInv, CallOK, CreateStep
  <2>2. /\ CallOK(n, clock, drawn)
        /\ \/ idem' = idem /\ (idem[m.key] # None => MayExpire(sid, m.now) \/ hash' = hash)
              /\ idem[m.key] # None
           \/ /\ idem[m.key] = None
              /\ hash' = [hash EXCEPT ![m.id] = Kept(new, tombstone)]
              /\ idem' = [idem EXCEPT ![m.key] = Kept(entry, tombstone)]
    <3>1. Advanced(n, m, "loadIssue") => CallOK(n, clock, drawn)
      BY <2>1 DEF Advanced, CallOK
    <3>2. Resent(n, m) \/ Returns(n, m) => CallOK(n, clock, drawn)
      BY <1>5, <1>6
    <3>3. ASSUME idem[m.key] # None, n.pc = "loadIssue", n.id = sid,
                 n.intent = m.intent, n.now = m.now
          PROVE  CallOK(n, clock, drawn)
      BY <2>1, <3>3 DEF CallInv, CallOK
    <3> QED BY <1>10, <3>1, <3>2, <3>3 DEF CreateStep
  <2>3. /\ caller' \in [Callers -> Call]
        /\ \A d \in Callers : CallOK(caller'[d], clock', drawn')
    BY <1>4, <1>10, <2>1, <2>2
  <2>4. CASE /\ idem' = idem /\ idem[m.key] # None
             /\ MayExpire(sid, m.now) \/ hash' = hash
    <3>1. sid \in Ids
      BY <1>3, <2>1, <2>4 DEF Entry
    <3>2. MayExpire(sid, m.now)
      BY <2>4 DEF MayExpire
    <3>3. /\ hash' \in [Ids -> Session \cup {None}]
          /\ \A j \in Ids : hash'[j] # None =>
               /\ hash[j] # None
               /\ hash'[j].tombstoneExpiresAt = hash[j].tombstoneExpiresAt
      BY <1>7, <2>1, <3>1, <3>2
    <3> QED BY <1>2, <1>3, <2>1, <2>3, <2>4, <3>3 DEF CallInv, TypeOK
  <2>5. CASE /\ idem[m.key] = None
             /\ hash' = [hash EXCEPT ![m.id] = Kept(new, tombstone)]
             /\ idem' = [idem EXCEPT ![m.key] = Kept(entry, tombstone)]
    <3>1. new \in Session /\ new.tombstoneExpiresAt = tombstone /\ tombstone \in Nat
      BY <2>1, CandidateFields, LimitsAssumption
    <3>2. entry \in Entry /\ entry.id = m.id /\ entry.expiresAt = tombstone
      BY <2>1, <3>1 DEF Entry
    <3> HIDE DEF new, entry, tombstone
    <3>3. /\ hash' \in [Ids -> Session \cup {None}]
          /\ \A i \in Ids : hash'[i] # None =>
               i \in drawn /\ clock < hash'[i].tombstoneExpiresAt
      BY <1>3, <2>1, <2>5, <3>1 DEF Kept, CallInv
    <3>4. /\ idem' \in [Keys -> Entry \cup {None}]
          /\ \A k \in Keys : idem'[k] # None =>
               idem'[k].id \in drawn /\ clock < idem'[k].expiresAt
      BY <1>3, <2>1, <2>5, <3>1, <3>2 DEF Kept, CallInv
    <3> QED BY <1>2, <1>3, <2>1, <2>3, <3>3, <3>4 DEF CallInv, TypeOK
  <2> QED BY <2>2, <2>4, <2>5
<1>11. ASSUME NEW c \in Callers, NEW n \in Call, caller' = [caller EXCEPT ![c] = n],
              ClaimStep(c, n)
       PROVE  CallInv'
  <2> DEFINE m == caller[c]
             G == ZRemRangeByScore(global, m.now)
             U == ZRemRangeByScore(bySubject[m.subject], m.now)
             expires == m.now + SessionMaxDuration
             tombstone == expires + IdempotencyTTL
             new == Claimed(hash[m.id], m.now)
             entry == [id |-> idem[m.key].id, expiresAt |-> tombstone]
  <2>1. /\ m \in Call /\ m.pc = "claim" /\ m.now \in Nat /\ CallOK(m, clock, drawn)
        /\ m.key \in Keys /\ m.subject \in Subjects /\ m.id \in drawn /\ m.id \in Ids
        /\ UNCHANGED <<clock, drawn, access>>
    BY <1>3, <1>11, CallFields DEF CallInv, CallOK, ClaimStep
  <2>2. CallOK(n, clock, drawn)
    <3>1. Advanced(n, m, "loadClaim") => CallOK(n, clock, drawn)
      BY <2>1 DEF Advanced, CallOK
    <3> QED BY <1>5, <1>6, <1>11, <3>1 DEF ClaimStep
  <2>3. /\ caller' \in [Callers -> Call]
        /\ \A d \in Callers : CallOK(caller'[d], clock', drawn')
    BY <1>4, <1>11, <2>1, <2>2
  <2>4. /\ G \in [Ids -> Nat] /\ U \in [Ids -> Nat]
        /\ expires \in Nat /\ tombstone \in Nat
        /\ ZAdd(G, m.id, expires) \in [Ids -> Nat]
        /\ ZAdd(U, m.id, expires) \in [Ids -> Nat]
    <3>1. bySubject[m.subject] \in [Ids -> Nat]
      BY <1>3, <2>1
    <3>2. expires \in Nat /\ tombstone \in Nat
      BY <2>1, LimitsAssumption
    <3> QED BY <1>3, <2>1, <3>1, <3>2 DEF ZRemRangeByScore, ZAdd
  <2> HIDE DEF G, U
  <2>5. CASE UNCHANGED <<hash, idem, global, bySubject, grants>>
    BY <1>2, <1>3, <2>1, <2>3, <2>5 DEF CallInv, TypeOK
  <2>6. CASE /\ MayExpire(m.id, m.now)
             /\ global' = G /\ bySubject' = [bySubject EXCEPT ![m.subject] = U]
             /\ UNCHANGED <<idem, grants>>
    <3>1. /\ hash' \in [Ids -> Session \cup {None}]
          /\ \A j \in Ids : hash'[j] # None =>
               /\ hash[j] # None
               /\ hash'[j].tombstoneExpiresAt = hash[j].tombstoneExpiresAt
      BY <1>7, <2>1, <2>6
    <3>2. global' \in [Ids -> Nat] /\ bySubject' \in [Subjects -> [Ids -> Nat]]
      BY <1>3, <2>4, <2>6
    <3> QED BY <1>2, <1>3, <2>1, <2>3, <2>6, <3>1, <3>2 DEF CallInv, TypeOK
  <2>7. CASE /\ hash[m.id] # None
             /\ hash' = [hash EXCEPT ![m.id] = Kept(new, tombstone)]
             /\ idem' = IF idem[m.key] = None THEN idem
                        ELSE [idem EXCEPT ![m.key] = Kept(entry, tombstone)]
             /\ global' = ZAdd(G, m.id, expires)
             /\ bySubject' = [bySubject EXCEPT ![m.subject] = ZAdd(U, m.id, expires)]
             /\ grants' = [grants EXCEPT ![m.id] = grants[m.id] + 1]
    <3>1. hash[m.id] \in Session
      BY <1>3, <2>1, <2>7
    <3>2. new \in Session /\ new.tombstoneExpiresAt = tombstone
      BY <2>1, <3>1, SessionUpdates
    <3>3. idem[m.key] # None =>
            entry \in Entry /\ entry.id \in drawn /\ entry.expiresAt = tombstone
      BY <1>3, <2>1, <2>4 DEF Entry, CallInv
    <3>4. /\ global' \in [Ids -> Nat] /\ bySubject' \in [Subjects -> [Ids -> Nat]]
          /\ grants' \in [Ids -> Nat]
      BY <1>3, <2>1, <2>4, <2>7
    <3> HIDE DEF new, entry, tombstone
    <3>5. /\ hash' \in [Ids -> Session \cup {None}]
          /\ \A i \in Ids : hash'[i] # None =>
               i \in drawn /\ clock < hash'[i].tombstoneExpiresAt
      BY <1>3, <2>1, <2>4, <2>7, <3>2 DEF Kept, CallInv
    <3>6. /\ idem' \in [Keys -> Entry \cup {None}]
          /\ \A k \in Keys : idem'[k] # None =>
               idem'[k].id \in drawn /\ clock < idem'[k].expiresAt
      BY <1>3, <2>1, <2>4, <2>7, <3>3 DEF Kept, CallInv
    <3> QED BY <1>2, <1>3, <2>1, <2>3, <3>4, <3>5, <3>6 DEF CallInv, TypeOK
  <2> QED BY <1>11, <2>5, <2>6, <2>7 DEF ClaimStep, G, U
<1>12. ASSUME NEW c \in Callers, NEW n \in Call, caller' = [caller EXCEPT ![c] = n],
              CloseStep(c, n)
       PROVE  CallInv'
  <2> DEFINE m == caller[c]
             new == Released(hash[m.id], m.now)
  <2>1. /\ m \in Call /\ m.pc = "close" /\ m.now \in Nat
        /\ m.subject \in Subjects /\ m.id \in Ids
        /\ UNCHANGED <<clock, idem, drawn, access, grants>>
        /\ CallOK(n, clock, drawn)
    BY <1>3, <1>6, <1>12, CallFields DEF CallInv, CallOK, CloseStep
  <2>2. /\ caller' \in [Callers -> Call]
        /\ \A d \in Callers : CallOK(caller'[d], clock', drawn')
    BY <1>4, <1>12, <2>1
  <2>3. CASE UNCHANGED <<hash, global, bySubject>>
    BY <1>2, <1>3, <2>1, <2>2, <2>3 DEF CallInv, TypeOK
  <2>4. CASE /\ hash[m.id] # None
             /\ hash' = [hash EXCEPT ![m.id] = new]
             /\ global' = [global EXCEPT ![m.id] = 0]
             /\ bySubject' = [bySubject EXCEPT ![m.subject] =
                                [bySubject[m.subject] EXCEPT ![m.id] = 0]]
    <3>1. hash[m.id] \in Session
      BY <1>3, <2>1, <2>4
    <3>2. new \in Session /\ new.tombstoneExpiresAt = hash[m.id].tombstoneExpiresAt
      BY <2>1, <3>1, SessionUpdates
    <3> HIDE DEF new
    <3>3. /\ hash' \in [Ids -> Session \cup {None}]
          /\ \A j \in Ids : hash'[j] # None =>
               /\ hash[j] # None
               /\ hash'[j].tombstoneExpiresAt = hash[j].tombstoneExpiresAt
      BY <1>3, <2>4, <3>2
    <3>4. global' \in [Ids -> Nat] /\ bySubject' \in [Subjects -> [Ids -> Nat]]
      <4>1. [bySubject[m.subject] EXCEPT ![m.id] = 0] \in [Ids -> Nat]
        BY <1>3, <2>1
      <4> QED BY <1>3, <2>1, <2>4, <4>1
    <3> QED BY <1>2, <1>3, <2>1, <2>2, <3>3, <3>4 DEF CallInv, TypeOK
  <2> QED BY <1>12, <2>3, <2>4 DEF CloseStep
<1>13. ASSUME NEW i \in Ids, HolderDies(i)
       PROVE  CallInv'
  BY <1>2, <1>3, <1>13 DEF HolderDies, redis, CallInv, TypeOK
<1>14. CASE Tick
  <2>1. /\ clock' = clock + 1
        /\ hash' = UnexpiredHashes(hash, clock + 1)
        /\ idem' = UnexpiredKeys(idem, clock + 1)
        /\ UNCHANGED <<global, bySubject, caller, drawn, access, grants>>
    BY <1>14 DEF Tick
  <2>2. /\ hash' \in [Ids -> Session \cup {None}]
        /\ \A i \in Ids : hash'[i] # None =>
             /\ hash'[i] = hash[i]
             /\ clock' < hash'[i].tombstoneExpiresAt
    <3>1. \A i \in Ids : hash[i] # None => hash[i].tombstoneExpiresAt \in Nat
      BY <1>3, SessionFields
    <3> QED BY <1>3, <2>1, <3>1 DEF UnexpiredHashes
  <2>3. /\ idem' \in [Keys -> Entry \cup {None}]
        /\ \A k \in Keys : idem'[k] # None =>
             /\ idem'[k] = idem[k]
             /\ clock' < idem'[k].expiresAt
    <3>1. \A k \in Keys : idem[k] # None => idem[k].expiresAt \in Nat
      BY <1>3 DEF Entry
    <3> QED BY <1>3, <2>1, <3>1 DEF UnexpiredKeys
  <2>4. \A c \in Callers : CallOK(caller'[c], clock', drawn')
    <3>1. \A c \in Callers : caller[c].now \in Nat /\ CallOK(caller[c], clock, drawn)
      BY <1>3, CallFields DEF CallInv
    <3> QED BY <1>3, <2>1, <3>1, RetryAssumption DEF CallOK
  <2> QED BY <1>2, <1>3, <2>1, <2>2, <2>3, <2>4 DEF CallInv, TypeOK
<1> QED BY <1>8, <1>9, <1>10, <1>11, <1>12, <1>13, <1>14, NextIsSteps DEF Steps

\* Every call is well formed and nothing expired is stored, in every reachable
\* state.
THEOREM CallInvariant == Spec => []CallInv
<1>1. Init => CallInv
  BY IdleCall, RetryAssumption DEF Init, CallInv, TypeOK, CallOK
<1>2. CallInv /\ [Next]_vars => CallInv'
  BY CallInvStep
<1> QED BY <1>1, <1>2, PTL DEF Spec

\* Redis, the calls in flight and the answers keep their types.
THEOREM TypeCorrect == Spec => []TypeOK
<1>1. CallInv => TypeOK
  BY DEF CallInv
<1> QED BY <1>1, CallInvariant, PTL

-----------------------------------------------------------------------------
(* Leases: the sorted sets                                                 *)

\* A sorted set with no members of its own has no greater cardinality, and one
\* with one more member at most one more.
LEMMA ZCardBounds ==
  ASSUME NEW z \in [Ids -> Nat], NEW y \in [Ids -> Nat], NEW i \in Ids
  PROVE  /\ ZCard(z) \in Nat
         /\ Members(y) \subseteq Members(z) => ZCard(y) <= ZCard(z)
         /\ Members(y) \subseteq Members(z) \cup {i} => ZCard(y) <= ZCard(z) + 1
<1>1. IsFiniteSet(Members(z)) /\ Cardinality(Members(z)) \in Nat
  BY SetsAssumption, FS_Subset, FS_CardinalityType DEF Members
<1>2. /\ IsFiniteSet(Members(z) \cup {i})
      /\ Cardinality(Members(z) \cup {i}) \in Nat
      /\ Cardinality(Members(z) \cup {i}) <= Cardinality(Members(z)) + 1
  <2>1. /\ IsFiniteSet(Members(z) \cup {i})
        /\ Cardinality(Members(z) \cup {i}) =
             IF i \in Members(z) THEN Cardinality(Members(z)) ELSE Cardinality(Members(z)) + 1
    BY <1>1, FS_AddElement
  <2>2. Cardinality(Members(z) \cup {i}) \in Nat
    BY <2>1, FS_CardinalityType
  <2> QED BY <1>1, <2>1, <2>2
<1>3. ASSUME NEW S, IsFiniteSet(S), Members(y) \subseteq S
      PROVE  /\ Cardinality(Members(y)) \in Nat
             /\ Cardinality(Members(y)) <= Cardinality(S)
  BY <1>3, FS_Subset, FS_CardinalityType
<1>4. Members(y) \subseteq Members(z) => ZCard(y) <= ZCard(z)
  BY <1>1, <1>3 DEF ZCard
<1>5. ASSUME Members(y) \subseteq Members(z) \cup {i}
      PROVE  ZCard(y) <= ZCard(z) + 1
  <2>1. /\ Cardinality(Members(y)) \in Nat
        /\ Cardinality(Members(y)) <= Cardinality(Members(z) \cup {i})
    BY <1>2, <1>3, <1>5
  <2> QED BY <1>1, <1>2, <2>1 DEF ZCard
<1> QED BY <1>1, <1>4, <1>5 DEF ZCard

\* The three ways the scripts change a sorted set.
LEMMA ZCardSweep ==
  ASSUME NEW z \in [Ids -> Nat], NEW t \in Nat
  PROVE  /\ ZRemRangeByScore(z, t) \in [Ids -> Nat]
         /\ ZCard(z) \in Nat /\ ZCard(ZRemRangeByScore(z, t)) \in Nat
         /\ ZCard(ZRemRangeByScore(z, t)) <= ZCard(z)
<1> DEFINE y == ZRemRangeByScore(z, t)
<1>1. y \in [Ids -> Nat] /\ Members(y) \subseteq Members(z)
  BY DEF ZRemRangeByScore, Members
<1> HIDE DEF y
<1>2. CASE Ids = {}
  <2>1. Members(z) = {} /\ Members(y) = {}
    BY <1>2 DEF Members
  <2> QED BY <1>1, <2>1, FS_EmptySet DEF ZCard, y
<1>3. ASSUME NEW i \in Ids
      PROVE  ZCard(z) \in Nat /\ ZCard(y) \in Nat /\ ZCard(y) <= ZCard(z)
  BY <1>1, ZCardBounds
<1> QED BY <1>1, <1>2, <1>3 DEF y

\* ZREM does not make a sorted set longer.
LEMMA ZCardRem ==
  ASSUME NEW z \in [Ids -> Nat], NEW i \in Ids
  PROVE  /\ ZRem(z, i) \in [Ids -> Nat]
         /\ ZCard(z) \in Nat /\ ZCard(ZRem(z, i)) \in Nat
         /\ ZCard(ZRem(z, i)) <= ZCard(z)
<1> DEFINE y == ZRem(z, i)
<1>1. y \in [Ids -> Nat] /\ Members(y) \subseteq Members(z)
  BY DEF ZRem, Members
<1> HIDE DEF y
<1>2. ZCard(z) \in Nat /\ ZCard(y) \in Nat /\ ZCard(y) <= ZCard(z)
  BY <1>1, ZCardBounds
<1> QED BY <1>1, <1>2 DEF y

\* ZADD makes a sorted set longer by at most one member.
LEMMA ZCardAdd ==
  ASSUME NEW z \in [Ids -> Nat], NEW i \in Ids, NEW score \in Nat
  PROVE  /\ ZAdd(z, i, score) \in [Ids -> Nat]
         /\ ZCard(z) \in Nat /\ ZCard(ZAdd(z, i, score)) \in Nat
         /\ ZCard(ZAdd(z, i, score)) <= ZCard(z) + 1
<1> DEFINE y == ZAdd(z, i, score)
<1>1. y \in [Ids -> Nat] /\ Members(y) \subseteq Members(z) \cup {i}
  BY DEF ZAdd, Members
<1> HIDE DEF y
<1>2. ZCard(z) \in Nat /\ ZCard(y) \in Nat /\ ZCard(y) <= ZCard(z) + 1
  BY <1>1, ZCardBounds
<1> QED BY <1>1, <1>2 DEF y

\* What one step does to the two sorted sets.
LEMMA LeaseSets ==
  ASSUME CallInv, [Next]_vars
  PROVE  \/ UNCHANGED <<global, bySubject>>
         \/ \E c \in Callers :
              /\ caller[c].pc = "close"
              /\ global' = ZRem(global, caller[c].id)
              /\ bySubject' = [bySubject EXCEPT ![caller[c].subject] =
                                 ZRem(bySubject[caller[c].subject], caller[c].id)]
         \/ \E c \in Callers :
              LET m == caller[c]
                  G == ZRemRangeByScore(global, m.now)
                  U == ZRemRangeByScore(bySubject[m.subject], m.now)
                  expires == m.now + SessionMaxDuration
              IN /\ m.pc = "claim"
                 /\ \/ /\ global' = G
                       /\ bySubject' = [bySubject EXCEPT ![m.subject] = U]
                    \/ /\ ~AtCapacity(G, U)
                       /\ global' = ZAdd(G, m.id, expires)
                       /\ bySubject' = [bySubject EXCEPT ![m.subject] =
                                          ZAdd(U, m.id, expires)]
<1>1. CASE Next
  <2>1. Steps
    BY <1>1, NextIsSteps
  <2>2. ASSUME NEW c \in Callers, NEW n \in Call,
               IssueStep(c, n) \/ ReadStep(c, n) \/ CreateStep(c, n)
        PROVE  UNCHANGED <<global, bySubject>>
    BY <2>2 DEF IssueStep, ReadStep, CreateStep
  <2>3. (\E i \in Ids : HolderDies(i)) \/ Tick => UNCHANGED <<global, bySubject>>
    BY DEF HolderDies, Tick, redis
  <2> QED BY <2>1, <2>2, <2>3 DEF Steps, ClaimStep, CloseStep, ZRem
<1> QED BY <1>1 DEF vars

\* Both limits survive a step: the script sweeps, counts and adds at once.
LEMMA LimitsStep ==
  ASSUME CallInv, LeasesWithinLimits, [Next]_vars
  PROVE  LeasesWithinLimits'
<1>1. global \in [Ids -> Nat] /\ bySubject \in [Subjects -> [Ids -> Nat]]
  BY DEF CallInv, TypeOK
<1>3. CASE UNCHANGED <<global, bySubject>>
  BY <1>3 DEF LeasesWithinLimits, ZCard, Members
<1>4. ASSUME NEW c \in Callers, caller[c].pc = "close",
             global' = ZRem(global, caller[c].id),
             bySubject' = [bySubject EXCEPT ![caller[c].subject] =
                             ZRem(bySubject[caller[c].subject], caller[c].id)]
      PROVE  LeasesWithinLimits'
  <2> DEFINE m == caller[c]
             U == bySubject[m.subject]
  <2>1. m.id \in Ids /\ m.subject \in Subjects
    BY <1>4 DEF CallInv, CallOK, TypeOK
  <2>2. ZCard(ZRem(global, m.id)) <= MaxActive
    BY <1>1, <2>1, ZCardRem, LimitsAssumption DEF LeasesWithinLimits
  <2>3. ZCard(ZRem(U, m.id)) <= MaxActivePerSubject
    BY <1>1, <2>1, ZCardRem, LimitsAssumption DEF LeasesWithinLimits
  <2>4. \A u \in Subjects : bySubject'[u] = IF u = m.subject THEN ZRem(U, m.id) ELSE bySubject[u]
    BY <1>1, <1>4, <2>1
  <2> HIDE DEF m
  <2> QED BY <1>4, <2>2, <2>3, <2>4 DEF LeasesWithinLimits, ZCard, Members, m
<1>5. ASSUME NEW c \in Callers, caller[c].pc = "claim",
             LET m == caller[c]
                 G == ZRemRangeByScore(global, m.now)
                 U == ZRemRangeByScore(bySubject[m.subject], m.now)
                 expires == m.now + SessionMaxDuration
             IN \/ /\ global' = G
                   /\ bySubject' = [bySubject EXCEPT ![m.subject] = U]
                \/ /\ ~AtCapacity(G, U)
                   /\ global' = ZAdd(G, m.id, expires)
                   /\ bySubject' = [bySubject EXCEPT ![m.subject] = ZAdd(U, m.id, expires)]
      PROVE  LeasesWithinLimits'
  <2> DEFINE m == caller[c]
             G == ZRemRangeByScore(global, m.now)
             U == ZRemRangeByScore(bySubject[m.subject], m.now)
             expires == m.now + SessionMaxDuration
  <2>1. /\ m.id \in Ids /\ m.subject \in Subjects /\ m.now \in Nat /\ expires \in Nat
        /\ bySubject[m.subject] \in [Ids -> Nat]
    BY <1>1, <1>5, CallFields, LimitsAssumption DEF CallInv, CallOK, TypeOK
  <2>2. /\ G \in [Ids -> Nat] /\ ZCard(G) \in Nat /\ ZCard(global) \in Nat
        /\ ZCard(G) <= ZCard(global)
    BY <1>1, <2>1, ZCardSweep
  <2>3. /\ U \in [Ids -> Nat] /\ ZCard(U) \in Nat /\ ZCard(bySubject[m.subject]) \in Nat
        /\ ZCard(U) <= ZCard(bySubject[m.subject])
    BY <2>1, ZCardSweep
  <2> HIDE DEF G, U, expires
  <2>8. /\ ZCard(G) <= MaxActive
        /\ ZCard(U) <= MaxActivePerSubject
    BY <2>1, <2>2, <2>3, LimitsAssumption DEF LeasesWithinLimits
  <2>4. ~AtCapacity(G, U) => /\ ZCard(ZAdd(G, m.id, expires)) <= MaxActive
                             /\ ZCard(ZAdd(U, m.id, expires)) <= MaxActivePerSubject
    <3>1. /\ ZCard(ZAdd(G, m.id, expires)) \in Nat
          /\ ZCard(ZAdd(G, m.id, expires)) <= ZCard(G) + 1
      BY <2>1, <2>2, ZCardAdd
    <3>2. /\ ZCard(ZAdd(U, m.id, expires)) \in Nat
          /\ ZCard(ZAdd(U, m.id, expires)) <= ZCard(U) + 1
      BY <2>1, <2>3, ZCardAdd
    <3> QED BY <2>2, <2>3, <3>1, <3>2, LimitsAssumption DEF AtCapacity
  <2>5. PICK V : /\ bySubject' = [bySubject EXCEPT ![m.subject] = V]
                 /\ ZCard(V) <= MaxActivePerSubject
                 /\ ZCard(global') <= MaxActive
    BY <1>5, <2>4, <2>8 DEF G, U, expires
  <2>6. \A u \in Subjects : bySubject'[u] = IF u = m.subject THEN V ELSE bySubject[u]
    BY <1>1, <2>1, <2>5
  <2>7. \A u \in Subjects : ZCard(bySubject'[u]) <= MaxActivePerSubject
    BY <2>5, <2>6 DEF LeasesWithinLimits
  <2> QED BY <2>5, <2>7 DEF LeasesWithinLimits, ZCard, Members
<1> QED BY <1>3, <1>4, <1>5, LeaseSets

\* Neither sorted set ever holds more leases than its limit, with any clocks,
\* any resends and any failures.
THEOREM CapacityRespected == Spec => []LeasesWithinLimits
<1>1. Init => LeasesWithinLimits
  <2> SUFFICES ASSUME Init PROVE LeasesWithinLimits
    OBVIOUS
  <2>1. Members(global) = {} /\ \A u \in Subjects : Members(bySubject[u]) = {}
    BY DEF Init, Members
  <2> QED BY <2>1, FS_EmptySet, LimitsAssumption DEF LeasesWithinLimits, ZCard
<1>2. CallInv /\ LeasesWithinLimits /\ [Next]_vars => LeasesWithinLimits'
  BY LimitsStep
<1> QED BY <1>1, <1>2, CallInvariant, PTL DEF Spec

\* A score is never further ahead than the skew and the session's duration.
LEMMA LeaseEndsStep ==
  ASSUME CallInv, LeaseEndsInTime, [Next]_vars
  PROVE  LeaseEndsInTime'
<1> DEFINE limit == clock + ClockSkew + SessionMaxDuration
           Bounded(z) == \A i \in Ids : z[i] <= limit
<1>1. /\ global \in [Ids -> Nat] /\ bySubject \in [Subjects -> [Ids -> Nat]]
      /\ clock \in Nat /\ limit \in Nat
  BY LimitsAssumption, RetryAssumption DEF CallInv, TypeOK
<1>2. clock' \in Nat /\ clock' >= clock
  <2>1. CASE Next
    <3>1. Steps
      BY <2>1, NextIsSteps
    <3>2. (\E i \in Ids : HolderDies(i)) \/ Tick => clock' = clock \/ clock' = clock + 1
      BY DEF HolderDies, Tick
    <3>3. ASSUME NEW c \in Callers, NEW n \in Call,
                 \/ IssueStep(c, n) \/ ReadStep(c, n) \/ CreateStep(c, n)
                 \/ ClaimStep(c, n) \/ CloseStep(c, n)
          PROVE  clock' = clock
      BY <3>3 DEF IssueStep, ReadStep, CreateStep, ClaimStep, CloseStep
    <3>4. clock' = clock \/ clock' = clock + 1
      BY <3>1, <3>2, <3>3 DEF Steps
    <3> QED BY <1>1, <3>4
  <2> QED BY <1>1, <2>1 DEF vars
<1>3. limit' \in Nat /\ limit <= limit'
  <2>1. limit' = clock' + ClockSkew + SessionMaxDuration
    OBVIOUS
  <2>2. ASSUME NEW t \in Nat, NEW x \in Nat, t >= x
        PROVE  /\ t + ClockSkew + SessionMaxDuration \in Nat
               /\ x + ClockSkew + SessionMaxDuration <= t + ClockSkew + SessionMaxDuration
    BY <2>2, LimitsAssumption, RetryAssumption
  <2> QED BY <1>1, <1>2, <2>1, <2>2
<1>4. Bounded(global) /\ \A u \in Subjects : Bounded(bySubject[u])
  BY DEF LeaseEndsInTime
<1>5. ASSUME NEW z \in [Ids -> Nat], Bounded(z), NEW c \in Callers,
             caller[c].pc \in {"claim", "close"}
      PROVE  LET m == caller[c]
                 G == ZRemRangeByScore(z, m.now)
             IN /\ Bounded(ZRem(z, m.id)) /\ Bounded(G)
                /\ Bounded(ZAdd(G, m.id, m.now + SessionMaxDuration))
  <2> DEFINE m == caller[c]
  <2>1. m.id \in Ids /\ m.now \in Nat /\ m.now <= clock + ClockSkew
    BY <1>5, CallFields DEF CallInv, CallOK, TypeOK
  <2>2. m.now + SessionMaxDuration <= limit
    BY <1>1, <2>1, LimitsAssumption, RetryAssumption
  <2> HIDE DEF limit
  <2> QED BY <1>1, <1>5, <2>1, <2>2 DEF ZRem, ZRemRangeByScore, ZAdd
<1>6. Bounded(global') /\ \A u \in Subjects : Bounded(bySubject'[u])
  <2>1. ASSUME NEW c \in Callers, caller[c].pc \in {"claim", "close"}, NEW V,
               Bounded(V), bySubject' = [bySubject EXCEPT ![caller[c].subject] = V]
        PROVE  \A u \in Subjects : Bounded(bySubject'[u])
    <3> HIDE DEF limit
    <3> QED BY <1>1, <1>4, <2>1
  <2>2. \A c \in Callers : caller[c].pc \in {"claim", "close"} => caller[c].subject \in Subjects
    BY DEF CallInv, CallOK
  <2>3. ASSUME NEW c \in Callers, caller[c].pc = "close",
               global' = ZRem(global, caller[c].id),
               bySubject' = [bySubject EXCEPT ![caller[c].subject] =
                               ZRem(bySubject[caller[c].subject], caller[c].id)]
        PROVE  Bounded(global') /\ \A u \in Subjects : Bounded(bySubject'[u])
    <3>1. bySubject[caller[c].subject] \in [Ids -> Nat] /\ Bounded(bySubject[caller[c].subject])
      BY <1>1, <1>4, <2>2, <2>3
    <3> HIDE DEF Bounded
    <3> QED BY <1>1, <1>4, <1>5, <2>1, <2>3, <3>1
  <2>4. ASSUME NEW c \in Callers, caller[c].pc = "claim",
               LET m == caller[c]
                   G == ZRemRangeByScore(global, m.now)
                   U == ZRemRangeByScore(bySubject[m.subject], m.now)
                   expires == m.now + SessionMaxDuration
               IN \/ /\ global' = G
                     /\ bySubject' = [bySubject EXCEPT ![m.subject] = U]
                  \/ /\ ~AtCapacity(G, U)
                     /\ global' = ZAdd(G, m.id, expires)
                     /\ bySubject' = [bySubject EXCEPT ![m.subject] = ZAdd(U, m.id, expires)]
        PROVE  Bounded(global') /\ \A u \in Subjects : Bounded(bySubject'[u])
    <3>1. bySubject[caller[c].subject] \in [Ids -> Nat] /\ Bounded(bySubject[caller[c].subject])
      BY <1>1, <1>4, <2>2, <2>4
    <3> HIDE DEF Bounded
    <3> QED BY <1>1, <1>4, <1>5, <2>1, <2>4, <3>1
  <2>5. CASE UNCHANGED <<global, bySubject>>
    BY <1>4, <2>5
  <2> HIDE DEF Bounded
  <2> QED BY <2>3, <2>4, <2>5, LeaseSets
<1>7. global' \in [Ids -> Nat] /\ bySubject' \in [Subjects -> [Ids -> Nat]]
  BY CallInvStep DEF CallInv, TypeOK
<1>8. /\ \A i \in Ids : global'[i] <= limit'
      /\ \A i \in Ids, u \in Subjects : bySubject'[u][i] <= limit'
  <2> HIDE DEF limit
  <2> QED BY <1>1, <1>3, <1>6, <1>7
<1> QED BY <1>8 DEF LeaseEndsInTime

\* A lease that nobody returns is due for removal in bounded time.
THEOREM LeasesEnd == Spec => []LeaseEndsInTime
<1>1. Init => LeaseEndsInTime
  <2>1. 0 <= 1 + ClockSkew + SessionMaxDuration
    BY LimitsAssumption, RetryAssumption
  <2> QED BY <2>1 DEF Init, LeaseEndsInTime
<1>2. CallInv /\ LeaseEndsInTime /\ [Next]_vars => LeaseEndsInTime'
  BY LeaseEndsStep
<1> QED BY <1>1, <1>2, CallInvariant, PTL DEF Spec

-----------------------------------------------------------------------------
(* Identity: a session ID stands for one request, whatever is in flight    *)

\* Call m, if it is about session i, is about the request (k, intent).
SameRequest(m, i, k, intent) ==
  m.id = i =>
    /\ m.pc \in {"create", "claim", "loadClaim"} => m.key = k
    /\ m.pc \in {"create", "loadIssue"} => m.intent = intent
    /\ m.pc \in {"claim", "loadClaim", "close"} => m.subject = SubjectOf[intent]

\* Call m agrees with the sessions stored and with the creates in flight.
Agrees(m) ==
  /\ \A i \in Ids : hash[i] # None => SameRequest(m, i, hash[i].key, hash[i].intent)
  /\ \A d \in Callers : caller[d].pc = "create" =>
       SameRequest(m, caller[d].id, caller[d].key, caller[d].intent)

\* Only an issued session carries a ticket to replay, and it is its own: a claim
\* erases it.
CipherIsTicket ==
  \A i \in Ids : hash[i] # None =>
    hash[i].cipher = IF hash[i].state = "issued" THEN i ELSE None

\* One call creates session i, and until its script has run there is none.
OneCreate ==
  /\ \A c, d \in Callers :
       (caller[c].pc = "create" /\ caller[d].pc = "create"
        /\ caller[c].id = caller[d].id) => c = d
  /\ \A c \in Callers : caller[c].pc = "create" /\ caller[c].tries = 0 =>
       hash[caller[c].id] = None

IdentityInv ==
  /\ KeyAndSessionLiveTogether
  /\ CipherIsTicket
  /\ \A c \in Callers : Agrees(caller[c])
  /\ OneCreate

\* Session i ends, is rewritten for the same request, or stays as it is.
SessionKept(i) ==
  hash'[i] # None =>
    /\ hash[i] # None
    /\ hash'[i].key = hash[i].key /\ hash'[i].intent = hash[i].intent
    /\ hash'[i].state = "issued" => hash[i].state = "issued"
    /\ hash'[i].cipher = IF hash'[i].state = "issued" THEN i ELSE None

\* The rewritings of a stored session keep its request.
LEMMA RewriteKeeps ==
  ASSUME CallInv, CipherIsTicket, NEW i \in Ids, NEW t \in Nat,
         \/ hash' = hash
         \/ hash[i] # None /\ hash' = [hash EXCEPT ![i] = TicketExpired(hash[i], t)]
         \/ hash[i] # None /\ hash' = [hash EXCEPT ![i] = Released(hash[i], t)]
  PROVE  /\ \A j \in Ids : SessionKept(j)
         /\ \A j \in Ids : hash[j] # None =>
              /\ hash'[j] # None
              /\ hash'[j].key = hash[j].key
              /\ hash'[j].tombstoneExpiresAt = hash[j].tombstoneExpiresAt
<1>1. hash \in [Ids -> Session \cup {None}]
  BY DEF CallInv, TypeOK
<1>2. CASE hash' = hash
  BY <1>1, <1>2 DEF SessionKept, CipherIsTicket
<1>3. ASSUME hash[i] # None, NEW r \in {TicketExpired(hash[i], t), Released(hash[i], t)},
             hash' = [hash EXCEPT ![i] = r]
      PROVE  /\ \A j \in Ids : SessionKept(j)
             /\ \A j \in Ids : hash[j] # None =>
                  /\ hash'[j] # None
                  /\ hash'[j].key = hash[j].key
                  /\ hash'[j].tombstoneExpiresAt = hash[j].tombstoneExpiresAt
  <2>1. hash[i] \in Session
    BY <1>1, <1>3
  <2>2. /\ r \in Session /\ r.key = hash[i].key /\ r.intent = hash[i].intent
        /\ r.cipher = None /\ r.state = "closed"
        /\ r.tombstoneExpiresAt = hash[i].tombstoneExpiresAt
    BY <1>3, <2>1, SessionUpdates
  <2>3. r # None
    BY <2>2, SessionFields
  <2> QED BY <1>1, <1>3, <2>2, <2>3 DEF SessionKept, CipherIsTicket
<1> QED BY <1>2, <1>3

\* A caller that moves to a call that agrees, while no session is created, keeps
\* everyone in agreement.
LEMMA AgreementKept ==
  ASSUME CallInv, IdentityInv, NEW c \in Callers, NEW n \in Call,
         caller' = [caller EXCEPT ![c] = n],
         \A i \in Ids : SessionKept(i),
         Agrees(n), n.pc = "create" => Resent(n, caller[c])
  PROVE  /\ \A d \in Callers : Agrees(caller[d])'
         /\ OneCreate'
<1>1. /\ caller \in [Callers -> Call]
      /\ \A d \in Callers : caller'[d] = IF d = c THEN n ELSE caller[d]
  BY DEF CallInv, TypeOK
<1>2. \A d \in Callers : caller'[d].pc = "create" =>
        /\ caller[d].pc = "create" /\ caller'[d].id = caller[d].id
        /\ caller'[d].key = caller[d].key /\ caller'[d].intent = caller[d].intent
        /\ caller'[d].tries = 0 => caller[d].tries = 0
  <2>1. caller[c].tries \in Nat
    BY <1>1, CallFields
  <2> QED BY <1>1, <2>1 DEF Resent
<1>3. \A d \in Callers : Agrees(caller'[d])
  BY <1>1 DEF IdentityInv
<1>4. ASSUME NEW d \in Callers
      PROVE  Agrees(caller[d])'
  BY <1>2, <1>3 DEF Agrees, SessionKept
<1>5. OneCreate'
  <2>1. \A d \in Callers : caller'[d].pc = "create" => caller'[d].id \in Ids
    BY <1>2 DEF CallInv, CallOK, TypeOK
  <2>2. ASSUME NEW d \in Callers, caller'[d].pc = "create", caller'[d].tries = 0
        PROVE  hash'[caller'[d].id] = None
    <3>1. hash[caller'[d].id] = None
      BY <1>2, <2>2 DEF OneCreate, IdentityInv
    <3> QED BY <2>1, <2>2, <3>1 DEF SessionKept
  <2>3. ASSUME NEW d \in Callers, NEW e \in Callers, caller'[d].pc = "create",
               caller'[e].pc = "create", caller'[d].id = caller'[e].id
        PROVE  d = e
    BY <1>2, <2>3 DEF OneCreate, IdentityInv
  <2> QED BY <2>2, <2>3 DEF OneCreate
<1> QED BY <1>4, <1>5

\* Calls that carry no request of a session agree with everything, and so does a
\* call that is sent again or goes on with the fields it had.
LEMMA AgreeingCalls ==
  ASSUME NEW m, NEW n, Agrees(m)
  PROVE  /\ n.pc \in {"idle", "get", "loadReplay", "identity", "subject"} => Agrees(n)
         /\ Resent(n, m) => Agrees(n)
         /\ Returns(n, m) => Agrees(n)
         /\ m.pc = "create" /\ Advanced(n, m, "loadIssue") => Agrees(n)
         /\ m.pc = "claim" /\ Advanced(n, m, "loadClaim") => Agrees(n)
<1>1. n.pc \in {"idle", "get", "loadReplay", "identity", "subject"} => Agrees(n)
  BY DEF Agrees, SameRequest
<1>2. Resent(n, m) => Agrees(n)
  BY DEF Agrees, SameRequest, Resent
<1>3. m.pc = "create" /\ Advanced(n, m, "loadIssue") => Agrees(n)
  BY DEF Agrees, SameRequest, Advanced
<1>4. m.pc = "claim" /\ Advanced(n, m, "loadClaim") => Agrees(n)
  BY DEF Agrees, SameRequest, Advanced
<1> QED BY <1>1, <1>2, <1>3, <1>4 DEF Returns

\* IdentityInv is inductive relative to CallInv.
LEMMA IdentityStep ==
  ASSUME CallInv, IdentityInv, [Next]_vars
  PROVE  IdentityInv'
<1> USE NoneAssumption, EntryAssumption
<1>1. CASE UNCHANGED vars
  BY <1>1 DEF vars, IdentityInv, KeyAndSessionLiveTogether, CipherIsTicket, Agrees,
              SameRequest, OneCreate
<1> SUFFICES ASSUME Next PROVE IdentityInv'
  BY <1>1
<1>2. /\ clock \in Nat /\ hash \in [Ids -> Session \cup {None}]
      /\ idem \in [Keys -> Entry \cup {None}] /\ caller \in [Callers -> Call]
      /\ drawn \subseteq Ids
  BY DEF CallInv, TypeOK
<1>3. /\ KeyAndSessionLiveTogether /\ CipherIsTicket /\ OneCreate
      /\ \A c \in Callers : Agrees(caller[c])
  BY DEF IdentityInv
<1>4. \A j \in Ids : hash[j] # None =>
        /\ hash[j] \in Session /\ hash[j].key \in Keys /\ hash[j].intent \in Intents
        /\ hash[j].tombstoneExpiresAt \in Nat
  BY <1>2, SessionFields
<1>5. \A k \in Keys : idem[k] # None =>
        idem[k] \in Entry /\ idem[k].id \in Ids /\ idem[k].expiresAt \in Nat
  BY <1>2 DEF Entry
\* Steps that rewrite at most one session and no key.
<1>6. ASSUME NEW c \in Callers, NEW n \in Call, caller' = [caller EXCEPT ![c] = n],
             Agrees(n), n.pc = "create" => Resent(n, caller[c]),
             idem' = idem, NEW i \in Ids, NEW t \in Nat,
             \/ hash' = hash
             \/ hash[i] # None /\ hash' = [hash EXCEPT ![i] = TicketExpired(hash[i], t)]
             \/ hash[i] # None /\ hash' = [hash EXCEPT ![i] = Released(hash[i], t)]
      PROVE  IdentityInv'
  <2>1. /\ \A j \in Ids : SessionKept(j)
        /\ \A j \in Ids : hash[j] # None =>
             /\ hash'[j] # None
             /\ hash'[j].key = hash[j].key
             /\ hash'[j].tombstoneExpiresAt = hash[j].tombstoneExpiresAt
    BY <1>3, <1>6, RewriteKeeps
  <2>2. (\A d \in Callers : Agrees(caller[d])') /\ OneCreate'
    BY <1>6, <2>1, AgreementKept
  <2>3. KeyAndSessionLiveTogether'
    BY <1>3, <1>5, <1>6, <2>1 DEF KeyAndSessionLiveTogether, SessionKept
  <2>4. CipherIsTicket'
    BY <2>1 DEF CipherIsTicket, SessionKept
  <2> QED BY <2>2, <2>3, <2>4 DEF IdentityInv
<1>7. ASSUME NEW c \in Callers, NEW n \in Call, caller' = [caller EXCEPT ![c] = n],
             IssueStep(c, n)
      PROVE  IdentityInv'
  <2>1. /\ hash' = hash /\ idem' = idem
        /\ n.id \in Ids /\ n.id \notin drawn
        /\ \A d \in Callers : caller'[d] = IF d = c THEN n ELSE caller[d]
        /\ n.pc = "create" /\ n.tries = 0
    BY <1>2, <1>7 DEF IssueStep
  <2>2. hash[n.id] = None
    BY <2>1 DEF CallInv
  <2>3. \A d \in Callers \ {c} : caller[d].pc \notin {"idle", "get"} => caller[d].id # n.id
    BY <2>1 DEF CallInv, CallOK
  <2>4. ASSUME NEW d \in Callers PROVE Agrees(caller[d])'
    <3>1. CASE d = c
      BY <2>1, <2>2, <2>3, <3>1 DEF Agrees, SameRequest
    <3>2. CASE d # c
      <4>1. Agrees(caller[d]) /\ caller'[d] = caller[d]
        BY <1>3, <2>1, <3>2
      <4>2. SameRequest(caller[d], n.id, n.key, n.intent)
        BY <2>3, <3>2 DEF SameRequest
      <4> QED BY <2>1, <4>1, <4>2 DEF Agrees
    <3> QED BY <3>1, <3>2
  <2>5. OneCreate'
    BY <1>3, <2>1, <2>2, <2>3 DEF OneCreate
  <2>6. KeyAndSessionLiveTogether' /\ CipherIsTicket'
    BY <1>3, <2>1 DEF KeyAndSessionLiveTogether, CipherIsTicket
  <2> QED BY <2>4, <2>5, <2>6 DEF IdentityInv
<1>8. ASSUME NEW c \in Callers, NEW n \in Call, caller' = [caller EXCEPT ![c] = n],
             ReadStep(c, n)
      PROVE  IdentityInv'
  <2> DEFINE m == caller[c]
  <2>1. hash' = hash /\ idem' = idem /\ m \in Call /\ Agrees(m) /\ n.pc # "create"
    BY <1>2, <1>3, <1>8 DEF ReadStep
  <2>2. Agrees(n)
    <3>1. CASE n.pc \in {"idle", "get", "loadReplay", "identity", "subject"}
      BY <2>1, <3>1, AgreeingCalls
    <3>2. CASE /\ m.pc = "identity" /\ n.pc = "claim" /\ n.id = m.id /\ hash[m.id] # None
               /\ n.key = hash[m.id].key /\ n.subject = Subject(hash[m.id])
      <4>1. m.id \in Ids
        BY <1>2, <3>2 DEF CallInv, CallOK
      <4>2. \A d \in Callers : SameRequest(caller[d], m.id, hash[m.id].key, hash[m.id].intent)
        BY <1>3, <3>2, <4>1 DEF Agrees
      <4> QED BY <3>2, <4>1, <4>2 DEF Agrees, SameRequest, Subject
    <3>3. CASE /\ m.pc = "subject" /\ n.pc = "close" /\ n.id = m.id /\ hash[m.id] # None
               /\ n.subject = Subject(hash[m.id])
      <4>1. m.id \in Ids
        BY <1>2, <3>3 DEF CallInv, CallOK
      <4>2. \A d \in Callers : SameRequest(caller[d], m.id, hash[m.id].key, hash[m.id].intent)
        BY <1>3, <3>3, <4>1 DEF Agrees
      <4> QED BY <3>3, <4>1, <4>2 DEF Agrees, SameRequest, Subject
    <3> QED BY <1>8, <3>1, <3>2, <3>3 DEF ReadStep
  <2>3. \A j \in Ids : SessionKept(j)
    BY <1>3, <2>1 DEF SessionKept, CipherIsTicket
  <2>4. (\A d \in Callers : Agrees(caller[d])') /\ OneCreate'
    BY <1>8, <2>1, <2>2, <2>3, AgreementKept
  <2>5. KeyAndSessionLiveTogether' /\ CipherIsTicket'
    BY <1>3, <2>1 DEF KeyAndSessionLiveTogether, CipherIsTicket
  <2> QED BY <2>4, <2>5 DEF IdentityInv
<1>9. ASSUME NEW c \in Callers, NEW n \in Call, caller' = [caller EXCEPT ![c] = n],
             CreateStep(c, n)
      PROVE  IdentityInv'
  <2> DEFINE m == caller[c]
             sid == idem[m.key].id
             tombstone == m.now + TicketTTL + IdempotencyTTL
             new == Candidate(m.id, m.key, m.intent, m.now)
             entry == [id |-> m.id, expiresAt |-> tombstone]
  <2>1. /\ m \in Call /\ m.pc = "create" /\ m.now \in Nat /\ Agrees(m)
        /\ m.key \in Keys /\ m.intent \in Intents /\ m.id \in Ids
    BY <1>2, <1>3, <1>9, CallFields DEF CallInv, CallOK, CreateStep
  <2>2. CASE /\ idem[m.key] = None
             /\ hash' = [hash EXCEPT ![m.id] = Kept(new, tombstone)]
             /\ idem' = [idem EXCEPT ![m.key] = Kept(entry, tombstone)]
             /\ Advanced(n, m, "loadIssue") \/ Resent(n, m)
    <3>1. /\ new \in Session /\ new # None /\ new.key = m.key /\ new.intent = m.intent
          /\ new.cipher = m.id /\ new.state = "issued"
          /\ new.tombstoneExpiresAt = tombstone
      BY <2>1, CandidateFields, SessionFields
    <3>2. entry # None /\ entry.id = m.id /\ entry.expiresAt = tombstone
      BY <2>1, LimitsAssumption DEF Entry
    <3> HIDE DEF new, entry, tombstone
    <3>3. hash[m.id] = None
      BY <1>3, <2>1, <2>2 DEF Agrees, SameRequest, KeyAndSessionLiveTogether
    <3>4. KeyAndSessionLiveTogether'
      <4>1. \A k \in Keys \ {m.key} : idem'[k] = idem[k]
        BY <1>2, <2>2
      <4>2. \A j \in Ids \ {m.id} : hash'[j] = hash[j]
        BY <1>2, <2>2
      <4>3. \/ hash'[m.id] = None /\ idem'[m.key] = None
            \/ hash'[m.id] = new /\ idem'[m.key] = entry
        BY <1>2, <2>1, <2>2 DEF Kept
      <4>4. \A k \in Keys \ {m.key} : idem[k] # None => idem[k].id # m.id
        BY <1>3, <3>3 DEF KeyAndSessionLiveTogether
      <4>5. \A j \in Ids \ {m.id} : hash[j] # None => hash[j].key # m.key
        BY <1>3, <2>2 DEF KeyAndSessionLiveTogether
      <4> QED BY <1>3, <1>4, <1>5, <2>1, <3>1, <3>2, <4>1, <4>2, <4>3, <4>4, <4>5
                 DEF KeyAndSessionLiveTogether
    <3>5. CipherIsTicket'
      BY <1>2, <1>3, <2>1, <2>2, <3>1 DEF CipherIsTicket, Kept
    <3>6. \A d \in Callers : SameRequest(caller[d], m.id, m.key, m.intent)
      BY <1>3, <2>1 DEF Agrees
    <3>7. Agrees(n)
      BY <2>1, <2>2, AgreeingCalls
    <3>8. SameRequest(n, m.id, m.key, m.intent)
      BY <2>1, <2>2 DEF SameRequest, Advanced, Resent, Agrees
    <3>9. \A d \in Callers :
            /\ caller'[d] = IF d = c THEN n ELSE caller[d]
            /\ caller'[d].pc = "create" =>
                 /\ caller[d].pc = "create" /\ caller'[d].id = caller[d].id
                 /\ caller'[d].key = caller[d].key /\ caller'[d].intent = caller[d].intent
                 /\ caller'[d].tries = 0 => caller[d].tries = 0 /\ d # c
      <4>1. m.tries \in Nat
        BY <2>1, CallFields
      <4> QED BY <1>2, <1>9, <2>2, <4>1 DEF Advanced, Resent
    <3>10. ASSUME NEW d \in Callers PROVE Agrees(caller[d])'
      <4>1. Agrees(caller'[d]) /\ SameRequest(caller'[d], m.id, m.key, m.intent)
        BY <1>3, <3>6, <3>7, <3>8, <3>9
      <4>2. \A j \in Ids : hash'[j] # None =>
              \/ j = m.id /\ hash'[j].key = m.key /\ hash'[j].intent = m.intent
              \/ hash[j] # None /\ hash'[j] = hash[j]
        BY <1>2, <2>1, <2>2, <3>1 DEF Kept
      <4> QED BY <3>9, <4>1, <4>2 DEF Agrees
    <3>11. OneCreate'
      <4>1. ASSUME NEW d \in Callers, caller'[d].pc = "create", caller'[d].tries = 0
            PROVE  hash'[caller'[d].id] = None
        <5>1. d # c /\ caller[d].pc = "create" /\ caller[d].tries = 0
          BY <3>9, <4>1
        <5>2. caller[d].id # m.id /\ caller[d].id \in Ids /\ hash[caller[d].id] = None
          BY <1>2, <1>3, <2>1, <5>1 DEF OneCreate, CallInv, CallOK
        <5> QED BY <1>2, <2>2, <3>9, <4>1, <5>2
      <4>2. ASSUME NEW d \in Callers, NEW e \in Callers, caller'[d].pc = "create",
                   caller'[e].pc = "create", caller'[d].id = caller'[e].id
            PROVE  d = e
        BY <1>3, <3>9, <4>2 DEF OneCreate
      <4> QED BY <4>1, <4>2 DEF OneCreate
    <3> QED BY <3>4, <3>5, <3>10, <3>11 DEF IdentityInv
  <2>3. CASE /\ idem[m.key] # None /\ MayExpire(sid, m.now) /\ idem' = idem
             /\ Returns(n, m)
    <3>1. Agrees(n) /\ (n.pc = "create" => Resent(n, m))
      BY <2>1, <2>3, AgreeingCalls DEF Returns
    <3>2. sid \in Ids
      BY <1>5, <2>1, <2>3
    <3> HIDE DEF sid
    <3> QED BY <1>6, <1>9, <2>1, <2>3, <3>1, <3>2 DEF MayExpire
  <2>4. CASE /\ idem[m.key] # None /\ hash[sid] # None /\ hash[sid].intent = m.intent
             /\ hash' = hash /\ idem' = idem
             /\ \/ n.pc = "loadIssue" /\ n.id = sid /\ n.intent = m.intent
                \/ Resent(n, m)
    <3>1. sid \in Ids
      BY <1>5, <2>1, <2>4
    <3> HIDE DEF sid
    <3>2. \A d \in Callers : SameRequest(caller[d], sid, hash[sid].key, hash[sid].intent)
      BY <1>3, <2>4, <3>1 DEF Agrees
    <3>3. Agrees(n) /\ (n.pc = "create" => Resent(n, m))
      <4>1. CASE n.pc = "loadIssue" /\ n.id = sid /\ n.intent = m.intent
        BY <2>4, <3>2, <4>1 DEF Agrees, SameRequest
      <4> QED BY <2>1, <2>4, <4>1, AgreeingCalls
    <3> QED BY <1>6, <1>9, <2>1, <2>4, <3>1, <3>3
  <2> QED BY <1>9, <2>2, <2>3, <2>4 DEF CreateStep
<1>10. ASSUME NEW c \in Callers, NEW n \in Call, caller' = [caller EXCEPT ![c] = n],
              ClaimStep(c, n)
       PROVE  IdentityInv'
  <2> DEFINE m == caller[c]
             tombstone == m.now + SessionMaxDuration + IdempotencyTTL
             new == Claimed(hash[m.id], m.now)
             entry == [id |-> idem[m.key].id, expiresAt |-> tombstone]
  <2>1. /\ m \in Call /\ m.pc = "claim" /\ m.now \in Nat /\ Agrees(m)
        /\ m.key \in Keys /\ m.id \in Ids
    BY <1>2, <1>3, <1>10, CallFields DEF CallInv, CallOK, ClaimStep
  <2>2. /\ Agrees(n) /\ (n.pc = "create" => Resent(n, m))
    BY <1>10, <2>1, AgreeingCalls DEF ClaimStep, Returns, Advanced
  <2>3. CASE idem' = idem /\ (hash' = hash \/ MayExpire(m.id, m.now))
    BY <1>6, <1>10, <2>1, <2>2, <2>3 DEF MayExpire
  <2>4. CASE /\ hash[m.id] # None
             /\ hash' = [hash EXCEPT ![m.id] = Kept(new, tombstone)]
             /\ idem' = IF idem[m.key] = None THEN idem
                        ELSE [idem EXCEPT ![m.key] = Kept(entry, tombstone)]
    <3>1. /\ hash[m.id].key = m.key /\ idem[m.key] # None /\ idem[m.key].id = m.id
      BY <1>3, <2>1, <2>4 DEF Agrees, SameRequest, KeyAndSessionLiveTogether
    <3>2. /\ new # None /\ new.key = m.key /\ new.intent = hash[m.id].intent
          /\ new.cipher = None /\ new.state = "claimed" /\ new.tombstoneExpiresAt = tombstone
      <4>1. hash[m.id] \in Session
        BY <1>4, <2>1, <2>4
      <4>2. /\ new \in Session /\ new.key = hash[m.id].key
            /\ new.intent = hash[m.id].intent /\ new.cipher = None
            /\ new.state = "claimed" /\ new.tombstoneExpiresAt = tombstone
        BY <2>1, <4>1, SessionUpdates
      <4> QED BY <3>1, <4>2, SessionFields
    <3>3. entry # None /\ entry.id = m.id /\ entry.expiresAt = tombstone
      <4>1. tombstone \in Nat
        BY <2>1, LimitsAssumption
      <4> QED BY <2>1, <3>1, <4>1 DEF Entry
    <3> HIDE DEF new, entry, tombstone
    <3>4. \A j \in Ids : SessionKept(j)
      BY <1>2, <1>3, <2>1, <2>4, <3>1, <3>2 DEF SessionKept, Kept, CipherIsTicket
    <3>5. (\A d \in Callers : Agrees(caller[d])') /\ OneCreate'
      BY <1>10, <2>2, <3>4, AgreementKept
    <3>6. CipherIsTicket'
      BY <3>4 DEF CipherIsTicket, SessionKept
    <3>7. KeyAndSessionLiveTogether'
      <4>1. \A k \in Keys \ {m.key} : idem'[k] = idem[k]
        BY <1>2, <2>4
      <4>2. \A j \in Ids \ {m.id} : hash'[j] = hash[j]
        BY <1>2, <2>4
      <4>3. \/ hash'[m.id] = None /\ idem'[m.key] = None
            \/ hash'[m.id] = new /\ idem'[m.key] = entry
        BY <1>2, <2>1, <2>4, <3>1 DEF Kept
      <4>4. \A k \in Keys \ {m.key} : idem[k] # None => idem[k].id # m.id
        BY <1>3, <3>1 DEF KeyAndSessionLiveTogether
      <4>5. \A j \in Ids \ {m.id} : hash[j] # None => hash[j].key # m.key
        BY <1>3, <3>1 DEF KeyAndSessionLiveTogether
      <4> QED BY <1>3, <1>4, <1>5, <2>1, <3>1, <3>2, <3>3, <4>1, <4>2, <4>3, <4>4, <4>5
                 DEF KeyAndSessionLiveTogether
    <3> QED BY <3>5, <3>6, <3>7 DEF IdentityInv
  <2> QED BY <1>10, <2>3, <2>4 DEF ClaimStep
<1>11. ASSUME NEW c \in Callers, NEW n \in Call, caller' = [caller EXCEPT ![c] = n],
              CloseStep(c, n)
       PROVE  IdentityInv'
  <2> DEFINE m == caller[c]
  <2>1. /\ m \in Call /\ m.pc = "close" /\ m.now \in Nat /\ Agrees(m) /\ m.id \in Ids
        /\ idem' = idem
    BY <1>2, <1>3, <1>11, CallFields DEF CallInv, CallOK, CloseStep
  <2>2. /\ Agrees(n) /\ (n.pc = "create" => Resent(n, m))
    BY <1>11, <2>1, AgreeingCalls DEF CloseStep, Returns
  <2> QED BY <1>6, <1>11, <2>1, <2>2 DEF CloseStep
<1>12. ASSUME NEW i \in Ids, HolderDies(i)
       PROVE  IdentityInv'
  <2>1. hash' = hash /\ idem' = idem /\ caller' = caller
    BY <1>12 DEF HolderDies, redis
  <2> QED BY <1>3, <2>1 DEF IdentityInv, KeyAndSessionLiveTogether, CipherIsTicket,
                            Agrees, SameRequest, OneCreate
<1>13. CASE Tick
  <2>1. /\ clock' = clock + 1 /\ caller' = caller
        /\ \A j \in Ids : hash'[j] = IF hash[j] # None /\ clock + 1 >= hash[j].tombstoneExpiresAt
                                     THEN None ELSE hash[j]
        /\ \A k \in Keys : idem'[k] = IF idem[k] # None /\ clock + 1 >= idem[k].expiresAt
                                      THEN None ELSE idem[k]
    BY <1>13 DEF Tick, UnexpiredHashes, UnexpiredKeys
  <2>2. KeyAndSessionLiveTogether'
    BY <1>3, <1>4, <1>5, <2>1 DEF KeyAndSessionLiveTogether
  <2>3. CipherIsTicket'
    BY <1>3, <2>1 DEF CipherIsTicket
  <2>4. ASSUME NEW d \in Callers PROVE Agrees(caller[d])'
    <3>1. Agrees(caller[d])
      BY <1>3
    <3> QED BY <2>1, <3>1 DEF Agrees
  <2>5. OneCreate'
    <3>1. \A d \in Callers : caller[d].pc = "create" => caller[d].id \in Ids
      BY <1>2 DEF CallInv, CallOK
    <3> QED BY <1>3, <2>1, <3>1 DEF OneCreate
  <2> QED BY <2>2, <2>3, <2>4, <2>5 DEF IdentityInv
<1> QED BY <1>7, <1>8, <1>9, <1>10, <1>11, <1>12, <1>13, NextIsSteps DEF Steps

\* A session ID stands for one request in every reachable state.
THEOREM IdentityInvariant == Spec => []IdentityInv
<1>1. Init => IdentityInv
  BY IdleCall DEF Init, IdentityInv, KeyAndSessionLiveTogether, CipherIsTicket,
                  Agrees, SameRequest, OneCreate
<1>2. CallInv /\ IdentityInv /\ [Next]_vars => IdentityInv'
  BY IdentityStep
<1> QED BY <1>1, <1>2, CallInvariant, PTL DEF Spec

\* A session and its idempotency key are written, extended and expired together.
THEOREM KeyAndSession == Spec => []KeyAndSessionLiveTogether
<1>1. IdentityInv => KeyAndSessionLiveTogether
  BY DEF IdentityInv
<1> QED BY <1>1, IdentityInvariant, PTL

-----------------------------------------------------------------------------
(* Answers                                                                 *)

\* Issue and Replay answer the ticket of the session they name, which was
\* created for the request, whatever happened since the script found it.
THEOREM TicketMatchesRequest == Spec => []IssuedTicketMatchesRequest
<1>1. Init => IssuedTicketMatchesRequest
  BY IdleCall DEF Init, IssuedTicketMatchesRequest
<1>2. ASSUME CallInv, IdentityInv, IssuedTicketMatchesRequest, [Next]_vars
      PROVE  IssuedTicketMatchesRequest'
  <2>1. CASE UNCHANGED vars
    BY <1>2, <2>1 DEF vars, IssuedTicketMatchesRequest
  <2>2. CASE reply'.op \in {"none", "claim"}
    BY <2>2 DEF IssuedTicketMatchesRequest
  <2>3. ASSUME NEW c \in Callers,
               LoadIssue(c) \/ \E now \in Readings : LoadReplay(c, now)
        PROVE  IssuedTicketMatchesRequest'
    <3> DEFINE m == caller[c]
               s == hash[m.id]
    <3>1. /\ hash' = hash /\ m.id \in Ids
          /\ \/ reply' = Silent
             \/ /\ m.pc = "loadIssue" /\ s # None
                /\ reply'.op = "issue" /\ reply'.id = m.id /\ reply'.intent = m.intent
                /\ \/ reply'.err = "ok" /\ reply'.ticket = m.id
                   \/ reply'.err = "replayed" /\ reply'.ticket = s.cipher /\ s.cipher # None
             \/ /\ s # None /\ s.state = "issued"
                /\ reply'.op = "replay" /\ reply'.err = "replayed" /\ reply'.id = m.id
                /\ reply'.ticket = s.cipher
      BY <1>2, <2>3, LoadReplies
    <3>2. s # None => s.cipher = IF s.state = "issued" THEN m.id ELSE None
      BY <1>2, <3>1 DEF IdentityInv, CipherIsTicket
    <3>3. s # None /\ m.pc = "loadIssue" => s.intent = m.intent
      BY <1>2, <3>1 DEF IdentityInv, Agrees, SameRequest
    <3> QED BY <3>1, <3>2, <3>3, IdleCall DEF IssuedTicketMatchesRequest
  <2> QED BY <1>2, <2>1, <2>2, <2>3, ReplyCases, ClaimEffect, IdleCall
<1> QED BY <1>1, <1>2, CallInvariant, IdentityInvariant, PTL DEF Spec

\* What the script counts is what is unexpired at the caller's time.
LEMMA SweptMembers ==
  ASSUME NEW z \in [Ids -> Nat], NEW t \in Nat
  PROVE  LET y == ZRemRangeByScore(z, t)
         IN Members(y) = {i \in Ids : y[i] > t}
BY DEF ZRemRangeByScore, Members

\* The capacity answer is given in the state the script leaves, for the subject
\* of the session it was asked for.
LEMMA CapacityAnswer ==
  ASSUME CallInv, IdentityInv, NEW c \in Callers, ClaimScript(c), reply'.op = "claim"
  PROVE  CapacityRefusalIsReal'
<1> DEFINE m == caller[c]
           s == hash[m.id]
           G == ZRemRangeByScore(global, m.now)
           U == ZRemRangeByScore(bySubject[m.subject], m.now)
           answer == [op |-> "claim", err |-> "Capacity", id |-> m.id,
                      ticket |-> None, intent |-> s.intent, now |-> m.now]
<1>1. /\ m \in Call /\ m.pc = "claim" /\ m.id \in Ids /\ m.subject \in Subjects
      /\ m.now \in Nat /\ global \in [Ids -> Nat]
      /\ bySubject \in [Subjects -> [Ids -> Nat]]
      /\ bySubject[m.subject] \in [Ids -> Nat]
  BY CallFields DEF ClaimScript, CallInv, CallOK, TypeOK
<1>2. /\ s # None /\ AtCapacity(G, U) /\ reply' = answer
      /\ global' = G /\ bySubject' = [bySubject EXCEPT ![m.subject] = U]
  <2>1. Silent.op # "claim"
    BY IdleCall
  <2>2. \A next, a : Arrive(c, next, a) => reply' = a \/ reply' = Silent
    BY DEF Arrive
  <2> HIDE DEF G, U, answer
  <2>3. \A next : ~Arrive(c, next, Silent)
    BY <2>1, <2>2
  <2> QED BY <2>1, <2>2, <2>3 DEF ClaimScript, G, U, answer
<1>3. SubjectOf[s.intent] = m.subject
  BY <1>1, <1>2 DEF IdentityInv, Agrees, SameRequest
<1>4. reply'.now = m.now /\ SubjectOf[reply'.intent] = m.subject
  BY <1>2, <1>3
<1>5. bySubject'[m.subject] = U
  BY <1>1, <1>2
<1>6. Members(G) = {i \in Ids : G[i] > m.now} /\ Members(U) = {i \in Ids : U[i] > m.now}
  BY <1>1, SweptMembers
<1> HIDE DEF G, U
<1>7. \/ Cardinality({i \in Ids : G[i] > m.now}) >= MaxActive
      \/ Cardinality({i \in Ids : U[i] > m.now}) >= MaxActivePerSubject
  BY <1>2, <1>6 DEF AtCapacity, ZCard
<1>8. \/ Cardinality({i \in Ids : global'[i] > reply'.now}) >= MaxActive
      \/ Cardinality({i \in Ids : bySubject'[SubjectOf[reply'.intent]][i] > reply'.now})
           >= MaxActivePerSubject
  <2>1. {i \in Ids : global'[i] > reply'.now} = {i \in Ids : G[i] > m.now}
    BY <1>2, <1>4
  <2>2. {i \in Ids : bySubject'[SubjectOf[reply'.intent]][i] > reply'.now}
          = {i \in Ids : U[i] > m.now}
    BY <1>4, <1>5
  <2> QED BY <1>7, <2>1, <2>2
<1> QED BY <1>8 DEF CapacityRefusalIsReal

\* ErrCapacity is never answered while the unexpired leases leave room.
THEOREM CapacityRefusals == Spec => []CapacityRefusalIsReal
<1>1. Init => CapacityRefusalIsReal
  BY IdleCall DEF Init, CapacityRefusalIsReal
<1>2. ASSUME CallInv, IdentityInv, CapacityRefusalIsReal, [Next]_vars
      PROVE  CapacityRefusalIsReal'
  <2>1. CASE UNCHANGED vars
    BY <1>2, <2>1 DEF vars, CapacityRefusalIsReal
  <2>2. CASE reply'.op # "claim"
    BY <2>2 DEF CapacityRefusalIsReal
  <2>3. CASE Next /\ reply'.op = "claim"
    <3>1. ASSUME NEW c \in Callers,
                 LoadIssue(c) \/ \E now \in Readings : LoadReplay(c, now)
          PROVE  FALSE
      BY <1>2, <2>3, <3>1, LoadReplies, IdleCall
    <3> QED BY <1>2, <2>3, <3>1, ReplyCases, CapacityAnswer, IdleCall
  <2> QED BY <1>2, <2>1, <2>2, <2>3
<1> QED BY <1>1, <1>2, CallInvariant, IdentityInvariant, PTL DEF Spec

-----------------------------------------------------------------------------
(* Claims: a ticket is consumed at most once                               *)

\* If scripts are resent, they are resent only while the tombstone of a session
\* that was created and claimed with skewed clocks is sure to be there.
RetryMargin ==
  MaxRetries > 0 => RetryWindow + 2 * ClockSkew < SessionMaxDuration + IdempotencyTTL

\* The create m can no longer store its session: it is not resent any more, or
\* meets the session's tombstone.
Settled(m) ==
  /\ m.tries > 0
  /\ \/ clock > m.now + RetryWindow
     \/ hash[m.id] # None /\ hash[m.id].tombstoneExpiresAt > m.now + RetryWindow

ClaimInv ==
  /\ \A i \in Ids : \/ grants[i] = 0
                    \/ /\ grants[i] = 1 /\ i \in drawn
                       /\ hash[i] # None => hash[i].state # "issued"
  /\ \A c \in Callers : caller[c].pc = "create" =>
       grants[caller[c].id] = 0 \/ Settled(caller[c])
  /\ \A c, d \in Callers :
       (caller[c].pc = "create" /\ caller[d].pc \in {"identity", "claim"}
        /\ caller[c].id = caller[d].id)
         => caller[c].now <= caller[d].now + 2 * ClockSkew

\* A create script that stores a session stores one that was never claimed.
LEMMA CreateUnclaimed ==
  ASSUME CallInv, IdentityInv, ClaimInv, NEW c \in Callers,
         caller[c].pc = "create", Deliverable(caller[c]), idem[caller[c].key] = None
  PROVE  hash[caller[c].id] = None /\ grants[caller[c].id] = 0
<1> DEFINE m == caller[c]
<1>1. m.id \in Ids /\ m.key \in Keys /\ m.now \in Nat /\ m.tries \in Nat /\ clock \in Nat
  BY CallFields DEF CallInv, CallOK, TypeOK
<1>2. hash[m.id] = None
  BY <1>1 DEF IdentityInv, Agrees, SameRequest, KeyAndSessionLiveTogether
<1>3. ~Settled(m)
  BY <1>1, <1>2, RetryAssumption DEF Settled, Deliverable
<1> QED BY <1>2, <1>3 DEF ClaimInv

\* ClaimInv is inductive relative to CallInv and IdentityInv.
LEMMA ClaimInvStep ==
  ASSUME RetryMargin, CallInv, IdentityInv, ClaimInv, [Next]_vars
  PROVE  ClaimInv'
<1> USE NoneAssumption
<1>1. CASE UNCHANGED vars
  BY <1>1 DEF vars, ClaimInv, Settled
<1> SUFFICES ASSUME Next PROVE ClaimInv'
  BY <1>1
<1>2. /\ clock \in Nat /\ hash \in [Ids -> Session \cup {None}]
      /\ caller \in [Callers -> Call] /\ drawn \subseteq Ids /\ grants \in [Ids -> Nat]
      /\ ClockSkew \in Nat /\ RetryWindow \in Nat /\ MaxRetries \in Nat
  BY RetryAssumption DEF CallInv, TypeOK
<1>3. /\ CipherIsTicket /\ OneCreate
      /\ \A c \in Callers : caller[c].pc \in {"create", "identity", "claim"} =>
                              caller[c].id \in Ids
      /\ \A c \in Callers : caller[c].now \in Nat /\ caller[c].now <= clock + ClockSkew
      /\ \A c \in Callers : caller[c].tries \in 0..MaxRetries
  BY <1>2, CallFields DEF IdentityInv, CallInv, CallOK
\* Steps that grant nothing and rewrite at most one session.
<1>4. ASSUME NEW c \in Callers, NEW n \in Call, caller' = [caller EXCEPT ![c] = n],
             clock' = clock, drawn' = drawn, grants' = grants,
             n.pc = "create" => Resent(n, caller[c]),
             n.pc \in {"identity", "claim"} =>
               \/ n.now + ClockSkew >= clock
               \/ /\ caller[c].pc \in {"identity", "claim"}
                  /\ n.id = caller[c].id /\ n.now = caller[c].now,
             NEW i \in Ids, NEW t \in Nat,
             \/ hash' = hash
             \/ hash[i] # None /\ hash' = [hash EXCEPT ![i] = TicketExpired(hash[i], t)]
             \/ hash[i] # None /\ hash' = [hash EXCEPT ![i] = Released(hash[i], t)]
      PROVE  ClaimInv'
  <2>1. /\ \A j \in Ids : SessionKept(j)
        /\ \A j \in Ids : hash[j] # None =>
             /\ hash'[j] # None
             /\ hash'[j].tombstoneExpiresAt = hash[j].tombstoneExpiresAt
    BY <1>3, <1>4, RewriteKeeps
  <2>2. \A d \in Callers : caller'[d] = IF d = c THEN n ELSE caller[d]
    BY <1>2, <1>4
  <2>3. \A d \in Callers : caller'[d].pc = "create" =>
          /\ caller[d].pc = "create" /\ caller'[d].id = caller[d].id
          /\ caller'[d].now = caller[d].now
          /\ caller[d].tries > 0 => caller'[d].tries > 0
    BY <1>3, <1>4, <2>2 DEF Resent
  <2>4. \A j \in Ids : \/ grants'[j] = 0
                       \/ /\ grants'[j] = 1 /\ j \in drawn'
                          /\ hash'[j] # None => hash'[j].state # "issued"
    BY <1>4, <2>1 DEF ClaimInv, SessionKept
  <2>5. ASSUME NEW d \in Callers, caller'[d].pc = "create"
        PROVE  grants'[caller'[d].id] = 0 \/ Settled(caller[d])'
    <3>1. grants[caller[d].id] = 0 \/ Settled(caller[d])
      BY <2>3, <2>5 DEF ClaimInv
    <3> QED BY <1>3, <1>4, <2>1, <2>3, <2>5, <3>1 DEF Settled
  <2>6. ASSUME NEW d \in Callers, NEW e \in Callers, caller'[d].pc = "create",
               caller'[e].pc \in {"identity", "claim"}, caller'[d].id = caller'[e].id
        PROVE  caller'[d].now <= caller'[e].now + 2 * ClockSkew
    <3>1. /\ caller[d].pc = "create" /\ caller'[d].id = caller[d].id
          /\ caller'[d].now = caller[d].now
      BY <2>3, <2>6
    <3>2. CASE e # c
      BY <2>2, <2>6, <3>1, <3>2 DEF ClaimInv
    <3>3. CASE e = c
      <4>1. CASE n.now + ClockSkew >= clock
        <5>1. caller[d].now \in Nat /\ caller[d].now <= clock + ClockSkew /\ n.now \in Nat
          BY <1>3, CallFields
        <5>2. caller[d].now <= n.now + 2 * ClockSkew
          BY <1>2, <4>1, <5>1
        <5> QED BY <2>2, <3>1, <3>3, <5>2
      <4>2. CASE /\ caller[c].pc \in {"identity", "claim"}
                 /\ n.id = caller[c].id /\ n.now = caller[c].now
        BY <2>2, <2>6, <3>1, <3>3, <4>2 DEF ClaimInv
      <4> QED BY <1>4, <2>2, <2>6, <3>3, <4>1, <4>2
    <3> QED BY <3>2, <3>3
  <2> QED BY <2>4, <2>5, <2>6 DEF ClaimInv
<1>5. ASSUME NEW c \in Callers, NEW n \in Call, caller' = [caller EXCEPT ![c] = n],
             IssueStep(c, n)
      PROVE  ClaimInv'
  <2>1. /\ hash' = hash /\ clock' = clock /\ grants' = grants /\ drawn' = drawn \cup {n.id}
        /\ n.id \in Ids /\ n.id \notin drawn /\ n.pc = "create"
        /\ \A d \in Callers : caller'[d] = IF d = c THEN n ELSE caller[d]
    BY <1>2, <1>5 DEF IssueStep
  <2>2. grants[n.id] = 0
    BY <2>1 DEF ClaimInv
  <2>3. \A d \in Callers : caller[d].pc \in {"identity", "claim"} => caller[d].id # n.id
    BY <2>1 DEF CallInv, CallOK
  <2>4. ASSUME NEW d \in Callers, caller'[d].pc = "create"
        PROVE  grants'[caller'[d].id] = 0 \/ Settled(caller[d])'
    BY <2>1, <2>2, <2>4 DEF ClaimInv, Settled
  <2>5. ASSUME NEW d \in Callers, NEW e \in Callers, caller'[d].pc = "create",
               caller'[e].pc \in {"identity", "claim"}, caller'[d].id = caller'[e].id
        PROVE  caller'[d].now <= caller'[e].now + 2 * ClockSkew
    BY <2>1, <2>3, <2>5 DEF ClaimInv
  <2>6. \A j \in Ids : \/ grants'[j] = 0
                       \/ /\ grants'[j] = 1 /\ j \in drawn'
                          /\ hash'[j] # None => hash'[j].state # "issued"
    BY <2>1 DEF ClaimInv
  <2> QED BY <2>4, <2>5, <2>6 DEF ClaimInv
<1>6. ASSUME NEW c \in Callers, NEW n \in Call, caller' = [caller EXCEPT ![c] = n],
             ReadStep(c, n)
      PROVE  ClaimInv'
  <2>1. /\ hash' = hash /\ clock' = clock /\ grants' = grants /\ drawn' = drawn
        /\ n.pc # "create"
        /\ n.pc \in {"identity", "claim"} =>
             \/ n.now + ClockSkew >= clock
             \/ /\ caller[c].pc \in {"identity", "claim"}
                /\ n.id = caller[c].id /\ n.now = caller[c].now
    BY <1>6 DEF ReadStep
  <2>2. CASE \E i \in Ids : TRUE
    BY <1>4, <1>6, <2>1, <2>2
  <2>3. CASE Ids = {}
    <3>1. \A d \in Callers : caller'[d].pc = "create" => FALSE
      BY <1>2, <1>3, <1>6, <2>1, <2>3
    <3> QED BY <2>3, <3>1 DEF ClaimInv
  <2> QED BY <2>2, <2>3
<1>7. ASSUME NEW c \in Callers, NEW n \in Call, caller' = [caller EXCEPT ![c] = n],
             CreateStep(c, n)
      PROVE  ClaimInv'
  <2> DEFINE m == caller[c]
             sid == idem[m.key].id
             tombstone == m.now + TicketTTL + IdempotencyTTL
             new == Candidate(m.id, m.key, m.intent, m.now)
  <2>1. /\ m \in Call /\ m.pc = "create" /\ m.now \in Nat /\ Deliverable(m)
        /\ m.key \in Keys /\ m.intent \in Intents /\ m.id \in Ids
        /\ clock' = clock /\ grants' = grants /\ drawn' = drawn
        /\ n.pc = "create" => Resent(n, m)
        /\ n.pc \notin {"identity", "claim"}
    BY <1>2, <1>7, CallFields DEF CallInv, CallOK, CreateStep, Returns, Resent, Advanced
  <2>2. CASE /\ idem[m.key] = None
             /\ hash' = [hash EXCEPT ![m.id] = Kept(new, tombstone)]
    <3>1. hash[m.id] = None /\ grants[m.id] = 0
      BY <2>1, <2>2, CreateUnclaimed
    <3>2. \A d \in Callers : caller'[d] = IF d = c THEN n ELSE caller[d]
      BY <1>2, <1>7
    <3>3. \A j \in Ids \ {m.id} : hash'[j] = hash[j]
      BY <1>2, <2>2
    <3>4. \A j \in Ids : \/ grants'[j] = 0
                         \/ /\ grants'[j] = 1 /\ j \in drawn'
                            /\ hash'[j] # None => hash'[j].state # "issued"
      BY <2>1, <3>1, <3>3 DEF ClaimInv
    <3>5. ASSUME NEW d \in Callers, caller'[d].pc = "create"
          PROVE  grants'[caller'[d].id] = 0 \/ Settled(caller[d])'
      <4>1. CASE d = c
        BY <2>1, <3>1, <3>2, <3>5, <4>1 DEF Resent
      <4>2. CASE d # c
        <5>1. caller'[d] = caller[d] /\ caller[d].pc = "create" /\ caller[d].id \in Ids
          BY <1>3, <3>2, <3>5, <4>2
        <5>2. caller[d].id # m.id
          BY <1>3, <2>1, <4>2, <5>1 DEF OneCreate
        <5> QED BY <2>1, <3>3, <5>1, <5>2 DEF ClaimInv, Settled
      <4> QED BY <4>1, <4>2
    <3>6. ASSUME NEW d \in Callers, NEW e \in Callers, caller'[d].pc = "create",
                 caller'[e].pc \in {"identity", "claim"}, caller'[d].id = caller'[e].id
          PROVE  caller'[d].now <= caller'[e].now + 2 * ClockSkew
      BY <2>1, <3>2, <3>6 DEF ClaimInv, Resent
    <3> QED BY <3>4, <3>5, <3>6 DEF ClaimInv
  <2>3. CASE idem[m.key] # None /\ MayExpire(sid, m.now)
    <3>1. sid \in Ids
      BY <2>1, <2>3 DEF CallInv, TypeOK, Entry
    <3> HIDE DEF sid
    <3> QED BY <1>4, <1>7, <2>1, <2>3, <3>1 DEF MayExpire
  <2>4. CASE hash' = hash
    BY <1>4, <1>7, <2>1, <2>4
  <2> QED BY <1>7, <2>2, <2>3, <2>4 DEF CreateStep
<1>8. ASSUME NEW c \in Callers, NEW n \in Call, caller' = [caller EXCEPT ![c] = n],
             ClaimStep(c, n)
      PROVE  ClaimInv'
  <2> DEFINE m == caller[c]
             tombstone == m.now + SessionMaxDuration + IdempotencyTTL
             new == Claimed(hash[m.id], m.now)
  <2>1. /\ m \in Call /\ m.pc = "claim" /\ m.now \in Nat
        /\ m.id \in Ids /\ m.id \in drawn
        /\ clock' = clock /\ drawn' = drawn
        /\ n.pc # "create"
        /\ n.pc \in {"identity", "claim"} => n.id = m.id /\ n.now = m.now
    BY <1>2, <1>8, CallFields DEF CallInv, CallOK, ClaimStep, Returns, Resent, Advanced
  <2>2. CASE grants' = grants /\ (hash' = hash \/ MayExpire(m.id, m.now))
    BY <1>4, <1>8, <2>1, <2>2 DEF MayExpire
  <2>3. CASE /\ hash[m.id] # None /\ hash[m.id].state = "issued"
             /\ hash' = [hash EXCEPT ![m.id] = Kept(new, tombstone)]
             /\ grants' = [grants EXCEPT ![m.id] = grants[m.id] + 1]
    <3>1. grants[m.id] = 0 /\ grants'[m.id] = 1 /\ \A j \in Ids \ {m.id} : grants'[j] = grants[j]
      BY <1>2, <2>1, <2>3 DEF ClaimInv
    <3>2. /\ new \in Session /\ new # None /\ new.state = "claimed"
          /\ new.tombstoneExpiresAt = tombstone /\ tombstone \in Nat
      <4>1. hash[m.id] \in Session
        BY <1>2, <2>1, <2>3
      <4>2. new \in Session /\ new.state = "claimed" /\ new.tombstoneExpiresAt = tombstone
        BY <2>1, <4>1, SessionUpdates
      <4>3. tombstone \in Nat
        BY <2>1, LimitsAssumption
      <4> QED BY <4>2, <4>3, SessionFields
    <3>3. \A d \in Callers : caller'[d] = IF d = c THEN n ELSE caller[d]
      BY <1>2, <1>8
    <3>4. /\ hash'[m.id] = Kept(new, tombstone)
          /\ \A j \in Ids \ {m.id} : hash'[j] = hash[j]
      BY <1>2, <2>1, <2>3
    <3>5. \A j \in Ids : \/ grants'[j] = 0
                         \/ /\ grants'[j] = 1 /\ j \in drawn'
                            /\ hash'[j] # None => hash'[j].state # "issued"
      <4> HIDE DEF new, tombstone
      <4> QED BY <2>1, <3>1, <3>2, <3>4 DEF ClaimInv, Kept
    <3>6. ASSUME NEW d \in Callers, caller'[d].pc = "create"
          PROVE  grants'[caller'[d].id] = 0 \/ Settled(caller[d])'
      <4>1. d # c /\ caller'[d] = caller[d] /\ caller[d].pc = "create" /\ caller[d].id \in Ids
        BY <1>3, <2>1, <3>3, <3>6
      <4>2. CASE caller[d].id # m.id
        BY <2>1, <3>1, <3>4, <4>1, <4>2 DEF ClaimInv, Settled
      <4>3. CASE caller[d].id = m.id
        <5>1. caller[d].tries > 0 /\ MaxRetries > 0 /\ caller[d].now \in Nat
          BY <1>2, <1>3, <2>3, <4>1, <4>3 DEF OneCreate
        <5>2. caller[d].now <= m.now + 2 * ClockSkew
          BY <2>1, <4>1, <4>3 DEF ClaimInv
        <5>3. caller[d].now + RetryWindow < tombstone
          BY <1>2, <2>1, <5>1, <5>2, LimitsAssumption DEF RetryMargin
        <5> HIDE DEF new, tombstone
        <5> QED BY <1>2, <2>1, <3>2, <3>4, <4>1, <4>3, <5>1, <5>3 DEF Settled, Kept
      <4> QED BY <4>2, <4>3
    <3>7. ASSUME NEW d \in Callers, NEW e \in Callers, caller'[d].pc = "create",
                 caller'[e].pc \in {"identity", "claim"}, caller'[d].id = caller'[e].id
          PROVE  caller'[d].now <= caller'[e].now + 2 * ClockSkew
      BY <2>1, <3>3, <3>7 DEF ClaimInv
    <3> QED BY <3>5, <3>6, <3>7 DEF ClaimInv
  <2> QED BY <1>8, <2>2, <2>3 DEF ClaimStep
<1>9. ASSUME NEW c \in Callers, NEW n \in Call, caller' = [caller EXCEPT ![c] = n],
             CloseStep(c, n)
      PROVE  ClaimInv'
  <2>1. /\ caller[c].pc = "close" /\ caller[c].id \in Ids /\ caller[c].now \in Nat
        /\ clock' = clock /\ drawn' = drawn /\ grants' = grants
        /\ n.pc \notin {"create", "identity", "claim"}
    BY <1>2, <1>3, <1>9 DEF CallInv, CallOK, CloseStep, Returns, Resent
  <2> QED BY <1>4, <1>9, <2>1 DEF CloseStep
<1>10. ASSUME NEW i \in Ids, HolderDies(i)
       PROVE  ClaimInv'
  <2>1. UNCHANGED <<clock, hash, caller, drawn, grants>>
    BY <1>10 DEF HolderDies, redis
  <2> QED BY <2>1 DEF ClaimInv, Settled
<1>11. CASE Tick
  <2>1. /\ clock' = clock + 1 /\ caller' = caller /\ drawn' = drawn /\ grants' = grants
        /\ \A j \in Ids : hash'[j] = IF hash[j] # None /\ clock + 1 >= hash[j].tombstoneExpiresAt
                                     THEN None ELSE hash[j]
    BY <1>11 DEF Tick, UnexpiredHashes
  <2>2. ASSUME NEW d \in Callers, caller[d].pc = "create", Settled(caller[d])
        PROVE  Settled(caller[d])'
    <3>1. caller[d].id \in Ids /\ caller[d].now \in Nat
      BY <1>3, <2>2
    <3>2. hash[caller[d].id] # None => hash[caller[d].id].tombstoneExpiresAt \in Nat
      BY <1>2, <3>1, SessionFields
    <3> QED BY <1>2, <2>1, <2>2, <3>1, <3>2 DEF Settled
  <2> QED BY <2>1, <2>2 DEF ClaimInv
<1> QED BY <1>5, <1>6, <1>7, <1>8, <1>9, <1>10, <1>11, NextIsSteps DEF Steps

\* ClaimInv holds if the retry margin does.
THEOREM ClaimInvariant == RetryMargin => (Spec => []ClaimInv)
<1> SUFFICES ASSUME RetryMargin PROVE Spec => []ClaimInv
  OBVIOUS
<1>1. Init => ClaimInv
  BY IdleCall DEF Init, ClaimInv
<1>2. CallInv /\ IdentityInv /\ ClaimInv /\ [Next]_vars => ClaimInv'
  BY ClaimInvStep
<1> QED BY <1>1, <1>2, CallInvariant, IdentityInvariant, PTL DEF Spec

\* A ticket is consumed at most once, however many callers race for it and
\* however often the scripts are resent, if the retry margin holds.
THEOREM OneClaimPerTicket == RetryMargin => (Spec => []SingleClaim)
<1>1. ClaimInv => SingleClaim
  BY DEF ClaimInv, SingleClaim
<1> QED BY <1>1, ClaimInvariant, PTL

-----------------------------------------------------------------------------
(* Holders: who has a lease, and for how long                              *)

\* Session i is claimed and has a lease until t in both sorted sets.
Held(i, t) ==
  /\ hash[i] # None /\ hash[i].state = "claimed"
  /\ hash[i].tombstoneExpiresAt = t + IdempotencyTTL
  /\ global[i] = t /\ bySubject[Subject(hash[i])][i] = t

NoLease(i) == global[i] = 0 /\ \A u \in Subjects : bySubject[u][i] = 0

\* The rest of the life of a granted claim, up to the end of its close.
Holding == {"loadClaim", "subject", "close"}

\* Only a granted session has a lease or a holder; it has one holder at a time.
HolderInv ==
  /\ \A i \in Ids : grants[i] = 0 => NoLease(i) /\ access[i] = 0
  /\ \A c \in Callers : caller[c].pc \in Holding =>
       grants[caller[c].id] = 1 /\ access[caller[c].id] = 0
  /\ \A c, d \in Callers :
       (caller[c].pc \in Holding /\ caller[d].pc \in Holding
        /\ caller[c].id = caller[d].id) => c = d

\* Leases are those of the session's subject, and end with the session.
LeaseOwnerInv ==
  \A i \in Ids : hash[i] # None =>
    /\ grants[i] = 0 => hash[i].state # "claimed"
    /\ \A u \in Subjects : bySubject[u][i] # 0 => u = Subject(hash[i])
    /\ hash[i].state = "closed" => NoLease(i)

\* A lease that no clock has seen expire is still there.
HeldInv ==
  /\ \A i \in Ids : access[i] > clock + ClockSkew => Held(i, access[i])
  /\ \A c \in Callers :
       (caller[c].pc = "loadClaim"
        /\ caller[c].now + SessionMaxDuration > clock + ClockSkew)
         => Held(caller[c].id, caller[c].now + SessionMaxDuration)

LeaseInv == HolderInv /\ LeaseOwnerInv /\ HeldInv

\* The new score of a lease: the old one, 0, or one that was not there.
Swept(new, old) == new = old \/ (new = 0 /\ old <= clock + ClockSkew)

\* The parts of a step that LeaseInv depends on, when the step grants nothing:
\* caller c moves to n, session x may change.
QuietStep(c, n, x) ==
  /\ caller' = [caller EXCEPT ![c] = n]
  /\ clock' = clock /\ grants' = grants /\ access' = access
  /\ n.pc \in Holding => /\ caller[c].pc \in Holding /\ n.id = caller[c].id
                         /\ n.pc # "loadClaim"
  /\ \A i \in Ids \ {x} : hash'[i] = hash[i]
  /\ \A i \in Ids : Swept(global'[i], global[i])
  /\ \A i \in Ids, u \in Subjects : Swept(bySubject'[u][i], bySubject[u][i])

\* A quiet step keeps LeaseInv if session x, when it changes, was not claimed.
LEMMA QuietKeepsLeases ==
  ASSUME CallInv, CallInv', ClaimInv, LeaseInv, NEW c \in Callers, NEW n \in Call,
         NEW x, QuietStep(c, n, x),
         \/ x \notin Ids
         \/ hash'[x] = hash[x]
         \/ grants[x] = 0 /\ (hash'[x] # None => hash'[x].state # "claimed")
  PROVE  LeaseInv'
<1>1. /\ clock \in Nat /\ global \in [Ids -> Nat] /\ bySubject \in [Subjects -> [Ids -> Nat]]
      /\ caller \in [Callers -> Call] /\ access \in [Ids -> Nat]
      /\ hash \in [Ids -> Session \cup {None}]
      /\ ClockSkew \in Nat /\ IdempotencyTTL \in Nat /\ SessionMaxDuration \in Nat
  BY LimitsAssumption, RetryAssumption DEF CallInv, TypeOK
<1>2. /\ clock' = clock /\ grants' = grants /\ access' = access
      /\ \A d \in Callers : caller'[d] = IF d = c THEN n ELSE caller[d]
      /\ n.pc \in Holding => /\ caller[c].pc \in Holding /\ n.id = caller[c].id
                             /\ n.pc # "loadClaim"
      /\ \A i \in Ids \ {x} : hash'[i] = hash[i]
      /\ \A i \in Ids : Swept(global'[i], global[i])
      /\ \A i \in Ids, u \in Subjects : Swept(bySubject'[u][i], bySubject[u][i])
  BY <1>1 DEF QuietStep
<1>3. \A i \in Ids : NoLease(i) => NoLease(i)'
  BY <1>2 DEF NoLease, Swept
<1>4. HolderInv'
  BY <1>2, <1>3 DEF HolderInv, LeaseInv
<1>5. ASSUME NEW i \in Ids, hash'[i] # None
      PROVE  /\ grants'[i] = 0 => hash'[i].state # "claimed"
             /\ \A u \in Subjects : bySubject'[u][i] # 0 => u = Subject(hash'[i])
             /\ hash'[i].state = "closed" => NoLease(i)'
  <2>1. CASE hash'[i] = hash[i]
    BY <1>2, <1>3, <1>5, <2>1 DEF LeaseInv, LeaseOwnerInv, Swept
  <2>2. CASE i = x /\ grants[x] = 0 /\ hash'[x].state # "claimed"
    <3>1. NoLease(i)'
      BY <1>3, <2>2 DEF LeaseInv, HolderInv
    <3> QED BY <2>2, <3>1 DEF NoLease
  <2> QED BY <1>2, <1>5, <2>1, <2>2
<1>6. ASSUME NEW i \in Ids, NEW t \in Nat, t > clock + ClockSkew, Held(i, t)
      PROVE  Held(i, t)'
  <2>1. grants[i] # 0
    BY <1>6 DEF Held, LeaseInv, LeaseOwnerInv
  <2>2. hash'[i] = hash[i]
    BY <1>2, <2>1
  <2>3. Subject(hash[i]) \in Subjects
    BY <1>1, <1>6, SessionFields DEF Held
  <2>4. global'[i] = t
    BY <1>1, <1>2, <1>6 DEF Held, Swept
  <2>5. bySubject'[Subject(hash[i])][i] = t
    BY <1>1, <1>2, <1>6, <2>3 DEF Held, Swept
  <2> QED BY <1>6, <2>2, <2>4, <2>5 DEF Held
<1>7. HeldInv'
  <2>1. ASSUME NEW i \in Ids, access'[i] > clock' + ClockSkew
        PROVE  Held(i, access[i])'
    BY <1>1, <1>2, <1>6, <2>1 DEF LeaseInv, HeldInv, Held
  <2>2. ASSUME NEW d \in Callers, caller'[d].pc = "loadClaim",
               caller'[d].now + SessionMaxDuration > clock' + ClockSkew
        PROVE  Held(caller[d].id, caller[d].now + SessionMaxDuration)'
    <3>1. caller'[d] = caller[d]
      BY <1>2, <2>2 DEF Holding
    <3>2. caller[d].id \in Ids /\ caller[d].now + SessionMaxDuration \in Nat
      BY <1>1, <2>2, <3>1, CallFields DEF CallInv, CallOK, TypeOK
    <3>3. Held(caller[d].id, caller[d].now + SessionMaxDuration)
      BY <1>2, <2>2, <3>1 DEF LeaseInv, HeldInv
    <3> QED BY <1>2, <1>6, <2>2, <3>1, <3>2, <3>3 DEF Held
  <2> QED BY <2>1, <2>2 DEF HeldInv
<1>8. LeaseOwnerInv'
  BY <1>5 DEF LeaseOwnerInv
<1> QED BY <1>4, <1>7, <1>8 DEF LeaseInv

\* LeaseInv is inductive relative to the invariants above.
LEMMA LeaseInvStep ==
  ASSUME CallInv, CallInv', IdentityInv, ClaimInv, ClaimInv', LeaseInv, [Next]_vars
  PROVE  LeaseInv'
<1> USE NoneAssumption
<1>1. CASE UNCHANGED vars
  BY <1>1 DEF vars, LeaseInv, HolderInv, LeaseOwnerInv, HeldInv, Held, NoLease
<1> SUFFICES ASSUME Next PROVE LeaseInv'
  BY <1>1
<1>2. /\ clock \in Nat /\ global \in [Ids -> Nat] /\ bySubject \in [Subjects -> [Ids -> Nat]]
      /\ caller \in [Callers -> Call] /\ access \in [Ids -> Nat] /\ grants \in [Ids -> Nat]
      /\ hash \in [Ids -> Session \cup {None}] /\ drawn \subseteq Ids
      /\ ClockSkew \in Nat /\ IdempotencyTTL \in Nat \ {0} /\ SessionMaxDuration \in Nat \ {0}
  BY LimitsAssumption, RetryAssumption DEF CallInv, TypeOK
<1>3. /\ HolderInv /\ LeaseOwnerInv /\ HeldInv
      /\ \A c \in Callers : caller[c].pc \in Holding \cup {"create", "claim"} =>
                              caller[c].id \in Ids
      /\ \A c \in Callers : caller[c].now \in Nat /\ caller[c].now <= clock + ClockSkew
      /\ \A c \in Callers : Agrees(caller[c])
  BY <1>2, CallFields DEF LeaseInv, CallInv, CallOK, Holding, IdentityInv
<1>4. \A i \in Ids : /\ Swept(global[i], global[i])
                     /\ \A u \in Subjects : Swept(bySubject[u][i], bySubject[u][i])
  BY DEF Swept
\* Steps that leave the sessions and the leases alone.
<1>5. ASSUME NEW c \in Callers, NEW n \in Call, caller' = [caller EXCEPT ![c] = n],
             UNCHANGED <<clock, hash, global, bySubject, access, grants>>,
             n.pc \in Holding => /\ caller[c].pc \in Holding /\ n.id = caller[c].id
                                 /\ n.pc # "loadClaim"
      PROVE  LeaseInv'
  <2>1. QuietStep(c, n, None)
    BY <1>4, <1>5 DEF QuietStep
  <2> QED BY <2>1, QuietKeepsLeases
<1>6. ASSUME NEW c \in Callers, NEW n \in Call, caller' = [caller EXCEPT ![c] = n],
             NEW i \in Ids, NEW t, MayExpire(i, t),
             UNCHANGED <<clock, access, grants>>, n.pc \notin Holding,
             \A j \in Ids : Swept(global'[j], global[j]),
             \A j \in Ids, u \in Subjects : Swept(bySubject'[u][j], bySubject[u][j])
      PROVE  LeaseInv'
  <2>1. \A j \in Ids \ {i} : hash'[j] = hash[j]
    BY <1>2, <1>6 DEF MayExpire
  <2>2. QuietStep(c, n, i)
    BY <1>6, <2>1 DEF QuietStep
  <2>3. CASE hash' = hash
    BY <2>2, <2>3, QuietKeepsLeases
  <2>4. CASE /\ hash[i] # None /\ hash[i].state = "issued"
             /\ hash' = [hash EXCEPT ![i] = TicketExpired(hash[i], t)]
    <3>1. grants[i] = 0
      BY <2>4 DEF ClaimInv
    <3>2. hash'[i].state # "claimed"
      <4>1. hash'[i] = TicketExpired(hash[i], t) /\ hash[i] \in Session
        BY <1>2, <2>4
      <4> QED BY <4>1 DEF TicketExpired, Session
    <3> QED BY <2>2, <3>1, <3>2, QuietKeepsLeases
  <2> QED BY <1>6, <2>3, <2>4 DEF MayExpire
<1>7. ASSUME NEW c \in Callers, NEW n \in Call, caller' = [caller EXCEPT ![c] = n],
             IssueStep(c, n)
      PROVE  LeaseInv'
  BY <1>5, <1>7 DEF IssueStep, Holding
<1>8. ASSUME NEW c \in Callers, NEW n \in Call, caller' = [caller EXCEPT ![c] = n],
             ReadStep(c, n)
      PROVE  LeaseInv'
  <2> DEFINE m == caller[c]
  <2>1. /\ UNCHANGED <<clock, hash, global, bySubject, grants>>
        /\ \A d \in Callers : caller'[d] = IF d = c THEN n ELSE caller[d]
    BY <1>2, <1>8 DEF ReadStep
  <2>2. CASE access' = access
    <3>1. n.pc \in Holding => /\ m.pc \in Holding /\ n.id = m.id /\ n.pc # "loadClaim"
      <4>1. n.pc = "subject" => \E i \in Ids : access'[i] # access[i]
        BY <1>2, <1>8 DEF ReadStep
      <4> QED BY <1>8, <2>2, <4>1 DEF ReadStep, Holding
    <3> QED BY <1>5, <1>8, <2>1, <2>2, <3>1
  <2>3. CASE /\ m.pc = "loadClaim" /\ n.pc = "idle" /\ hash[m.id] # None
             /\ access' = [access EXCEPT ![m.id] = m.now + SessionMaxDuration]
    <3> DEFINE t == m.now + SessionMaxDuration
    <3>1. m.id \in Ids /\ grants[m.id] = 1 /\ t \in Nat
      BY <1>2, <1>3, <2>3 DEF Holding, HolderInv
    <3>2. access'[m.id] = t /\ \A i \in Ids \ {m.id} : access'[i] = access[i]
      BY <1>2, <2>3, <3>1
    <3>3. HolderInv'
      BY <1>3, <2>1, <2>3, <3>1, <3>2 DEF HolderInv, Holding, NoLease
    <3>4. LeaseOwnerInv'
      BY <1>3, <2>1 DEF LeaseOwnerInv, NoLease
    <3>5. t > clock + ClockSkew => Held(m.id, t)
      BY <1>3, <2>3 DEF HeldInv
    <3> HIDE DEF t
    <3>6. HeldInv'
      BY <1>3, <2>1, <2>3, <3>1, <3>2, <3>5 DEF HeldInv, Held
    <3> QED BY <3>3, <3>4, <3>6 DEF LeaseInv
  <2>4. CASE /\ m.pc = "idle" /\ n.pc = "subject" /\ n.id \in Ids /\ access[n.id] # 0
             /\ access' = [access EXCEPT ![n.id] = 0]
    <3>1. access'[n.id] = 0 /\ \A i \in Ids \ {n.id} : access'[i] = access[i]
      BY <1>2, <2>4
    <3>2. grants[n.id] = 1
      BY <1>3, <2>4 DEF HolderInv, ClaimInv
    <3>3. \A d \in Callers : caller[d].pc \in Holding => caller[d].id # n.id
      BY <1>3, <2>4 DEF HolderInv
    <3>4. HolderInv'
      BY <1>3, <2>1, <3>1, <3>2, <3>3 DEF HolderInv, NoLease
    <3>5. LeaseOwnerInv'
      BY <1>3, <2>1 DEF LeaseOwnerInv, NoLease
    <3>6. HeldInv'
      BY <1>2, <1>3, <2>1, <2>4, <3>1 DEF HeldInv, Held
    <3> QED BY <3>4, <3>5, <3>6 DEF LeaseInv
  <2> QED BY <1>8, <2>2, <2>3, <2>4 DEF ReadStep
<1>9. ASSUME NEW c \in Callers, NEW n \in Call, caller' = [caller EXCEPT ![c] = n],
             CreateStep(c, n)
      PROVE  LeaseInv'
  <2> DEFINE m == caller[c]
             sid == idem[m.key].id
             tombstone == m.now + TicketTTL + IdempotencyTTL
             new == Candidate(m.id, m.key, m.intent, m.now)
  <2>1. /\ m.pc = "create" /\ m.id \in Ids /\ m.now \in Nat /\ m.key \in Keys
        /\ m.intent \in Intents /\ Deliverable(m)
        /\ UNCHANGED <<clock, global, bySubject, access, grants>> /\ n.pc \notin Holding
    BY <1>2, <1>9, CallFields
       DEF CallInv, CallOK, CreateStep, Returns, Resent, Advanced, Holding
  <2>2. CASE /\ idem[m.key] = None
             /\ hash' = [hash EXCEPT ![m.id] = Kept(new, tombstone)]
    <3>1. grants[m.id] = 0
      BY <2>1, <2>2, CreateUnclaimed
    <3>2. hash'[m.id] # None => hash'[m.id].state # "claimed"
      <4>1. new.state = "issued"
        BY <2>1, CandidateFields
      <4> HIDE DEF new, tombstone
      <4> QED BY <1>2, <2>1, <2>2, <4>1 DEF Kept
    <3>3. QuietStep(c, n, m.id)
      <4>1. \A j \in Ids \ {m.id} : hash'[j] = hash[j]
        BY <1>2, <2>2
      <4> QED BY <1>4, <1>9, <2>1, <4>1 DEF QuietStep
    <3> QED BY <2>1, <3>1, <3>2, <3>3, QuietKeepsLeases
  <2>3. CASE idem[m.key] # None /\ MayExpire(sid, m.now)
    <3>1. sid \in Ids
      BY <2>1, <2>3 DEF CallInv, TypeOK, Entry
    <3> HIDE DEF sid
    <3>2. /\ \A j \in Ids : Swept(global'[j], global[j])
          /\ \A j \in Ids, u \in Subjects : Swept(bySubject'[u][j], bySubject[u][j])
      BY <1>4, <2>1
    <3> QED BY <1>6, <1>9, <2>1, <2>3, <3>1, <3>2
  <2>4. CASE hash' = hash
    BY <1>5, <1>9, <2>1, <2>4
  <2> QED BY <1>9, <2>2, <2>3, <2>4 DEF CreateStep
<1>10. ASSUME NEW c \in Callers, NEW n \in Call, caller' = [caller EXCEPT ![c] = n],
              ClaimStep(c, n)
       PROVE  LeaseInv'
  <2> DEFINE m == caller[c]
             G == ZRemRangeByScore(global, m.now)
             U == ZRemRangeByScore(bySubject[m.subject], m.now)
             expires == m.now + SessionMaxDuration
             tombstone == expires + IdempotencyTTL
             new == Claimed(hash[m.id], m.now)
  <2>1. /\ m.pc = "claim" /\ m.id \in Ids /\ m.now \in Nat /\ m.subject \in Subjects
        /\ m.now <= clock + ClockSkew
        /\ UNCHANGED <<clock, access>>
        /\ \A d \in Callers : caller'[d] = IF d = c THEN n ELSE caller[d]
    BY <1>2, <1>3, <1>10 DEF CallInv, CallOK, ClaimStep
  <2>2. /\ expires \in Nat /\ tombstone \in Nat
    BY <1>2, <2>1
  <2>3. /\ \A j \in Ids : Swept(G[j], global[j])
        /\ \A j \in Ids : Swept(U[j], bySubject[m.subject][j])
        /\ G \in [Ids -> Nat] /\ U \in [Ids -> Nat]
    <3>1. bySubject[m.subject] \in [Ids -> Nat]
      BY <1>2, <2>1
    <3>2. \A s \in Nat : s <= m.now => s <= clock + ClockSkew
      BY <1>2, <2>1
    <3> QED BY <1>2, <2>1, <3>1, <3>2 DEF ZRemRangeByScore, Swept
  <2> HIDE DEF G, U
  <2>4. CASE UNCHANGED <<hash, idem, global, bySubject, grants>> /\ Returns(n, m)
    <3>1. n.pc \notin Holding
      BY <2>1, <2>4 DEF Returns, Resent, Holding
    <3> QED BY <1>5, <1>10, <2>1, <2>4, <3>1
  <2>5. CASE /\ MayExpire(m.id, m.now)
             /\ global' = G
             /\ bySubject' = [bySubject EXCEPT ![m.subject] = U]
             /\ UNCHANGED <<idem, grants>>
             /\ Returns(n, m)
    <3>1. n.pc \notin Holding
      BY <2>1, <2>5 DEF Returns, Resent, Holding
    <3>2. \A j \in Ids : Swept(global'[j], global[j])
      BY <2>3, <2>5
    <3>3. \A j \in Ids, u \in Subjects : Swept(bySubject'[u][j], bySubject[u][j])
      BY <1>2, <1>4, <2>1, <2>3, <2>5
    <3> QED BY <1>6, <1>10, <2>1, <2>5, <3>1, <3>2, <3>3
  <2>6. CASE /\ hash[m.id] # None /\ hash[m.id].state = "issued"
             /\ hash' = [hash EXCEPT ![m.id] = Kept(new, tombstone)]
             /\ global' = ZAdd(G, m.id, expires)
             /\ bySubject' = [bySubject EXCEPT ![m.subject] = ZAdd(U, m.id, expires)]
             /\ grants' = [grants EXCEPT ![m.id] = grants[m.id] + 1]
             /\ Advanced(n, m, "loadClaim") \/ Resent(n, m)
    <3>1. /\ grants[m.id] = 0 /\ grants'[m.id] = 1
          /\ \A j \in Ids \ {m.id} : grants'[j] = grants[j]
          /\ NoLease(m.id) /\ access[m.id] = 0
      BY <1>2, <1>3, <2>1, <2>6 DEF ClaimInv, HolderInv
    <3>2. /\ hash'[m.id] = Kept(new, tombstone)
          /\ \A j \in Ids \ {m.id} : hash'[j] = hash[j]
          /\ hash[m.id] \in Session
      BY <1>2, <2>1, <2>6
    <3>3. /\ new.state = "claimed" /\ new.intent = hash[m.id].intent
          /\ new.tombstoneExpiresAt = tombstone /\ new # None
      <4>1. /\ new \in Session /\ new.state = "claimed" /\ new.intent = hash[m.id].intent
            /\ new.tombstoneExpiresAt = tombstone
        BY <2>1, <3>2, SessionUpdates
      <4> QED BY <4>1, SessionFields
    <3>4. Subject(hash[m.id]) = m.subject /\ Subject(new) = m.subject
      BY <1>3, <2>1, <2>6, <3>3 DEF Agrees, SameRequest, Subject
    <3> HIDE DEF new, expires, tombstone
    <3>5. /\ global'[m.id] = expires
          /\ \A j \in Ids \ {m.id} : Swept(global'[j], global[j])
      BY <2>1, <2>3, <2>6 DEF ZAdd
    <3>6. bySubject'[m.subject] = ZAdd(U, m.id, expires)
          /\ \A u \in Subjects \ {m.subject} : bySubject'[u] = bySubject[u]
      BY <1>2, <2>1, <2>6
    <3>7. /\ bySubject'[m.subject][m.id] = expires
          /\ \A u \in Subjects \ {m.subject} : bySubject'[u][m.id] = 0
          /\ \A j \in Ids \ {m.id}, u \in Subjects : Swept(bySubject'[u][j], bySubject[u][j])
      <4>1. /\ ZAdd(U, m.id, expires)[m.id] = expires
            /\ \A j \in Ids \ {m.id} : ZAdd(U, m.id, expires)[j] = U[j]
        BY <2>1, <2>3 DEF ZAdd
      <4> QED BY <1>4, <2>1, <2>3, <3>1, <3>6, <4>1 DEF NoLease
    <3>8. \A j \in Ids \ {m.id} : NoLease(j) => NoLease(j)'
      BY <3>5, <3>7 DEF NoLease, Swept
    <3>9. \A d \in Callers : caller[d].pc \in Holding => caller[d].id # m.id
      BY <1>3, <3>1 DEF HolderInv
    <3>10. n.pc \in Holding => n.pc = "loadClaim" /\ n.id = m.id /\ n.now = m.now
      BY <2>1, <2>6 DEF Advanced, Resent, Holding
    <3>11. HolderInv'
      <4>1. ASSUME NEW i \in Ids, grants'[i] = 0
            PROVE  NoLease(i)' /\ access'[i] = 0
        BY <1>3, <2>1, <3>1, <3>8, <4>1 DEF HolderInv
      <4>2. ASSUME NEW d \in Callers, caller'[d].pc \in Holding
            PROVE  grants'[caller'[d].id] = 1 /\ access'[caller'[d].id] = 0
        BY <1>3, <2>1, <3>1, <3>9, <3>10, <4>2 DEF HolderInv
      <4>3. ASSUME NEW d \in Callers, NEW e \in Callers, caller'[d].pc \in Holding,
                   caller'[e].pc \in Holding, caller'[d].id = caller'[e].id
            PROVE  d = e
        BY <1>3, <2>1, <3>9, <3>10, <4>3 DEF HolderInv
      <4> QED BY <4>1, <4>2, <4>3 DEF HolderInv
    <3>12. LeaseOwnerInv'
      <4>1. ASSUME NEW i \in Ids, hash'[i] # None
            PROVE  /\ grants'[i] = 0 => hash'[i].state # "claimed"
                   /\ \A u \in Subjects : bySubject'[u][i] # 0 => u = Subject(hash'[i])
                   /\ hash'[i].state = "closed" => NoLease(i)'
        <5>1. CASE i = m.id
          BY <3>1, <3>2, <3>3, <3>4, <3>7, <4>1, <5>1 DEF Kept
        <5>2. CASE i # m.id
          BY <1>3, <3>1, <3>2, <3>7, <3>8, <4>1, <5>2 DEF LeaseOwnerInv, Swept
        <5> QED BY <5>1, <5>2
      <4> QED BY <4>1 DEF LeaseOwnerInv
    <3>13. ASSUME NEW i \in Ids, i # m.id, NEW t \in Nat, t > clock + ClockSkew, Held(i, t)
           PROVE  Held(i, t)'
      <4>1. hash'[i] = hash[i] /\ Subject(hash[i]) \in Subjects
        BY <1>2, <3>2, <3>13, SessionFields DEF Held
      <4>2. global'[i] = t
        BY <1>2, <3>5, <3>13 DEF Held, Swept
      <4>3. bySubject'[Subject(hash[i])][i] = t
        BY <1>2, <3>7, <3>13, <4>1 DEF Held, Swept
      <4> QED BY <3>13, <4>1, <4>2, <4>3 DEF Held
    <3>14. ASSUME NEW i \in Ids, i = m.id, NEW t \in Nat, t = expires,
                  t > clock + ClockSkew
           PROVE  Held(i, t)'
      <4>1. tombstone = t + IdempotencyTTL /\ tombstone > clock
        BY <1>2, <2>1, <2>2, <3>14 DEF tombstone
      <4>2. hash'[i] = new
        BY <1>2, <2>2, <3>2, <3>14, <4>1 DEF Kept
      <4>3. Subject(hash'[i]) = m.subject
        BY <3>4, <4>2
      <4> QED BY <3>3, <3>5, <3>7, <3>14, <4>1, <4>2, <4>3 DEF Held
    <3>15. HeldInv'
      <4>1. ASSUME NEW i \in Ids, access'[i] > clock' + ClockSkew
            PROVE  Held(i, access[i])'
        <5>1. i # m.id /\ access'[i] = access[i]
          BY <1>2, <2>1, <3>1, <4>1
        <5>2. Held(i, access[i])
          BY <1>3, <2>1, <4>1, <5>1 DEF HeldInv
        <5> QED BY <1>2, <2>1, <3>13, <4>1, <5>1, <5>2 DEF Held
      <4>2. ASSUME NEW d \in Callers, caller'[d].pc = "loadClaim",
                   caller'[d].now + SessionMaxDuration > clock' + ClockSkew
            PROVE  Held(caller[d].id, caller[d].now + SessionMaxDuration)'
        <5>1. CASE d = c
          <6>1. n.pc = "loadClaim" /\ n.id = m.id /\ n.now = m.now
            BY <2>1, <3>10, <4>2, <5>1 DEF Holding
          <6>2. caller'[d].id = m.id /\ caller'[d].now + SessionMaxDuration = expires
            BY <2>1, <5>1, <6>1 DEF expires
          <6>3. expires > clock + ClockSkew
            BY <2>1, <4>2, <6>2
          <6>4. \A i \in Ids, t \in Nat : i = m.id /\ t = expires => Held(i, t)'
            BY <3>14, <6>3
          <6> QED BY <2>1, <2>2, <6>2, <6>4 DEF Held
        <5>2. CASE d # c
          <6>1. caller'[d] = caller[d] /\ caller[d].pc = "loadClaim" /\ caller[d].id \in Ids
                /\ caller[d].id # m.id /\ caller[d].now + SessionMaxDuration \in Nat
            BY <1>2, <1>3, <2>1, <3>9, <4>2, <5>2 DEF Holding
          <6>2. Held(caller[d].id, caller[d].now + SessionMaxDuration)
            BY <1>3, <2>1, <4>2, <6>1 DEF HeldInv
          <6> QED BY <2>1, <3>13, <4>2, <6>1, <6>2 DEF Held
        <5> QED BY <5>1, <5>2
      <4> QED BY <4>1, <4>2 DEF HeldInv
    <3> QED BY <3>11, <3>12, <3>15 DEF LeaseInv
  <2> QED BY <1>10, <2>4, <2>5, <2>6 DEF ClaimStep, G, U
<1>11. ASSUME NEW c \in Callers, NEW n \in Call, caller' = [caller EXCEPT ![c] = n],
              CloseStep(c, n)
       PROVE  LeaseInv'
  <2> DEFINE m == caller[c]
             new == Released(hash[m.id], m.now)
  <2>1. /\ m.pc = "close" /\ m.id \in Ids /\ m.subject \in Subjects /\ m.now \in Nat
        /\ UNCHANGED <<clock, access, grants>>
        /\ n.pc \in Holding => n.pc = "close" /\ n.id = m.id
        /\ \A d \in Callers : caller'[d] = IF d = c THEN n ELSE caller[d]
    BY <1>2, <1>3, <1>11 DEF CallInv, CallOK, CloseStep, Returns, Resent, Holding
  <2>2. CASE UNCHANGED <<hash, global, bySubject>>
    BY <1>5, <1>11, <2>1, <2>2 DEF Holding
  <2>3. CASE /\ hash[m.id] # None /\ hash[m.id].state = "claimed"
             /\ hash' = [hash EXCEPT ![m.id] = new]
             /\ global' = [global EXCEPT ![m.id] = 0]
             /\ bySubject' = [bySubject EXCEPT ![m.subject] =
                                [bySubject[m.subject] EXCEPT ![m.id] = 0]]
    <3>1. /\ hash'[m.id] = new /\ \A j \in Ids \ {m.id} : hash'[j] = hash[j]
          /\ hash[m.id] \in Session
      BY <1>2, <2>1, <2>3
    <3>2. new.state = "closed"
      BY <2>1, <3>1, SessionUpdates
    <3> HIDE DEF new
    <3>3. m.subject = Subject(hash[m.id])
      BY <1>3, <2>1, <2>3 DEF Agrees, SameRequest, Subject
    <3>4. \A j \in Ids : global'[j] = IF j = m.id THEN 0 ELSE global[j]
      BY <1>2, <2>1, <2>3
    <3>5. \A j \in Ids, u \in Subjects :
            bySubject'[u][j] = IF u = m.subject /\ j = m.id THEN 0 ELSE bySubject[u][j]
      BY <1>2, <2>1, <2>3
    <3>6. \A i \in Ids : i = m.id => NoLease(i)'
      <4>1. \A u \in Subjects : u # m.subject => bySubject[u][m.id] = 0
        BY <1>3, <2>1, <2>3, <3>3 DEF LeaseOwnerInv
      <4> QED BY <3>4, <3>5, <4>1 DEF NoLease
    <3>7. \A j \in Ids : NoLease(j) => NoLease(j)'
      BY <3>4, <3>5 DEF NoLease
    <3>8. grants[m.id] = 1 /\ access[m.id] = 0
      BY <1>3, <2>1 DEF HolderInv, Holding
    <3>9. HolderInv'
      BY <1>3, <2>1, <3>7, <3>8 DEF HolderInv, Holding
    <3>10. LeaseOwnerInv'
      <4>1. ASSUME NEW i \in Ids, hash'[i] # None
            PROVE  /\ grants'[i] = 0 => hash'[i].state # "claimed"
                   /\ \A u \in Subjects : bySubject'[u][i] # 0 => u = Subject(hash'[i])
                   /\ hash'[i].state = "closed" => NoLease(i)'
        <5>1. CASE i = m.id
          BY <2>1, <3>1, <3>2, <3>6, <3>8, <5>1 DEF NoLease
        <5>2. CASE i # m.id
          BY <1>3, <2>1, <3>1, <3>5, <3>7, <4>1, <5>2 DEF LeaseOwnerInv
        <5> QED BY <5>1, <5>2
      <4> QED BY <4>1 DEF LeaseOwnerInv
    <3>11. ASSUME NEW i \in Ids, i # m.id, NEW t, Held(i, t)
           PROVE  Held(i, t)'
      <4>1. hash'[i] = hash[i] /\ Subject(hash[i]) \in Subjects
        BY <1>2, <3>1, <3>11, SessionFields DEF Held
      <4> QED BY <3>4, <3>5, <3>11, <4>1 DEF Held
    <3>12. HeldInv'
      <4>1. ASSUME NEW i \in Ids, access'[i] > clock' + ClockSkew
            PROVE  Held(i, access[i])'
        <5>1. i # m.id /\ access'[i] = access[i]
          BY <1>2, <2>1, <3>8, <4>1
        <5>2. Held(i, access[i])
          BY <1>3, <2>1, <4>1, <5>1 DEF HeldInv
        <5> QED BY <3>11, <5>1, <5>2 DEF Held
      <4>2. ASSUME NEW d \in Callers, caller'[d].pc = "loadClaim",
                   caller'[d].now + SessionMaxDuration > clock' + ClockSkew
            PROVE  Held(caller[d].id, caller[d].now + SessionMaxDuration)'
        <5>1. d # c /\ caller'[d] = caller[d]
          BY <2>1, <4>2 DEF Holding
        <5>2. caller[d].id # m.id /\ caller[d].id \in Ids
          BY <1>3, <2>1, <4>2, <5>1 DEF HolderInv, Holding
        <5>3. Held(caller[d].id, caller[d].now + SessionMaxDuration)
          BY <1>3, <2>1, <4>2, <5>1 DEF HeldInv
        <5> QED BY <3>11, <5>1, <5>2, <5>3 DEF Held
      <4> QED BY <4>1, <4>2 DEF HeldInv
    <3> QED BY <3>9, <3>10, <3>12 DEF LeaseInv
  <2> QED BY <1>11, <2>2, <2>3 DEF CloseStep
<1>12. ASSUME NEW x \in Ids, HolderDies(x)
       PROVE  LeaseInv'
  <2>1. /\ UNCHANGED <<clock, hash, global, bySubject, caller, grants>>
        /\ \A i \in Ids : access'[i] = IF i = x THEN 0 ELSE access[i]
    BY <1>2, <1>12 DEF HolderDies, redis
  <2>2. HolderInv' /\ LeaseOwnerInv'
    BY <1>3, <2>1 DEF HolderInv, LeaseOwnerInv, NoLease
  <2>3. HeldInv'
    BY <1>2, <1>3, <2>1 DEF HeldInv, Held
  <2> QED BY <2>2, <2>3 DEF LeaseInv
<1>13. CASE Tick
  <2>1. /\ clock' = clock + 1
        /\ UNCHANGED <<caller, grants, global, bySubject, access>>
        /\ \A j \in Ids : hash'[j] = IF hash[j] # None /\ clock + 1 >= hash[j].tombstoneExpiresAt
                                     THEN None ELSE hash[j]
    BY <1>13 DEF Tick, UnexpiredHashes
  <2>2. HolderInv' /\ LeaseOwnerInv'
    BY <1>3, <2>1 DEF HolderInv, LeaseOwnerInv, NoLease
  <2>3. ASSUME NEW i \in Ids, NEW t \in Nat, t > clock' + ClockSkew,
               t > clock + ClockSkew => Held(i, t)
        PROVE  Held(i, t)'
    <3>1. Held(i, t)
      BY <1>2, <2>1, <2>3
    <3>2. ~(clock + 1 >= t + IdempotencyTTL)
      BY <1>2, <2>1, <2>3
    <3>3. hash'[i] = hash[i]
      BY <2>1, <3>1, <3>2 DEF Held
    <3> QED BY <2>1, <3>1, <3>3 DEF Held
  <2>4. HeldInv'
    <3>1. \A d \in Callers : caller[d].pc = "loadClaim" =>
            caller[d].id \in Ids /\ caller[d].now + SessionMaxDuration \in Nat
      BY <1>2, <1>3 DEF Holding
    <3>2. ASSUME NEW i \in Ids, access'[i] > clock' + ClockSkew
          PROVE  Held(i, access[i])'
      BY <1>2, <1>3, <2>1, <2>3, <3>2 DEF HeldInv, Held
    <3>3. ASSUME NEW d \in Callers, caller'[d].pc = "loadClaim",
                 caller'[d].now + SessionMaxDuration > clock' + ClockSkew
          PROVE  Held(caller[d].id, caller[d].now + SessionMaxDuration)'
      BY <1>3, <2>1, <2>3, <3>1, <3>3 DEF HeldInv, Held
    <3> QED BY <3>2, <3>3 DEF HeldInv
  <2> QED BY <2>2, <2>4 DEF LeaseInv
<1> QED BY <1>7, <1>8, <1>9, <1>10, <1>11, <1>12, <1>13, NextIsSteps DEF Steps

\* LeaseInv holds, for any skew, if the retry margin does.
THEOREM LeaseInvariant == RetryMargin => (Spec => []LeaseInv)
<1> SUFFICES ASSUME RetryMargin PROVE Spec => []LeaseInv
  OBVIOUS
<1>1. Init => LeaseInv
  BY IdleCall, RetryAssumption
     DEF Init, LeaseInv, HolderInv, LeaseOwnerInv, HeldInv, NoLease, Holding
<1>2. CallInv /\ IdentityInv /\ ClaimInv /\ LeaseInv /\ [Next]_vars => LeaseInv'
  BY CallInvStep, ClaimInvStep, LeaseInvStep
<1>3. Spec => []ClaimInv
  BY ClaimInvariant
<1> QED BY <1>1, <1>2, <1>3, CallInvariant, IdentityInvariant, PTL DEF Spec

\* With clocks in step an admitted connection keeps its lease and its claimed
\* session until it closes or its time is up, and a closed session has no lease.
THEOREM LeaseKeptInUse ==
  RetryMargin /\ ClockSkew = 0 => (Spec => []LeaseWhileInUse)
<1> SUFFICES ASSUME RetryMargin, ClockSkew = 0 PROVE Spec => []LeaseWhileInUse
  OBVIOUS
<1>1. CallInv /\ LeaseInv => LeaseWhileInUse
  <2> SUFFICES ASSUME CallInv, LeaseInv, NEW i \in Ids
               PROVE  /\ access[i] > clock => Held(i, access[i])
                      /\ hash[i] # None /\ hash[i].state = "closed" => NoLease(i)
    BY DEF LeaseWhileInUse, Held, NoLease
  <2>1. access[i] > clock => Held(i, access[i])
    BY DEF LeaseInv, HeldInv, CallInv, TypeOK
  <2> QED BY <2>1 DEF LeaseInv, LeaseOwnerInv
<1>2. Spec => []LeaseInv
  BY LeaseInvariant
<1> QED BY <1>1, <1>2, CallInvariant, PTL

-----------------------------------------------------------------------------
(* The Redis store implements the contract                                 *)

\* A lease does not outlast the session's record and names one subject, and a
\* session that was never claimed expires as its create call computed.
ContractInv ==
  /\ \A i \in Ids : hash[i] # None => global[i] <= hash[i].tombstoneExpiresAt
  /\ \A i \in Ids, u \in Subjects, v \in Subjects :
       bySubject[u][i] # 0 /\ bySubject[v][i] # 0 => u = v
  /\ \A c \in Callers :
       (caller[c].pc = "create" /\ hash[caller[c].id] # None
        /\ grants[caller[c].id] = 0)
         => hash[caller[c].id].tombstoneExpiresAt
              = caller[c].now + TicketTTL + IdempotencyTTL

\* Caller c moves to n; sessions and leases may end, nothing is stored or granted.
EndingStep(c, n) ==
  /\ caller' = [caller EXCEPT ![c] = n]
  /\ UNCHANGED <<clock, idem, grants>>
  /\ drawn \subseteq drawn'
  /\ n.pc = "create" => Resent(n, caller[c]) \/ n.id \in Ids \ drawn
  /\ \A j \in Ids :
       /\ hash'[j] = None <=> hash[j] = None
       /\ hash[j] # None => hash'[j].tombstoneExpiresAt = hash[j].tombstoneExpiresAt
       /\ hash'[j] # None /\ hash'[j].state = "issued" => hash'[j] = hash[j]
       /\ global'[j] \in {global[j], 0}
       /\ \A u \in Subjects : bySubject'[u][j] \in {bySubject[u][j], 0}

\* The create script stores its candidate, unless its time has already passed.
StoringStep(c, n) ==
  LET m == caller[c]
      tombstone == m.now + TicketTTL + IdempotencyTTL
  IN /\ caller' = [caller EXCEPT ![c] = n]
     /\ m.pc = "create" /\ Deliverable(m) /\ idem[m.key] = None
     /\ hash' = [hash EXCEPT ![m.id] =
                   Kept(Candidate(m.id, m.key, m.intent, m.now), tombstone)]
     /\ idem' = [idem EXCEPT ![m.key] =
                   Kept([id |-> m.id, expiresAt |-> tombstone], tombstone)]
     /\ UNCHANGED <<clock, global, bySubject, drawn, grants>>
     /\ n.pc = "create" => Resent(n, m)

\* The claim script grants a lease.
GrantingStep(c, n) ==
  LET m == caller[c]
      G == ZRemRangeByScore(global, m.now)
      U == ZRemRangeByScore(bySubject[m.subject], m.now)
      expires == m.now + SessionMaxDuration
      tombstone == expires + IdempotencyTTL
  IN /\ caller' = [caller EXCEPT ![c] = n]
     /\ m.pc = "claim" /\ n.pc # "create"
     /\ hash[m.id] # None /\ hash[m.id].state = "issued"
     /\ hash' = [hash EXCEPT ![m.id] = Kept(Claimed(hash[m.id], m.now), tombstone)]
     /\ idem' = IF idem[m.key] = None THEN idem
                ELSE [idem EXCEPT ![m.key] =
                        Kept([id |-> idem[m.key].id, expiresAt |-> tombstone], tombstone)]
     /\ global' = ZAdd(G, m.id, expires)
     /\ bySubject' = [bySubject EXCEPT ![m.subject] = ZAdd(U, m.id, expires)]
     /\ grants' = [grants EXCEPT ![m.id] = grants[m.id] + 1]
     /\ UNCHANGED <<clock, drawn>>

\* A rewriting ends the session it touches.
LEMMA RewriteEnds ==
  ASSUME CallInv, NEW i \in Ids, NEW t \in Nat,
         \/ hash' = hash
         \/ hash[i] # None /\ hash' = [hash EXCEPT ![i] = TicketExpired(hash[i], t)]
         \/ hash[i] # None /\ hash' = [hash EXCEPT ![i] = Released(hash[i], t)]
  PROVE  \A j \in Ids :
           /\ hash'[j] = None <=> hash[j] = None
           /\ hash[j] # None => hash'[j].tombstoneExpiresAt = hash[j].tombstoneExpiresAt
           /\ hash'[j] # None /\ hash'[j].state = "issued" => hash'[j] = hash[j]
<1>1. hash \in [Ids -> Session \cup {None}]
  BY DEF CallInv, TypeOK
<1>2. CASE hash' = hash
  BY <1>2
<1>3. ASSUME hash[i] # None, NEW r \in {TicketExpired(hash[i], t), Released(hash[i], t)},
             hash' = [hash EXCEPT ![i] = r]
      PROVE  \A j \in Ids :
               /\ hash'[j] = None <=> hash[j] = None
               /\ hash[j] # None =>
                    hash'[j].tombstoneExpiresAt = hash[j].tombstoneExpiresAt
               /\ hash'[j] # None /\ hash'[j].state = "issued" => hash'[j] = hash[j]
  <2>1. hash[i] \in Session
    BY <1>1, <1>3
  <2>2. /\ r \in Session /\ r.state = "closed"
        /\ r.tombstoneExpiresAt = hash[i].tombstoneExpiresAt
    BY <1>3, <2>1, SessionUpdates
  <2>3. r # None
    BY <2>2, SessionFields
  <2> QED BY <1>1, <1>3, <2>2, <2>3
<1> QED BY <1>2, <1>3

\* To the contract, every step ends things, stores a session, grants a lease, or
\* lets time pass.
LEMMA StepKinds ==
  ASSUME CallInv, Next
  PROVE  \/ \E c \in Callers, n \in Call :
              EndingStep(c, n) \/ StoringStep(c, n) \/ GrantingStep(c, n)
         \/ UNCHANGED <<clock, hash, idem, global, bySubject, caller, drawn, grants>>
         \/ Tick
<1> USE NoneAssumption
<1> DEFINE Kinds == \E c \in Callers, n \in Call :
                      EndingStep(c, n) \/ StoringStep(c, n) \/ GrantingStep(c, n)
<1>1. /\ clock \in Nat /\ global \in [Ids -> Nat] /\ bySubject \in [Subjects -> [Ids -> Nat]]
      /\ caller \in [Callers -> Call] /\ drawn \subseteq Ids
      /\ \A c \in Callers : caller[c].now \in Nat
      /\ \A c \in Callers : caller[c].pc \in {"create", "claim", "close"} => caller[c].id \in Ids
      /\ \A c \in Callers : caller[c].pc \in {"claim", "close"} => caller[c].subject \in Subjects
      /\ \A c \in Callers : caller[c].pc = "create" => caller[c].key \in Keys
  BY CallFields DEF CallInv, CallOK, TypeOK
\* A step that rewrites session i and may end leases.
<1>2. ASSUME NEW c \in Callers, NEW n \in Call, caller' = [caller EXCEPT ![c] = n],
             UNCHANGED <<clock, idem, grants>>, drawn \subseteq drawn',
             n.pc = "create" => Resent(n, caller[c]) \/ n.id \in Ids \ drawn,
             \/ hash' = hash
             \/ \E i \in Ids, t \in Nat :
                  /\ hash[i] # None
                  /\ \/ hash' = [hash EXCEPT ![i] = TicketExpired(hash[i], t)]
                     \/ hash' = [hash EXCEPT ![i] = Released(hash[i], t)],
             \A j \in Ids : /\ global'[j] \in {global[j], 0}
                            /\ \A u \in Subjects : bySubject'[u][j] \in {bySubject[u][j], 0}
      PROVE  Kinds
  <2>1. \A j \in Ids :
          /\ hash'[j] = None <=> hash[j] = None
          /\ hash[j] # None => hash'[j].tombstoneExpiresAt = hash[j].tombstoneExpiresAt
          /\ hash'[j] # None /\ hash'[j].state = "issued" => hash'[j] = hash[j]
    BY <1>2, RewriteEnds
  <2>2. EndingStep(c, n)
    BY <1>2, <2>1 DEF EndingStep
  <2> QED BY <2>2
<1>3. ASSUME NEW c \in Callers, NEW n \in Call, caller' = [caller EXCEPT ![c] = n],
             IssueStep(c, n) \/ ReadStep(c, n)
      PROVE  Kinds
  <2>1. /\ UNCHANGED <<clock, idem, grants, hash, global, bySubject>>
        /\ drawn \subseteq drawn'
        /\ n.pc = "create" => n.id \in Ids \ drawn
    BY <1>3 DEF IssueStep, ReadStep
  <2> QED BY <1>2, <1>3, <2>1
<1>4. ASSUME NEW c \in Callers, NEW n \in Call, caller' = [caller EXCEPT ![c] = n],
             CreateStep(c, n)
      PROVE  Kinds
  <2> DEFINE m == caller[c]
             sid == idem[m.key].id
  <2>1. /\ m.pc = "create" /\ Deliverable(m)
        /\ UNCHANGED <<clock, global, bySubject, drawn, grants>>
        /\ m.now \in Nat /\ m.key \in Keys
    BY <1>1, <1>4 DEF CreateStep
  <2>2. CASE idem[m.key] = None
    <3>1. StoringStep(c, n)
      BY <1>4, <2>2 DEF CreateStep, StoringStep, Advanced
    <3> QED BY <3>1
  <2>3. CASE idem[m.key] # None
    <3>1. sid \in Ids
      BY <2>1, <2>3 DEF CallInv, TypeOK, Entry
    <3>2. /\ idem' = idem /\ MayExpire(sid, m.now)
          /\ n.pc = "create" => Resent(n, m)
      BY <1>4, <2>3 DEF CreateStep, Returns, MayExpire
    <3> HIDE DEF sid
    <3> QED BY <1>2, <1>4, <2>1, <3>1, <3>2 DEF MayExpire
  <2> QED BY <2>2, <2>3
<1>5. ASSUME NEW c \in Callers, NEW n \in Call, caller' = [caller EXCEPT ![c] = n],
             ClaimStep(c, n)
      PROVE  Kinds
  <2> DEFINE m == caller[c]
             G == ZRemRangeByScore(global, m.now)
             U == ZRemRangeByScore(bySubject[m.subject], m.now)
  <2>1. /\ m.pc = "claim" /\ m.now \in Nat /\ m.id \in Ids /\ m.subject \in Subjects
        /\ UNCHANGED <<clock, drawn>>
    BY <1>1, <1>5 DEF ClaimStep
  <2>2. \A j \in Ids : G[j] \in {global[j], 0} /\ U[j] \in {bySubject[m.subject][j], 0}
    BY DEF ZRemRangeByScore
  <2>3. CASE UNCHANGED <<hash, idem, global, bySubject, grants>> /\ Returns(n, m)
    BY <1>2, <1>5, <2>1, <2>3 DEF Returns, Resent
  <2>4. CASE /\ MayExpire(m.id, m.now)
             /\ global' = G
             /\ bySubject' = [bySubject EXCEPT ![m.subject] = U]
             /\ UNCHANGED <<idem, grants>>
             /\ Returns(n, m)
    <3> HIDE DEF G, U
    <3>1. \A j \in Ids : /\ global'[j] \in {global[j], 0}
                         /\ \A u \in Subjects : bySubject'[u][j] \in {bySubject[u][j], 0}
      BY <1>1, <2>1, <2>2, <2>4
    <3>2. n.pc # "create"
      BY <2>1, <2>4 DEF Returns, Resent
    <3> QED BY <1>2, <1>5, <2>1, <2>4, <3>1, <3>2 DEF MayExpire
  <2>5. CASE GrantingStep(c, n)
    BY <2>5
  <2>6. \/ UNCHANGED <<hash, idem, global, bySubject, grants>> /\ Returns(n, m)
        \/ /\ MayExpire(m.id, m.now)
           /\ global' = G
           /\ bySubject' = [bySubject EXCEPT ![m.subject] = U]
           /\ UNCHANGED <<idem, grants>>
           /\ Returns(n, m)
        \/ GrantingStep(c, n)
    BY <1>5, <2>1 DEF ClaimStep, GrantingStep, Advanced, Resent
  <2> QED BY <2>3, <2>4, <2>5, <2>6
<1>6. ASSUME NEW c \in Callers, NEW n \in Call, caller' = [caller EXCEPT ![c] = n],
             CloseStep(c, n)
      PROVE  Kinds
  <2> DEFINE m == caller[c]
  <2>1. /\ m.pc = "close" /\ m.now \in Nat /\ m.id \in Ids /\ m.subject \in Subjects
        /\ UNCHANGED <<clock, idem, drawn, grants>> /\ n.pc # "create"
    BY <1>1, <1>6 DEF CloseStep, Returns, Resent
  <2>2. CASE UNCHANGED <<hash, global, bySubject>>
    BY <1>2, <1>6, <2>1, <2>2
  <2>3. CASE /\ hash[m.id] # None /\ hash[m.id].state = "claimed"
             /\ hash' = [hash EXCEPT ![m.id] = Released(hash[m.id], m.now)]
             /\ global' = [global EXCEPT ![m.id] = 0]
             /\ bySubject' = [bySubject EXCEPT ![m.subject] =
                                [bySubject[m.subject] EXCEPT ![m.id] = 0]]
    <3>1. \A j \in Ids : /\ global'[j] \in {global[j], 0}
                         /\ \A u \in Subjects : bySubject'[u][j] \in {bySubject[u][j], 0}
      BY <1>1, <2>1, <2>3
    <3> QED BY <1>2, <1>6, <2>1, <2>3, <3>1
  <2> QED BY <1>6, <2>2, <2>3 DEF CloseStep
<1>7. ASSUME NEW i \in Ids, HolderDies(i)
      PROVE  UNCHANGED <<clock, hash, idem, global, bySubject, caller, drawn, grants>>
  BY <1>7 DEF HolderDies, redis
<1> QED BY <1>3, <1>4, <1>5, <1>6, <1>7, NextIsSteps DEF Steps

\* ContractInv is inductive relative to the invariants above.
LEMMA ContractInvStep ==
  ASSUME CallInv, IdentityInv, ClaimInv, LeaseInv, ContractInv, [Next]_vars
  PROVE  ContractInv'
<1> USE NoneAssumption
<1>1. CASE UNCHANGED <<clock, hash, idem, global, bySubject, caller, drawn, grants>>
  BY <1>1 DEF ContractInv
<1>2. /\ clock \in Nat /\ global \in [Ids -> Nat] /\ bySubject \in [Subjects -> [Ids -> Nat]]
      /\ caller \in [Callers -> Call] /\ drawn \subseteq Ids
      /\ hash \in [Ids -> Session \cup {None}] /\ grants \in [Ids -> Nat]
      /\ \A i \in Ids : hash[i] # None =>
           i \in drawn /\ hash[i] \in Session /\ hash[i].tombstoneExpiresAt \in Nat
      /\ \A c \in Callers : caller[c].now \in Nat
      /\ \A c \in Callers : caller[c].pc \in {"create", "claim"} => caller[c].id \in Ids
      /\ \A c \in Callers : caller[c].pc = "claim" => caller[c].subject \in Subjects
      /\ \A c \in Callers : caller[c].pc = "create" =>
           caller[c].key \in Keys /\ caller[c].intent \in Intents
  BY CallFields, SessionFields DEF CallInv, CallOK, TypeOK
<1>3. ASSUME NEW c \in Callers, NEW n \in Call, EndingStep(c, n)
      PROVE  ContractInv'
  <2>1. /\ \A d \in Callers : caller'[d] = IF d = c THEN n ELSE caller[d]
        /\ grants' = grants
        /\ n.pc = "create" => Resent(n, caller[c]) \/ n.id \in Ids \ drawn
        /\ \A j \in Ids :
             /\ hash'[j] = None <=> hash[j] = None
             /\ hash[j] # None => hash'[j].tombstoneExpiresAt = hash[j].tombstoneExpiresAt
             /\ global'[j] \in {global[j], 0}
             /\ \A u \in Subjects : bySubject'[u][j] \in {bySubject[u][j], 0}
    BY <1>2, <1>3 DEF EndingStep
  <2>2. \A i \in Ids : hash'[i] # None => global'[i] <= hash'[i].tombstoneExpiresAt
    BY <1>2, <2>1 DEF ContractInv
  <2>3. \A i \in Ids, u \in Subjects, v \in Subjects :
          bySubject'[u][i] # 0 /\ bySubject'[v][i] # 0 => u = v
    BY <2>1 DEF ContractInv
  <2>4. ASSUME NEW d \in Callers, caller'[d].pc = "create", hash'[caller'[d].id] # None,
               grants'[caller'[d].id] = 0
        PROVE  hash'[caller'[d].id].tombstoneExpiresAt
                 = caller'[d].now + TicketTTL + IdempotencyTTL
    <3>1. CASE d = c
      <4>1. caller'[d] = n /\ (Resent(n, caller[c]) \/ n.id \in Ids \ drawn)
        BY <2>1, <2>4, <3>1
      <4>2. CASE n.id \in Ids \ drawn
        BY <1>2, <2>1, <2>4, <4>1, <4>2
      <4>3. CASE Resent(n, caller[c])
        BY <1>2, <2>1, <2>4, <4>1, <4>3 DEF Resent, ContractInv
      <4> QED BY <4>1, <4>2, <4>3
    <3>2. CASE d # c
      BY <1>2, <2>1, <2>4, <3>2 DEF ContractInv
    <3> QED BY <3>1, <3>2
  <2> QED BY <2>2, <2>3, <2>4 DEF ContractInv
<1>4. ASSUME NEW c \in Callers, NEW n \in Call, StoringStep(c, n)
      PROVE  ContractInv'
  <2> DEFINE m == caller[c]
             tombstone == m.now + TicketTTL + IdempotencyTTL
             new == Candidate(m.id, m.key, m.intent, m.now)
  <2>1. /\ m.pc = "create" /\ m.id \in Ids /\ m.now \in Nat /\ Deliverable(m)
        /\ idem[m.key] = None /\ m.key \in Keys /\ m.intent \in Intents
        /\ UNCHANGED <<clock, global, bySubject, drawn, grants>>
        /\ \A d \in Callers : caller'[d] = IF d = c THEN n ELSE caller[d]
        /\ n.pc = "create" => Resent(n, m)
        /\ hash' = [hash EXCEPT ![m.id] = Kept(new, tombstone)]
    BY <1>2, <1>4 DEF StoringStep
  <2>2. new.tombstoneExpiresAt = tombstone /\ tombstone \in Nat
    BY <2>1, CandidateFields, LimitsAssumption
  <2>3. grants[m.id] = 0
    BY <2>1, CreateUnclaimed
  <2>4. NoLease(m.id)
    BY <2>1, <2>3 DEF LeaseInv, HolderInv
  <2> HIDE DEF new
  <2>5. /\ hash'[m.id] = Kept(new, tombstone)
        /\ \A j \in Ids \ {m.id} : hash'[j] = hash[j]
    BY <1>2, <2>1
  <2>6. \A i \in Ids : hash'[i] # None => global'[i] <= hash'[i].tombstoneExpiresAt
    BY <1>2, <2>1, <2>2, <2>4, <2>5 DEF ContractInv, NoLease, Kept
  <2>7. ASSUME NEW d \in Callers, caller'[d].pc = "create", hash'[caller'[d].id] # None,
               grants'[caller'[d].id] = 0
        PROVE  hash'[caller'[d].id].tombstoneExpiresAt
                 = caller'[d].now + TicketTTL + IdempotencyTTL
    <3>1. CASE d = c
      BY <2>1, <2>2, <2>5, <2>7, <3>1 DEF Resent, Kept
    <3>2. CASE d # c
      <4>1. caller'[d] = caller[d] /\ caller[d].id # m.id
        BY <2>1, <2>7, <3>2 DEF IdentityInv, OneCreate
      <4> QED BY <1>2, <2>1, <2>5, <2>7, <4>1 DEF ContractInv
    <3> QED BY <3>1, <3>2
  <2> QED BY <2>1, <2>6, <2>7 DEF ContractInv
<1>5. ASSUME NEW c \in Callers, NEW n \in Call, GrantingStep(c, n)
      PROVE  ContractInv'
  <2> DEFINE m == caller[c]
             G == ZRemRangeByScore(global, m.now)
             U == ZRemRangeByScore(bySubject[m.subject], m.now)
             expires == m.now + SessionMaxDuration
             tombstone == expires + IdempotencyTTL
             new == Claimed(hash[m.id], m.now)
  <2>1. /\ m.pc = "claim" /\ m.id \in Ids /\ m.now \in Nat /\ m.subject \in Subjects
        /\ hash[m.id] # None /\ hash[m.id].state = "issued"
        /\ \A d \in Callers : caller'[d] = IF d = c THEN n ELSE caller[d]
        /\ n.pc # "create"
        /\ hash' = [hash EXCEPT ![m.id] = Kept(new, tombstone)]
        /\ global' = ZAdd(G, m.id, expires)
        /\ bySubject' = [bySubject EXCEPT ![m.subject] = ZAdd(U, m.id, expires)]
        /\ grants' = [grants EXCEPT ![m.id] = grants[m.id] + 1]
    BY <1>2, <1>5 DEF GrantingStep
  <2>2. /\ new.tombstoneExpiresAt = tombstone
        /\ expires \in Nat /\ tombstone \in Nat /\ expires <= tombstone
    <3>1. hash[m.id] \in Session
      BY <1>2, <2>1
    <3>2. new.tombstoneExpiresAt = tombstone
      BY <2>1, <3>1, SessionUpdates
    <3> QED BY <2>1, <3>2, LimitsAssumption
  <2>3. grants[m.id] = 0 /\ NoLease(m.id)
    BY <2>1 DEF ClaimInv, LeaseInv, HolderInv
  <2> HIDE DEF new, expires, tombstone
  <2>4. /\ hash'[m.id] = Kept(new, tombstone)
        /\ \A j \in Ids \ {m.id} : hash'[j] = hash[j]
        /\ grants'[m.id] # 0 /\ \A j \in Ids \ {m.id} : grants'[j] = grants[j]
    BY <1>2, <2>1, <2>3
  <2>5. /\ global'[m.id] = expires
        /\ \A j \in Ids \ {m.id} : global'[j] \in {global[j], 0}
    BY <2>1 DEF ZAdd, ZRemRangeByScore
  <2>6. \A j \in Ids, u \in Subjects :
          bySubject'[u][j] # 0 => bySubject[u][j] # 0 \/ (u = m.subject /\ j = m.id)
    <3>1. \A j \in Ids \ {m.id} : ZAdd(U, m.id, expires)[j] \in {bySubject[m.subject][j], 0}
      BY <2>1 DEF ZAdd, ZRemRangeByScore
    <3>2. \A u \in Subjects : bySubject'[u] = IF u = m.subject THEN ZAdd(U, m.id, expires)
                                             ELSE bySubject[u]
      BY <1>2, <2>1
    <3> HIDE DEF U
    <3> QED BY <3>1, <3>2
  <2>7. \A i \in Ids : hash'[i] # None => global'[i] <= hash'[i].tombstoneExpiresAt
    BY <1>2, <2>1, <2>2, <2>4, <2>5 DEF ContractInv, Kept
  <2>8. \A i \in Ids, u \in Subjects, v \in Subjects :
          bySubject'[u][i] # 0 /\ bySubject'[v][i] # 0 => u = v
    BY <2>3, <2>6 DEF ContractInv, NoLease
  <2>9. ASSUME NEW d \in Callers, caller'[d].pc = "create", hash'[caller'[d].id] # None,
               grants'[caller'[d].id] = 0
        PROVE  hash'[caller'[d].id].tombstoneExpiresAt
                 = caller'[d].now + TicketTTL + IdempotencyTTL
    <3>1. caller'[d] = caller[d] /\ caller[d].id # m.id /\ caller[d].id \in Ids
      BY <1>2, <2>1, <2>4, <2>9
    <3> QED BY <2>4, <2>9, <3>1 DEF ContractInv
  <2> QED BY <2>7, <2>8, <2>9 DEF ContractInv
<1>6. CASE Tick
  <2>1. /\ UNCHANGED <<caller, grants, global, bySubject>>
        /\ \A j \in Ids : hash'[j] # None => hash'[j] = hash[j]
    BY <1>6 DEF Tick, UnexpiredHashes
  <2> QED BY <1>2, <2>1 DEF ContractInv
<1> QED BY <1>1, <1>3, <1>4, <1>5, <1>6, StepKinds DEF vars

\* ContractInv holds if the retry margin does.
THEOREM ContractInvariant == RetryMargin => (Spec => []ContractInv)
<1> SUFFICES ASSUME RetryMargin PROVE Spec => []ContractInv
  OBVIOUS
<1>1. Init => ContractInv
  BY IdleCall DEF Init, ContractInv
<1>2. CallInv /\ IdentityInv /\ ClaimInv /\ LeaseInv /\ ContractInv /\ [Next]_vars => ContractInv'
  BY ContractInvStep
<1>3. (Spec => []ClaimInv) /\ (Spec => []LeaseInv)
  BY ClaimInvariant, LeaseInvariant
<1> QED BY <1>1, <1>2, <1>3, CallInvariant, IdentityInvariant, PTL DEF Spec

\* The contract counts with the same Cardinality.
LEMMA SameCardinality == \A S : Contract!Cardinality(S) = Cardinality(S)
BY DEF Contract!Cardinality, Cardinality, Contract!IsFiniteSet, IsFiniteSet

\* The limits, of the leases that have not passed.
LeasedWithinLimits ==
  /\ Cardinality(Leased) <= MaxActive
  /\ \A u \in Subjects : Cardinality({p \in Leased : p[2] = u}) <= MaxActivePerSubject

\* The leases that the contract counts are members of the two sorted sets.
LEMMA LimitsOfLeased ==
  CallInv /\ ContractInv /\ LeasesWithinLimits => LeasedWithinLimits
<1> SUFFICES ASSUME CallInv, ContractInv, LeasesWithinLimits PROVE LeasedWithinLimits
  OBVIOUS
<1>1. clock \in Nat /\ global \in [Ids -> Nat]
  BY DEF CallInv, TypeOK
<1>2. \A p \in Leased : p[1] \in Members(global) /\ p[1] \in Members(bySubject[p[2]])
  BY <1>1 DEF Leased, Members
<1>3. \A p, q \in Leased : p[1] = q[1] => p = q
  BY DEF Leased, ContractInv
<1>4. \A z : /\ IsFiniteSet(Members(z))
             /\ \A S : IsFiniteSet(S) => Cardinality(S) \in Nat
  BY SetsAssumption, FS_Subset, FS_CardinalityType DEF Members
<1>5. Cardinality(Leased) <= MaxActive
  <2>1. /\ IsFiniteSet(Leased)
        /\ Cardinality(Leased) <= Cardinality(Members(global))
    BY <1>2, <1>3, <1>4, PairsBounded
  <2> QED BY <1>4, <2>1, LimitsAssumption DEF LeasesWithinLimits, ZCard
<1>6. ASSUME NEW u \in Subjects
      PROVE  Cardinality({p \in Leased : p[2] = u}) <= MaxActivePerSubject
  <2> DEFINE P == {p \in Leased : p[2] = u}
  <2>1. /\ \A p \in P : p[1] \in Members(bySubject[u])
        /\ \A p, q \in P : p[1] = q[1] => p = q
    BY <1>2, <1>3
  <2> HIDE DEF P
  <2>2. IsFiniteSet(P) /\ Cardinality(P) <= Cardinality(Members(bySubject[u]))
    BY <1>4, <2>1, PairsBounded
  <2>3. Cardinality(P) <= MaxActivePerSubject
    BY <1>4, <2>2, LimitsAssumption DEF LeasesWithinLimits, ZCard
  <2> QED BY <2>3 DEF P
<1> QED BY <1>5, <1>6 DEF LeasedWithinLimits

\* The same after a step.
LEMMA LimitsOfLeasedNext ==
  CallInv' /\ ContractInv' /\ LeasesWithinLimits' => LeasedWithinLimits'
BY LimitsOfLeased, PTL

\* The session a key names.
Owner(k) == IF idem[k] = None THEN None ELSE idem[k].id

\* A step that offers nothing and claims nothing answers a request.
LEMMA RedisAnswers ==
  ASSUME CallInv, CallInv', Fresh' \subseteq Fresh, Offers' \subseteq Offers,
         Leased' \subseteq Leased,
         \A k \in Keys : \/ Owner(k)' = Owner(k)
                         \/ /\ idem'[k] = None /\ idem[k] # None
                            /\ hash'[idem[k].id] = None /\ ~(global'[idem[k].id] > clock')
  PROVE  Contract!Next
<1> USE NoneAssumption
<1> DEFINE owner == [k \in Keys |-> IF idem[k] = None THEN None ELSE idem[k].id]
<1>1. owner' \in [Keys -> Ids \cup {None}]
  BY DEF CallInv, TypeOK, Entry
<1>2. ASSUME NEW i, hash'[i] = None, ~(global'[i] > clock') PROVE Contract!Over(i)
  BY <1>2 DEF Contract!Over, Offers, Leased
<1>3. \A k \in Keys : \/ owner'[k] = owner[k]
                      \/ owner'[k] = None /\ Contract!Over(owner[k])
  BY <1>2 DEF Owner
<1>4. Contract!GivenUp(Keys)
  BY <1>3 DEF Contract!GivenUp
<1>5. Contract!Answer
  BY <1>4 DEF Contract!Answer
<1> QED BY <1>1, <1>5 DEF Contract!Next

\* No ID becomes fresh again, if the calls that will create are those that were
\* already to create, and the sessions they stored are still there.
LEMMA FreshShrinks ==
  ASSUME drawn \subseteq drawn',
         \A d \in Callers :
           (caller'[d].pc = "create" /\ caller'[d].id \in Ids
            /\ hash'[caller'[d].id] = None /\ Deliverable(caller[d])')
             => \/ caller'[d].id \notin drawn
                \/ /\ caller[d].pc = "create" /\ caller[d].id = caller'[d].id
                   /\ hash[caller[d].id] = None /\ Deliverable(caller[d])
  PROVE  Fresh' \subseteq Fresh
BY DEF Fresh

\* A script that is sent again could be delivered before.
LEMMA ResentDelivers ==
  ASSUME NEW m \in Call, NEW n \in Call, Resent(n, m), Deliverable(n)
  PROVE  Deliverable(m)
<1>1. m.tries \in Nat /\ n.tries = m.tries + 1 /\ n.now = m.now
  BY CallFields, RetryAssumption DEF Resent
<1> QED BY <1>1 DEF Deliverable

\* A step that only ends sessions and leases is an answer.
LEMMA EndingImplements ==
  ASSUME CallInv, CallInv', NEW c \in Callers, NEW n \in Call, EndingStep(c, n)
  PROVE  Contract!Next
<1> USE NoneAssumption
<1>1. /\ \A d \in Callers : caller'[d] = IF d = c THEN n ELSE caller[d]
      /\ clock' = clock /\ idem' = idem /\ drawn \subseteq drawn'
      /\ n.pc = "create" => Resent(n, caller[c]) \/ n.id \in Ids \ drawn
      /\ \A j \in Ids :
           /\ hash'[j] = None <=> hash[j] = None
           /\ hash'[j] # None /\ hash'[j].state = "issued" => hash'[j] = hash[j]
           /\ global'[j] \in {global[j], 0}
           /\ \A u \in Subjects : bySubject'[u][j] \in {bySubject[u][j], 0}
      /\ clock \in Nat /\ caller \in [Callers -> Call]
  BY DEF EndingStep, CallInv, TypeOK
<1>2. Offers' \subseteq Offers
  BY <1>1 DEF Offers
<1>3. Leased' \subseteq Leased
  BY <1>1 DEF Leased
<1>4. ASSUME NEW d \in Callers, caller'[d].pc = "create", caller'[d].id \in Ids,
             hash'[caller'[d].id] = None, Deliverable(caller[d])'
      PROVE  \/ caller'[d].id \notin drawn
             \/ /\ caller[d].pc = "create" /\ caller[d].id = caller'[d].id
                /\ hash[caller[d].id] = None /\ Deliverable(caller[d])
  <2>1. CASE d # c
    BY <1>1, <1>4, <2>1 DEF Deliverable
  <2>2. CASE d = c /\ Resent(n, caller[c])
    <3>1. Deliverable(n)
      BY <1>1, <1>4, <2>2 DEF Deliverable
    <3>2. Deliverable(caller[c])
      BY <1>1, <2>2, <3>1, ResentDelivers
    <3> QED BY <1>1, <1>4, <2>2, <3>2 DEF Resent
  <2>3. CASE d = c /\ n.id \notin drawn
    BY <1>1, <2>3
  <2> QED BY <1>1, <1>4, <2>1, <2>2, <2>3
<1>5. Fresh' \subseteq Fresh
  BY <1>1, <1>4, FreshShrinks
<1>6. \A k \in Keys : Owner(k)' = Owner(k)
  BY <1>1 DEF Owner
<1> QED BY <1>2, <1>3, <1>5, <1>6, RedisAnswers

\* A create script that stores its candidate offers a fresh session; if its time
\* had already passed, the candidate is lost.
LEMMA StoringImplements ==
  ASSUME CallInv, CallInv', IdentityInv, ClaimInv, NEW c \in Callers, NEW n \in Call,
         StoringStep(c, n)
  PROVE  Contract!Next
<1> USE NoneAssumption
<1> DEFINE m == caller[c]
           id == m.id
           key == m.key
           tombstone == m.now + TicketTTL + IdempotencyTTL
           new == Candidate(m.id, m.key, m.intent, m.now)
           entry == [id |-> m.id, expiresAt |-> tombstone]
           u == SubjectOf[m.intent]
<1>1. /\ m.pc = "create" /\ id \in Ids /\ m.now \in Nat /\ Deliverable(m)
      /\ idem[key] = None /\ key \in Keys /\ m.intent \in Intents /\ id \in drawn
      /\ clock \in Nat /\ hash \in [Ids -> Session \cup {None}]
      /\ idem \in [Keys -> Entry \cup {None}] /\ caller \in [Callers -> Call]
      /\ UNCHANGED <<clock, global, bySubject, drawn>>
      /\ \A d \in Callers : caller'[d] = IF d = c THEN n ELSE caller[d]
      /\ n.pc = "create" => Resent(n, m)
      /\ hash' = [hash EXCEPT ![id] = Kept(new, tombstone)]
      /\ idem' = [idem EXCEPT ![key] = Kept(entry, tombstone)]
  BY CallFields DEF StoringStep, CallInv, CallOK, TypeOK
<1>2. /\ new.state = "issued" /\ new # None /\ Subject(new) = u /\ u \in Subjects
      /\ entry # None /\ entry.id = id /\ tombstone \in Nat
  <2>1. new \in Session /\ new.state = "issued" /\ new.intent = m.intent
    BY <1>1, CandidateFields
  <2>2. tombstone \in Nat
    BY <1>1, LimitsAssumption
  <2>3. entry \in Entry
    BY <1>1, <2>2 DEF Entry
  <2> QED BY <1>1, <2>1, <2>2, <2>3, SetsAssumption, EntryAssumption DEF Subject
<1>3. hash[id] = None
  BY <1>1, CreateUnclaimed
<1> HIDE DEF new, entry, tombstone
<1>4. /\ hash'[id] = Kept(new, tombstone) /\ \A j \in Ids \ {id} : hash'[j] = hash[j]
      /\ idem'[key] = Kept(entry, tombstone) /\ \A k \in Keys \ {key} : idem'[k] = idem[k]
  BY <1>1
<1>5. Leased' = Leased
  BY <1>1 DEF Leased
<1>6. ASSUME NEW d \in Callers, caller'[d].pc = "create", Deliverable(caller[d])'
      PROVE  /\ caller[d].pc = "create" /\ caller[d].id = caller'[d].id
             /\ Deliverable(caller[d])
  <2>1. CASE d # c
    BY <1>1, <1>6, <2>1 DEF Deliverable
  <2>2. CASE d = c
    BY <1>1, <1>6, <2>2 DEF Resent
  <2> QED BY <2>1, <2>2
<1>7. CASE clock >= tombstone
  <2>1. hash'[id] = None /\ idem'[key] = None
    BY <1>4, <1>7 DEF Kept
  <2>2. Offers' \subseteq Offers
    BY <1>4, <2>1 DEF Offers
  <2>3. Fresh' \subseteq Fresh
    <3>1. \A i \in Ids : hash'[i] = None => hash[i] = None
      BY <1>3, <1>4
    <3> HIDE DEF m, id
    <3> QED BY <1>1, <1>6, <3>1, FreshShrinks
  <2>4. \A k \in Keys : Owner(k)' = Owner(k)
    BY <1>1, <1>4, <2>1 DEF Owner
  <2> QED BY <1>5, <2>2, <2>3, <2>4, RedisAnswers
<1>8. CASE ~(clock >= tombstone)
  <2>1. hash'[id] = new /\ idem'[key] = entry
    BY <1>4, <1>8 DEF Kept
  <2>2. id \in Fresh
    BY <1>1, <1>3 DEF Fresh
  <2>3. Fresh' = Fresh \ {id}
    <3>1. ASSUME NEW i \in Fresh' PROVE i \in Fresh \ {id}
      <4>1. i \in Ids /\ i # id
        BY <1>1, <1>2, <2>1, <3>1 DEF Fresh
      <4>2. CASE i \notin drawn'
        BY <1>1, <4>1, <4>2 DEF Fresh
      <4>3. CASE \E d \in Callers :
                   /\ caller'[d].pc = "create" /\ caller'[d].id = i
                   /\ hash'[i] = None /\ Deliverable(caller[d])'
        BY <1>4, <1>6, <4>1, <4>3 DEF Fresh
      <4> QED BY <3>1, <4>2, <4>3 DEF Fresh
    <3>2. ASSUME NEW i \in Fresh, i # id PROVE i \in Fresh'
      <4>1. CASE i \notin drawn
        BY <1>1, <3>2, <4>1 DEF Fresh
      <4>2. CASE \E d \in Callers :
                   /\ caller[d].pc = "create" /\ caller[d].id = i
                   /\ hash[i] = None /\ Deliverable(caller[d])
        <5>1. PICK d \in Callers : /\ caller[d].pc = "create" /\ caller[d].id = i
                                   /\ hash[i] = None /\ Deliverable(caller[d])
          BY <4>2
        <5>2. d # c /\ caller'[d] = caller[d]
          BY <1>1, <3>2, <5>1
        <5>3. Deliverable(caller[d])' /\ hash'[i] = None
          BY <1>1, <1>4, <3>2, <5>1, <5>2 DEF Deliverable, Fresh
        <5> QED BY <3>2, <5>1, <5>2, <5>3 DEF Fresh
      <4> QED BY <3>2, <4>1, <4>2 DEF Fresh
    <3> HIDE DEF id
    <3> QED BY <3>1, <3>2 DEF id
  <2>4. <<id, u>> \in Offers' /\ Offers' \subseteq Offers \cup {<<id, u>>}
    BY <1>1, <1>2, <1>4, <2>1 DEF Offers
  <2> DEFINE owner == [k \in Keys |-> IF idem[k] = None THEN None ELSE idem[k].id]
  <2>5. /\ owner[key] = None /\ owner'[key] = id
        /\ \A k \in Keys \ {key} : owner'[k] = owner[k]
    BY <1>1, <1>2, <1>4, <2>1
  <2>6. Contract!GivenUp(Keys \ {key})
    BY <2>5 DEF Contract!GivenUp
  <2>7. PICK k \in Keys, i \in Ids, x \in Subjects : k = key /\ i = id /\ x = u
    BY <1>1, <1>2
  <2>8. Contract!GivenUp(Keys \ {k})
    BY <2>6, <2>7 DEF Contract!GivenUp
  <2> HIDE DEF key, id, u
  <2>9. Contract!Issue(k, i, x)
    BY <1>5, <2>2, <2>3, <2>4, <2>5, <2>7, <2>8 DEF Contract!Issue
  <2>10. owner' \in [Keys -> Ids \cup {None}]
    BY DEF CallInv, TypeOK, Entry
  <2> QED BY <2>9, <2>10 DEF Contract!Next
<1> QED BY <1>7, <1>8

\* A claim script that grants a lease consumes the offer within the limits; if
\* the lease has already passed (the script was sent too late) it only ends the
\* offer.
LEMMA GrantingImplements ==
  ASSUME RetryMargin, CallInv, CallInv', IdentityInv, ClaimInv, LeaseInv, ContractInv',
         LeasesWithinLimits', NEW c \in Callers, NEW n \in Call, GrantingStep(c, n)
  PROVE  Contract!Next
<1> USE NoneAssumption
<1> DEFINE m == caller[c]
           id == m.id
           key == m.key
           G == ZRemRangeByScore(global, m.now)
           U == ZRemRangeByScore(bySubject[m.subject], m.now)
           expires == m.now + SessionMaxDuration
           tombstone == expires + IdempotencyTTL
           new == Claimed(hash[m.id], m.now)
           entry == [id |-> idem[m.key].id, expiresAt |-> tombstone]
           u == m.subject
<1>1. /\ m.pc = "claim" /\ id \in Ids /\ m.now \in Nat /\ u \in Subjects /\ key \in Keys
      /\ clock \in Nat /\ hash \in [Ids -> Session \cup {None}]
      /\ idem \in [Keys -> Entry \cup {None}] /\ caller \in [Callers -> Call]
      /\ global \in [Ids -> Nat] /\ bySubject \in [Subjects -> [Ids -> Nat]]
      /\ UNCHANGED <<clock, drawn>>
      /\ \A d \in Callers : caller'[d] = IF d = c THEN n ELSE caller[d]
      /\ n.pc # "create"
      /\ hash[id] # None /\ hash[id].state = "issued"
      /\ hash' = [hash EXCEPT ![id] = Kept(new, tombstone)]
      /\ idem' = IF idem[key] = None THEN idem ELSE [idem EXCEPT ![key] = Kept(entry, tombstone)]
      /\ global' = ZAdd(G, id, expires)
      /\ bySubject' = [bySubject EXCEPT ![u] = ZAdd(U, id, expires)]
  BY CallFields DEF GrantingStep, CallInv, CallOK, TypeOK
<1>2. expires \in Nat /\ tombstone \in Nat /\ expires <= tombstone
  <2>1. m.now \in Nat
    BY <1>1
  <2> QED BY <2>1, LimitsAssumption
<1>3. new.state = "claimed" /\ new # None
  <2>1. hash[id] \in Session
    BY <1>1
  <2>2. new \in Session /\ new.state = "claimed"
    BY <1>1, <2>1, SessionUpdates
  <2> QED BY <2>2, SessionFields
<1>4. Subject(hash[id]) = u /\ hash[id].key = key
  BY <1>1 DEF IdentityInv, Agrees, SameRequest, Subject
<1>5. idem[key] # None /\ idem[key].id = id
  BY <1>1, <1>4 DEF IdentityInv, KeyAndSessionLiveTogether
<1>6. entry.id = id /\ entry # None
  <2>1. entry \in Entry
    BY <1>1, <1>2, <1>5 DEF Entry
  <2> QED BY <1>5, <2>1, EntryAssumption
<1>7. NoLease(id)
  BY <1>1 DEF ClaimInv, LeaseInv, HolderInv
<1> HIDE DEF new, expires, tombstone, entry
<1>8. /\ hash'[id] = Kept(new, tombstone) /\ \A j \in Ids \ {id} : hash'[j] = hash[j]
      /\ idem'[key] = Kept(entry, tombstone) /\ \A k \in Keys \ {key} : idem'[k] = idem[k]
  BY <1>1, <1>5
<1>9. /\ global'[id] = expires
      /\ \A j \in Ids \ {id} : global'[j] \in {global[j], 0}
  BY <1>1 DEF ZAdd, ZRemRangeByScore
<1>10. /\ bySubject'[u][id] = expires
       /\ \A j \in Ids, x \in Subjects :
            bySubject'[x][j] # 0 => bySubject[x][j] # 0 \/ (x = u /\ j = id)
  <2>1. /\ ZAdd(U, id, expires)[id] = expires
        /\ \A j \in Ids \ {id} : ZAdd(U, id, expires)[j] \in {bySubject[u][j], 0}
    BY <1>1 DEF ZAdd, ZRemRangeByScore
  <2>2. \A x \in Subjects : bySubject'[x] = IF x = u THEN ZAdd(U, id, expires)
                                           ELSE bySubject[x]
    BY <1>1
  <2> HIDE DEF U
  <2> QED BY <1>1, <2>1, <2>2
<1>11. Offers' \subseteq Offers \ {<<id, u>>}
  BY <1>3, <1>4, <1>8 DEF Offers, Kept
<1>12. Leased' \subseteq Leased \cup {<<id, u>>}
  BY <1>1, <1>7, <1>9, <1>10 DEF Leased, NoLease
<1>13. CASE expires > clock
  <2>1. idem'[key] = entry
    BY <1>1, <1>2, <1>8, <1>13 DEF Kept
  <2>2. PICK i \in Ids, x \in Subjects : i = id /\ x = u
    BY <1>1
  <2>3. <<i, x>> \in Offers
    BY <1>1, <1>4, <2>2 DEF Offers
  <2>4. <<i, x>> \in Leased'
    BY <1>1, <1>2, <1>9, <1>10, <1>13, <2>2 DEF Leased
  <2>5. /\ Cardinality(Leased') <= MaxActive
        /\ Cardinality({p \in Leased' : p[2] = x}) <= MaxActivePerSubject
    BY LimitsOfLeasedNext DEF LeasedWithinLimits
  <2> DEFINE owner == [k \in Keys |-> IF idem[k] = None THEN None ELSE idem[k].id]
  <2>6. \A k \in Keys : owner'[k] = owner[k]
    BY <1>1, <1>5, <1>6, <1>8, <2>1
  <2>7. Contract!GivenUp(Keys)
    BY <2>6 DEF Contract!GivenUp
  <2>8. Fresh' = Fresh
    <3>1. hash'[id] # None
      BY <1>1, <1>2, <1>3, <1>8, <1>13 DEF Kept
    <3>2. \A j \in Ids : hash'[j] = None <=> hash[j] = None
      BY <1>1, <1>8, <3>1
    <3>3. \A d \in Callers : caller'[d].pc = "create" <=> caller[d].pc = "create"
      BY <1>1
    <3>4. \A d \in Callers : caller[d].pc = "create" =>
            caller'[d] = caller[d] /\ (Deliverable(caller[d])' <=> Deliverable(caller[d]))
      BY <1>1 DEF Deliverable
    <3> QED BY <1>1, <3>2, <3>3, <3>4 DEF Fresh
  <2> HIDE DEF id, u, key
  <2>9. Contract!Claim(i, x)
    BY <1>11, <1>12, <2>2, <2>3, <2>4, <2>5, <2>7, <2>8, SameCardinality DEF Contract!Claim
  <2>10. owner' \in [Keys -> Ids \cup {None}]
    BY DEF CallInv, TypeOK, Entry
  <2> QED BY <2>9, <2>10 DEF Contract!Next
<1>14. CASE ~(expires > clock)
  <2>1. Leased' \subseteq Leased
    BY <1>1, <1>9, <1>12, <1>14 DEF Leased
  <2>2. Fresh' \subseteq Fresh
    <3>1. ASSUME NEW d \in Callers, caller'[d].pc = "create", caller'[d].id \in Ids,
                 hash'[caller'[d].id] = None, Deliverable(caller[d])'
          PROVE  \/ caller'[d].id \notin drawn
                 \/ /\ caller[d].pc = "create" /\ caller[d].id = caller'[d].id
                    /\ hash[caller[d].id] = None /\ Deliverable(caller[d])
      <4>1. d # c /\ caller'[d] = caller[d] /\ Deliverable(caller[d])
        BY <1>1, <3>1 DEF Deliverable
      <4>2. CASE caller[d].id # id
        BY <1>8, <3>1, <4>1, <4>2
      <4>3. CASE caller[d].id = id
        <5>1. /\ caller[d].pc = "create" /\ caller[d].tries \in 0..MaxRetries
              /\ caller[d].tries # 0 /\ caller[d].now \in Nat
          BY <1>1, <3>1, <4>1, <4>3, CallFields DEF IdentityInv, OneCreate
        <5>2. clock <= caller[d].now + RetryWindow /\ MaxRetries > 0
          BY <4>1, <5>1, RetryAssumption DEF Deliverable
        <5>3. caller[d].now <= m.now + 2 * ClockSkew
          BY <1>1, <4>3, <5>1 DEF ClaimInv
        <5>4. m.now \in Nat /\ tombstone = m.now + SessionMaxDuration + IdempotencyTTL
          BY <1>1 DEF tombstone, expires
        <5>5. tombstone > clock
          BY <1>1, <5>1, <5>2, <5>3, <5>4, RetryAssumption, LimitsAssumption DEF RetryMargin
        <5> QED BY <1>1, <1>2, <1>3, <1>8, <3>1, <4>1, <4>3, <5>5 DEF Kept
      <4> QED BY <4>2, <4>3
    <3> QED BY <1>1, <3>1, FreshShrinks
  <2>3. \A k \in Keys : \/ Owner(k)' = Owner(k)
                        \/ /\ idem'[k] = None /\ idem[k] # None
                           /\ hash'[idem[k].id] = None /\ ~(global'[idem[k].id] > clock')
    BY <1>1, <1>5, <1>6, <1>8, <1>9, <1>14 DEF Owner, Kept
  <2> QED BY <1>11, <2>1, <2>2, <2>3, RedisAnswers
<1> QED BY <1>13, <1>14

\* As time passes, offers and keys end together, after the lease; and a create
\* that may still be resent finds the session it stored.
LEMMA TickImplements ==
  ASSUME CallInv, CallInv', IdentityInv, ClaimInv, ContractInv, Tick
  PROVE  Contract!Next
<1> USE NoneAssumption
<1>1. /\ clock \in Nat /\ clock' = clock + 1 /\ global \in [Ids -> Nat]
      /\ UNCHANGED <<caller, grants, global, bySubject, drawn>>
      /\ \A j \in Ids : hash'[j] = IF hash[j] # None /\ clock + 1 >= hash[j].tombstoneExpiresAt
                                   THEN None ELSE hash[j]
      /\ \A k \in Keys : idem'[k] = IF idem[k] # None /\ clock + 1 >= idem[k].expiresAt
                                    THEN None ELSE idem[k]
  BY DEF Tick, UnexpiredHashes, UnexpiredKeys, CallInv, TypeOK
<1>2. Offers' \subseteq Offers
  BY <1>1 DEF Offers
<1>3. Leased' \subseteq Leased
  BY <1>1 DEF Leased
<1>4. ASSUME NEW d \in Callers, caller'[d].pc = "create", caller'[d].id \in Ids,
             hash'[caller'[d].id] = None, Deliverable(caller[d])'
      PROVE  /\ caller[d].pc = "create" /\ caller[d].id = caller'[d].id
             /\ hash[caller[d].id] = None /\ Deliverable(caller[d])
  <2> DEFINE m == caller[d]
  <2>1. /\ m.pc = "create" /\ m.id \in Ids /\ hash'[m.id] = None /\ caller'[d] = m
        /\ m.tries > 0 => clock + 1 <= m.now + RetryWindow
    BY <1>1, <1>4 DEF Deliverable
  <2>2. m.now \in Nat /\ m.tries \in Nat /\ RetryWindow \in Nat
    <3>1. m \in Call
      BY DEF CallInv, TypeOK
    <3> QED BY <3>1, CallFields, RetryAssumption
  <2>3. Deliverable(m)
    BY <1>1, <2>1, <2>2 DEF Deliverable
  <2>4. ASSUME hash[m.id] # None PROVE FALSE
    <3>1. m.tries > 0 /\ clock + 1 <= m.now + RetryWindow
      BY <2>1, <2>2, <2>4 DEF IdentityInv, OneCreate
    <3>2. /\ clock + 1 >= hash[m.id].tombstoneExpiresAt
          /\ hash[m.id].tombstoneExpiresAt \in Nat
      <4>1. hash[m.id] \in Session
        BY <2>1, <2>4 DEF CallInv, TypeOK
      <4> QED BY <1>1, <2>1, <2>4, <4>1, SessionFields
    <3>3. CASE grants[m.id] = 0
      <4>1. hash[m.id].tombstoneExpiresAt = m.now + TicketTTL + IdempotencyTTL
        BY <2>1, <2>4, <3>3 DEF ContractInv
      <4> QED BY <1>1, <2>2, <3>1, <3>2, <4>1, RetryAssumption, LimitsAssumption
    <3>4. CASE Settled(m)
      BY <1>1, <2>2, <3>1, <3>2, <3>4 DEF Settled
    <3> QED BY <2>1, <3>3, <3>4 DEF ClaimInv
  <2> QED BY <2>1, <2>3, <2>4
<1>5. Fresh' \subseteq Fresh
  BY <1>1, <1>4, FreshShrinks
<1>6. ASSUME NEW k \in Keys
      PROVE  \/ Owner(k)' = Owner(k)
             \/ /\ idem'[k] = None /\ idem[k] # None
                /\ hash'[idem[k].id] = None /\ ~(global'[idem[k].id] > clock')
  <2>1. CASE idem'[k] = idem[k]
    BY <2>1 DEF Owner
  <2>2. CASE idem'[k] # idem[k]
    <3> DEFINE i == idem[k].id
    <3>1. idem'[k] = None /\ idem[k] # None /\ clock + 1 >= idem[k].expiresAt
      BY <1>1, <2>2
    <3>2. /\ i \in Ids /\ hash[i] # None /\ hash[i].tombstoneExpiresAt = idem[k].expiresAt
          /\ idem[k].expiresAt \in Nat
      BY <3>1 DEF IdentityInv, KeyAndSessionLiveTogether, CallInv, TypeOK, Entry
    <3>3. hash'[i] = None
      BY <1>1, <3>1, <3>2
    <3>4. global[i] \in Nat /\ global[i] <= idem[k].expiresAt
      BY <1>1, <3>2 DEF ContractInv
    <3> QED BY <1>1, <3>1, <3>2, <3>3, <3>4
  <2> QED BY <2>1, <2>2
<1> QED BY <1>2, <1>3, <1>5, <1>6, RedisAnswers

\* The Redis store implements the contract of session.Store, for any number of
\* callers and any skew, if scripts are resent only within the retry margin.
THEOREM RedisImplementsContract == RetryMargin => (Spec => ImplementsContract)
<1> SUFFICES ASSUME RetryMargin PROVE Spec => ImplementsContract
  OBVIOUS
<1>1. Init => Contract!Init
  <2> SUFFICES ASSUME Init PROVE Contract!Init
    OBVIOUS
  <2>1. Fresh = Ids /\ Offers = {} /\ Leased = {}
    BY DEF Init, Fresh, Offers, Leased
  <2> QED BY <2>1 DEF Contract!Init, Init
<1>2. /\ CallInv /\ IdentityInv /\ ClaimInv /\ LeaseInv /\ ContractInv
      /\ CallInv' /\ ContractInv' /\ LeasesWithinLimits' /\ [Next]_vars
      => [Contract!Next]_(Contract!vars)
  <2> SUFFICES ASSUME CallInv, IdentityInv, ClaimInv, LeaseInv, ContractInv,
                      CallInv', ContractInv', LeasesWithinLimits', [Next]_vars
               PROVE  Contract!Next \/ UNCHANGED Contract!vars
    OBVIOUS
  <2>1. ASSUME UNCHANGED <<clock, hash, idem, global, bySubject, caller, drawn, grants>>
        PROVE  UNCHANGED Contract!vars
    <3>1. UNCHANGED Fresh
      BY <2>1 DEF Fresh, Deliverable
    <3>2. UNCHANGED <<Offers, Leased>>
      BY <2>1 DEF Offers, Leased
    <3> QED BY <2>1, <3>1, <3>2 DEF Contract!vars
  <2>2. \A c \in Callers, n \in Call :
          EndingStep(c, n) \/ StoringStep(c, n) \/ GrantingStep(c, n) => Contract!Next
    BY EndingImplements, StoringImplements, GrantingImplements
  <2>3. Tick => Contract!Next
    BY TickImplements
  <2> QED BY <2>1, <2>2, <2>3, StepKinds DEF vars
<1>3. /\ Spec => []ClaimInv
      /\ Spec => []LeaseInv
      /\ Spec => []ContractInv
  BY ClaimInvariant, LeaseInvariant, ContractInvariant
<1> QED BY <1>1, <1>2, <1>3, CallInvariant, IdentityInvariant, CapacityRespected, PTL
        DEF Spec, ImplementsContract, Contract!Spec
=============================================================================
