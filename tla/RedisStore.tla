----------------------------- MODULE RedisStore -----------------------------
(***************************************************************************)
(* internal/store/redis: the production store.  Sessions are hashes with a *)
(* TTL, idempotency keys are strings with a TTL, leases are members of a   *)
(* global and a per-subject sorted set scored by expiry.  Each store       *)
(* operation is a sequence of round trips by one of several callers (the   *)
(* requests in flight in all replicas); a Lua script is one atomic step.   *)
(*                                                                         *)
(* A round trip may fail at any point (Fail), and go-redis may resend a    *)
(* script whose reply was lost, so a script can be applied more than once. *)
(* Redis expires keys by its own clock, `clock'; the gateway's reading of  *)
(* the time may be up to ClockSkew away from it.                           *)
(***************************************************************************)
EXTENDS SessionModel

CONSTANTS
  Callers,      \* requests that may be in flight at once
  ClockSkew,    \* how far a gateway's clock may be from Redis's
  MaxRetries,   \* bound: resends of one script by the client library
  RetryWindow   \* a script is not resent later than this after its call

ASSUME RetryAssumption ==
  /\ ClockSkew \in Nat /\ MaxRetries \in Nat /\ RetryWindow \in Nat
  /\ RetryWindow < TicketTTL + IdempotencyTTL

\* The value of an idempotency key, and its expiry.
Entry == [id : Ids, expiresAt : Nat]

ASSUME EntryAssumption == None \notin Entry

VARIABLES
  clock,        \* Redis's clock
  hash,         \* session:<id>, or None
  idem,         \* idem:<key>: a session ID and the key's expiry, or None
  global,       \* the sorted set `leases': score of each member, 0 if absent
  bySubject,    \* the sorted set of each subject
  caller,       \* the call each caller is in
  drawn,        \* session IDs drawn by Issue
  access,       \* history: ExpiresAt given to the connection that holds i, or 0
  grants,       \* history: how often the claim script succeeded for i
  reply         \* history: the last answer that a property looks at

redis == <<hash, idem, global, bySubject>>
vars == <<clock, hash, idem, global, bySubject, caller, drawn, access, grants, reply>>

Pcs == {"idle", "create", "loadIssue", "get", "loadReplay",
        "identity", "claim", "loadClaim", "subject", "close"}

Call == [pc : Pcs, key : Keys \cup {None}, intent : Intents \cup {None},
         id : Ids \cup {None}, ticket : Ids \cup {None},
         subject : Subjects \cup {None}, console : Consoles \cup {None},
         fresh : BOOLEAN, now : Nat, tries : 0..MaxRetries]

Idle == [pc |-> "idle", key |-> None, intent |-> None, id |-> None,
         ticket |-> None, subject |-> None, console |-> None,
         fresh |-> FALSE, now |-> 0, tries |-> 0]

Reply == [op : {"none", "issue", "replay", "claim"}, err : Errors,
          id : Ids \cup {None}, ticket : Ids \cup {None},
          intent : Intents \cup {None}, now : Nat]

Silent == [op |-> "none", err |-> "ok", id |-> None, ticket |-> None,
           intent |-> None, now |-> 0]

TypeOK ==
  /\ clock \in Nat
  /\ hash \in [Ids -> Session \cup {None}]
  /\ idem \in [Keys -> Entry \cup {None}]
  /\ global \in [Ids -> Nat]
  /\ bySubject \in [Subjects -> [Ids -> Nat]]
  /\ caller \in [Callers -> Call]
  /\ drawn \subseteq Ids
  /\ access \in [Ids -> Nat]
  /\ grants \in [Ids -> Nat]
  /\ reply \in Reply

Init ==
  /\ clock = 1
  /\ hash = [i \in Ids |-> None]
  /\ idem = [k \in Keys |-> None]
  /\ global = [i \in Ids |-> 0]
  /\ bySubject = [u \in Subjects |-> [i \in Ids |-> 0]]
  /\ caller = [c \in Callers |-> Idle]
  /\ drawn = {}
  /\ access = [i \in Ids |-> 0]
  /\ grants = [i \in Ids |-> 0]
  /\ reply = Silent

-----------------------------------------------------------------------------
(* Redis                                                                   *)

\* Keys whose expiry is not in the future are gone; PEXPIREAT and PXAT with a
\* time that has passed remove the key at once.
UnexpiredHashes(h, t) ==
  [i \in Ids |-> IF h[i] # None /\ t >= h[i].tombstoneExpiresAt THEN None ELSE h[i]]
UnexpiredKeys(d, t) ==
  [k \in Keys |-> IF d[k] # None /\ t >= d[k].expiresAt THEN None ELSE d[k]]

\* Mutant: off by one.
ZRemRangeLate(z, t) == [i \in Ids |-> IF z[i] < t THEN 0 ELSE z[i]]

\* Mutants: nothing is removed; the score is the tombstone's, not the lease's.
ZRemNothing(z, i) == z
ZAddTombstone(z, i, score) == [z EXCEPT ![i] = score + IdempotencyTTL]

ZRemRangeByScore(z, t) == [i \in Ids |-> IF z[i] <= t THEN 0 ELSE z[i]]
ZRem(z, i) == [z EXCEPT ![i] = 0]
ZAdd(z, i, score) == [z EXCEPT ![i] = score]
Members(z) == {i \in Ids : z[i] # 0}
ZCard(z) == Cardinality(Members(z))

\* Mutant: one lease too many.
AtCapacityOffByOne(all, ofSubject) ==
  ZCard(all) > MaxActive \/ ZCard(ofSubject) > MaxActivePerSubject

\* The two limits that the claim script checks.
AtCapacity(all, ofSubject) ==
  ZCard(all) >= MaxActive \/ ZCard(ofSubject) >= MaxActivePerSubject

-----------------------------------------------------------------------------
(* The callers                                                             *)

\* What Manager.config.Now() may return at this moment.
Readings == {t \in 1..(clock + ClockSkew) : t + ClockSkew >= clock}

Begin(c, call, now) ==
  /\ caller[c].pc = "idle"
  /\ caller' = [caller EXCEPT ![c] = [call EXCEPT !.now = now]]
  /\ UNCHANGED <<clock, redis, grants>>
  /\ reply' = Silent

\* The reply to a script arrives, or it is lost and the client library sends
\* the script again.
Deliverable(m) == m.tries > 0 => clock <= m.now + RetryWindow
Arrive(c, next, answer) ==
  \/ /\ caller' = [caller EXCEPT ![c] = [next EXCEPT !.tries = 0]]
     /\ reply' = answer
  \/ /\ caller[c].tries < MaxRetries
     /\ caller' = [caller EXCEPT ![c].tries = @ + 1]
     /\ reply' = Silent

Finish(c, answer) ==
  /\ caller' = [caller EXCEPT ![c] = Idle]
  /\ reply' = answer

\* Issue: CreateOrGet -------------------------------------------------------
StartIssue(c, k, intent, id, now) ==
  /\ id \notin drawn
  /\ drawn' = drawn \cup {id}
  /\ Begin(c, [Idle EXCEPT !.pc = "create", !.key = k, !.intent = intent,
                           !.id = id], now)
  /\ UNCHANGED access

CreateScript(c) ==
  LET m == caller[c]
      sid == IF idem[m.key] = None THEN None ELSE idem[m.key].id
      s == IF sid = None THEN None ELSE hash[sid]
      new == Candidate(m.id, m.key, m.intent, m.now)
  IN /\ m.pc = "create"
     /\ Deliverable(m)
     /\ UNCHANGED <<clock, global, bySubject, drawn, access, grants>>
     /\ \/ /\ sid = None
           /\ hash' = UnexpiredHashes([hash EXCEPT ![m.id] = new], clock)
           /\ idem' = UnexpiredKeys(
                        [idem EXCEPT ![m.key] =
                           [id |-> m.id, expiresAt |-> new.tombstoneExpiresAt]],
                        clock)
           /\ Arrive(c, [m EXCEPT !.pc = "loadIssue", !.fresh = TRUE], Silent)
        \/ /\ sid # None
           /\ s # None => s.intent = m.intent /\ ~Usable(s, m.now)
           /\ hash' = IF s # None /\ s.state = "issued"
                      THEN [hash EXCEPT ![sid] = TicketExpired(@, m.now)]
                      ELSE hash
           /\ UNCHANGED idem
           /\ Arrive(c, Idle, Silent)                 \* FailedPrecondition
        \/ /\ sid # None /\ s # None
           /\ s.intent # m.intent
           /\ UNCHANGED <<hash, idem>>
           /\ Arrive(c, Idle, Silent)                 \* Conflict
        \/ /\ sid # None /\ s # None
           /\ s.intent = m.intent
           /\ Usable(s, m.now)
           /\ UNCHANGED <<hash, idem>>
           /\ Arrive(c, [m EXCEPT !.pc = "loadIssue", !.id = sid], Silent)

\* Mutant: a replay answers without the ciphertext that was loaded.
LoadIssueBlindly(c) ==
  LET m == caller[c]
  IN /\ m.pc = "loadIssue"
     /\ UNCHANGED <<clock, redis, drawn, access, grants>>
     /\ Finish(c, IF hash[m.id] = None THEN Silent
                  ELSE [op |-> "issue", err |-> IF m.fresh THEN "ok" ELSE "replayed",
                        id |-> m.id, ticket |-> m.id, intent |-> m.intent,
                        now |-> m.now])

\* The second round trip of CreateOrGet, then the end of Issue: a replay
\* decrypts what was loaded, a fresh session answers its own ticket.
LoadIssue(c) ==
  LET m == caller[c]
      s == hash[m.id]
      ticket == IF m.fresh THEN m.id ELSE s.cipher
  IN /\ m.pc = "loadIssue"
     /\ UNCHANGED <<clock, redis, drawn, access, grants>>
     /\ Finish(c, IF s = None \/ ticket = None THEN Silent
                  ELSE [op |-> "issue", err |-> IF m.fresh THEN "ok" ELSE "replayed",
                        id |-> m.id, ticket |-> ticket, intent |-> m.intent,
                        now |-> m.now])

\* Replay: GetByKey ---------------------------------------------------------
StartReplay(c, k, u, console) ==
  /\ Begin(c, [Idle EXCEPT !.pc = "get", !.key = k, !.subject = u,
                           !.console = console], 0)
  /\ UNCHANGED <<drawn, access>>

Get(c) ==
  LET m == caller[c]
  IN /\ m.pc = "get"
     /\ UNCHANGED <<clock, redis, drawn, access, grants>>
     /\ IF idem[m.key] = None
        THEN Finish(c, Silent)
        ELSE /\ caller' = [caller EXCEPT ![c] =
                             [m EXCEPT !.pc = "loadReplay", !.id = idem[m.key].id]]
             /\ reply' = Silent

LoadReplay(c, now) ==
  LET m == caller[c]
      s == hash[m.id]
  IN /\ m.pc = "loadReplay"
     /\ UNCHANGED <<clock, redis, drawn, access, grants>>
     /\ Finish(c, IF ReplayVerdict(s, m.subject, m.console, now) # "replayed"
                  THEN Silent
                  ELSE [op |-> "replay", err |-> "replayed", id |-> m.id,
                        ticket |-> s.cipher, intent |-> None, now |-> now])

\* Claim: ClaimAndReserve ---------------------------------------------------
StartClaim(c, id, ticket, now) ==
  /\ Begin(c, [Idle EXCEPT !.pc = "identity", !.id = id, !.ticket = ticket], now)
  /\ UNCHANGED <<drawn, access>>

ReadIdentity(c) ==
  LET m == caller[c]
      s == hash[m.id]
  IN /\ m.pc = "identity"
     /\ UNCHANGED <<clock, redis, drawn, access, grants>>
     /\ IF s = None
        THEN Finish(c, Silent)
        ELSE /\ caller' = [caller EXCEPT ![c] =
                  [m EXCEPT !.pc = "claim", !.key = s.key, !.subject = Subject(s)]]
             /\ reply' = Silent

ClaimScript(c) ==
  LET m == caller[c]
      s == hash[m.id]
      G == ZRemRangeByScore(global, m.now)
      U == ZRemRangeByScore(bySubject[m.subject], m.now)
      expires == m.now + SessionMaxDuration
      Full == AtCapacity(G, U)
      Refuse(answer) == /\ global' = G
                        /\ bySubject' = [bySubject EXCEPT ![m.subject] = U]
                        /\ UNCHANGED <<idem, grants>>
                        /\ Arrive(c, Idle, answer)
  IN /\ m.pc = "claim"
     /\ Deliverable(m)
     /\ UNCHANGED <<clock, drawn, access>>
     /\ \/ /\ s = None                                \* NotFound
           /\ UNCHANGED <<redis, grants>>
           /\ Arrive(c, Idle, Silent)
        \/ /\ s # None /\ ~Usable(s, m.now)           \* FailedPrecondition
           /\ hash' = IF s.state = "issued"
                      THEN [hash EXCEPT ![m.id] = TicketExpired(@, m.now)]
                      ELSE hash
           /\ Refuse(Silent)
        \/ /\ s # None /\ Usable(s, m.now)            \* InvalidTicket
           /\ m.ticket # m.id
           /\ UNCHANGED hash
           /\ Refuse(Silent)
        \/ /\ s # None /\ Usable(s, m.now)
           /\ m.ticket = m.id
           /\ Full
           /\ UNCHANGED hash
           /\ Refuse([op |-> "claim", err |-> "Capacity", id |-> m.id,
                      ticket |-> None, intent |-> s.intent, now |-> m.now])
        \/ /\ s # None /\ Usable(s, m.now)
           /\ m.ticket = m.id
           /\ ~Full
           /\ hash' = UnexpiredHashes([hash EXCEPT ![m.id] = Claimed(@, m.now)], clock)
           /\ idem' = IF idem[m.key] = None THEN idem
                      ELSE UnexpiredKeys([idem EXCEPT ![m.key].expiresAt =
                                            expires + IdempotencyTTL], clock)
           /\ global' = ZAdd(G, m.id, expires)
           /\ bySubject' = [bySubject EXCEPT ![m.subject] = ZAdd(U, m.id, expires)]
           /\ grants' = [grants EXCEPT ![m.id] = @ + 1]
           /\ Arrive(c, [m EXCEPT !.pc = "loadClaim"], Silent)

\* The last round trip of Claim.  Only if it finds the session does the caller
\* learn that it holds a lease.
LoadClaim(c) ==
  LET m == caller[c]
  IN /\ m.pc = "loadClaim"
     /\ access' = IF hash[m.id] = None THEN access
                  ELSE [access EXCEPT ![m.id] = m.now + SessionMaxDuration]
     /\ Finish(c, Silent)
     /\ UNCHANGED <<clock, redis, drawn, grants>>

\* Close: CloseAndRelease, by the connection that holds the lease -----------
StartClose(c, id, now) ==
  /\ access[id] # 0
  /\ access' = [access EXCEPT ![id] = 0]
  /\ Begin(c, [Idle EXCEPT !.pc = "subject", !.id = id], now)
  /\ UNCHANGED drawn

ReadSubject(c) ==
  LET m == caller[c]
      s == hash[m.id]
  IN /\ m.pc = "subject"
     /\ UNCHANGED <<clock, redis, drawn, access, grants>>
     /\ IF s = None
        THEN Finish(c, Silent)
        ELSE /\ caller' = [caller EXCEPT ![c] =
                             [m EXCEPT !.pc = "close", !.subject = Subject(s)]]
             /\ reply' = Silent

CloseScript(c) ==
  LET m == caller[c]
      s == hash[m.id]
      Holds == s # None /\ s.state = "claimed"
  IN /\ m.pc = "close"
     /\ Deliverable(m)
     /\ hash' = IF Holds THEN [hash EXCEPT ![m.id] = Released(@, m.now)] ELSE hash
     /\ global' = IF Holds THEN ZRem(global, m.id) ELSE global
     /\ bySubject' = IF Holds THEN [bySubject EXCEPT ![m.subject] = ZRem(@, m.id)]
                     ELSE bySubject
     /\ Arrive(c, Idle, Silent)
     /\ UNCHANGED <<clock, idem, drawn, access, grants>>

\* Failures ------------------------------------------------------------------
\* A call ends with an error: a timeout, a canceled request, a broken
\* connection, or the death of its gateway.  What it did to Redis stays.
Fail(c) ==
  /\ caller[c].pc # "idle"
  /\ Finish(c, Silent)
  /\ UNCHANGED <<clock, redis, drawn, access, grants>>

\* The gateway that carries connection i dies and never closes it.
HolderDies(i) ==
  /\ access[i] # 0
  /\ access' = [access EXCEPT ![i] = 0]
  /\ reply' = Silent
  /\ UNCHANGED <<clock, redis, caller, drawn, grants>>

Tick ==
  /\ clock < MaxTime
  /\ clock' = clock + 1
  /\ hash' = UnexpiredHashes(hash, clock + 1)
  /\ idem' = UnexpiredKeys(idem, clock + 1)
  /\ reply' = Silent
  /\ UNCHANGED <<global, bySubject, caller, drawn, access, grants>>

Next ==
  \/ \E c \in Callers :
       \/ \E k \in Keys, intent \in Intents, id \in Ids, now \in Readings :
             StartIssue(c, k, intent, id, now)
       \/ CreateScript(c)
       \/ LoadIssue(c)
       \/ \E k \in Keys, u \in Subjects, console \in Consoles :
             StartReplay(c, k, u, console)
       \/ Get(c)
       \/ \E now \in Readings : LoadReplay(c, now)
       \/ \E id \in drawn, ticket \in Ids, now \in Readings :
             StartClaim(c, id, ticket, now)
       \/ ReadIdentity(c)
       \/ ClaimScript(c)
       \/ LoadClaim(c)
       \/ \E id \in Ids, now \in Readings : StartClose(c, id, now)
       \/ ReadSubject(c)
       \/ CloseScript(c)
       \/ Fail(c)
  \/ \E i \in Ids : HolderDies(i)
  \/ Tick

Spec == Init /\ [][Next]_vars

-----------------------------------------------------------------------------
(* Properties                                                              *)

\* A ticket is consumed at most once, although the claim script may be sent
\* again after a lost reply and any number of callers race for it.
SingleClaim == \A i \in Ids : grants[i] <= 1

\* Neither sorted set ever holds more leases than its limit, whichever clocks
\* the replicas sweep and score with.
LeasesWithinLimits ==
  /\ ZCard(global) <= MaxActive
  /\ \A u \in Subjects : ZCard(bySubject[u]) <= MaxActivePerSubject

\* The script writes, extends and expires a session and its idempotency key
\* together, so neither survives the other: CreateOrGet never meets a key whose
\* session is gone (the `not fp' branch of the script).
KeyAndSessionLiveTogether ==
  /\ \A k \in Keys : idem[k] # None =>
       /\ hash[idem[k].id] # None
       /\ hash[idem[k].id].key = k
       /\ hash[idem[k].id].tombstoneExpiresAt = idem[k].expiresAt
  /\ \A i \in Ids : hash[i] # None =>
       idem[hash[i].key] # None /\ idem[hash[i].key].id = i

\* An admitted connection keeps its lease in both sorted sets, and a claimed
\* session to close, until it closes or its ExpiresAt passes (clocks in step);
\* a session that was closed holds no lease in either of them.
LeaseWhileInUse ==
  \A i \in Ids :
    /\ access[i] > clock => /\ hash[i] # None /\ hash[i].state = "claimed"
                            /\ global[i] = access[i]
                            /\ bySubject[Subject(hash[i])][i] = access[i]
    /\ hash[i] # None /\ hash[i].state = "closed" =>
         global[i] = 0 /\ \A u \in Subjects : bySubject[u][i] = 0

\* A lease nobody will return (its claim reply was lost, its gateway died, its
\* close failed) is due for removal at most SessionMaxDuration from now.
LeaseEndsInTime ==
  \A i \in Ids : /\ global[i] <= clock + ClockSkew + SessionMaxDuration
                 /\ \A u \in Subjects :
                      bySubject[u][i] <= clock + ClockSkew + SessionMaxDuration

\* ErrCapacity is answered only when leases that are unexpired at the caller's
\* time fill a limit, in the global set or in the set of that subject.
CapacityRefusalIsReal ==
  reply.op = "claim" =>
    \/ Cardinality({i \in Ids : global[i] > reply.now}) >= MaxActive
    \/ Cardinality({i \in Ids : bySubject[SubjectOf[reply.intent]][i] > reply.now})
         >= MaxActivePerSubject

\* Issue answers with the ticket of the session it names, and that session was
\* created for the same intent, although it is loaded one round trip after the
\* script found it and others may claim, close or expire it in between.
IssuedTicketMatchesRequest ==
  reply.op \in {"issue", "replay"} =>
    /\ reply.ticket = reply.id
    /\ reply.op = "issue" => hash[reply.id].intent = reply.intent
    /\ reply.err = "replayed" => hash[reply.id].state = "issued"

-----------------------------------------------------------------------------
(* Refinement                                                              *)

\* An ID is fresh until its create script has stored it, or can no longer be
\* sent.
Fresh ==
  {i \in Ids : i \notin drawn \/ \E c \in Callers :
     /\ caller[c].pc = "create" /\ caller[c].id = i
     /\ hash[i] = None /\ Deliverable(caller[c])}

Offers == {p \in Ids \X Subjects : /\ hash[p[1]] # None
                                  /\ hash[p[1]].state = "issued"
                                  /\ Subject(hash[p[1]]) = p[2]}

\* A lease counts until its score has passed, whether or not some claim has
\* swept it yet.
Leased == {p \in Ids \X Subjects : global[p[1]] > clock /\ bySubject[p[2]][p[1]] # 0}

Contract == INSTANCE SessionStore WITH
  fresh <- Fresh,
  offers <- Offers,
  active <- Leased,
  owner <- [k \in Keys |-> IF idem[k] = None THEN None ELSE idem[k].id]

\* The Redis store implements the same contract as the memory store.
ImplementsContract == Contract!Spec
=============================================================================
