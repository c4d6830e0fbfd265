------------------------- MODULE SessionModelProofs -------------------------
(***************************************************************************)
(* What the proofs about both stores need of SessionModel: the candidate   *)
(* and the rewritten sessions are sessions, and which fields they change.  *)
(***************************************************************************)
EXTENDS SessionModel, FiniteSetTheorems, TLAPS

\* The session Issue proposes, field by field (Manager.Issue's candidate).
LEMMA CandidateFields ==
  ASSUME NEW i \in Ids, NEW k \in Keys, NEW intent \in Intents, NEW t \in Nat
  PROVE  LET s == Candidate(i, k, intent, t)
         IN /\ s \in Session
            /\ s.key = k /\ s.intent = intent /\ s.cipher = i /\ s.state = "issued"
            /\ s.ticketExpiresAt = t + TicketTTL
            /\ s.tombstoneExpiresAt = t + TicketTTL + IdempotencyTTL
<1>1. t + TicketTTL \in Nat /\ t + TicketTTL + IdempotencyTTL \in Nat
  BY LimitsAssumption
<1> QED BY <1>1 DEF Candidate, Session, States, Reasons

\* The three ways both stores rewrite a stored session give sessions, leave its
\* key and intent alone and clear its ciphertext; only a claim moves the
\* tombstone.
LEMMA SessionUpdates ==
  ASSUME NEW s \in Session, NEW t \in Nat
  PROVE  /\ TicketExpired(s, t) \in Session
         /\ Claimed(s, t) \in Session
         /\ Released(s, t) \in Session
         /\ \A r \in {TicketExpired(s, t), Released(s, t)} :
              /\ r.key = s.key /\ r.intent = s.intent /\ r.cipher = None
              /\ r.state = "closed"
              /\ r.tombstoneExpiresAt = s.tombstoneExpiresAt
         /\ LET r == Claimed(s, t)
            IN /\ r.key = s.key /\ r.intent = s.intent /\ r.cipher = None
               /\ r.state = "claimed"
               /\ r.expiresAt = t + SessionMaxDuration
               /\ r.tombstoneExpiresAt = t + SessionMaxDuration + IdempotencyTTL
<1>1. t + SessionMaxDuration \in Nat /\ t + SessionMaxDuration + IdempotencyTTL \in Nat
  BY LimitsAssumption
<1>2. /\ TicketExpired(s, t) \in Session
      /\ LET r == TicketExpired(s, t)
         IN /\ r.key = s.key /\ r.intent = s.intent /\ r.cipher = None
            /\ r.state = "closed" /\ r.tombstoneExpiresAt = s.tombstoneExpiresAt
  BY DEF TicketExpired, Session, States, Reasons
<1>3. /\ Released(s, t) \in Session
      /\ LET r == Released(s, t)
         IN /\ r.key = s.key /\ r.intent = s.intent /\ r.cipher = None
            /\ r.state = "closed" /\ r.tombstoneExpiresAt = s.tombstoneExpiresAt
  BY DEF Released, Session, States, Reasons
<1>4. /\ Claimed(s, t) \in Session
      /\ LET r == Claimed(s, t)
         IN /\ r.key = s.key /\ r.intent = s.intent /\ r.cipher = None
            /\ r.state = "claimed"
            /\ r.expiresAt = t + SessionMaxDuration
            /\ r.tombstoneExpiresAt = t + SessionMaxDuration + IdempotencyTTL
  BY <1>1 DEF Claimed, Session, States, Reasons
<1> QED BY <1>2, <1>3, <1>4

\* A stored session has the fields of its type.
LEMMA SessionFields ==
  ASSUME NEW s \in Session
  PROVE  /\ s # None /\ s.key \in Keys /\ s.intent \in Intents
         /\ s.cipher \in Ids \cup {None} /\ s.state \in States
         /\ s.ticketExpiresAt \in Nat /\ s.expiresAt \in Nat
         /\ s.tombstoneExpiresAt \in Nat /\ s.closedAt \in Nat
         /\ Subject(s) \in Subjects
BY NoneAssumption, SetsAssumption DEF Session, Subject

\* Pairs that differ in their first component are no more than the values it
\* takes: the contract counts <<session, subject>> pairs, the stores count
\* sessions.
LEMMA PairsBounded ==
  ASSUME NEW P, NEW A, IsFiniteSet(A), \A p \in P : p[1] \in A,
         \A p, q \in P : p[1] = q[1] => p = q
  PROVE  IsFiniteSet(P) /\ Cardinality(P) <= Cardinality(A)
<1> DEFINE f == [p \in P |-> p[1]]
<1>1. f \in Injection(P, A)
  BY DEF Injection, IsInjective
<1> HIDE DEF f
<1> QED BY <1>1, FS_Injection
=============================================================================
