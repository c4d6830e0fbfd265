---------------------------- MODULE SessionModel ----------------------------
(***************************************************************************)
(* Vocabulary shared by the two session stores: the durations and limits   *)
(* of the gateway (internal/config, session.ManagerConfig), the session    *)
(* record (internal/session/model.go) and the candidate that Manager.Issue *)
(* hands to a store.                                                       *)
(*                                                                         *)
(* Data abstraction.  Times are natural numbers and 0 is Go's zero time.   *)
(* A session ID, its random ticket and its lease ID are drawn together, so *)
(* the ticket of session i is i, its digest is i, and its AES-GCM          *)
(* ciphertext is i until it is cleared (None).  An intent is what          *)
(* Fingerprint hashes: two requests have the same fingerprint iff they are *)
(* the same intent.                                                        *)
(***************************************************************************)
EXTENDS Naturals, FiniteSets

CONSTANTS
  Ids,                  \* session IDs the gateway may draw
  Keys,                 \* idempotency keys (one name space for all tenants)
  Intents,              \* request fingerprints
  Subjects,             \* subject IDs
  SubjectOf,            \* the subject of an intent
  Consoles,             \* VM consoles: an instance and its resource version
  ConsoleOf,            \* the VNC console an intent asks for, or None
  TicketTTL, SessionMaxDuration, IdempotencyTTL,
  MaxActive, MaxActivePerSubject,
  MaxTime,              \* bound: the clock stops here
  None                  \* "not there": a missing map entry, a cleared field

\* NewManager refuses limits that are not positive; config.Load also wants the
\* ticket to be shorter than the session.
ASSUME LimitsAssumption ==
  /\ TicketTTL \in Nat \ {0}
  /\ SessionMaxDuration \in Nat \ {0}
  /\ IdempotencyTTL \in Nat \ {0}
  /\ MaxActive \in Nat \ {0}
  /\ MaxActivePerSubject \in Nat \ {0}
  /\ MaxTime \in Nat

ASSUME SetsAssumption ==
  /\ IsFiniteSet(Ids)
  /\ SubjectOf \in [Intents -> Subjects]
  /\ ConsoleOf \in [Intents -> Consoles \cup {None}]

States == {"issued", "claimed", "closed"}
Reasons == {"", "ticket_expired", "max_duration", "released"}

Session ==
  [key : Keys, intent : Intents, cipher : Ids \cup {None}, state : States,
   ticketExpiresAt : Nat, expiresAt : Nat, tombstoneExpiresAt : Nat,
   closedAt : Nat, closeReason : Reasons]

\* What SessionLease adds to its session: when the lease lapses.
Lease == [expiresAt : Nat, subject : Subjects]

ASSUME NoneAssumption == None \notin Ids \cup Session \cup Lease

Errors == {"ok", "replayed", "Conflict", "FailedPrecondition",
           "InvalidTicket", "Capacity", "NotFound", "Unavailable"}

\* The session that Issue proposes for idempotency key k at time now.
Candidate(id, k, intent, now) ==
  [key |-> k, intent |-> intent, cipher |-> id, state |-> "issued",
   ticketExpiresAt |-> now + TicketTTL, expiresAt |-> 0,
   tombstoneExpiresAt |-> now + TicketTTL + IdempotencyTTL,
   closedAt |-> 0, closeReason |-> ""]

\* Mutant: a close reason the model does not know.
TicketExpiredMislabelled(s, now) ==
  [s EXCEPT !.state = "closed", !.closedAt = now,
            !.closeReason = "expired", !.cipher = None]

\* What both stores write when an issued session is met after its ticket
\* expired, ...
TicketExpired(s, now) ==
  [s EXCEPT !.state = "closed", !.closedAt = now,
            !.closeReason = "ticket_expired", !.cipher = None]

\* Mutant: the tombstone is not moved.
ClaimedKeepsTombstone(s, now) ==
  [s EXCEPT !.state = "claimed", !.cipher = None,
            !.expiresAt = now + SessionMaxDuration]

\* ... when its ticket is consumed, ...
Claimed(s, now) ==
  [s EXCEPT !.state = "claimed", !.cipher = None,
            !.expiresAt = now + SessionMaxDuration,
            !.tombstoneExpiresAt = now + SessionMaxDuration + IdempotencyTTL]

\* ... and when its holder returns the lease.
Released(s, now) ==
  [s EXCEPT !.state = "closed", !.closedAt = now,
            !.closeReason = "released", !.cipher = None]

\* Mutant: the state is not looked at.
UsableUntilExpiry(s, now) == now < s.ticketExpiresAt

\* The ticket of s can be used, or returned by a replay, at time now.
Usable(s, now) == s.state = "issued" /\ now < s.ticketExpiresAt

Subject(s) == SubjectOf[s.intent]

\* Mutant: the ticket's expiry is not looked at.
ReplayVerdictStale(s, u, console, now) ==
  IF s = None \/ Subject(s) # u \/ now >= s.tombstoneExpiresAt THEN "NotFound"
  ELSE IF ConsoleOf[s.intent] # console THEN "Conflict"
  ELSE IF s.state # "issued" \/ s.cipher = None THEN "FailedPrecondition"
  ELSE "replayed"

\* What Manager.Replay answers a subject that asks for a console, having read
\* session s (or None) at time now.  It reads the clock twice; the earlier of
\* two readings refuses no more than the later one.
ReplayVerdict(s, u, console, now) ==
  IF s = None \/ Subject(s) # u \/ now >= s.tombstoneExpiresAt THEN "NotFound"
  ELSE IF ConsoleOf[s.intent] # console THEN "Conflict"
  ELSE IF ~Usable(s, now) \/ s.cipher = None THEN "FailedPrecondition"
  ELSE "replayed"
=============================================================================
