---------------------------- MODULE SessionStore ----------------------------
(***************************************************************************)
(* What every session.Store promises the manager, whatever it keeps and    *)
(* whenever it cleans up: the contract of internal/session/store.go that   *)
(* internal/store/storetest exercises.                                     *)
(*                                                                         *)
(*   - a session is offered once, claimed at most once, and never comes    *)
(*     back once its offer or its claim has ended;                         *)
(*   - a claim respects both limits;                                       *)
(*   - an idempotency key names one session at a time and is given up only *)
(*     after that session has ended.                                       *)
(*                                                                         *)
(* One step answers at most one request and may end any offers and claims  *)
(* and give up keys; when they are due is the implementations' affair.     *)
(***************************************************************************)
EXTENDS Naturals, FiniteSets

CONSTANTS Ids, Keys, Subjects, MaxActive, MaxActivePerSubject, None

VARIABLES
  fresh,    \* session IDs not issued yet
  offers,   \* <<id, subject>> of the sessions whose ticket can be used
  active,   \* <<id, subject>> of the sessions that hold a lease
  owner     \* the session an idempotency key names, or None

vars == <<fresh, offers, active, owner>>

Init ==
  /\ fresh = Ids
  /\ offers = {}
  /\ active = {}
  /\ owner = [k \in Keys |-> None]

\* Session i can no longer be used after this step.
Over(i) == \A u \in Subjects : <<i, u>> \notin offers' \cup active'

\* Of these keys, some may be given up: those whose session is over.
GivenUp(keys) ==
  \A k \in keys : owner'[k] = owner[k] \/ (owner'[k] = None /\ Over(owner[k]))

\* A fresh session is offered, under a key that names no session in use.
Issue(k, i, u) ==
  /\ i \in fresh
  /\ fresh' = fresh \ {i}
  /\ <<i, u>> \in offers' /\ offers' \subseteq offers \cup {<<i, u>>}
  /\ active' \subseteq active
  /\ owner[k] = None \/ Over(owner[k])
  /\ owner'[k] = i
  /\ GivenUp(Keys \ {k})

\* A claim consumes its offer and stays within both limits.
Claim(i, u) ==
  /\ <<i, u>> \in offers
  /\ offers' \subseteq offers \ {<<i, u>>}
  /\ <<i, u>> \in active' /\ active' \subseteq active \cup {<<i, u>>}
  /\ Cardinality(active') <= MaxActive
  /\ Cardinality({c \in active' : c[2] = u}) <= MaxActivePerSubject
  /\ GivenUp(Keys)
  /\ UNCHANGED fresh

\* Replays, refusals and closes only end sessions; candidates that are drawn and
\* not kept are lost to later requests.
Answer ==
  /\ fresh' \subseteq fresh
  /\ offers' \subseteq offers
  /\ active' \subseteq active
  /\ GivenUp(Keys)

Next ==
  /\ owner' \in [Keys -> Ids \cup {None}]
  /\ \/ Answer
     \/ \E i \in Ids, u \in Subjects : Claim(i, u)
     \/ \E k \in Keys, i \in Ids, u \in Subjects : Issue(k, i, u)

Spec == Init /\ [][Next]_vars
=============================================================================
