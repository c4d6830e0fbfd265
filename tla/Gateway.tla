------------------------------- MODULE Gateway -------------------------------
(***************************************************************************)
(* The whole process: run() of cmd/session-gateway/main.go, from boot to   *)
(* exit, with the control plane and the WebSocket requests it serves, over *)
(* crashes and restarts.  Requests behave like Connection, which the       *)
(* session modules implement.  Of the store, whose implementations have    *)
(* modules of their own, it keeps the session each idempotency key names.  *)
(* gRPC, TLS, net/http and the signals are modelled from how run() uses    *)
(* them.                                                                   *)
(***************************************************************************)
EXTENDS ControlPlane, Config

CONSTANTS
  Environments,  \* the environments it may first be started in
  Redeployments, \* those it may be started in again
  Keys, Conns,   \* idempotency keys; concurrent WebSocket requests
  Messages,      \* the CreateSession messages its clients send
  Queries,       \* the GetSessionReplay queries
  MaxBoots       \* bound: how often it is started

ASSUME GatewayAssumption ==
  /\ MaxBoots \in Nat /\ Redeployments \subseteq Environments
  /\ Unset \notin Environments /\ None \notin Keys

\* A list of origins that is given has an item (strings.Split).
ASSUME EnvironmentAssumption == \A e \in Environments : e.ALLOWED_ORIGINS # {}

\* Messages are of the protocol, and fmt.Sprint writes different numbers, and
\* the two Booleans, differently.
ASSUME MessageAssumption ==
  /\ \A m \in Messages : WellFormed(m)
  /\ Text(TRUE) # Text(FALSE)
  /\ \A i, j \in UNION {Written(MapRequest(m)) : m \in Messages} : Text(i) = Text(j) => i = j

VARIABLES
  env,       \* the environment while it boots, else Unset
  boots,     \* how often it was started
  phase,     \* the step of run(): a boot step, "serving", "drain rpc", "drain http",
             \* "failing" (a server failed; deferred releases run), "stopping" (they
             \* run without servers), "exited" (it returned), "down" (it crashed)
  refused,   \* the boot step that refused the environment, or None
  held,      \* what run() has deferred the release of, last first
  config,    \* what the process got from its environment, or None
  canceled,  \* runCtx is done
  sessions,  \* the session a key names in the store, or None
  rpc,       \* the RPC being served, or None
  waiting,   \* the RPC streams that last as long as their client likes: "watch", of the
             \* health service, and "message", a call whose message has not come
  conns      \* the WebSocket requests being served: a connection, and the key of
             \* the session it claimed; or None

process  == <<env, boots, phase, refused, held, config, canceled>>
vars     == <<process, sessions, rpc, waiting, conns>>

WS(c) == INSTANCE Connection WITH connection <- conns[c].connection

-----------------------------------------------------------------------------
(* Booting                                                                 *)

BootOrder == <<"load", "tracing", "store", "validator", "control", "manager", "kubernetes",
               "cluster", "kubevirt", "connected", "handler", "signals", "listen http",
               "listen grpc", "serving">>
BootSteps == {BootOrder[i] : i \in 1..14}

ASSUME BootAssumption == None \notin BootSteps

\* What a boot step demands of the environment.
Demanded(step, e) ==
  CASE step = "load"       -> Loads(e)
    [] step = "tracing"    -> TracingAccepts(e)
    [] step = "store"      -> StoreSelects(e)
    [] step = "validator"  -> ValidatorAccepts(e)
    [] step = "control"    -> ControlAccepts(e)
    [] step = "manager"    -> ManagerAccepts(e)
    [] step = "kubernetes" -> KubernetesLoads(e)
    [] step = "cluster"    -> ClusterIsNamed(e)
    [] step = "kubevirt"   -> KubeVirtAccepts(e)
    [] step = "connected"  -> ConnectedAccepts(e)
    [] step = "handler"    -> HandlerAccepts(e)
    [] OTHER               -> TRUE

\* The steps that may fail for reasons outside the process, and those that
\* defer a release.
MayFail  == {"tracing", "store", "validator", "kubernetes", "kubevirt", "listen http",
             "listen grpc"}
Releases == {"tracing", "store", "validator", "signals", "listen http", "listen grpc"}

Configure(e) == [store   |-> Value(e, "STORE_MODE"),
                 cluster |-> IF HasResource(e) THEN e.RESOURCE_INSTANCE_CLUSTER_ID ELSE None,
                 tls     |-> ControlTLS(e)]

NoSessions == [k \in Keys |-> None]
NoConns    == [c \in Conns |-> None]

Init ==
  /\ env = Unset /\ boots = 0 /\ phase = "down" /\ refused = None /\ held = <<>>
  /\ config = None /\ canceled = FALSE
  /\ sessions = NoSessions /\ rpc = None /\ waiting = {} /\ conns = NoConns

Ended == phase \in {"exited", "down"}

\* The process is started, perhaps again and in another environment.  Sessions
\* that were in its memory are gone, those in Redis are not.
Start ==
  /\ Ended /\ boots < MaxBoots
  /\ env' \in (IF boots = 0 THEN Environments ELSE Redeployments)
  /\ boots' = boots + 1 /\ phase' = "load"
  /\ refused' = None /\ config' = None /\ canceled' = FALSE
  /\ sessions' = IF config # None /\ config.store = "redis" THEN sessions ELSE NoSessions
  /\ conns' = NoConns
  /\ UNCHANGED <<held, rpc, waiting>>

\* A boot step succeeds, and the next one follows.
Boot ==
  /\ phase \in BootSteps /\ Demanded(phase, env)
  /\ phase' = BootOrder[1 + CHOOSE i \in 1..14 : BootOrder[i] = phase]
  /\ held' = IF phase \in Releases THEN <<phase>> \o held ELSE held
  /\ config' = IF phase = "load" THEN Configure(env) ELSE config
  /\ sessions' = IF phase = "store" /\ config.store = "memory" THEN NoSessions ELSE sessions
  /\ env' = IF phase' = "serving" THEN Unset ELSE env
  /\ UNCHANGED <<boots, refused, canceled, rpc, waiting, conns>>

\* A boot step fails, and run() returns.
BootFails ==
  /\ phase \in BootSteps
  /\ \/ ~Demanded(phase, env) /\ refused' = phase
     \/ phase \in MayFail /\ UNCHANGED refused
  /\ phase' = "stopping" /\ env' = Unset
  /\ UNCHANGED <<boots, held, config, canceled, sessions, rpc, waiting, conns>>

-----------------------------------------------------------------------------
(* Stopping                                                                *)

Holding(resource) == resource \in {held[i] : i \in DOMAIN held}

Goto(p) == /\ phase' = p
           /\ UNCHANGED <<env, boots, refused, held, config, canceled, sessions, rpc,
                          waiting, conns>>

\* SIGINT or SIGTERM, once run() has asked for them.
Signal ==
  /\ Holding("signals") /\ ~canceled /\ ~Ended
  /\ canceled' = TRUE
  /\ UNCHANGED <<env, boots, phase, refused, held, config, sessions, rpc, waiting, conns>>

\* run() waits for the signal, or for one of its servers to fail.
Await      == phase = "serving" /\ canceled /\ Goto("drain rpc")
ServeFails == phase = "serving" /\ Goto("failing")

\* GracefulStop takes no new RPC and waits, without a deadline, for those it has:
\* also for watches of the health service, and for calls whose handler was
\* entered, as soon as their headers came, and waits for the message.
GracefulStop == phase = "drain rpc" /\ rpc = None /\ waiting = {} /\ Goto("drain http")

\* Mutant: Shutdown has no deadline.
ShutdownPatient ==
  phase = "drain http" /\ conns = NoConns /\ Goto("stopping")

\* Shutdown takes no new request and waits for those that are not upgraded yet,
\* at most until the grace period is over, which may be any time.
Shutdown == phase = "drain http" /\ Goto("stopping")

\* The deferred releases, last first; that of the signals cancels runCtx.  Then
\* the process exits, with the requests that are left.
Release ==
  /\ phase \in {"failing", "stopping"}
  /\ IF held = <<>>
       THEN /\ phase' = "exited" /\ rpc' = None /\ waiting' = {}
            /\ UNCHANGED <<held, canceled>>
       ELSE /\ held' = Tail(held)
            /\ canceled' = (canceled \/ Head(held) = "signals")
            /\ UNCHANGED <<phase, rpc, waiting>>
  /\ UNCHANGED <<env, boots, refused, config, sessions, conns>>

\* It is killed, or a signal comes before run() has asked for it.
Crash ==
  /\ ~Ended /\ phase' = "down" /\ env' = Unset /\ held' = <<>>
  /\ rpc' = None /\ waiting' = {} /\ conns' = NoConns
  /\ UNCHANGED <<boots, refused, config, canceled, sessions>>

-----------------------------------------------------------------------------
(* The control plane                                                       *)

\* When one of the servers has failed nobody stops the other, and connections
\* that are there are served until the process exits.
TakesRPC  == phase \in {"serving", "failing"}
ServesRPC == phase \in {"serving", "failing", "drain rpc"}

\* A store operation on Redis may fail, and does once its client is closed;
\* the memory store never does.
StoreMayFail == config.store = "redis"
StoreWorks   == config.store = "memory" \/ Holding("store")

\* The peer has a verified certificate with the one URI of Governance, which
\* takes a control plane with TLS.
AuthenticatedGovernance(peer) == config.tls /\ peer = "governance"

Serve(call) == rpc' = call /\ UNCHANGED <<process, waiting, conns>>

\* A call waits for its message.
Awaited == ServesRPC /\ "message" \in waiting

\* The headers of a call come; there is one call at a time.
OpenRPC == /\ TakesRPC /\ rpc = None /\ waiting' = waiting \cup {"message"}
           /\ UNCHANGED <<process, sessions, rpc, conns>>

\* It is canceled, or refused with its message, and leaves no trace.
DropRPC == /\ Awaited /\ waiting' = waiting \ {"message"}
           /\ UNCHANGED <<process, sessions, rpc, conns>>

\* Its message comes, and is accepted.
Receive(call) ==
  /\ rpc' = call /\ waiting' = waiting \ {"message"}
  /\ UNCHANGED <<process, sessions, conns>>

\* CreateSession up to the store: a message that names a frozen target takes
\* Governance, and Resource's consent.
CreateSession(peer, k, m) ==
  /\ Awaited
  /\ Bound(m) => AuthenticatedGovernance(peer) /\ Holding("validator")
  /\ Maps(m) /\ IssueAccepts(MapRequest(m), config.cluster # None)
  /\ Receive([peer |-> peer, key |-> k, message |-> m, got |-> None])

\* CreateOrGet, for a candidate made from the request.
IssueStores ==
  LET k == rpc.key
      stored == sessions[k]
      Created == [sessions EXCEPT ![k] = [message |-> rpc.message, state |-> "issued"]]
      Same == Fingerprint(MapRequest(stored.message)) = Fingerprint(MapRequest(rpc.message))
  IN /\ rpc # None /\ rpc.got = None
     /\ \/ StoreWorks /\ stored = None /\ sessions' = Created
           /\ Serve([rpc EXCEPT !.got = rpc.message])
        \/ StoreWorks /\ stored # None /\ Same /\ stored.state = "issued"
           /\ UNCHANGED sessions /\ Serve([rpc EXCEPT !.got = stored.message])
        \/ StoreWorks /\ stored # None /\ (Same => stored.state # "issued")
           /\ UNCHANGED sessions /\ Serve(None)
        \/ StoreMayFail /\ Serve(None)
           /\ sessions' \in {sessions} \cup (IF StoreWorks /\ stored = None THEN {Created} ELSE {})

\* GetSessionReplay: an unused ticket of the VNC session that is asked for.
GetSessionReplay(peer, k, q) ==
  /\ Awaited
  /\ StoreWorks /\ AuthenticatedGovernance(peer) /\ ReplayAccepts(q)
  /\ sessions[k] # None /\ sessions[k].state = "issued"
  /\ ReplayMatches(q, MapRequest(sessions[k].message))
  /\ Receive([peer |-> peer, key |-> k, message |-> sessions[k].message,
              got |-> sessions[k].message])

\* The answer is sent.
Respond == rpc # None /\ rpc.got # None /\ Serve(None) /\ UNCHANGED sessions

\* A client watches the health service, and stops when it likes.
Watch == /\ \/ TakesRPC /\ waiting' = waiting \cup {"watch"}
            \/ waiting' = waiting \ {"watch"}
         /\ UNCHANGED <<process, sessions, rpc, conns>>

-----------------------------------------------------------------------------
(* WebSocket requests                                                      *)

\* A request that is over leaves.
Becomes(c, connection, key) ==
  /\ conns' = [conns EXCEPT ![c] = IF connection.stage = "over" THEN None
                                   ELSE [connection |-> connection, key |-> key]]
  /\ UNCHANGED <<process, rpc, waiting>>

Arrive(c) ==
  /\ phase \in {"serving", "drain rpc", "failing"} /\ conns[c] = None
  /\ Becomes(c, [stage |-> "arrived", stream |-> "none", closes |-> 0, active |-> 0], None)
  /\ UNCHANGED sessions

At(c, stage) == ~Ended /\ conns[c] # None /\ conns[c].connection.stage = stage

\* The request is refused, or claims an unused ticket.  Redis takes the
\* request's context, which ends with runCtx; the memory store does not.
Claim(c) ==
  /\ At(c, "arrived")
  /\ \/ Becomes(c, WS(c)!Refused(conns[c].connection), None) /\ UNCHANGED sessions
     \/ \E k \in Keys :
          /\ StoreWorks /\ (canceled => config.store = "memory")
          /\ sessions[k] # None /\ sessions[k].state = "issued"
          /\ sessions' = [sessions EXCEPT ![k].state = "claimed"]
          /\ Becomes(c, WS(c)!Admitted(conns[c].connection), k)

\* Manager.Close, in a context that runCtx does not end.
Close(c) ==
  LET k == conns[c].key
  IN /\ Becomes(c, WS(c)!Closed(conns[c].connection), None)
     /\ \/ StoreWorks /\ sessions' = [sessions EXCEPT ![k].state = "closed"]
        \/ StoreMayFail /\ UNCHANGED sessions

Upgrade(c) ==
  /\ At(c, "admitted")
  /\ \/ Close(c)
     \/ Becomes(c, WS(c)!HandedOver(conns[c].connection), conns[c].key) /\ UNCHANGED sessions

\* The adapter of the session's mode opens its stream, if it accepts the target
\* and runCtx is not done; or the open fails.
Open(c) ==
  LET r == MapRequest(sessions[conns[c].key].message)
      Accepts == CASE r.mode = "exec"   -> ExecAccepts(BindingCluster(r), config.cluster)
                   [] r.mode = "serial" -> SerialAccepts(BindingCluster(r), config.cluster)
                   [] r.mode = "vnc"    -> VNCAccepts(BindingCluster(r), config.cluster)
  IN /\ At(c, "running") /\ conns[c].connection.stream = "none"
     /\ \/ Close(c)
        \/ Accepts /\ ~canceled /\ UNCHANGED sessions
           /\ Becomes(c, WS(c)!Opened(conns[c].connection), conns[c].key)

End(c) ==
  /\ At(c, "running") /\ conns[c].connection.stream = "open"
  /\ Becomes(c, WS(c)!Ended(conns[c].connection), conns[c].key) /\ UNCHANGED sessions

Complete(c) ==
  At(c, "running") /\ conns[c].connection.stream = "closed" /\ Close(c)

\* A ticket expires, or a session whose time is over is forgotten: no request
\* holds it any more.
Expire(k) ==
  /\ sessions[k] # None /\ \A c \in Conns : conns[c] # None => conns[c].key # k
  /\ \/ sessions[k].state = "issued" /\ sessions' = [sessions EXCEPT ![k].state = "closed"]
     \/ sessions[k].state # "issued" /\ sessions' = [sessions EXCEPT ![k] = None]
  /\ UNCHANGED <<process, rpc, waiting, conns>>

Lifecycle == \/ Start \/ Boot \/ BootFails \/ Signal \/ Await \/ ServeFails \/ GracefulStop
             \/ Shutdown \/ Release \/ Crash
Control   == \/ \E peer \in {"governance", "other"}, k \in Keys :
                  \/ \E m \in Messages : CreateSession(peer, k, m)
                  \/ \E q \in Queries : GetSessionReplay(peer, k, q)
             \/ OpenRPC \/ DropRPC \/ IssueStores \/ Respond \/ Watch
Requests  == \E c \in Conns : Arrive(c) \/ Claim(c) \/ Upgrade(c) \/ Open(c) \/ End(c) \/ Complete(c)

Next == Lifecycle \/ Control \/ Requests \/ \E k \in Keys : Expire(k)

\* run() runs; an RPC whose message came ends, for Resource and Redis are asked
\* with deadlines.  A call whose message does not come, a watch, and a request
\* whose client is slow, may last as long as they like.
Fairness == /\ WF_vars(Boot \/ BootFails) /\ WF_vars(Await) /\ WF_vars(GracefulStop)
            /\ WF_vars(Shutdown) /\ WF_vars(Release)
            /\ WF_vars(IssueStores) /\ WF_vars(Respond)

Spec == Init /\ [][Next]_vars /\ Fairness

-----------------------------------------------------------------------------
(* Properties                                                              *)

Configs == [store : {"memory", "redis"},
            cluster : {None} \cup {e.RESOURCE_INSTANCE_CLUSTER_ID : e \in Environments},
            tls : BOOLEAN]

\* What the store holds was validated, and whoever claimed it is known.
TypeOK ==
  /\ boots \in 0..MaxBoots /\ (env = Unset) = (phase \notin BootSteps)
  /\ phase \in BootSteps \cup {"serving", "drain rpc", "drain http", "failing", "stopping",
                               "exited", "down"}
  /\ refused \in BootSteps \cup {None}
  /\ \A i \in DOMAIN held : held[i] \in Releases
  /\ config \in Configs \cup {None}
  /\ canceled \in BOOLEAN /\ waiting \subseteq {"watch", "message"}
  /\ \A k \in Keys : sessions[k] # None =>
       /\ sessions[k].state \in {"issued", "claimed", "closed"}
       /\ Valid(MapRequest(sessions[k].message))
  /\ \A c \in Conns : conns[c] # None =>
       /\ conns[c].connection \in WS(c)!Connections
       /\ (conns[c].key # None) = (conns[c].connection.stage # "arrived")
  /\ rpc # None => rpc.message \in Messages /\ rpc.got \in Messages \cup {None}

\* What config.Load accepts, InitTracing, NewManager, NewAdapter,
\* connectedsession.New and NewHandler accept too: they check limits, timeouts
\* and URLs again, and never stop a boot half way, with the store already
\* connected.  (store.Select may: Load does not look at a REDIS_URL it is given.)
AcceptedConfigServes ==
  refused \notin {"tracing", "manager", "kubevirt", "connected", "handler"}

\* The ticket that answers CreateSession opens the session that was asked for,
\* to the last option, also when the key was used before, by anyone: two
\* messages that differ never get one session (Fingerprint, mapRequest).
TicketForSameIntent == rpc # None /\ rpc.got # None => rpc.got = rpc.message

\* The ticket of a frozen target is given to Governance only, also when another
\* client repeats its idempotency key, and after a restart of the gateway
\* ("managed target requires authenticated Governance", server.go:33).
ManagedTicketsOnlyToGovernance ==
  rpc # None /\ rpc.got # None /\ Bound(rpc.got) => config.tls /\ rpc.peer = "governance"

\* Once it is told to stop, the gateway ends, whatever its WebSocket clients do,
\* unless a gRPC client holds GracefulStop, which has no deadline, for ever: with
\* a watch of the health service, or with a call whose message it never sends.
ShutdownEnds == canceled ~> (Ended \/ []("watch" \in waiting) \/ []("message" \in waiting))

\* realtime-session-gateway-p0-v1.2.md:400 "close the existing sessions within
\* the termination grace period": when run() stops on a signal and has released
\* all it holds, no session that ran before the signal still has its stream open.
ExitLeavesNoSession ==
  phase = "stopping" /\ held = <<>> =>
    \A c \in Conns : At(c, "running") => conns[c].connection.stream # "open"
=============================================================================
