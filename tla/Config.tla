------------------------------- MODULE Config -------------------------------
(***************************************************************************)
(* What the gateway demands of its environment: config.Load, and what each *)
(* constructor that run() of cmd/session-gateway/main.go calls demands of  *)
(* the values it is given.                                                 *)
(*                                                                         *)
(* An environment e gives each setting Unset (absent or empty), Malformed  *)
(* (does not parse, or names no readable file) or its parsed value:        *)
(*   - durations, counts and the length of the ticket key are numbers;     *)
(*   - a URL is [scheme, lower, plain, path], lower meaning that its       *)
(*     scheme is written in lower case, plain a host and neither userinfo, *)
(*     query nor fragment; ALLOWED_ORIGINS is a set of them;               *)
(*   - addresses, modes and IDs are strings; credentials are "pem".        *)
(***************************************************************************)
EXTENDS Integers

CONSTANTS Unset, Malformed

Default == [TICKET_TTL |-> 60, SESSION_MAX_DURATION |-> 900, IDEMPOTENCY_TTL |-> 900,
            WS_HANDSHAKE_TIMEOUT |-> 10, RUNTIME_REQUEST_TIMEOUT |-> 30,
            WS_IDLE_TIMEOUT |-> 600, SHUTDOWN_GRACE_PERIOD |-> 25,
            MAX_ACTIVE_SESSIONS |-> 100, MAX_ACTIVE_PER_SUBJECT |-> 5,
            WS_MAX_MESSAGE_BYTES |-> 65536,
            HTTP_ADDR |-> ":8080", GRPC_ADDR |-> ":9090", STORE_MODE |-> "redis"]

Numbers == DOMAIN Default \ {"HTTP_ADDR", "GRPC_ADDR", "STORE_MODE"}

\* env, and the fallbacks of duration and positiveInt.
Value(e, s) == IF e[s] = Unset THEN Default[s] ELSE e[s]

\* Mutant: zero passes.
NumberOrZero(e, s) == e[s] # Unset => e[s] # Malformed /\ e[s] >= 0

\* duration and positiveInt.
NumberParses(e, s) == e[s] # Unset => e[s] # Malformed /\ e[s] > 0

URLParses(u, schemes) == u \notin {Unset, Malformed} /\ u.scheme \in schemes /\ u.plain

\* parsePublicURL drops one trailing slash.
PublicURLParses(u) ==
  URLParses(u, {"ws", "wss"}) /\ u.path \in {"/api/v1/realtime", "/api/v1/realtime/"}

\* parseOrigins.  An empty item or "*" has no scheme.
OriginsParse(origins) ==
  /\ origins # Unset
  /\ \A o \in origins : URLParses(o, {"http", "https"}) /\ o.path \in {"", "/"}

\* Load and InitTracing check the endpoint alike; the service name has a default.
EndpointParses(u) == u # Unset => URLParses(u, {"http", "https"})

\* Load.  Origins are kept as they are written: one spelled HTTPS:// is no HTTPS
\* origin to the last check.
Loads(e) ==
  /\ PublicURLParses(e.PUBLIC_WS_BASE_URL)
  /\ OriginsParse(e.ALLOWED_ORIGINS)
  /\ e.TICKET_ENCRYPTION_KEY_FILE = 32
  /\ \A s \in {"HTTP_ADDR", "GRPC_ADDR"} : Value(e, s) # Malformed
  /\ Value(e, "HTTP_ADDR") # Value(e, "GRPC_ADDR")
  /\ Value(e, "STORE_MODE") \in {"memory", "redis"}
  /\ Value(e, "STORE_MODE") = "redis" => e.REDIS_URL # Unset
  /\ EndpointParses(e.OTEL_EXPORTER_OTLP_ENDPOINT)
  /\ \A s \in Numbers : NumberParses(e, s)
  /\ Value(e, "TICKET_TTL") < Value(e, "SESSION_MAX_DURATION")
  /\ \A o \in e.ALLOWED_ORIGINS :
       o.scheme = "https" /\ o.lower => e.PUBLIC_WS_BASE_URL.scheme = "wss"

-----------------------------------------------------------------------------
(* The constructors                                                        *)

Positive(e, settings) == \A s \in settings : Value(e, s) > 0

TracingAccepts(e) == EndpointParses(e.OTEL_EXPORTER_OTLP_ENDPOINT)

\* store.Select; whether Redis answers is not known here.
StoreSelects(e) ==
  \/ Value(e, "STORE_MODE") = "memory"
  \/ Value(e, "STORE_MODE") = "redis" /\ e.REDIS_URL \notin {Unset, Malformed}

HasResource(e) == e.RESOURCE_INSTANCE_ADDR # Unset

\* NewFromEnv.  The server name must be exact.
ValidatorAccepts(e) ==
  /\ Positive(e, {"RUNTIME_REQUEST_TIMEOUT"})
  /\ HasResource(e) => /\ e.RESOURCE_INSTANCE_SERVER_NAME \notin {Unset, Malformed}
                       /\ e.RESOURCE_INSTANCE_CREDENTIALS = "pem"

\* instanceControlOptions: with Resource the control plane needs its own
\* credentials, and if any are given they must be valid.
ControlTLS(e)     == HasResource(e) \/ e.INSTANCE_CONTROL_CREDENTIALS # Unset
ControlAccepts(e) == ControlTLS(e) => e.INSTANCE_CONTROL_CREDENTIALS = "pem"

ManagerAccepts(e) ==
  /\ e.PUBLIC_WS_BASE_URL # Unset
  /\ Positive(e, {"TICKET_TTL", "SESSION_MAX_DURATION", "IDEMPOTENCY_TTL",
                  "MAX_ACTIVE_SESSIONS", "MAX_ACTIVE_PER_SUBJECT"})

\* loadKubernetesConfig: in the cluster, or a file named absolutely with
\* verified HTTPS and static credentials.
KubernetesLoads(e) == e.KUBECONFIG \in {Unset, "managed"}

ClusterIsNamed(e) == HasResource(e) => e.RESOURCE_INSTANCE_CLUSTER_ID # Unset

KubeVirtAccepts(e) == Positive(e, {"RUNTIME_REQUEST_TIMEOUT"})

ConnectedAccepts(e) ==
  Positive(e, {"WS_MAX_MESSAGE_BYTES", "WS_IDLE_TIMEOUT", "WS_HANDSHAKE_TIMEOUT"})

HandlerAccepts(e) == e.ALLOWED_ORIGINS # {} /\ Positive(e, {"WS_HANDSHAKE_TIMEOUT"})
=============================================================================
