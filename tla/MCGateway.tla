----------------------------- MODULE MCGateway -----------------------------
(* Instances of Gateway: one key, every way in which two messages with it   *)
(* differ that matters, and environments that differ from one that serves   *)
(* in one setting at a time.                                                *)
EXTENDS Gateway, TLC

Exec == [tenant |-> "t", subject |-> "u", instance |-> "i", kind |-> "container",
         mode |-> "exec", container |-> "c", command |-> <<>>, tty |-> TRUE,
         rows |-> 24, cols |-> 80, protocol |-> "",
         instanceBinding |-> None, vmBinding |-> None]

VNC == [Exec EXCEPT !.kind = "vm", !.mode = "vnc", !.container = "", !.tty = FALSE,
                    !.rows = 0, !.cols = 0, !.protocol = "vnc"]

Pod == [version |-> 1, cluster |-> "here", objects |-> "p", container |-> "c", shell |-> "sh"]
VM  == [tenant |-> "t", vm |-> "i", version |-> 1, cluster |-> "here", objects |-> "v"]

\* Two messages with one fingerprint: the words of the command read like the
\* options and the binding.  The second has no shell, which is not valid.
Wordy == [Exec EXCEPT !.container = "80", !.command = <<"TRUE", "24", "80", "", "1">>]
Unshelled == [Exec EXCEPT !.container = "80", !.instanceBinding =
               [version |-> 1, cluster |-> "TRUE", objects |-> "24", container |-> "80",
                shell |-> ""]]

MCMessages ==
  {Exec, [Exec EXCEPT !.rows = 65560], [Exec EXCEPT !.instanceBinding = Pod],
   [Exec EXCEPT !.instanceBinding = [Pod EXCEPT !.container = "d"]],
   VNC, [VNC EXCEPT !.vmBinding = VM], [VNC EXCEPT !.vmBinding = [VM EXCEPT !.version = 2]],
   [VNC EXCEPT !.mode = "serial"], [VNC EXCEPT !.kind = "unspecified"],
   Wordy, Unshelled}

MCQueries == [tenant : {"t"}, subject : {"u", "w"}, instance : {"i"}, version : {0, 1}]

\* In a cluster, on Redis, without and with Resource.
Public == [scheme |-> "wss", lower |-> TRUE, plain |-> TRUE, path |-> "/api/v1/realtime"]
Origin == [scheme |-> "https", lower |-> TRUE, plain |-> TRUE, path |-> ""]
Plain ==
  [s \in Numbers \cup {"HTTP_ADDR", "GRPC_ADDR", "STORE_MODE"} |-> Unset] @@
  [PUBLIC_WS_BASE_URL |-> Public, ALLOWED_ORIGINS |-> {Origin},
   TICKET_ENCRYPTION_KEY_FILE |-> 32, REDIS_URL |-> "redis",
   OTEL_EXPORTER_OTLP_ENDPOINT |-> Unset, KUBECONFIG |-> Unset,
   RESOURCE_INSTANCE_ADDR |-> Unset, RESOURCE_INSTANCE_SERVER_NAME |-> Unset,
   RESOURCE_INSTANCE_CREDENTIALS |-> Unset, RESOURCE_INSTANCE_CLUSTER_ID |-> Unset,
   INSTANCE_CONTROL_CREDENTIALS |-> Unset]
WithResource ==
  [Plain EXCEPT !.RESOURCE_INSTANCE_ADDR = "r", !.RESOURCE_INSTANCE_SERVER_NAME = "r",
                !.RESOURCE_INSTANCE_CREDENTIALS = "pem",
                !.RESOURCE_INSTANCE_CLUSTER_ID = "here",
                !.INSTANCE_CONTROL_CREDENTIALS = "pem"]

\* The other values of a setting.
Others(s) ==
  IF s \in Numbers THEN {Malformed, 0, 1, 900}
  ELSE CASE s \in {"HTTP_ADDR", "GRPC_ADDR"} -> {Malformed, ":8080"}
         [] s = "STORE_MODE" -> {"memory", "etcd"}
         [] s = "PUBLIC_WS_BASE_URL" ->
              {Unset, Malformed, [Public EXCEPT !.scheme = "ws"], [Public EXCEPT !.path = "/"]}
         [] s = "ALLOWED_ORIGINS" ->
              {Unset, {Malformed}, {Origin, [Origin EXCEPT !.scheme = "http"]},
               {[Origin EXCEPT !.path = "/x"]}}
         [] s = "TICKET_ENCRYPTION_KEY_FILE" -> {Unset, Malformed, 31}
         [] s = "OTEL_EXPORTER_OTLP_ENDPOINT" -> {Malformed, Origin}
         [] s = "KUBECONFIG" -> {"managed", "relative"}
         [] s = "INSTANCE_CONTROL_CREDENTIALS" -> {Unset, Malformed, "pem"}
         [] s = "RESOURCE_INSTANCE_ADDR" -> {"r"}
         [] s = "RESOURCE_INSTANCE_CLUSTER_ID" -> {Unset, "elsewhere"}
         [] OTHER -> {Unset, Malformed}

Varied(base) == {base} \cup UNION {{[base EXCEPT ![s] = v] : v \in Others(s)} : s \in DOMAIN base}

\* An HTTPS origin in capitals, beside a plain URL.
Shouted == [Plain EXCEPT !.PUBLIC_WS_BASE_URL.scheme = "ws",
                         !.ALLOWED_ORIGINS = {[Origin EXCEPT !.lower = FALSE]}]

MCEnvironments == Varied(Plain) \cup Varied(WithResource) \cup {Shouted}

MCRedeployments ==
  {Plain, WithResource, [WithResource EXCEPT !.RESOURCE_INSTANCE_CLUSTER_ID = "elsewhere"]}
=============================================================================
