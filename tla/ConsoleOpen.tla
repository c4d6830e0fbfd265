----------------------------- MODULE ConsoleOpen -----------------------------
(***************************************************************************)
(* internal/runtime/kubevirt/adapter.go: Adapter.open, the opening of one  *)
(* VM console.  The cluster changes while open reads it: the VM or its     *)
(* instance is replaced, the instance ends, the owner asks to stop it.     *)
(* connect takes no context, so it runs in a goroutine of its own which    *)
(* hands the provider's stream over through a channel of capacity one.     *)
(* The Kubernetes and Resource services are external.  RuntimeOpen says    *)
(* when open is called.                                                    *)
(***************************************************************************)
EXTENDS Naturals

CONSTANT None

VARIABLES
  managed,      \* the target carries a frozen binding (VNC under Resource)
  vm,           \* the VM of that name: "bound" (the frozen one), "changed"
  vmi,          \* its instance: "bound" and running, "ended", "replaced"
  closing,      \* the owner asked to stop or delete the VM
  step,         \* where open is
  result,       \* what open returned: None, "stream" or an error
  connectDone,  \* connectCtx is done: deadline, cancellation, or open returned
  connector,    \* the goroutine: "off", "dialing", "dialed", "sending", "stopped"
  stream,       \* who has the provider's stream: "none", "connector", "queued",
                \* "open", "session", "disposed"; "failed": an
                \* error is queued in its place
  dialed        \* history: the cluster when connect succeeded, or None

cluster == <<vm, vmi, closing>>
vars == <<managed, cluster, step, result, connectDone, connector, stream, dialed>>

Errors == {"target_changed", "target_not_found", "target_not_ready", "unavailable",
           "canceled"}
Steps  == {"vm", "vmi", "business", "get", "connect", "await", "received",
           "vm again", "vmi again", "business again", "returned"}

TypeOK ==
  /\ vm \in {"bound", "changed"} /\ vmi \in {"bound", "ended", "replaced"}
  /\ closing \in BOOLEAN
  /\ connectDone \in BOOLEAN
  /\ connector \in {"off", "dialing", "dialed", "sending", "stopped"}
  /\ stream \in {"none", "connector", "queued", "open", "session", "disposed", "failed"}
  /\ dialed \in {None} \cup [vm : {"bound", "changed"}, vmi : {"bound", "replaced"},
                          closing : BOOLEAN]

Init ==
  /\ vm \in {"bound", "changed"} /\ vmi \in {"bound", "ended", "replaced"}
  /\ closing \in BOOLEAN
  /\ connectDone = FALSE /\ connector = "off"
  /\ stream = "none" /\ dialed = None

-----------------------------------------------------------------------------
(* Returning                                                               *)

\* Mutant: the stream is not disposed.
FailOnly(error) ==
  step' = "returned" /\ result' = error /\ connectDone' = TRUE /\ UNCHANGED stream

\* Deferred: connectCtx is canceled on every return.  A stream that open holds
\* is disposed before an error is returned.
Fail(error) ==
  /\ step' = "returned"
  /\ result' = error
  /\ connectDone' = TRUE
  /\ stream' = IF stream = "open" THEN "disposed" ELSE stream

Proceed(next) == step' = next /\ UNCHANGED <<result, connectDone, stream>>

-----------------------------------------------------------------------------
(* Observations: each is one remote read, which may also fail or time out. *)

Observe(now, next, holds, error) ==
  /\ step = now
  /\ \/ holds /\ Proceed(next)
     \/ ~holds /\ Fail(error)
     \/ Fail("unavailable")
  /\ UNCHANGED <<managed, cluster, connector, dialed>>

\* validateManaged: the namespace and the VM, then the instance, then Resource.
ValidateVMIdentity ==
  \/ Observe("vm", "vmi", vm = "bound", "target_changed")
  \/ Observe("vm again", "vmi again", vm = "bound", "target_changed")

MatchVMI ==
  \/ Observe("vmi", "business", vmi = "bound", "target_changed")
  \/ Observe("vmi again", "business again", vmi = "bound", "target_changed")

ValidateVM == Observe("business", "get", ~closing, "target_changed")

\* The last check: the stream becomes the session's.
ValidateVMAgain ==
  /\ step = "business again"
  /\ \/ /\ ~closing
        /\ step' = "returned" /\ result' = "stream"
        /\ connectDone' = TRUE /\ stream' = "session"
     \/ closing /\ Fail("target_changed")
     \/ Fail("unavailable")
  /\ UNCHANGED <<managed, cluster, connector, dialed>>

\* provider.Get: the frozen instance if there is a binding, else any of that
\* name; and it must be running.  One that ended may be gone already.
Get ==
  IF managed
    THEN \E error \in {"target_changed"} \cup
                      (IF vmi = "ended" THEN {"target_not_found"} ELSE {}) :
           Observe("get", "connect", vmi = "bound", error)
    ELSE \E error \in {"target_not_ready", "target_not_found"} :
           Observe("get", "connect", vmi # "ended", error)

-----------------------------------------------------------------------------
(* Connecting                                                              *)

StartConnector ==
  /\ step = "connect"
  /\ connector' = "dialing"
  /\ Proceed("await")
  /\ UNCHANGED <<managed, cluster, dialed>>

\* connect returns: the stream of whatever instance has the name now, or an
\* error.
ConnectorDials ==
  /\ connector = "dialing"
  /\ connector' = "dialed"
  /\ \/ /\ vmi # "ended"
        /\ stream' = "connector"
        /\ dialed' = [vm |-> vm, vmi |-> vmi, closing |-> closing]
     \/ UNCHANGED <<stream, dialed>>
  /\ UNCHANGED <<managed, cluster, step, result, connectDone>>

\* It gives up if connectCtx is done already.
ConnectorChecks ==
  /\ connector = "dialed"
  /\ IF connectDone
       THEN /\ connector' = "stopped"
            /\ stream' = IF stream = "connector" THEN "disposed" ELSE stream
       ELSE connector' = "sending" /\ UNCHANGED stream
  /\ UNCHANGED <<managed, cluster, step, result, connectDone, dialed>>

\* Otherwise it selects: the channel has room, and connectCtx may be done now.
ConnectorSends ==
  /\ connector = "sending"
  /\ connector' = "stopped"
  /\ \/ stream' = IF stream = "connector" THEN "queued" ELSE "failed"
     \/ connectDone /\ stream' = IF stream = "connector" THEN "disposed" ELSE "none"
  /\ UNCHANGED <<managed, cluster, step, result, connectDone, dialed>>

\* Mutant: open waits for the connector alone.
AwaitConnectorOnly ==
  /\ step = "await"
  /\ \/ stream = "queued" /\ stream' = "open" /\ step' = "received"
                          /\ UNCHANGED <<result, connectDone>>
     \/ stream = "failed" /\ Fail("unavailable")
  /\ UNCHANGED <<managed, cluster, connector, dialed>>

\* open selects: connectCtx is done, or the connector has sent its stream or
\* its error.
AwaitConnector ==
  /\ step = "await"
  /\ \/ connectDone /\ Fail("canceled")
     \/ stream = "queued" /\ stream' = "open" /\ step' = "received"
                          /\ UNCHANGED <<result, connectDone>>
     \/ stream = "failed" /\ Fail("unavailable")
  /\ UNCHANGED <<managed, cluster, connector, dialed>>

\* Mutant: the binding is not checked again.
CheckReceivedOnce ==
  /\ step = "received"
  /\ \/ Fail("unavailable")
     \/ /\ ~connectDone
        /\ step' = "returned" /\ result' = "stream"
        /\ connectDone' = TRUE /\ stream' = "session"
  /\ UNCHANGED <<managed, cluster, connector, dialed>>

\* A stream without a connection, or one received too late, is disposed.
\* Without a binding it is returned as it is.
CheckReceived ==
  /\ step = "received"
  /\ \/ Fail("unavailable")
     \/ connectDone /\ Fail("canceled")
     \/ ~connectDone /\ managed /\ Proceed("vm again")
     \/ /\ ~connectDone /\ ~managed
        /\ step' = "returned" /\ result' = "stream"
        /\ connectDone' = TRUE /\ stream' = "session"
  /\ UNCHANGED <<managed, cluster, connector, dialed>>

-----------------------------------------------------------------------------
(* The cluster and the deadline.  An identity that is gone never returns.  *)

ClusterChanges ==
  /\ \/ vm = "bound" /\ vm' = "changed" /\ UNCHANGED <<vmi, closing>>
     \/ /\ vmi = "bound" /\ vmi' \in {"ended", "replaced"}
        /\ UNCHANGED <<vm, closing>>
     \/ vmi = "ended" /\ vmi' = "replaced" /\ UNCHANGED <<vm, closing>>
     \/ ~closing /\ closing' = TRUE /\ UNCHANGED <<vm, vmi>>
  /\ UNCHANGED <<managed, step, result, connectDone, connector, stream, dialed>>

\* The deadline of connectCtx, or the session's context, ends.
ConnectContextEnds ==
  /\ connector # "off" /\ ~connectDone
  /\ connectDone' = TRUE
  /\ UNCHANGED <<managed, cluster, step, result, connector, stream, dialed>>

OpenStep == \/ ValidateVMIdentity \/ MatchVMI \/ ValidateVM \/ ValidateVMAgain \/ Get
            \/ StartConnector \/ AwaitConnector \/ CheckReceived

Next == \/ OpenStep \/ ConnectorDials \/ ConnectorChecks \/ ConnectorSends
        \/ ClusterChanges \/ ConnectContextEnds
=============================================================================
