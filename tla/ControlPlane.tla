---------------------------- MODULE ControlPlane ----------------------------
(***************************************************************************)
(* What the gRPC control plane makes of one message: SessionServer of      *)
(* internal/transport/grpc maps it to a session request, and the manager   *)
(* validates the request and takes its fingerprint, by which the store     *)
(* recognises the repetition of an idempotency key.                        *)
(*                                                                         *)
(* A message and the request it maps to are one record: kind and mode may  *)
(* be "unspecified" in a message, its rows and cols are int32 values and   *)
(* those of a request uint16 ones.  A message without principal or target  *)
(* has empty names, which are refused with the same answer.  An instance's *)
(* ID and workload name are one value, and so are the names and UIDs of    *)
(* the frozen objects of a binding; "" stands for a missing one.           *)
(***************************************************************************)
EXTENDS Adapters, Integers, Sequences

CONSTANT Text(_)  \* what Fingerprint writes of a number or a Boolean

Kinds == {"container", "gpu_container", "sandbox", "vm"}

InstanceBindings ==
  [version : Int, cluster : STRING, objects : STRING, container : STRING, shell : STRING]
VMBindings ==
  [tenant : STRING, vm : STRING, version : Int, cluster : STRING, objects : STRING]

\* The messages of the protocol.  The mode is a oneof: a message has the options
\* of an exec session or those of a VM console, and the others have no value.
WellFormed(m) ==
  /\ m \in [tenant : STRING, subject : STRING, instance : STRING,
            kind : Kinds \cup {"unspecified"},
            mode : {"exec", "serial", "vnc", "unspecified"}, container : STRING,
            command : Seq(STRING), tty : BOOLEAN, rows : Int, cols : Int, protocol : STRING,
            instanceBinding : InstanceBindings \cup {None}, vmBinding : VMBindings \cup {None}]
  /\ IF m.mode = "exec" THEN m.protocol = ""
     ELSE m.container = "" /\ m.command = <<>> /\ ~m.tty /\ m.rows = 0 /\ m.cols = 0

Bound(r) == r.instanceBinding # None \/ r.vmBinding # None

\* The cluster ID of the request's binding, as the adapters compare it.
BindingCluster(r) == IF r.instanceBinding # None THEN r.instanceBinding.cluster
                     ELSE IF r.vmBinding # None THEN r.vmBinding.cluster ELSE None

\* Mutant: the size is checked after it was narrowed.
MapsNarrowed(m) == m.kind \in Kinds /\ m.mode \in {"exec", "serial", "vnc"}

\* mapRequest: the messages that map to a request, ...
Maps(m) ==
  /\ m.kind \in Kinds /\ m.mode \in {"exec", "serial", "vnc"}
  /\ m.mode = "exec" => m.rows \in 1..4096 /\ m.cols \in 1..4096

\* ... and the request.
MapRequest(m) == [m EXCEPT !.rows = @ % 2^16, !.cols = @ % 2^16]

ValidVMBinding(b) ==
  b.tenant # "" /\ b.vm # "" /\ b.version > 0 /\ b.cluster # "" /\ b.objects # ""

\* validateRequest.
Valid(r) ==
  /\ LET b == r.vmBinding
     IN b # None => /\ r.instanceBinding = None /\ r.kind = "vm" /\ r.mode = "vnc"
                    /\ b.tenant = r.tenant /\ b.vm = r.instance /\ ValidVMBinding(b)
  /\ LET b == r.instanceBinding
     IN b # None => /\ b.version >= 1 /\ b.cluster # "" /\ b.objects # ""
                    /\ b.container = r.container /\ b.shell # "" /\ r.mode = "exec"
  /\ r.tenant # "" /\ r.subject # "" /\ r.instance # ""
  /\ IF r.mode = "exec"
       THEN r.kind # "vm" /\ r.rows \in 1..4096 /\ r.cols \in 1..4096
       ELSE r.kind = "vm"

\* Mutant: the bindings are not part of it.
FingerprintUnbound(r) ==
  <<r.tenant, r.subject, r.instance, r.kind, r.mode, r.container>> \o r.command
    \o <<Text(r.tty), Text(r.rows), Text(r.cols), r.protocol>>

\* Fingerprint: the values it hashes, each with its length, so that values do
\* not run together; the words of the command are not counted, nor is what comes
\* after the protocol, so that only valid requests are told apart.
Fingerprint(r) ==
  LET i == r.instanceBinding
      v == r.vmBinding
  IN <<r.tenant, r.subject, r.instance, r.kind, r.mode, r.container>> \o r.command
       \o <<Text(r.tty), Text(r.rows), Text(r.cols), r.protocol>>
       \o (IF i = None THEN <<>>
           ELSE <<Text(i.version), i.cluster, i.objects, i.container, i.shell>>)
       \o (IF v = None THEN <<>>
           ELSE <<"vm.console.v1", v.tenant, v.vm, Text(v.version), v.cluster, v.objects>>)

\* Mutant: the request is not validated.
IssueUnvalidated(r, resource) ==
  /\ resource /\ r.mode = "vnc" => r.vmBinding # None
  /\ Bound(r) => resource

\* The part of Issue before Resource is asked; resource says whether the
\* gateway has a validator.
IssueAccepts(r, resource) ==
  /\ Valid(r)
  /\ resource /\ r.mode = "vnc" => r.vmBinding # None
  /\ Bound(r) => resource

\* The numbers that Fingerprint writes.
Written(r) ==
  {r.rows, r.cols} \cup {b.version : b \in {r.instanceBinding, r.vmBinding} \ {None}}

\* Replay: the session is the one asked for, by [tenant, subject, instance,
\* version].
ReplayAccepts(q) ==
  q.tenant # "" /\ q.subject # "" /\ q.instance # "" /\ q.version >= 1

ReplayMatches(q, r) ==
  /\ r.tenant = q.tenant /\ r.subject = q.subject /\ r.instance = q.instance
  /\ r.vmBinding # None /\ r.kind = "vm" /\ r.mode = "vnc"
  /\ r.vmBinding.version = q.version
=============================================================================
