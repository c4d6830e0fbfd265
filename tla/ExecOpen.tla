------------------------------ MODULE ExecOpen ------------------------------
(***************************************************************************)
(* internal/runtime/kubernetes: ExecAdapter.OpenExec and PodResolver, the  *)
(* opening of one exec session, and the start of its command by the        *)
(* goroutine of newExecStream.  Pods come, go and are replaced under the   *)
(* same name between any two steps; exec goes by name.  The Resource       *)
(* service, the Kubernetes API and the shell that runs the UID guard are   *)
(* external.  RuntimeOpen says when OpenExec is called.                    *)
(***************************************************************************)
EXTENDS Naturals, FiniteSets

CONSTANTS
  PodNames,     \* pod names, ordered as numbers
  BoundName,    \* the pod name of the frozen binding
  None

VARIABLES
  managed,      \* the target carries a frozen binding
  wanted,       \* the container the target names, or None
  valid,        \* Resource still vouches for the binding
  pods,         \* the pod of each name, or None
  step,         \* where OpenExec is, then "exec" until the command started
  result,       \* what OpenExec returned: None, "stream" or an error
  resolved,     \* ResolvedPod: a pod name and a container, or None
  ran           \* history: the pod in which the target's command ran, or None

target == <<managed, wanted>>
cluster == <<valid, pods>>
vars == <<target, cluster, step, result, resolved, ran>>

Containers == {"app", "sidecar"}
Errors == {"invalid_target", "target_not_found", "target_not_ready",
           "ambiguous_container", "unavailable"}

\* uid: is it the frozen pod; mine: it has the labels of the target's tenant and
\* workload; ready: running, ready and not being deleted.
Pod == [uid : {"bound", "other"}, mine : BOOLEAN, created : 1..2, ready : BOOLEAN,
        containers : {{"app"}, {"app", "sidecar"}}]

Steps == {"validate", "resolve", "open", "exec", "done"}

TypeOK ==
  /\ wanted \in {None, "sidecar"} /\ valid \in BOOLEAN
  /\ pods \in [PodNames -> Pod \cup {None}]
  /\ resolved \in {None} \cup [name : PodNames, container : Containers]
  /\ ran \in Pod \cup {None}

Init ==
  /\ wanted \in {None, "sidecar"} /\ valid \in BOOLEAN
  /\ pods \in [PodNames -> Pod \cup {None}]
  /\ \A n \in PodNames \ {BoundName} : pods[n] # None => pods[n].uid = "other"
  /\ resolved = None /\ ran = None

-----------------------------------------------------------------------------
(* PodResolver.Resolve, on the pods it listed                              *)

Matched == {n \in PodNames :
              /\ pods[n] # None /\ pods[n].mine
              /\ managed => n = BoundName /\ pods[n].uid = "bound"}

Eligible == {n \in Matched : pods[n].ready}

\* Mutant: the oldest first.
BeforeOldest(n, m) == pods[n].created < pods[m].created

\* The order of sort.Slice: the newest first, then by name.
Before(n, m) == IF pods[n].created = pods[m].created THEN n < m
                ELSE pods[n].created > pods[m].created

\* The first of the sorted pods.
Selected == CHOOSE n \in Eligible : \A m \in Eligible : ~Before(m, n)

\* Mutant: no container named, none chosen.
ContainerAsWanted(pod) == wanted

\* The container to use in a pod: the one named, or the only one; or an error.
Container(pod) ==
  IF wanted = None
    THEN IF Cardinality(pod.containers) = 1 THEN CHOOSE c \in pod.containers : TRUE
         ELSE "ambiguous_container"
    ELSE IF wanted \in pod.containers THEN wanted ELSE "invalid_target"

Resolution ==
  IF Eligible = {}
    THEN IF Matched = {} THEN "target_not_found" ELSE "target_not_ready"
  ELSE IF managed /\ Cardinality(Eligible) # 1 THEN "invalid_target"
  ELSE Container(pods[Selected])

-----------------------------------------------------------------------------
Fail(error) == step' = "done" /\ result' = error /\ UNCHANGED <<resolved, ran>>

\* Resource is asked about the binding; any other answer ends OpenExec.
Validate ==
  /\ step = "validate"
  /\ \/ valid /\ step' = "resolve" /\ UNCHANGED <<result, resolved, ran>>
     \/ Fail("target_not_ready")
  /\ UNCHANGED <<target, cluster>>

\* The target's kind and namespace may be invalid, and the listing may fail.
Resolve ==
  /\ step = "resolve"
  /\ \/ \E error \in {"invalid_target", "unavailable"} : Fail(error)
     \/ Resolution \in Errors /\ Fail(Resolution)
     \/ /\ Resolution \notin Errors
        /\ resolved' = [name |-> Selected, container |-> Resolution]
        /\ step' = "open" /\ UNCHANGED <<result, ran>>
  /\ UNCHANGED <<target, cluster>>

\* The executor is made, which does not connect yet, and the stream returned.
OpenStream ==
  /\ step = "open"
  /\ \/ Fail("unavailable")
     \/ step' = "exec" /\ result' = "stream" /\ UNCHANGED <<resolved, ran>>
  /\ UNCHANGED <<target, cluster>>

\* Mutant: the command is started without the guard.
StartUnguarded ==
  /\ step = "exec" /\ step' = "done"
  /\ ran' = pods[resolved.name]
  /\ UNCHANGED <<target, cluster, result, resolved>>

\* The executor connects to the pod that has the name now, if it has the
\* container.  For a managed target the command is wrapped in a guard that
\* exits unless the pod's own UID is the frozen one.
StartCommand ==
  LET pod == pods[resolved.name]
      reached == pod # None /\ resolved.container \in pod.containers
  IN /\ step = "exec" /\ step' = "done"
     /\ \/ reached /\ (managed => pod.uid = "bound") /\ ran' = pod
        \/ UNCHANGED ran
     /\ UNCHANGED <<target, cluster, result, resolved>>

\* A pod disappears, is replaced under its name, or becomes ready or not; the
\* owner stops the instance.  A pod that is gone never returns.
ClusterChanges ==
  /\ step # "done"
  /\ \/ valid /\ valid' = FALSE /\ UNCHANGED pods
     \/ \E n \in PodNames :
          /\ \/ pods[n] # None /\ pods' = [pods EXCEPT ![n] = None]
             \/ pods[n] # None /\ pods' = [pods EXCEPT ![n].ready = ~@]
             \/ \E new \in Pod : /\ new.uid = "other" /\ new.created = 2
                                 /\ pods' = [pods EXCEPT ![n] = new]
          /\ UNCHANGED valid
  /\ UNCHANGED <<target, step, result, resolved, ran>>

OpenStep == Validate \/ Resolve \/ OpenStream

Next == OpenStep \/ StartCommand \/ ClusterChanges
=============================================================================
