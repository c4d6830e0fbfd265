----------------------------- MODULE RuntimeOpen -----------------------------
(***************************************************************************)
(* The opening of one session's runtime stream: openExecStream and         *)
(* openByteStream of connectedsession choose the adapter by the session's  *)
(* mode, and OpenExec, OpenSerial and OpenVNC refuse what the gateway's    *)
(* configuration does not allow before they open (ExecOpen, ConsoleOpen).  *)
(***************************************************************************)
EXTENDS Adapters, Naturals

CONSTANTS PodNames, BoundName

ASSUME RuntimeOpenAssumption == PodNames \subseteq Nat /\ BoundName \in PodNames

VARIABLES
  mode, binding,           \* of the claimed access; binding as in Adapters
  cluster,                 \* the gateway's cluster ID with Resource, or None
  step, result,            \* of the adapter's open
  wanted, valid, pods, resolved, ran,                           \* ExecOpen
  vm, vmi, closing, connectDone, connector, stream, dialed      \* ConsoleOpen

managed == binding # None

access      == <<mode, binding, cluster>>
execVars    == <<wanted, valid, pods, resolved, ran>>
consoleVars == <<vm, vmi, closing, connectDone, connector, stream, dialed>>
vars        == <<access, step, result, execVars, consoleVars>>

Exec    == INSTANCE ExecOpen
Console == INSTANCE ConsoleOpen

Modes == {"exec", "serial", "vnc"}

TypeOK ==
  /\ mode \in Modes /\ binding \in {None, "here", "elsewhere"} /\ cluster \in {None, "here"}
  /\ step \in {"start"} \cup (IF mode = "exec" THEN Exec!Steps ELSE Console!Steps)
  /\ result \in Exec!Errors \cup Console!Errors \cup {None, "stream"}
  /\ Exec!TypeOK /\ Console!TypeOK

\* The adapter that is not asked keeps one idle state.
Init ==
  /\ mode \in Modes /\ binding \in {None, "here", "elsewhere"} /\ cluster \in {None, "here"}
  /\ step = "start" /\ result = None
  /\ Exec!Init /\ Console!Init
  /\ mode = "exec" => vm = "bound" /\ vmi = "bound" /\ ~closing
  /\ mode # "exec" => wanted = None /\ valid /\ pods = [n \in PodNames |-> None]

Accepts == CASE mode = "exec"   -> ExecAccepts(binding, cluster)
             [] mode = "serial" -> SerialAccepts(binding, cluster)
             [] mode = "vnc"    -> VNCAccepts(binding, cluster)

Dispatch ==
  /\ step = "start"
  /\ IF ~Accepts
       THEN result' = "invalid_target" /\ step' = IF mode = "exec" THEN "done" ELSE "returned"
       ELSE /\ step' = IF mode = "exec" THEN IF managed THEN "validate" ELSE "resolve"
                       ELSE IF managed THEN "vm" ELSE "get"
            /\ UNCHANGED result
  /\ UNCHANGED <<access, execVars, consoleVars>>

OfExec(A)    == mode = "exec" /\ UNCHANGED <<access, consoleVars>> /\ A
OfConsole(A) == mode # "exec" /\ UNCHANGED <<access, execVars>>    /\ A

Next == Dispatch \/ OfExec(Exec!Next) \/ OfConsole(Console!Next)

\* The goroutine that opens runs, its reads are bounded by their contexts, and
\* the deadline of a connection passes; connect may never return.
Fairness ==
  /\ WF_vars(Dispatch)
  /\ WF_vars(OfExec(Exec!OpenStep))
  /\ WF_vars(OfConsole(Console!OpenStep))
  /\ WF_vars(OfConsole(Console!ConnectContextEnds))
  /\ WF_vars(OfConsole(Console!ConnectorChecks \/ Console!ConnectorSends))

Spec == Init /\ [][Next]_vars /\ Fairness

-----------------------------------------------------------------------------
(* Properties                                                              *)

\* A stream handed to a session that is frozen, as every VNC session of a
\* gateway with Resource is, was connected to the frozen instance of the frozen
\* VM of this cluster, before its owner asked to stop it, although connect goes
\* by name and the cluster changes between every two reads ("while the provider
\* is still private", adapter.go:236).
SessionGetsBoundConsole ==
  stream = "session" /\ (managed \/ (mode = "vnc" /\ cluster # None)) =>
    /\ binding = cluster
    /\ dialed.vm = "bound" /\ dialed.vmi = "bound" /\ ~dialed.closing

\* A stream that open received has an owner when it returns: the session, or
\* it was disposed; and the session gets one exactly when open says so.
ReceivedStreamHasOwner ==
  mode # "exec" /\ step = "returned" =>
    stream # "open" /\ (result = "stream") = (stream = "session")

\* The adapter returns a stream or an error, although connect, which has no
\* context, may hang, and whatever happens in the cluster meanwhile.
OpenReturns == <>(result # None)

\* The command of a frozen target runs only in the frozen pod of this cluster,
\* although exec has no UID precondition and the pod may be replaced under its
\* name after it was resolved (exec.go: "rejects replacement Pods that appear
\* between GET and exec").
CommandRunsInBoundPod == managed /\ ran # None => binding = cluster /\ ran.uid = "bound"

\* Resolve takes the newest of the ready pods of the target, and of those of one
\* age the first by name, in whatever order the pods were listed.
ResolvesNewestReady ==
  [][resolved' # resolved =>
       LET p == resolved'.name
       IN /\ pods[p].mine /\ pods[p].ready
          /\ \A n \in PodNames :
               ~managed /\ pods[n] # None /\ pods[n].mine /\ pods[n].ready =>
                 /\ pods[n].created <= pods[p].created
                 /\ n < p => pods[n].created < pods[p].created]_vars

\* adapter_test.go:160 "late connection was not closed": a connection made too
\* late to be handed over is closed.
LateStreamDisposed ==
  step = "returned" /\ connector = "stopped" => stream # "queued"
=============================================================================
