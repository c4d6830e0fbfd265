-------------------------- MODULE RuntimeOpenProofs --------------------------
(***************************************************************************)
(* Proofs about RuntimeOpen, for any set of pod names.                     *)
(***************************************************************************)
EXTENDS RuntimeOpen, WellFoundedInduction, TLAPS

Started == step \notin {"start", "done", "returned"}

\* What the adapters let pass: a frozen target is of this cluster, and with
\* Resource every VNC session is frozen.
Frozen == /\ managed => binding = cluster
          /\ mode = "vnc" /\ cluster # None => managed

\* Whatever runs, and whatever a session got, was let pass.
AcceptedInv ==
  /\ Started \/ stream = "session" \/ ran # None => Frozen
  /\ managed /\ ran # None => ran.uid = "bound"
  /\ mode # "exec" => ran = None
  /\ mode = "exec" => stream = "none"

\* Where the provider's stream can be, by the steps of open and of the connector.
StreamInv ==
  mode # "exec" =>
    /\ step \in {"start", "vm", "vmi", "business", "get", "connect"} =>
         connector = "off" /\ stream = "none"
    /\ step \in {"received", "vm again", "vmi again", "business again"} =>
         connector = "stopped" /\ stream = "open"
    /\ step = "await" => connector # "off" /\ stream \notin {"open", "session"}
    /\ step = "returned" => stream # "open"
    /\ connector \in {"off", "dialing"} => stream = "none"
    /\ connector \in {"dialed", "sending"} => stream \in {"none", "connector"}
    /\ stream = "session" => step = "returned"
    /\ step = "returned" => (result = "stream" <=> stream = "session")

\* Nothing that was gone when the stream was connected has come back since; so what
\* the second validation sees was already there.
DialedInv ==
  mode # "exec" =>
    /\ stream \in {"connector", "queued", "open", "session"} =>
         /\ vm = "bound" => dialed.vm = "bound"
         /\ vmi = "bound" => dialed.vmi = "bound"
         /\ ~closing => ~dialed.closing
    /\ step \in {"vmi again", "business again"} => dialed.vm = "bound"
    /\ step = "business again" => dialed.vmi = "bound"
    /\ stream = "session" /\ managed =>
         dialed.vm = "bound" /\ dialed.vmi = "bound" /\ ~dialed.closing

OpenInv == AcceptedInv /\ StreamInv /\ DialedInv

-----------------------------------------------------------------------------
(* The pod that Resolve takes                                              *)

\* A set of pod names that is not empty has a first one.
LEMMA LeastName ==
  ASSUME NEW T, T \subseteq Nat, T # {}
  PROVE  \E n \in T : \A m \in T : ~(m < n)
<1>1. PICK n \in T : \A m \in T : ~(<<m, n>> \in OpToRel(<, Nat))
  BY NatLessThanWellFounded, WFMin
<1>2. ASSUME NEW m \in T, m < n PROVE FALSE
  <2>1. <<m, n>> \in Nat \X Nat
    OBVIOUS
  <2>2. <<m, n>> \in OpToRel(<, Nat)
    BY <2>1, <1>2 DEF OpToRel
  <2> QED BY <2>2, <1>1
<1> QED BY <1>2

\* sort.Slice has a first element: of the eligible pods none comes before the
\* selected one.
LEMMA SelectedFirst ==
  ASSUME Exec!TypeOK, Exec!Eligible # {}
  PROVE  /\ Exec!Selected \in Exec!Eligible
         /\ \A m \in Exec!Eligible : ~Exec!Before(m, Exec!Selected)
<1> DEFINE E == Exec!Eligible
           Newest == {n \in E : pods[n].created = 2}
<1>1. /\ E \subseteq Nat
      /\ \A n \in E : pods[n].created \in 1..2
  <2>1. ASSUME NEW n \in E PROVE n \in PodNames /\ pods[n] \in Exec!Pod
    BY DEF Exec!TypeOK, Exec!Eligible, Exec!Matched
  <2> QED BY <2>1, RuntimeOpenAssumption DEF Exec!Pod
<1>2. \E n \in E : \A m \in E : ~Exec!Before(m, n)
  <2>1. CASE Newest = {}
    <3>1. \A n \in E : pods[n].created = 1
      BY <2>1, <1>1
    <3>2. PICK n \in E : \A m \in E : ~(m < n)
      BY <1>1, LeastName
    <3> QED BY <3>1, <3>2 DEF Exec!Before
  <2>2. CASE Newest # {}
    <3>1. PICK n \in Newest : \A m \in Newest : ~(m < n)
      BY <2>2, <1>1, LeastName
    <3> QED BY <3>1, <1>1 DEF Exec!Before
  <2> QED BY <2>1, <2>2
<1> QED BY <1>2 DEF Exec!Selected

\* The container Resolve names is one of the pod's.
LEMMA ResolutionContainer ==
  ASSUME Exec!TypeOK, Exec!Resolution \notin Exec!Errors
  PROVE  /\ Exec!Eligible # {} /\ Exec!Selected \in PodNames
         /\ Exec!Resolution \in Exec!Containers
<1>1. Exec!Eligible # {}
  BY DEF Exec!Resolution, Exec!Errors
<1>2. Exec!Selected \in PodNames /\ pods[Exec!Selected] \in Exec!Pod
  BY <1>1, SelectedFirst DEF Exec!TypeOK, Exec!Eligible, Exec!Matched
<1>3. PICK pod \in Exec!Pod : pod = pods[Exec!Selected]
  BY <1>2
<1>4. Exec!Resolution = Exec!Container(pod)
  BY <1>1, <1>3 DEF Exec!Resolution, Exec!Errors
<1>5. pod.containers # {} /\ pod.containers \subseteq Exec!Containers
  BY DEF Exec!Pod, Exec!Containers
<1>6. Exec!Container(pod) \in pod.containers
  BY <1>4, <1>5 DEF Exec!Container, Exec!Errors
<1> QED BY <1>1, <1>2, <1>4, <1>5, <1>6

-----------------------------------------------------------------------------
(* Types                                                                   *)

\* Once Resolve returned a pod, its name is known.
TypeInv ==
  /\ TypeOK
  /\ mode = "exec" /\ step \in {"open", "exec"} => resolved.name \in PodNames

\* The state is well typed before OpenSession is called.
LEMMA TypeInit == Init => TypeInv
BY DEF Init, TypeInv, TypeOK, Exec!Init, Exec!TypeOK, Console!Init, Console!TypeOK

\* A step of either adapter keeps it so.
LEMMA TypeStep == TypeInv /\ [Next]_vars => TypeInv'
<1> SUFFICES ASSUME TypeInv, [Next]_vars PROVE TypeInv'
  OBVIOUS
<1>t. /\ mode \in Modes /\ binding \in {None, "here", "elsewhere"} /\ cluster \in {None, "here"}
      /\ mode = "exec" => step \in {"start"} \cup Exec!Steps
      /\ mode # "exec" => step \in {"start"} \cup Console!Steps
      /\ result \in Exec!Errors \cup Console!Errors \cup {None, "stream"}
      /\ Exec!TypeOK /\ Console!TypeOK
  BY DEF TypeInv, TypeOK
<1>i. ASSUME /\ UNCHANGED <<mode, binding, cluster>>
             /\ mode = "exec" => step' \in {"start"} \cup Exec!Steps
             /\ mode # "exec" => step' \in {"start"} \cup Console!Steps
             /\ result' \in Exec!Errors \cup Console!Errors \cup {None, "stream"}
             /\ Exec!TypeOK' /\ Console!TypeOK'
             /\ mode = "exec" /\ step' \in {"open", "exec"} => resolved'.name \in PodNames
      PROVE  TypeInv'
  BY <1>i, <1>t DEF TypeInv, TypeOK
<1>1. CASE Dispatch
  <2>1. Exec!TypeOK' /\ Console!TypeOK' /\ UNCHANGED <<mode, binding, cluster>>
    BY <1>1, <1>t DEF Dispatch, access, execVars, consoleVars, Exec!TypeOK, Console!TypeOK
  <2>2. /\ mode = "exec" => step' \in {"done", "validate", "resolve"}
        /\ mode # "exec" => step' \in {"returned", "vm", "get"}
        /\ result' \in {result, "invalid_target"}
    BY <1>1 DEF Dispatch
  <2> QED BY <2>1, <2>2, <1>t, <1>i DEF Exec!Steps, Console!Steps, Exec!Errors
<1>2. CASE OfExec(Exec!Next)
  <2>0. /\ mode = "exec" /\ UNCHANGED <<mode, binding, cluster>> /\ Exec!Next
        /\ UNCHANGED consoleVars
    BY <1>2 DEF OfExec, access
  <2>1. Console!TypeOK'
    BY <2>0, <1>t DEF consoleVars, Console!TypeOK
  <2>t. /\ Exec!TypeOK /\ step \in {"start"} \cup Exec!Steps
        /\ result \in Exec!Errors \cup Console!Errors \cup {None, "stream"}
        /\ step \in {"open", "exec"} => resolved.name \in PodNames
    BY <2>0, <1>t DEF TypeInv
  <2>2. /\ Exec!TypeOK' /\ step' \in {"start"} \cup Exec!Steps
        /\ result' \in Exec!Errors \cup Console!Errors \cup {None, "stream"}
        /\ step' \in {"open", "exec"} => resolved'.name \in PodNames
    <3> USE <2>t DEF Exec!TypeOK, Exec!Steps, Exec!Fail, Exec!target, Exec!cluster
    <3>1. CASE Exec!Validate
      BY <3>1 DEF Exec!Validate, Exec!Errors
    <3>2. CASE Exec!Resolve
      <4>1. CASE Exec!Resolution \in Exec!Errors
        BY <4>1, <3>2 DEF Exec!Resolve, Exec!Errors
      <4>2. CASE Exec!Resolution \notin Exec!Errors
        <5>1. /\ Exec!Selected \in PodNames
              /\ Exec!Resolution \in Exec!Containers
          BY <4>2, ResolutionContainer
        <5> QED BY <5>1, <4>2, <3>2 DEF Exec!Resolve, Exec!Errors
      <4> QED BY <4>1, <4>2
    <3>3. CASE Exec!OpenStream
      BY <3>3 DEF Exec!OpenStream, Exec!Errors
    <3>4. CASE Exec!StartCommand
      BY <3>4 DEF Exec!StartCommand
    <3>5. CASE Exec!ClusterChanges
      <4>1. pods' \in [PodNames -> Exec!Pod \cup {None}]
        <5>1. ASSUME NEW n \in PodNames, pods[n] # None,
                     pods' = [pods EXCEPT ![n].ready = ~@]
              PROVE  pods' \in [PodNames -> Exec!Pod \cup {None}]
          <6>1. [pods[n] EXCEPT !.ready = ~@] \in Exec!Pod
            BY <5>1 DEF Exec!Pod
          <6> QED BY <5>1, <6>1
        <5> QED BY <5>1, <3>5 DEF Exec!ClusterChanges
      <4>2. valid' \in BOOLEAN
        BY <3>5 DEF Exec!ClusterChanges
      <4> QED BY <4>1, <4>2, <3>5 DEF Exec!ClusterChanges
    <3> QED BY <2>0, <3>1, <3>2, <3>3, <3>4, <3>5 DEF Exec!Next, Exec!OpenStep
  <2> QED BY <2>0, <2>1, <2>2, <1>t, <1>i
<1>3. CASE OfConsole(Console!Next)
  <2>0. /\ mode # "exec" /\ UNCHANGED <<mode, binding, cluster>> /\ Console!Next
        /\ UNCHANGED execVars
    BY <1>3 DEF OfConsole, access
  <2>1. Exec!TypeOK'
    BY <2>0, <1>t DEF execVars, Exec!TypeOK
  <2>t. /\ Console!TypeOK /\ step \in {"start"} \cup Console!Steps
        /\ result \in Exec!Errors \cup Console!Errors \cup {None, "stream"}
    BY <2>0, <1>t
  <2>2. connectDone' \in BOOLEAN /\ closing' \in BOOLEAN
    <3>1. UNCHANGED connectDone \/ connectDone' = TRUE
      BY <2>0, Zenon
      DEF Console!Next, Console!OpenStep, Console!ValidateVMIdentity, Console!MatchVMI,
          Console!ValidateVM, Console!ValidateVMAgain, Console!Get, Console!StartConnector,
          Console!AwaitConnector, Console!CheckReceived, Console!ConnectorDials,
          Console!ConnectorChecks, Console!ConnectorSends, Console!ClusterChanges,
          Console!ConnectContextEnds, Console!Observe, Console!Fail, Console!Proceed
    <3>2. UNCHANGED closing \/ closing' = TRUE
      BY <2>0, Zenon
      DEF Console!Next, Console!OpenStep, Console!ValidateVMIdentity, Console!MatchVMI,
          Console!ValidateVM, Console!ValidateVMAgain, Console!Get, Console!StartConnector,
          Console!AwaitConnector, Console!CheckReceived, Console!ConnectorDials,
          Console!ConnectorChecks, Console!ConnectorSends, Console!ClusterChanges,
          Console!ConnectContextEnds, Console!Observe, Console!cluster
    <3> QED BY <3>1, <3>2, <2>t DEF Console!TypeOK
  <2>3. /\ step' \in {"start"} \cup Console!Steps
        /\ result' \in Exec!Errors \cup Console!Errors \cup {None, "stream"}
        /\ vm' \in {"bound", "changed"} /\ vmi' \in {"bound", "ended", "replaced"}
        /\ connector' \in {"off", "dialing", "dialed", "sending", "stopped"}
        /\ stream' \in {"none", "connector", "queued", "open", "session", "disposed", "failed"}
    <3>t. /\ vm \in {"bound", "changed"} /\ vmi \in {"bound", "ended", "replaced"}
          /\ connector \in {"off", "dialing", "dialed", "sending", "stopped"}
          /\ stream \in {"none", "connector", "queued", "open", "session", "disposed", "failed"}
      BY <2>t DEF Console!TypeOK
    <3> USE <2>t, <3>t
        DEF Console!Steps, Console!Errors, Console!Fail, Console!Proceed, Console!cluster
    <3>1. CASE Console!ValidateVMIdentity
      BY <3>1 DEF Console!ValidateVMIdentity, Console!Observe
    <3>2. CASE Console!MatchVMI
      BY <3>2 DEF Console!MatchVMI, Console!Observe
    <3>3. CASE Console!ValidateVM
      BY <3>3 DEF Console!ValidateVM, Console!Observe
    <3>4. CASE Console!ValidateVMAgain
      BY <3>4 DEF Console!ValidateVMAgain
    <3>5. CASE Console!Get
      BY <3>5 DEF Console!Get, Console!Observe
    <3>6. CASE Console!StartConnector
      BY <3>6 DEF Console!StartConnector
    <3>7. CASE Console!AwaitConnector
      BY <3>7 DEF Console!AwaitConnector
    <3>8. CASE Console!CheckReceived
      BY <3>8 DEF Console!CheckReceived
    <3>9. CASE Console!ConnectorDials
      BY <3>9 DEF Console!ConnectorDials
    <3>10. CASE Console!ConnectorChecks
      BY <3>10 DEF Console!ConnectorChecks
    <3>11. CASE Console!ConnectorSends
      BY <3>11 DEF Console!ConnectorSends
    <3>12. CASE Console!ClusterChanges
      <4>1. /\ UNCHANGED <<step, result, connector, stream>>
            /\ vm' \in {vm, "changed"} /\ vmi' \in {vmi, "ended", "replaced"}
        BY <3>12, Zenon DEF Console!ClusterChanges
      <4>2. vm' \in {"bound", "changed"} /\ vmi' \in {"bound", "ended", "replaced"}
        BY <4>1
      <4> QED BY <4>1, <4>2, Zenon
    <3>13. CASE Console!ConnectContextEnds
      <4>1. UNCHANGED <<step, result, connector, stream>> /\ UNCHANGED <<vm, vmi>>
        BY <3>13, Zenon DEF Console!ConnectContextEnds
      <4>2. vm' \in {"bound", "changed"} /\ vmi' \in {"bound", "ended", "replaced"}
        BY <4>1
      <4> QED BY <4>1, <4>2, Zenon
    <3> QED BY <2>0, <3>1, <3>2, <3>3, <3>4, <3>5, <3>6, <3>7, <3>8, <3>9, <3>10, <3>11,
               <3>12, <3>13
            DEF Console!Next, Console!OpenStep
  <2>4. dialed' \in {None} \cup [vm : {"bound", "changed"}, vmi : {"bound", "replaced"},
                                closing : BOOLEAN]
    <3>1. CASE Console!ConnectorDials
      BY <3>1, <2>t DEF Console!ConnectorDials, Console!TypeOK
    <3>2. CASE ~Console!ConnectorDials
      <4>1. UNCHANGED dialed
        BY <2>0, <3>2, Zenon
        DEF Console!Next, Console!OpenStep, Console!ValidateVMIdentity, Console!MatchVMI,
            Console!ValidateVM, Console!ValidateVMAgain, Console!Get, Console!StartConnector,
            Console!AwaitConnector, Console!CheckReceived, Console!ConnectorChecks,
            Console!ConnectorSends, Console!ClusterChanges, Console!ConnectContextEnds,
            Console!Observe
      <4> QED BY <4>1, <2>t DEF Console!TypeOK
    <3> QED BY <3>1, <3>2
  <2>5. Console!TypeOK'
    BY <2>2, <2>3, <2>4 DEF Console!TypeOK
  <2> QED BY <2>0, <2>1, <2>3, <2>5, <1>t, <1>i
<1>4. CASE UNCHANGED vars
  BY <1>4, <1>t, <1>i
  DEF vars, access, execVars, consoleVars, Exec!TypeOK, Console!TypeOK, TypeInv
<1> QED BY <1>1, <1>2, <1>3, <1>4 DEF Next

\* The opening of a stream is always well typed; in particular what Resolve returns
\* names a pod and a container.
THEOREM TypeCorrect == Spec => []TypeOK
<1>1. TypeInv => TypeOK
  BY DEF TypeInv
<1> QED BY <1>1, TypeInit, TypeStep, PTL DEF Spec

-----------------------------------------------------------------------------
(* The target, and who owns the stream                                     *)

\* OpenInv holds before OpenSession is called.
LEMMA OpenInit == Init => OpenInv
BY DEF Init, OpenInv, AcceptedInv, StreamInv, DialedInv, Started, Exec!Init, Console!Init

\* A step of either adapter, of the connector or of the cluster keeps it.
LEMMA OpenStep == TypeOK /\ OpenInv /\ [Next]_vars => OpenInv'
<1> SUFFICES ASSUME TypeOK, OpenInv, [Next]_vars PROVE OpenInv'
  OBVIOUS
<1>1. CASE Dispatch
  <2>1. /\ step = "start" /\ UNCHANGED <<mode, binding, cluster, ran, vm, vmi, closing>>
        /\ UNCHANGED <<connector, stream, dialed>>
    BY <1>1 DEF Dispatch, access, execVars, consoleVars
  <2>2. Started' => Frozen
    <3>1. Started' => Accepts
      BY <1>1 DEF Dispatch, Started
    <3> QED BY <3>1
        DEF Accepts, Frozen, managed, ExecAccepts, SerialAccepts, VNCAccepts, FrozenAccepts,
            TypeOK, Modes
  <2>3. AcceptedInv'
    BY <2>1, <2>2 DEF OpenInv, AcceptedInv, Frozen, managed
  <2>4. StreamInv' /\ DialedInv'
    BY <2>1, <1>1 DEF Dispatch, OpenInv, StreamInv, DialedInv
  <2> QED BY <2>3, <2>4 DEF OpenInv
<1>2. CASE OfExec(Exec!Next)
  <2>1. /\ mode = "exec" /\ UNCHANGED <<mode, binding, cluster, stream>> /\ Exec!Next
        /\ stream = "none"
    BY <1>2 DEF OfExec, access, consoleVars, OpenInv, AcceptedInv
  <2>2. AcceptedInv'
    <3>1. CASE UNCHANGED ran /\ Started
      BY <3>1, <2>1 DEF OpenInv, AcceptedInv, Frozen, managed
    <3>2. CASE Exec!StartCommand
      <4>1. /\ step = "exec" /\ step' = "done"
            /\ managed /\ ran' # None => ran'.uid = "bound"
        BY <3>2 DEF Exec!StartCommand, OpenInv, AcceptedInv
      <4> QED BY <4>1, <2>1 DEF OpenInv, AcceptedInv, Frozen, managed, Started
    <3>3. CASE Exec!ClusterChanges
      BY <3>3, <2>1
      DEF Exec!ClusterChanges, OpenInv, AcceptedInv, Frozen, managed, Started
    <3>4. CASE Exec!OpenStep
      BY <3>1, <3>4
      DEF Exec!OpenStep, Exec!Validate, Exec!Resolve, Exec!OpenStream, Exec!Fail, Started
    <3> QED BY <2>1, <3>2, <3>3, <3>4 DEF Exec!Next
  <2> QED BY <2>1, <2>2 DEF OpenInv, StreamInv, DialedInv
<1>3. CASE OfConsole(Console!Next)
  <2>1. /\ mode # "exec" /\ UNCHANGED <<mode, binding, cluster, ran>> /\ Console!Next
        /\ ran = None
    BY <1>3 DEF OfConsole, access, execVars, OpenInv, AcceptedInv
  <2> USE <2>1
      DEF OpenInv, AcceptedInv, StreamInv, DialedInv, Started, Frozen, managed, Console!cluster
  <2>2. CASE Console!ValidateVMIdentity
    BY <2>2 DEF Console!ValidateVMIdentity, Console!Observe, Console!Fail, Console!Proceed
  <2>3. CASE Console!MatchVMI
    BY <2>3 DEF Console!MatchVMI, Console!Observe, Console!Fail, Console!Proceed
  <2>4. CASE Console!ValidateVM
    BY <2>4 DEF Console!ValidateVM, Console!Observe, Console!Fail, Console!Proceed
  <2>5. CASE Console!ValidateVMAgain
    BY <2>5 DEF Console!ValidateVMAgain, Console!Fail
  <2>6. CASE Console!Get
    BY <2>6 DEF Console!Get, Console!Observe, Console!Fail, Console!Proceed
  <2>7. CASE Console!StartConnector
    BY <2>7 DEF Console!StartConnector, Console!Proceed
  <2>8. CASE Console!AwaitConnector
    <3>1. connector \in {"off", "dialing", "dialed", "sending", "stopped"}
      BY DEF TypeOK, Console!TypeOK
    <3> QED BY <2>8, <3>1 DEF Console!AwaitConnector, Console!Fail
  <2>9. CASE Console!CheckReceived
    BY <2>9 DEF Console!CheckReceived, Console!Fail, Console!Proceed
  <2>10. CASE Console!ConnectorDials
    <3>1. /\ connector = "dialing" /\ connector' = "dialed" /\ stream = "none"
          /\ UNCHANGED <<step, result, vm, vmi, closing>>
          /\ stream' \in {"none", "connector"}
      BY <2>10 DEF Console!ConnectorDials
    <3>2. stream' = "connector" => /\ dialed'.vm = vm /\ dialed'.vmi = vmi
                                   /\ dialed'.closing = closing
      <4>1. CASE dialed' = [vm |-> vm, vmi |-> vmi, closing |-> closing]
        BY <4>1
      <4>2. CASE UNCHANGED stream
        BY <4>2, <3>1
      <4> QED BY <2>10, <4>1, <4>2 DEF Console!ConnectorDials
    <3> QED BY <3>1, <3>2
  <2>11. CASE Console!ConnectorChecks
    BY <2>11 DEF Console!ConnectorChecks
  <2>12. CASE Console!ConnectorSends
    BY <2>12 DEF Console!ConnectorSends
  <2>13. CASE Console!ClusterChanges
    BY <2>13 DEF Console!ClusterChanges
  <2>14. CASE Console!ConnectContextEnds
    BY <2>14 DEF Console!ConnectContextEnds
  <2> HIDE DEF OpenInv
  <2> QED BY <2>1, <2>2, <2>3, <2>4, <2>5, <2>6, <2>7, <2>8, <2>9, <2>10, <2>11, <2>12, <2>13, <2>14
          DEF Console!Next, Console!OpenStep
<1>4. CASE UNCHANGED vars
  BY <1>4
  DEF vars, access, execVars, consoleVars, OpenInv, AcceptedInv, StreamInv, DialedInv,
      Started, Frozen, managed
<1> QED BY <1>1, <1>2, <1>3, <1>4 DEF Next

\* What was let pass, who owns the provider's stream and what was dialled.
THEOREM OpenInvariant == Spec => []OpenInv
BY OpenInit, OpenStep, TypeCorrect, PTL DEF Spec

\* The stream a frozen session gets was connected to the frozen instance of the
\* frozen VM of this cluster before anybody asked to stop it, although connect goes
\* by name and the cluster changes between every two reads.
THEOREM BoundConsole == Spec => []SessionGetsBoundConsole
<1>1. TypeOK /\ OpenInv => SessionGetsBoundConsole
  BY DEF TypeOK, OpenInv, AcceptedInv, DialedInv, Frozen, SessionGetsBoundConsole
<1> QED BY <1>1, TypeCorrect, OpenInvariant, PTL

\* No stream that open received is lost, whatever read fails and whenever the
\* deadline passes.
THEOREM StreamOwned == Spec => []ReceivedStreamHasOwner
<1>1. OpenInv => ReceivedStreamHasOwner
  BY DEF OpenInv, StreamInv, ReceivedStreamHasOwner
<1> QED BY <1>1, OpenInvariant, PTL

\* A frozen target's command runs in the frozen pod of this cluster or nowhere,
\* whatever pods come and go under its name.
THEOREM BoundPod == Spec => []CommandRunsInBoundPod
<1>1. OpenInv => CommandRunsInBoundPod
  BY DEF OpenInv, AcceptedInv, Frozen, CommandRunsInBoundPod
<1> QED BY <1>1, OpenInvariant, PTL

\* Among any number of pods Resolve takes the newest ready one of the target, ties
\* by name.
THEOREM NewestReady == Spec => ResolvesNewestReady
<1>1. TypeOK /\ [Next]_vars =>
        [resolved' # resolved =>
           LET p == resolved'.name
           IN /\ pods[p].mine /\ pods[p].ready
              /\ \A n \in PodNames :
                   ~managed /\ pods[n] # None /\ pods[n].mine /\ pods[n].ready =>
                     /\ pods[n].created <= pods[p].created
                     /\ n < p => pods[n].created < pods[p].created]_vars
  <2> SUFFICES ASSUME TypeOK, [Next]_vars, resolved' # resolved
               PROVE  LET p == resolved'.name
                      IN /\ pods[p].mine /\ pods[p].ready
                         /\ \A n \in PodNames :
                              ~managed /\ pods[n] # None /\ pods[n].mine /\ pods[n].ready =>
                                /\ pods[n].created <= pods[p].created
                                /\ n < p => pods[n].created < pods[p].created
    OBVIOUS
  <2>1. Exec!TypeOK
    BY DEF TypeOK
  <2>2. Exec!Resolution \notin Exec!Errors /\ resolved'.name = Exec!Selected
    BY DEF Next, Dispatch, OfExec, OfConsole, execVars, vars, Exec!Next, Exec!OpenStep,
           Exec!Validate, Exec!Resolve, Exec!OpenStream, Exec!StartCommand,
           Exec!ClusterChanges, Exec!Fail
  <2>3. PICK p : p = Exec!Selected
    OBVIOUS
  <2>4. p \in Exec!Eligible /\ \A m \in Exec!Eligible : ~Exec!Before(m, p)
    BY <2>1, <2>2, <2>3, ResolutionContainer, SelectedFirst
  <2>5. p \in PodNames /\ pods[p] # None /\ pods[p].mine /\ pods[p].ready
    BY <2>4 DEF Exec!Eligible, Exec!Matched
  <2>6. ASSUME NEW n \in PodNames, ~managed, pods[n] # None, pods[n].mine, pods[n].ready
        PROVE  /\ pods[n].created <= pods[p].created
               /\ n < p => pods[n].created < pods[p].created
    <3>1. n \in Exec!Eligible
      BY <2>6 DEF Exec!Eligible, Exec!Matched
    <3>2. pods[n].created \in 1..2 /\ pods[p].created \in 1..2 /\ n \in Nat /\ p \in Nat
      BY <2>1, <2>5, <2>6, RuntimeOpenAssumption DEF Exec!TypeOK, Exec!Pod
    <3> QED BY <3>1, <3>2, <2>4 DEF Exec!Before
  <2> QED BY <2>2, <2>3, <2>5, <2>6
<1> QED BY <1>1, TypeCorrect, PTL DEF Spec, ResolvesNewestReady
=============================================================================
