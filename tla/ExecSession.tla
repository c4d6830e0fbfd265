----------------------------- MODULE ExecSession -----------------------------
(***************************************************************************)
(* One exec session from the upgrade request to the return of its lease:   *)
(* carryExecStream of connectedsession/exec.go on the main goroutine of    *)
(* SessionRun.  A reader, an input and a writer pump, one pump per output  *)
(* and a waiter run beside it.  They share channels of capacity one        *)
(* (outcomes, completed, ack) and the bounded queues inputs and outbound.  *)
(* A select with several ready cases takes any of them.                    *)
(***************************************************************************)
EXTENDS ExecStream, SessionRun

CONSTANTS InboundQueue, OutboundQueue

ASSUME ExecSessionAssumption ==
  /\ InboundQueue \in Nat \ {0} /\ OutboundQueue \in Nat \ {0}
  /\ None \notin {"ok", "failed"}

VARIABLES
  delivered,    \* frames written to the socket
  inputs,       \* frames between the reader and the input pump
  outbound,     \* frames between the output pumps and the writer pump
  completed,    \* the pending result of the command, or None
  ack,          \* the writer's answer to the exit frame: None, "ok" or "failed"
  pump          \* per pump: off, waiting, stopped, or the frame it holds

queues   == <<inputs, outbound>>
results  == <<completed, ack>>
execVars == <<delivered, queues, results, pump>>
sessionVars == <<runVars, execVars>>
vars == <<streamVars, sessionVars>>

Pumps == {"reader", "input", "writer", "waiter"} \cup Outputs

\* The frames: what the client sends, numbered chunks of output, the exit frame,
\* and the error frame of writeFinal.
ClientFrames == {<<"stdin">>, <<"resize">>}
Exit         == <<"exit">>
Error        == <<"error">>
OutputFrames == (Outputs \X (1..MaxOutput)) \cup {Exit}
ServerFrames == OutputFrames \cup {Error}
Off          == <<"off">>
Waiting      == <<"waiting">>
Stopped      == <<"stopped">>

TypeOK ==
  /\ StreamTypeOK /\ RunTypeOK
  /\ delivered \in Seq(ServerFrames)
  /\ inputs \in Seq(ClientFrames) /\ Len(inputs) <= InboundQueue
  /\ outbound \in Seq(OutputFrames) /\ Len(outbound) <= OutboundQueue
  /\ completed \in {None, "exit", "error"}
  /\ ack \in {None, "ok", "failed"}
  /\ pump \in [Pumps -> {Off, Waiting, Stopped} \cup ClientFrames \cup OutputFrames]

Init ==
  /\ StreamInit /\ RunInit
  /\ delivered = <<>>
  /\ inputs = <<>> /\ outbound = <<>>
  /\ completed = None /\ ack = None
  /\ pump = [p \in Pumps |-> Off]

\* The stream is open: before that, and when opening fails, it does not exist.
Carried == pump["reader"] # Off

Holds(p) == pump[p] \notin {Off, Waiting, Stopped}

Becomes(p, state) == pump' = [pump EXCEPT ![p] = state]

\* Mutant: a full queue has room for one more.
SendResultsOverfull(queue, capacity) ==
  (IF Len(queue) <= capacity THEN {"queued"} ELSE {})
    \cup (IF ctxDone THEN {"canceled"} ELSE {})
    \cup (IF Len(queue) > capacity /\ ~ctxDone THEN {"full"} ELSE {})

\* The select of enqueue (and of the reader): a queue with room, a context that
\* is done, or else the default.
SendResults(queue, capacity) ==
  (IF Len(queue) < capacity THEN {"queued"} ELSE {})
    \cup (IF ctxDone THEN {"canceled"} ELSE {})
    \cup (IF Len(queue) >= capacity /\ ~ctxDone THEN {"full"} ELSE {})

-----------------------------------------------------------------------------
(* Pumps                                                                   *)

\* Reader: a message is read, decoded and queued.
ReaderQueues(frame) ==
  /\ pump["reader"] = Waiting
  /\ socket = "open" /\ sent < MaxMessages
  /\ sent' = sent + 1
  /\ \E r \in SendResults(inputs, InboundQueue) :
       /\ inputs' = IF r = "queued" THEN Append(inputs, frame) ELSE inputs
       /\ Becomes("reader", IF r = "queued" THEN Waiting ELSE Stopped)
       /\ IF r = "full" THEN Signal("backpressure") ELSE UNCHANGED outcomes
  /\ UNCHANGED <<streamVars, contexts, socket, delivered, outbound, results, control>>

\* Reader: the message does not decode, or is over the read limit.
ReaderRejects ==
  /\ pump["reader"] = Waiting
  /\ socket = "open" /\ sent < MaxMessages
  /\ sent' = sent + 1
  /\ \/ Signal("invalid_terminal_frame") /\ UNCHANGED socket
     \/ TooBig
  /\ Becomes("reader", Stopped)
  /\ UNCHANGED <<streamVars, contexts, delivered, queues, results, control>>

ReaderFails ==
  /\ pump["reader"] = Waiting
  /\ SocketReadFails
  /\ Becomes("reader", Stopped)
  /\ UNCHANGED <<streamVars, contexts, sent, delivered, queues, results, control>>

\* Input pump: take a frame, then hand it to the stream.
InputTakes ==
  /\ pump["input"] = Waiting
  /\ \/ inputs # <<>> /\ Becomes("input", Head(inputs)) /\ inputs' = Tail(inputs)
     \/ ctxDone /\ Becomes("input", Stopped) /\ UNCHANGED inputs
  /\ UNCHANGED <<streamVars, runVars, delivered, outbound, results>>

InputWrites ==
  /\ pump["input"] = <<"stdin">>
  /\ \/ StdinTaken /\ Becomes("input", Waiting) /\ UNCHANGED outcomes
     \/ StdinFails /\ Becomes("input", Stopped) /\ Signal("runtime_failed")
  /\ UNCHANGED <<streamVars, contexts, socket, sent, delivered, queues, results, control>>

InputResizes ==
  /\ pump["input"] = <<"resize">>
  /\ \E r \in ResizeResults(ctxDone) :
       \/ /\ r = "ok" /\ sizes' = sizes + 1
          /\ Becomes("input", Waiting) /\ UNCHANGED outcomes
       \/ /\ r # "ok" /\ UNCHANGED sizes
          /\ Becomes("input", Stopped)
          /\ Signal(IF r = "backpressure" THEN r ELSE "runtime_failed")
  /\ UNCHANGED <<executor, result, terminated, pipe, written, contexts, socket, sent,
                 delivered, queues, results, control>>

\* Output pump: read a chunk, then enqueue it; stop at end of file, or when the
\* chunk could not be enqueued.
OutputReads(o) ==
  /\ pump[o] = Waiting
  /\ \/ ReadChunk(o) /\ Becomes(o, <<o, written[o]>>)
     \/ pipe[o] = "closed" /\ Becomes(o, Stopped) /\ UNCHANGED streamVars
  /\ UNCHANGED <<runVars, delivered, queues, results>>

\* Mutant: the pump goes on after a chunk that found the queue full.
OutputEnqueuesOn(o) ==
  /\ Holds(o)
  /\ \E r \in SendResults(outbound, OutboundQueue) :
       /\ outbound' = IF r = "queued" THEN Append(outbound, pump[o]) ELSE outbound
       /\ Becomes(o, IF r = "canceled" THEN Stopped ELSE Waiting)
       /\ IF r = "full" THEN Signal("backpressure") ELSE UNCHANGED outcomes
  /\ UNCHANGED <<streamVars, contexts, socket, sent, delivered, inputs, results, control>>

OutputEnqueues(o) ==
  /\ Holds(o)
  /\ \E r \in SendResults(outbound, OutboundQueue) :
       /\ outbound' = IF r = "queued" THEN Append(outbound, pump[o]) ELSE outbound
       /\ Becomes(o, IF r = "queued" THEN Waiting ELSE Stopped)
       /\ IF r = "full" THEN Signal("backpressure") ELSE UNCHANGED outcomes
  /\ UNCHANGED <<streamVars, contexts, socket, sent, delivered, inputs, results, control>>

\* Writer pump: take a frame, then write it within WriteTimeout.
WriterTakes ==
  /\ pump["writer"] = Waiting
  /\ \/ outbound # <<>> /\ Becomes("writer", Head(outbound)) /\ outbound' = Tail(outbound)
     \/ ctxDone /\ Becomes("writer", Stopped) /\ UNCHANGED outbound
  /\ UNCHANGED <<streamVars, runVars, delivered, inputs, results>>

\* The write succeeds; or it fails because the socket is gone or it timed out.
WriterWrites ==
  /\ Holds("writer")
  /\ \/ /\ socket = "open" /\ UNCHANGED <<socket, outcomes>>
        /\ delivered' = Append(delivered, pump["writer"])
        /\ ack' = IF pump["writer"] = Exit THEN "ok" ELSE ack
        /\ Becomes("writer", Waiting)
     \/ /\ SocketWriteFails
        /\ ack' = IF pump["writer"] = Exit THEN "failed" ELSE ack
        /\ Becomes("writer", Stopped)
        /\ UNCHANGED delivered
  /\ UNCHANGED <<streamVars, contexts, sent, queues, completed, control>>

\* Mutant: the waiter does not wait for the output pumps.
WaiterReportsEarly ==
  /\ pump["waiter"] = Waiting
  /\ executor = "done"
  /\ completed' = result \/ (ctxDone /\ UNCHANGED completed)
  /\ Becomes("waiter", Stopped)
  /\ UNCHANGED <<streamVars, runVars, delivered, queues, ack>>

\* Waiter: stream.Wait, then outputs.Wait, then report or be canceled.
WaiterReports ==
  /\ pump["waiter"] = Waiting
  /\ executor = "done"
  /\ \A o \in Outputs : pump[o] = Stopped
  /\ completed' = result \/ (ctxDone /\ UNCHANGED completed)
  /\ Becomes("waiter", Stopped)
  /\ UNCHANGED <<streamVars, runVars, delivered, queues, ack>>

-----------------------------------------------------------------------------
(* The main goroutine, the client and the stream's goroutines              *)

\* Run opens the stream and starts the pumps, or the session ends.
Establish ==
  /\ \/ OpenFails({"invalid_start", "runtime_unavailable"}) /\ UNCHANGED pump
     \/ OpenSucceeds /\ pump' = [p \in Pumps |-> Waiting]
  /\ UNCHANGED <<streamVars, delivered, queues, results>>

\* The command completed: fail, or queue the exit frame and wait for its ack.
SelectCompleted ==
  /\ main = "select"
  /\ completed # None /\ completed' = None
  /\ \/ completed = "error" /\ Select("runtime_failed") /\ UNCHANGED <<outbound, outcomes>>
     \/ /\ completed = "exit"
        /\ \E r \in SendResults(outbound, OutboundQueue) :
             /\ IF r = "queued"
                  THEN /\ outbound' = Append(outbound, Exit)
                       /\ main' = "ack" /\ UNCHANGED outcome
                  ELSE Select("backpressure") /\ UNCHANGED outbound
             /\ IF r = "full" THEN Signal("backpressure") ELSE UNCHANGED outcomes
  /\ UNCHANGED <<streamVars, contexts, socket, sent, delivered, inputs, ack, pump, books>>

\* Mutants: the writer's error is ignored; only the writer is waited for.
AwaitAckIgnoresError ==
  /\ main = "ack"
  /\ ack # None /\ Select("normal")
  /\ UNCHANGED <<streamVars, contexts, socket, sent, outcomes, execVars, books>>
AwaitAckOnly ==
  /\ main = "ack"
  /\ \/ ack = "ok" /\ Select("normal")
     \/ ack = "failed" /\ \E o \in WriteOutcomes : Select(o)
  /\ UNCHANGED <<streamVars, contexts, socket, sent, outcomes, execVars, books>>

\* No timer runs here: the writer answers, a pump signals or the context ends.
AwaitAck ==
  /\ main = "ack"
  /\ \/ ack = "ok" /\ Select("normal") /\ UNCHANGED outcomes
     \/ ack = "failed" /\ \E o \in WriteOutcomes : Select(o) /\ UNCHANGED outcomes
     \/ outcomes # NoOutcome /\ Select(outcomes) /\ outcomes' = NoOutcome
     \/ ctxDone /\ Select("shutdown") /\ UNCHANGED outcomes
  /\ UNCHANGED <<streamVars, contexts, socket, sent, execVars, books>>

\* The error frame does not pass through the outbound queue.
ReportFailure ==
  /\ \E reached \in BOOLEAN :
       /\ WriteTerminalError(Failures, reached)
       /\ delivered' = IF reached THEN Append(delivered, Error) ELSE delivered
  /\ UNCHANGED <<streamVars, queues, results, pump>>

CloseRuntime == GraceOver /\ Terminate /\ UNCHANGED execVars

MainStep == \/ RunStep(Failures) /\ UNCHANGED <<streamVars, execVars>>
            \/ Establish \/ SelectCompleted \/ AwaitAck \/ ReportFailure \/ CloseRuntime

ClientOrServer == Environment /\ UNCHANGED <<streamVars, execVars>>
RuntimeRuns == /\ Carried
               /\ (\E o \in Outputs : Produce(o)) \/ SizeTaken
               /\ UNCHANGED sessionVars
RuntimeEnds == Carried /\ (ExecutorReturns(ctxDone) \/ ExecutorDone) /\ UNCHANGED sessionVars

Next ==
  \/ \E frame \in ClientFrames : ReaderQueues(frame)
  \/ ReaderRejects \/ ReaderFails
  \/ InputTakes \/ InputWrites \/ InputResizes
  \/ \E o \in Outputs : OutputReads(o) \/ OutputEnqueues(o)
  \/ WriterTakes \/ WriterWrites \/ WaiterReports
  \/ MainStep
  \/ ClientOrServer \/ RuntimeRuns \/ RuntimeEnds

\* A goroutine that can run does; opening a stream ends (RuntimeRequestTimeout),
\* the session timer fires; a write ends within WriteTimeout; the executor returns
\* once its context is done.  The client owes nothing, nor does the command: it
\* need not write, read its input or exit.
Fairness ==
  /\ WF_vars(MainStep)
  /\ WF_vars(ReaderFails)
  /\ WF_vars(InputTakes) /\ WF_vars(InputWrites /\ terminated) /\ WF_vars(InputResizes)
  /\ \A o \in Outputs : WF_vars(OutputReads(o)) /\ WF_vars(OutputEnqueues(o))
  /\ WF_vars(WriterTakes) /\ WF_vars(WriterWrites) /\ WF_vars(WaiterReports)
  /\ WF_vars(RuntimeEnds /\ (ctxDone \/ terminated))

Spec == Init /\ [][Next]_vars /\ Fairness

-----------------------------------------------------------------------------
(* Properties                                                              *)

\* The place of the nth frame of s among the frames of output o.
Place(s, o, n) == Cardinality({m \in 1..n : s[m][1] = o})

\* What the client sees of an output is a prefix of what the command wrote to
\* it, the kth chunk it gets being the kth written: a chunk that finds the queue
\* full ends its pump (exec.go:165), so none after it is sent although the writer
\* goes on.
InOrder(s) ==
  \A n \in 1..Len(s) : s[n][1] \in Outputs => s[n][2] = Place(s, s[n][1], n)
OutputIsPrefix == InOrder(delivered)

\* No output, and no second exit frame, reaches the client after the exit frame:
\* the waiter holds the completion back until every output pump has stopped
\* (exec.go:188).  Only the error frame of writeFinal may follow, when the wait
\* for the ack takes a signal that is pending as well (exec.go:227).
ExitLast(s) ==
  \A m, n \in 1..Len(s) : m < n /\ s[m] = Exit => s[n] = Error
NoOutputAfterExit == ExitLast(delivered)

\* The outcome selected is what happened: `normal' only after the client was sent
\* the exit frame of a command that exited; `client_closed' only if it closed the
\* socket; `shutdown' only if the server's context was canceled, never for the
\* session's own cancel(), although every pump classifies errors by a context that
\* cancel() also ends; and `backpressure', unless the server shuts down, only if
\* a pump found one of the three bounded queues full and said so, or the exit frame
\* finds its queue full.
OutcomeIsTrue ==
  [][outcome = NoOutcome =>
       /\ outcome' = "normal" => /\ result = "exit" /\ delivered # <<>>
                                 /\ delivered[Len(delivered)] = Exit
       /\ outcome' = "client_closed" => socket = "peerClosed"
       /\ outcome' = "shutdown" => shutdown
       /\ outcome' = "backpressure" => \/ shutdown \/ outcomes = "backpressure"
                                       \/ Len(outbound) >= OutboundQueue
       /\ outcomes' = "backpressure" => \/ outcomes = "backpressure"
                                        \/ Len(inputs) >= InboundQueue
                                        \/ Len(outbound) >= OutboundQueue
                                        \/ sizes >= ResizeQueue]_vars

\* An exec session is a Connection: it returns its lease exactly once, on every
\* path, after its stream was closed and no longer counted as active, and it ends
\* whatever the client, the command and the socket do; in particular the wait for
\* the exit frame's ack, which no timer guards (exec.go:220), is never stuck.
Conn == INSTANCE Connection WITH
  connection <- AsConnection(IF ~Carried THEN "none" ELSE IF terminated THEN "closed" ELSE "open")
ImplementsConnection == Conn!Spec

\* No goroutine of a carried session is left behind, nor is the executor's.
PumpsStop ==
  <>[](Carried => executor = "done" /\ \A p \in Pumps : pump[p] = Stopped)

-----------------------------------------------------------------------------
(* What docs/websocket-protocol.md says of the outcomes                    *)

\* "runtime_failed: An opened runtime stream fails", and an exec that exits is
\* `normal': a command that exited is never reported as failed.
RuntimeFailedMeansStreamFailed == outcome = "runtime_failed" => result # "exit"
=============================================================================
