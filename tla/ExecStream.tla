----------------------------- MODULE ExecStream -----------------------------
(***************************************************************************)
(* internal/runtime/kubernetes/exec.go: the stream that OpenExec returns,  *)
(* an executor goroutine joined to the session by synchronous pipes, and a *)
(* bounded queue of terminal sizes.  The remote command and client-go's    *)
(* executor are external: the command writes output, exits or fails when   *)
(* it likes, and the executor returns an error once its context is done.   *)
(*                                                                         *)
(* The operations are operators for the session module that owns the       *)
(* pumps; ctxDone is the context OpenExec was called with.                 *)
(***************************************************************************)
EXTENDS Naturals, Sequences, FiniteSets

CONSTANTS
  TTY,          \* a terminal merges stderr into stdout and has a size
  ResizeQueue,  \* capacity of the size queue (8 in the code)
  MaxOutput,    \* bound: chunks the command writes
  None

ASSUME ExecStreamAssumption ==
  /\ TTY \in BOOLEAN /\ ResizeQueue \in Nat \ {0} /\ MaxOutput \in Nat
  /\ None \notin {"exit", "error"}

VARIABLES
  executor,     \* "running", "returned" (terminated, pipes open), "done"
  result,       \* what StreamWithContext returned: "exit", "error" or None
  terminated,   \* terminateOnce ran: stream context canceled, stdin closed
  pipe,         \* per output: "empty", "chunk" (a Write waits), "closed"
  written,      \* per output: chunks the command wrote so far
  sizes         \* terminal sizes queued

streamVars == <<executor, result, terminated, pipe, written, sizes>>

Outputs == IF TTY THEN {"stdout"} ELSE {"stdout", "stderr"}

StreamTypeOK ==
  /\ executor \in {"running", "returned", "done"}
  /\ result \in {None, "exit", "error"}
  /\ terminated \in BOOLEAN
  /\ pipe \in [Outputs -> {"empty", "chunk", "closed"}]
  /\ written \in [Outputs -> 0..MaxOutput]
  /\ sizes \in 0..ResizeQueue

\* newExecStream: the initial size is queued before the executor starts.  The code
\* queues one that is positive only (exec.go:107), which a valid exec request has
\* (mapRequest, validateRequest).
StreamInit ==
  /\ executor = "running"
  /\ result = None
  /\ terminated = FALSE
  /\ pipe = [o \in Outputs |-> "empty"]
  /\ written = [o \in Outputs |-> 0]
  /\ sizes = 1

Chunks == {c \in Outputs \X (1..MaxOutput) : c[2] <= written[c[1]]}

\* The command writes to one of its outputs and waits for the reader.
Produce(o) ==
  /\ executor = "running"
  /\ pipe[o] = "empty"
  /\ Cardinality(Chunks) < MaxOutput
  /\ pipe' = [pipe EXCEPT ![o] = "chunk"]
  /\ written' = [written EXCEPT ![o] = @ + 1]
  /\ UNCHANGED <<executor, result, terminated, sizes>>

\* StreamWithContext returns: by itself once all output has been read, with an
\* exit status (zero or an ExitError) or an error; or because its context is
\* done.  The goroutine records the result and terminates the stream.
ExecutorReturns(ctxDone) ==
  /\ executor = "running"
  /\ \/ /\ \A o \in Outputs : pipe[o] = "empty"
        /\ result' \in {"exit", "error"}
     \/ /\ ctxDone \/ terminated
        /\ result' = "error"
  /\ executor' = "returned"
  /\ terminated' = TRUE
  /\ UNCHANGED <<pipe, written, sizes>>

\* It then closes both output pipes, and `done'.
ExecutorDone ==
  /\ executor = "returned"
  /\ executor' = "done"
  /\ pipe' = [o \in Outputs |-> "closed"]
  /\ UNCHANGED <<result, terminated, written, sizes>>

\* The executor takes a terminal size; without a TTY nobody does.
SizeTaken ==
  /\ TTY
  /\ executor = "running"
  /\ sizes > 0
  /\ sizes' = sizes - 1
  /\ UNCHANGED <<executor, result, terminated, pipe, written>>

\* Read of an output: a chunk, or end of file once the pipe is closed.
ReadChunk(o) ==
  /\ pipe[o] = "chunk"
  /\ pipe' = [pipe EXCEPT ![o] = "empty"]
  /\ UNCHANGED <<executor, result, terminated, written, sizes>>

\* WriteStdin is taken by the command, or fails once stdin is closed.
StdinTaken == executor = "running" /\ ~terminated
StdinFails == terminated

\* Resize selects among the ready cases: the context, room in the queue, or
\* the default.
ResizeResults(ctxDone) ==
  (IF ctxDone \/ terminated THEN {"error"} ELSE {})
    \cup (IF sizes < ResizeQueue THEN {"ok"} ELSE {})
    \cup (IF ~(ctxDone \/ terminated) /\ sizes >= ResizeQueue
          THEN {"backpressure"} ELSE {})

\* Close: terminate runs once.
Terminate ==
  /\ terminated' = TRUE
  /\ UNCHANGED <<executor, result, pipe, written, sizes>>
=============================================================================
