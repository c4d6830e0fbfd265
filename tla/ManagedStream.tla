---------------------------- MODULE ManagedStream ----------------------------
(***************************************************************************)
(* internal/runtime/kubevirt/adapter.go: managedStream, the byte stream of *)
(* a serial or VNC console.  One goroutine runs the provider's Stream      *)
(* between two synchronous pipes, another closes the stream when its       *)
(* context is done.  The provider is external: it returns when the console *)
(* ends or fails, or because its connection was closed.                    *)
(***************************************************************************)
EXTENDS Naturals

CONSTANTS
  MaxOutput,    \* bound: chunks the console writes
  None

ASSUME ManagedStreamAssumption == MaxOutput \in Nat

VARIABLES
  provider,     \* "running", or what Stream returned: "eof", "error"
  closed,       \* Close ran: its pipe ends and the connection are closed
  watcher,      \* the goroutine that waits for the context: "waiting", "stopped"
  out,          \* stdout pipe: "empty" or "chunk" (a Write waits)
  written       \* chunks the console wrote so far

streamVars == <<provider, closed, watcher, out, written>>

StreamTypeOK ==
  /\ provider \in {"running", "eof", "error"}
  /\ closed \in BOOLEAN
  /\ watcher \in {"waiting", "stopped"}
  /\ out \in {"empty", "chunk"}
  /\ written \in 0..MaxOutput

StreamInit ==
  /\ provider = "running"
  /\ closed = FALSE
  /\ watcher = "waiting"
  /\ out = "empty"
  /\ written = 0

\* The console writes and waits for the reader.
Produce ==
  /\ provider = "running" /\ ~closed
  /\ out = "empty"
  /\ written < MaxOutput
  /\ out' = "chunk"
  /\ written' = written + 1
  /\ UNCHANGED <<provider, closed, watcher>>

\* Stream returns; its ends of both pipes are closed, with its error if any,
\* and a Write that waits is dropped.
ProviderReturns ==
  /\ provider = "running"
  /\ provider' \in {"eof", "error"}
  /\ out' = "empty"
  /\ UNCHANGED <<closed, watcher, written>>

\* Mutant: nothing is closed.
CloseOnceForgotten == UNCHANGED <<closed, out>>

\* The body of Close, by the session or by the watcher; it runs once.
CloseOnce == closed' = TRUE /\ out' = "empty"

Close ==
  /\ CloseOnce
  /\ UNCHANGED <<provider, watcher, written>>

\* The watcher closes the stream when the context is done, and stops when the
\* provider is.
WatcherStops(ctxDone) ==
  /\ watcher = "waiting"
  /\ watcher' = "stopped"
  /\ \/ ctxDone /\ CloseOnce
     \/ provider # "running" /\ UNCHANGED <<closed, out>>
  /\ UNCHANGED <<provider, written>>

\* Mutant: the chunk stays in the pipe.
ReadChunkTwice == out = "chunk" /\ UNCHANGED streamVars

\* Read: a chunk, or once an end of the pipe is closed an error.  The reader's
\* own Close wins over what the provider returned.
ReadChunk ==
  /\ out = "chunk"
  /\ out' = "empty"
  /\ UNCHANGED <<provider, closed, watcher, written>>

\* Mutant: the provider's error is not passed on (Close, not CloseWithError).
ReadErrorSwallowed ==
  IF closed THEN "closed_pipe" ELSE IF provider # "running" THEN "eof" ELSE None

ReadError ==
  IF closed THEN "closed_pipe" ELSE IF provider # "running" THEN provider ELSE None

\* Write is taken by the console, or fails once an end of stdin is closed.
WriteTaken == provider = "running" /\ ~closed
WriteFails == provider # "running" \/ closed
=============================================================================
