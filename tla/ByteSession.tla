----------------------------- MODULE ByteSession -----------------------------
(***************************************************************************)
(* One serial or VNC session from the upgrade request to the return of its *)
(* lease: carryByteStream of connectedsession/module.go on the main        *)
(* goroutine of SessionRun.  A reader pump carries the client's messages   *)
(* to the stream and a writer pump the stream's chunks to the client.      *)
(***************************************************************************)
EXTENDS ManagedStream, SessionRun

VARIABLES
  mode,         \* "serial" or "vnc"
  delivered,    \* chunks written to the socket
  pump          \* per pump: "off", "waiting", "busy" (holds a payload), "stopped"

byteVars == <<mode, delivered, pump>>
sessionVars == <<runVars, byteVars>>
vars == <<streamVars, sessionVars>>

InvalidFrame == IF mode = "vnc" THEN "invalid_vnc_frame" ELSE "invalid_terminal_frame"
Pumps == {"reader", "writer"}

TypeOK ==
  /\ StreamTypeOK /\ RunTypeOK
  /\ mode \in {"serial", "vnc"}
  /\ delivered \in 0..MaxOutput
  /\ pump \in [Pumps -> {"off", "waiting", "busy", "stopped"}]

Init ==
  /\ StreamInit /\ RunInit
  /\ mode \in {"serial", "vnc"}
  /\ delivered = 0
  /\ pump = [p \in Pumps |-> "off"]

\* The stream is open: before that, and when opening fails, it does not exist.
Carried == pump["reader"] # "off"

-----------------------------------------------------------------------------
(* Pumps                                                                   *)

Becomes(p, state) == pump' = [pump EXCEPT ![p] = state]

\* Reader: a message arrives.  It decodes, or ends the pump because it does not
\* or is over the read limit.
ReaderReads ==
  /\ pump["reader"] = "waiting"
  /\ socket = "open" /\ sent < MaxMessages
  /\ sent' = sent + 1
  /\ \/ Becomes("reader", "busy") /\ UNCHANGED <<socket, outcomes>>
     \/ Becomes("reader", "stopped") /\ Signal(InvalidFrame) /\ UNCHANGED socket
     \/ Becomes("reader", "stopped") /\ TooBig
  /\ UNCHANGED <<streamVars, mode, contexts, delivered, control>>

ReaderFails ==
  /\ pump["reader"] = "waiting"
  /\ SocketReadFails
  /\ Becomes("reader", "stopped")
  /\ UNCHANGED <<streamVars, mode, contexts, sent, delivered, control>>

\* Reader: the payload is written to the stream.
ReaderForwards ==
  /\ pump["reader"] = "busy"
  /\ \/ WriteTaken /\ Becomes("reader", "waiting") /\ UNCHANGED outcomes
     \/ WriteFails /\ Becomes("reader", "stopped") /\ Signal("runtime_failed")
  /\ UNCHANGED <<streamVars, mode, contexts, socket, sent, delivered, control>>

\* Writer: a chunk is read from the stream.
WriterReads ==
  /\ pump["writer"] = "waiting"
  /\ ReadChunk
  /\ Becomes("writer", "busy")
  /\ UNCHANGED <<runVars, mode, delivered>>

\* Writer: the stream ended.  Its own closing reads as a normal end.
WriterEnds ==
  /\ pump["writer"] = "waiting"
  /\ ReadError # None
  /\ Becomes("writer", "stopped")
  /\ \/ ReadError \in {"eof", "closed_pipe"} /\ Signal("normal")
     \/ ReadError = "error" /\ ~ctxDone /\ Signal("runtime_failed")
     \/ ReadError = "error" /\ ctxDone /\ UNCHANGED outcomes
  /\ UNCHANGED <<streamVars, mode, contexts, socket, sent, delivered, control>>

\* Writer: the chunk is written to the client, or the write fails.
WriterForwards ==
  /\ pump["writer"] = "busy"
  /\ \/ /\ socket = "open" /\ delivered' = delivered + 1
        /\ Becomes("writer", "waiting") /\ UNCHANGED <<socket, outcomes>>
     \/ SocketWriteFails /\ Becomes("writer", "stopped") /\ UNCHANGED delivered
  /\ UNCHANGED <<streamVars, mode, contexts, sent, control>>

-----------------------------------------------------------------------------
(* The main goroutine, the client and the stream's goroutines              *)

\* Run opens the stream and starts the pumps, or the session ends.
Establish ==
  /\ \/ OpenFails(OpenFailures) /\ UNCHANGED pump
     \/ OpenSucceeds /\ pump' = [p \in Pumps |-> "waiting"]
  /\ UNCHANGED <<streamVars, mode, delivered>>

CloseRuntime == GraceOver /\ Close /\ UNCHANGED byteVars

\* The client of a serial console is told of a failure.
Told == IF mode = "serial" THEN Failures ELSE {}
ReportFailure ==
  /\ \E reached \in BOOLEAN : WriteTerminalError(Told, reached)
  /\ UNCHANGED <<streamVars, byteVars>>

MainStep == \/ RunStep(Told) /\ UNCHANGED <<streamVars, byteVars>>
            \/ Establish \/ ReportFailure \/ CloseRuntime

ClientOrServer  == Environment /\ UNCHANGED <<streamVars, byteVars>>
ConsoleWrites   == Carried /\ Produce /\ UNCHANGED sessionVars
ConsoleEnds     == Carried /\ ProviderReturns /\ UNCHANGED sessionVars
StreamWatcher   == Carried /\ WatcherStops(ctxDone) /\ UNCHANGED sessionVars

Next ==
  \/ ReaderReads \/ ReaderFails \/ ReaderForwards
  \/ WriterReads \/ WriterEnds \/ WriterForwards
  \/ MainStep
  \/ ClientOrServer \/ ConsoleWrites \/ ConsoleEnds \/ StreamWatcher

\* A goroutine that can run does; opening a stream ends (RuntimeRequestTimeout),
\* the session timer fires, a write ends within WriteTimeout, and the provider
\* returns once its connection is closed.  The client and the console owe nothing.
Fairness ==
  /\ WF_vars(MainStep)
  /\ WF_vars(ReaderFails) /\ WF_vars(ReaderForwards /\ WriteFails)
  /\ WF_vars(WriterReads) /\ WF_vars(WriterEnds) /\ WF_vars(WriterForwards)
  /\ WF_vars(StreamWatcher) /\ WF_vars(ConsoleEnds /\ closed)

Spec == Init /\ [][Next]_vars /\ Fairness

-----------------------------------------------------------------------------
(* Properties                                                              *)

\* The outcome reported is what happened.  Unless the server shuts down, a
\* session ends `normal' or `runtime_failed' only because the console itself
\* ended, and `normal' only if it did so without an error: the closing of the
\* stream by its watcher, which the writer pump cannot tell from an end, is never
\* taken for one.  `client_closed' means that the client closed the socket, and
\* then the client's close is preserved: writeFinal sends none; `shutdown' means the
\* server's context, never the session's own cancel().
OutcomeIsTrue ==
  /\ outcome = "normal" => shutdown \/ provider = "eof"
  /\ outcome = "runtime_failed" => shutdown \/ provider # "running"
  /\ outcome = "client_closed" => socket = "peerClosed"
  /\ outcome = "shutdown" => shutdown

\* A console session is a Connection: it returns its lease exactly once, on every
\* path, after its stream was closed and no longer counted as active, and it ends
\* whatever the client, the console and the server's context do.
Conn == INSTANCE Connection WITH
  connection <- AsConnection(IF ~Carried THEN "none" ELSE IF closed THEN "closed" ELSE "open")
ImplementsConnection == Conn!Spec

\* No goroutine is left behind: the pumps, the stream's watcher and the provider
\* of an opened stream all stop.
PumpsStop ==
  <>[](Carried => /\ \A p \in Pumps : pump[p] = "stopped"
                  /\ watcher = "stopped" /\ provider # "running")

-----------------------------------------------------------------------------
(* What docs/websocket-protocol.md says of the outcomes                    *)

\* "normal: Runtime EOF", and "shutdown: Server context is canceled": a session
\* whose console still runs is not reported as a normal end.
NormalMeansConsoleEnded == outcome = "normal" => provider = "eof"
=============================================================================
