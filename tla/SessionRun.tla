----------------------------- MODULE SessionRun -----------------------------
(***************************************************************************)
(* What exec and console sessions share: the life of one request on the    *)
(* main goroutine, from ServeHTTP of internal/transport/websocket/         *)
(* handler.go through Run of connectedsession/module.go to complete, its   *)
(* socket, and the channel of terminal signals.  The store is external:    *)
(* Manager.Close may fail, which is only logged.                           *)
(*                                                                         *)
(* Time is not modelled: the idle and the session timer may fire whenever  *)
(* the main goroutine selects, so the activity channel, whose one effect   *)
(* is to restart the idle timer, is not represented.                       *)
(***************************************************************************)
EXTENDS Naturals, Sequences

CONSTANT MaxMessages  \* bound: messages the client sends

ASSUME SessionRunAssumption == MaxMessages \in Nat

VARIABLES
  shutdown,     \* the server's context is canceled
  canceled,     \* the session called cancel()
  socket,       \* "none", "open", "peerClosed" (client sent 1000/1001), "broken", "closed"
  sent,         \* messages the client has sent
  outcomes,     \* the pending terminal signal, or NoOutcome
  main,         \* the step of the main goroutine
  outcome,      \* the selected outcome, or NoOutcome
  release,      \* ServeHTTP's flag: its deferred function closes the session
  closes,       \* calls of manager.Close
  active        \* what this session adds to the gauge of connected sessions

contexts == <<shutdown, canceled>>
books    == <<release, closes, active>>
control  == <<main, outcome, books>>
runVars  == <<contexts, socket, sent, outcomes, control>>

OpenFailures == {"invalid_start", "runtime_unavailable", "target_changed"}
Outcomes == OpenFailures \cup
  {"normal", "client_closed", "idle_timeout", "max_duration", "message_too_big",
   "backpressure", "invalid_terminal_frame", "invalid_vnc_frame", "runtime_failed",
   "transport_failed", "shutdown"}

\* The outcomes a terminal's client is told in an error frame, besides the close.
Failures == Outcomes \ {"normal", "client_closed", "idle_timeout", "max_duration",
                        "message_too_big", "shutdown", "target_changed"}

NoOutcome == "none"

ctxDone == shutdown \/ canceled

RunTypeOK ==
  /\ shutdown \in BOOLEAN /\ canceled \in BOOLEAN
  /\ socket \in {"none", "open", "peerClosed", "broken", "closed"}
  /\ sent \in 0..MaxMessages
  /\ outcomes \in Outcomes \cup {NoOutcome}
  /\ main \in {"admit", "upgrade", "establish", "refuse", "dismiss", "select", "ack", "final",
               "close", "cancel", "grace", "complete", "deferred", "done"}
  /\ outcome \in Outcomes \cup {NoOutcome}
  /\ release \in BOOLEAN /\ closes \in Nat /\ active \in 0..1

RunInit ==
  /\ shutdown = FALSE /\ canceled = FALSE
  /\ socket = "none" /\ sent = 0
  /\ outcomes = NoOutcome
  /\ main = "admit" /\ outcome = NoOutcome
  /\ release = FALSE /\ closes = 0 /\ active = 0

-----------------------------------------------------------------------------
(* Signals                                                                 *)

\* signalOutcome: the first signal stays, later ones are dropped.
Signal(o) == outcomes' = IF outcomes = NoOutcome THEN o ELSE outcomes

\* classifyTransportRead.  A write that finds the socket closed by the client
\* may fail with an error that does not carry the client's status.
ReadOutcome ==
  IF ctxDone THEN "shutdown"
  ELSE IF socket = "peerClosed" THEN "client_closed" ELSE "transport_failed"
WriteOutcomes == IF ctxDone THEN {"shutdown"} ELSE {ReadOutcome, "transport_failed"}

\* A message is over the read limit, which also closes the socket.
TooBig == /\ socket' = "broken"
          /\ Signal(IF ctxDone THEN "shutdown" ELSE "message_too_big")

\* A read fails because the socket or the context is done; the latter breaks
\* the connection.
SocketReadFails ==
  /\ socket # "open" \/ ctxDone
  /\ socket' = IF socket = "open" THEN "broken" ELSE socket
  /\ Signal(ReadOutcome)

\* A write fails because the socket is gone or WriteTimeout is over.
SocketWriteFails ==
  /\ socket' = IF socket = "open" THEN "broken" ELSE socket
  /\ \E o \in WriteOutcomes : Signal(o)

-----------------------------------------------------------------------------
(* ServeHTTP                                                               *)

\* A request without a known subprotocol or a ticket, or whose ticket the store
\* refuses, is answered and that is all; otherwise this handler has a lease.
Admit ==
  /\ main = "admit"
  /\ \/ main' = "done" /\ UNCHANGED release
     \/ main' = "upgrade" /\ release' = TRUE
  /\ UNCHANGED <<contexts, socket, sent, outcomes, outcome, closes, active>>

\* Mutant: the hand-over does not clear the flag.
UpgradeKeepsRelease ==
  /\ main = "upgrade" /\ main' = "establish" /\ socket' = "open"
  /\ UNCHANGED <<contexts, sent, outcomes, outcome, books>>

\* The session's subprotocol is not offered or the upgrade fails; otherwise the
\* lease is handed to Run.
Upgrade ==
  /\ main = "upgrade"
  /\ \/ main' = "deferred" /\ UNCHANGED <<socket, release>>
     \/ main' = "establish" /\ socket' = "open" /\ release' = FALSE
  /\ UNCHANGED <<contexts, sent, outcomes, outcome, closes, active>>

\* The deferred function of ServeHTTP, on every return after the claim.
Deferred ==
  /\ main = "deferred" /\ main' = "done"
  /\ closes' = IF release THEN closes + 1 ELSE closes
  /\ UNCHANGED <<contexts, socket, sent, outcomes, outcome, release, active>>

-----------------------------------------------------------------------------
(* Run                                                                     *)

\* An invalid start, or a stream that does not open, ends the session, with
\* cancel() in the second case.
OpenFails(failures) ==
  /\ main = "establish" /\ main' = "refuse"
  /\ outcome' \in failures
  /\ canceled' = (outcome' # "invalid_start")
  /\ UNCHANGED <<shutdown, socket, sent, outcomes, books>>

\* The observer's Connected and Finish: the gauge of connected sessions.
Connected == active' = active + 1
Finish    == active' = IF active > 0 THEN active - 1 ELSE active

\* The stream is open, which a context that is done precludes: the session counts
\* as connected and is carried.
OpenSucceeds ==
  /\ main = "establish" /\ main' = "select"
  /\ ~ctxDone
  /\ Connected
  /\ UNCHANGED <<contexts, socket, sent, outcomes, outcome, release, closes>>

Select(o) == outcome' = o /\ main' = "final"

\* The select loop, apart from the completion of an exec command.
SelectSignal ==
  /\ main = "select"
  /\ \/ outcomes # NoOutcome /\ Select(outcomes) /\ outcomes' = NoOutcome
     \/ Select("idle_timeout") /\ UNCHANGED outcomes
     \/ Select("max_duration") /\ UNCHANGED outcomes
     \/ ctxDone /\ Select("shutdown") /\ UNCHANGED outcomes
  /\ UNCHANGED <<contexts, socket, sent, books>>

\* writeFinal first tells the client of the outcomes in `told', Failures for a
\* terminal and none for VNC; that this write fails, within WriteTimeout, is ignored.
\* The pumps still run meanwhile.  complete calls writeFinal for a session that
\* never carried a stream.
WriteTerminalError(told, reached) ==
  /\ main \in {"final", "refuse"} /\ outcome \in told
  /\ main' = IF main = "final" THEN "close" ELSE "dismiss"
  /\ reached => socket = "open"
  /\ socket' = IF socket = "open" /\ ~reached THEN "broken" ELSE socket
  /\ UNCHANGED <<contexts, sent, outcomes, outcome, books>>

\* writeFinal then closes the socket, unless the client did.
WriteFinal(told) ==
  /\ \/ main \in {"final", "refuse"} /\ outcome \notin told
     \/ main \in {"close", "dismiss"}
  /\ main' = IF main \in {"final", "close"} THEN "cancel" ELSE "complete"
  /\ socket' = IF outcome = "client_closed" THEN socket ELSE "closed"
  /\ UNCHANGED <<contexts, sent, outcomes, outcome, books>>

\* Mutant: cancel is not called.
CancelForgotten ==
  /\ main = "cancel" /\ main' = "grace"
  /\ UNCHANGED <<contexts, socket, sent, outcomes, outcome, books>>

Cancel ==
  /\ main = "cancel" /\ main' = "grace"
  /\ canceled' = TRUE
  /\ UNCHANGED <<shutdown, socket, sent, outcomes, outcome, books>>

\* The pumps have stopped or the grace is over; the caller closes the stream.
GraceOver ==
  /\ main = "grace" /\ main' = "complete"
  /\ UNCHANGED <<contexts, socket, sent, outcomes, outcome, books>>

\* complete returns the lease, then a session that was counted is uncounted.
Complete ==
  /\ main = "complete" /\ main' = "deferred"
  /\ closes' = closes + 1
  /\ Finish
  /\ UNCHANGED <<contexts, socket, sent, outcomes, outcome, release>>

\* The steps of the main goroutine that touch neither pumps, frames nor stream.
RunStep(told) ==
  \/ Admit \/ Upgrade \/ Deferred \/ SelectSignal
  \/ WriteFinal(told) \/ Cancel \/ Complete

\* The client leaves, or the server's context is canceled, before the outcome
\* is selected.
Environment ==
  /\ main \in {"upgrade", "establish", "select", "ack"}
  /\ \/ socket = "open" /\ socket' \in {"peerClosed", "broken"} /\ UNCHANGED shutdown
     \/ ~shutdown /\ shutdown' = TRUE /\ UNCHANGED socket
  /\ UNCHANGED <<canceled, sent, outcomes, control>>

-----------------------------------------------------------------------------
(* The connection this session is                                          *)

Stage ==
  CASE main = "admit"                            -> "arrived"
    [] main = "upgrade"                          -> "admitted"
    [] main = "deferred"                         -> IF release THEN "admitted" ELSE "over"
    [] main = "done"                             -> "over"
    [] OTHER                                     -> "running"

AsConnection(stream) ==
  [stage |-> Stage, stream |-> stream, closes |-> closes, active |-> active]
=============================================================================
