-------------------------- MODULE ByteSessionProofs --------------------------
(***************************************************************************)
(* Proofs about ByteSession, for any number of messages and chunks.        *)
(***************************************************************************)
EXTENDS ByteSession, SessionRunProofs

\* OutcomeIsTrue of one outcome, selected or only signalled.
IsTrue(o) ==
  /\ o = "normal" => shutdown \/ provider = "eof"
  /\ o = "runtime_failed" => shutdown \/ provider # "running"
  /\ o = "client_closed" => socket = "peerClosed"
  /\ o = "shutdown" => shutdown

\* No chunk is delivered twice: what was delivered, what the writer pump holds
\* and what waits in the pipe was written.
ChunksAccounted ==
  /\ delivered \in Nat
  /\ delivered + (IF pump["writer"] = "busy" THEN 1 ELSE 0)
               + (IF out = "chunk" THEN 1 ELSE 0) <= written

ByteInv ==
  /\ StreamTypeOK
  /\ mode \in {"serial", "vnc"}
  /\ pump \in [Pumps -> {"off", "waiting", "busy", "stopped"}]
  /\ pump["reader"] = "off" <=> pump["writer"] = "off"
  /\ RunInv(Carried, closed)
  /\ ChunksAccounted

\* A signal the select loop can still take is true: until then the stream is closed
\* only by its watcher, because the server shuts down, and the session itself has
\* not called cancel().  Signals that come later are never taken.
OutcomeInv ==
  /\ IsTrue(outcome)
  /\ main = "select" => IsTrue(outcomes) /\ (closed => shutdown)

-----------------------------------------------------------------------------
(* Types and the control of the main goroutine                             *)

\* The facts every step starts from: whether the stream is open, and closed,
\* as values that the step does not change by itself.
LEMMA Control ==
  ASSUME ByteInv
  PROVE  \E carried, stopped \in BOOLEAN :
           /\ carried = Carried /\ stopped = closed /\ RunInv(carried, stopped)
<1>1. Carried \in BOOLEAN /\ closed \in BOOLEAN
  BY DEF Carried, ByteInv, StreamTypeOK
<1>2. RunInv(Carried, closed)
  BY DEF ByteInv
<1> QED BY <1>1, <1>2

\* ByteInv holds when the request arrives, and every step keeps it.
LEMMA ByteInit == Init => ByteInv
<1> SUFFICES ASSUME Init PROVE ByteInv
  OBVIOUS
<1>1. pump["reader"] = "off" /\ pump["writer"] = "off" /\ ~Carried
  BY DEF Init, Pumps, Carried
<1>2. closed = FALSE /\ delivered = 0 /\ written = 0 /\ out = "empty"
  BY DEF Init, StreamInit
<1>3. RunInv(Carried, closed)
  <2>1. PICK carried \in BOOLEAN : carried = Carried
    BY DEF Carried
  <2>2. PICK stopped \in BOOLEAN : stopped = closed
    BY <1>2
  <2>3. RunInv(carried, stopped)
    BY <1>1, <1>2, <2>1, <2>2, RunInitInv DEF Init
  <2> QED BY <2>1, <2>2, <2>3
<1>4. StreamTypeOK
  <2>1. closed \in BOOLEAN BY <1>2
  <2>2. written \in 0..MaxOutput BY <1>2, ManagedStreamAssumption
  <2> QED BY <2>1, <2>2 DEF Init, StreamInit, StreamTypeOK
<1>5. ChunksAccounted
  BY <1>1, <1>2 DEF ChunksAccounted
<1> QED BY <1>1, <1>3, <1>4, <1>5 DEF ByteInv, Init

\* A step of a pump, of the main goroutine or of the stream keeps it.
LEMMA ByteStep == ByteInv /\ [Next]_vars => ByteInv'
<1> SUFFICES ASSUME ByteInv, [Next]_vars PROVE ByteInv'
  OBVIOUS
<1>0. PICK carried \in BOOLEAN, stopped \in BOOLEAN :
        carried = Carried /\ stopped = closed /\ RunInv(carried, stopped)
  BY Control
<1>t. /\ StreamTypeOK /\ mode \in {"serial", "vnc"} /\ ChunksAccounted /\ RunTypeOK
      /\ pump \in [Pumps -> {"off", "waiting", "busy", "stopped"}]
      /\ pump["reader"] = "off" <=> pump["writer"] = "off"
  BY DEF ByteInv, RunInv
<1>p. ASSUME carried, UNCHANGED <<contexts, control>>, UNCHANGED closed, Carried', RunTypeOK'
      PROVE  RunInv(Carried, closed)'
  <2>1. RunInv(TRUE, stopped)
    BY <1>0, <1>p
  <2>2. RunInv(TRUE, stopped)'
    BY <2>1, <1>p, PumpKeeps
  <2> QED BY <2>2, <1>p, <1>0
<1> USE DEF StreamTypeOK, ChunksAccounted, Pumps, Becomes, Carried
<1>1. CASE ReaderReads
  <2>1. carried /\ Carried' /\ UNCHANGED <<contexts, control, closed, mode, delivered>>
    BY <1>1, <1>0, <1>t DEF ReaderReads, streamVars
  <2>2. RunTypeOK'
    <3>1. sent' \in 0..MaxMessages
      BY <1>1, <1>t, SessionRunAssumption DEF ReaderReads, RunTypeOK
    <3>2. /\ socket' \in {"none", "open", "peerClosed", "broken", "closed"}
          /\ outcomes' \in Outcomes \cup {NoOutcome}
      BY <1>1, <1>t
      DEF ReaderReads, RunTypeOK, Signal, TooBig, InvalidFrame, Outcomes
    <3> QED BY <2>1, <3>1, <3>2, <1>t, PumpTypes
  <2>3. RunInv(Carried, closed)'
    BY <2>1, <2>2, <1>p
  <2> QED BY <2>1, <2>3, <1>1, <1>t DEF ReaderReads, ByteInv, streamVars
<1>2. CASE ReaderFails
  <2>1. carried /\ Carried' /\ UNCHANGED <<contexts, control, closed, mode, delivered>>
    BY <1>2, <1>0, <1>t DEF ReaderFails, streamVars
  <2>2. RunTypeOK'
    <3>1. /\ sent' \in 0..MaxMessages
          /\ socket' \in {"none", "open", "peerClosed", "broken", "closed"}
          /\ outcomes' \in Outcomes \cup {NoOutcome}
      BY <1>2, <1>t
      DEF ReaderFails, RunTypeOK, Signal, SocketReadFails, ReadOutcome, Outcomes
    <3> QED BY <2>1, <3>1, <1>t, PumpTypes
  <2>3. RunInv(Carried, closed)'
    BY <2>1, <2>2, <1>p
  <2> QED BY <2>1, <2>3, <1>2, <1>t DEF ReaderFails, ByteInv, streamVars
<1>3. CASE ReaderForwards
  <2>1. carried /\ Carried' /\ UNCHANGED <<contexts, control, closed, mode, delivered>>
    BY <1>3, <1>0, <1>t DEF ReaderForwards, streamVars
  <2>2. RunTypeOK'
    <3>1. /\ sent' \in 0..MaxMessages
          /\ socket' \in {"none", "open", "peerClosed", "broken", "closed"}
          /\ outcomes' \in Outcomes \cup {NoOutcome}
      BY <1>3, <1>t DEF ReaderForwards, RunTypeOK, Signal, Outcomes
    <3> QED BY <2>1, <3>1, <1>t, PumpTypes
  <2>3. RunInv(Carried, closed)'
    BY <2>1, <2>2, <1>p
  <2> QED BY <2>1, <2>3, <1>3, <1>t DEF ReaderForwards, ByteInv, streamVars
<1>4. CASE WriterReads
  <2>1. carried /\ Carried' /\ UNCHANGED <<contexts, control, closed, mode, delivered>>
    BY <1>4, <1>0, <1>t DEF WriterReads, ReadChunk, runVars
  <2>2. RunTypeOK'
    <3>1. /\ sent' \in 0..MaxMessages
          /\ socket' \in {"none", "open", "peerClosed", "broken", "closed"}
          /\ outcomes' \in Outcomes \cup {NoOutcome}
      BY <1>4, <1>t DEF WriterReads, RunTypeOK, runVars
    <3> QED BY <2>1, <3>1, <1>t, PumpTypes
  <2>3. RunInv(Carried, closed)'
    BY <2>1, <2>2, <1>p
  <2> QED BY <2>1, <2>3, <1>4, <1>t DEF WriterReads, ReadChunk, ByteInv
<1>5. CASE WriterEnds
  <2>1. carried /\ Carried' /\ UNCHANGED <<contexts, control, closed, mode, delivered>>
    BY <1>5, <1>0, <1>t DEF WriterEnds, streamVars
  <2>2. RunTypeOK'
    <3>1. /\ sent' \in 0..MaxMessages
          /\ socket' \in {"none", "open", "peerClosed", "broken", "closed"}
          /\ outcomes' \in Outcomes \cup {NoOutcome}
      BY <1>5, <1>t DEF WriterEnds, RunTypeOK, Signal, Outcomes
    <3> QED BY <2>1, <3>1, <1>t, PumpTypes
  <2>3. RunInv(Carried, closed)'
    BY <2>1, <2>2, <1>p
  <2> QED BY <2>1, <2>3, <1>5, <1>t DEF WriterEnds, ByteInv, streamVars
<1>6. CASE WriterForwards
  <2>1. carried /\ Carried' /\ UNCHANGED <<contexts, control, closed, mode>>
    BY <1>6, <1>0, <1>t DEF WriterForwards, streamVars
  <2>2. RunTypeOK'
    <3>1. /\ sent' \in 0..MaxMessages
          /\ socket' \in {"none", "open", "peerClosed", "broken", "closed"}
          /\ outcomes' \in Outcomes \cup {NoOutcome}
      BY <1>6, <1>t
      DEF WriterForwards, RunTypeOK, Signal, SocketWriteFails, WriteOutcomes,
          ReadOutcome, Outcomes
    <3> QED BY <2>1, <3>1, <1>t, PumpTypes
  <2>3. RunInv(Carried, closed)'
    BY <2>1, <2>2, <1>p
  <2> QED BY <2>1, <2>3, <1>6, <1>t, ManagedStreamAssumption
          DEF WriterForwards, ByteInv, streamVars
<1>7. CASE RunStep(Told) /\ UNCHANGED <<streamVars, byteVars>>
  <2>1. RunInv(carried, stopped)'
    BY <1>0, <1>7, RunStepKeeps
  <2>2. RunInv(Carried, closed)'
    BY <2>1, <1>0, <1>7 DEF streamVars, byteVars
  <2> QED BY <2>2, <1>7, <1>t DEF ByteInv, streamVars, byteVars
<1>r. CASE ReportFailure
  <2>1. RunInv(carried, stopped)'
    BY <1>0, <1>r, TerminalErrorKeeps DEF ReportFailure
  <2>2. RunInv(Carried, closed)'
    BY <2>1, <1>0, <1>r DEF ReportFailure, streamVars, byteVars
  <2> QED BY <2>2, <1>r, <1>t DEF ReportFailure, ByteInv, streamVars, byteVars
<1>8. CASE Establish
  <2>1. CASE OpenFails(OpenFailures) /\ UNCHANGED pump
    <3>1. RunInv(carried, stopped)'
      BY <1>0, <2>1, OpenFailsKeeps DEF Outcomes
    <3>2. RunInv(Carried, closed)'
      BY <3>1, <1>0, <2>1, <1>8 DEF Establish, streamVars
    <3> QED BY <3>2, <2>1, <1>8, <1>t DEF ByteInv, Establish, streamVars
  <2>2. CASE OpenSucceeds /\ pump' = [p \in Pumps |-> "waiting"]
    <3>1. ~carried /\ ~stopped /\ RunInv(TRUE, FALSE)'
      BY <1>0, <2>2, OpenSucceedsCarries
    <3>2. RunInv(Carried, closed)'
      BY <3>1, <1>0, <2>2, <1>8 DEF Establish, streamVars
    <3> QED BY <3>1, <3>2, <2>2, <1>8, <1>0, <1>t DEF ByteInv, Establish, streamVars
  <2> QED BY <2>1, <2>2, <1>8 DEF Establish
<1>9. CASE CloseRuntime
  <2>1. carried /\ RunInv(TRUE, TRUE)'
    BY <1>0, <1>9, GraceOverCloses DEF CloseRuntime
  <2>2. RunInv(Carried, closed)'
    BY <2>1, <1>0, <1>9 DEF CloseRuntime, Close, CloseOnce, byteVars
  <2>3. closed' \in BOOLEAN
    BY <1>9 DEF CloseRuntime, Close, CloseOnce
  <2>4. /\ out' = "empty" /\ UNCHANGED <<provider, watcher, written>>
        /\ UNCHANGED <<mode, delivered, pump>>
    BY <1>9 DEF CloseRuntime, Close, CloseOnce, byteVars
  <2>5. StreamTypeOK' /\ ChunksAccounted'
    BY <2>3, <2>4, <1>t
  <2> QED BY <2>2, <2>4, <2>5, <1>t DEF ByteInv
<1>10. CASE ClientOrServer
  <2>1. RunInv(carried, stopped)'
    BY <1>0, <1>10, EnvironmentKeeps DEF ClientOrServer
  <2>2. RunInv(Carried, closed)'
    BY <2>1, <1>0, <1>10 DEF ClientOrServer, streamVars, byteVars
  <2> QED BY <2>2, <1>10, <1>t DEF ByteInv, ClientOrServer, streamVars, byteVars
<1>11. CASE ConsoleWrites \/ ConsoleEnds
  <2>1. carried /\ Carried' /\ UNCHANGED <<contexts, control, closed, mode, delivered, pump>>
    BY <1>11, <1>0
    DEF ConsoleWrites, ConsoleEnds, Produce, ProviderReturns, sessionVars, runVars, byteVars
  <2>2. RunTypeOK'
    <3>1. UNCHANGED <<socket, sent, outcomes>>
      BY <1>11 DEF ConsoleWrites, ConsoleEnds, sessionVars, runVars
    <3>2. /\ sent' \in 0..MaxMessages
          /\ socket' \in {"none", "open", "peerClosed", "broken", "closed"}
          /\ outcomes' \in Outcomes \cup {NoOutcome}
      BY <3>1, <1>t DEF RunTypeOK
    <3> QED BY <2>1, <3>2, <1>t, PumpTypes
  <2>3. RunInv(Carried, closed)'
    BY <2>1, <2>2, <1>p
  <2>4. StreamTypeOK' /\ ChunksAccounted'
    BY <2>1, <1>11, <1>t, ManagedStreamAssumption
    DEF ConsoleWrites, ConsoleEnds, Produce, ProviderReturns
  <2> QED BY <2>1, <2>3, <2>4, <1>t DEF ByteInv
<1>12. CASE StreamWatcher
  <2>1. carried /\ Carried' /\ UNCHANGED <<contexts, control, mode, delivered, pump>>
    BY <1>12, <1>0 DEF StreamWatcher, sessionVars, runVars, byteVars
  <2>2. RunTypeOK'
    <3>1. UNCHANGED <<socket, sent, outcomes>>
      BY <1>12 DEF StreamWatcher, sessionVars, runVars
    <3>2. /\ sent' \in 0..MaxMessages
          /\ socket' \in {"none", "open", "peerClosed", "broken", "closed"}
          /\ outcomes' \in Outcomes \cup {NoOutcome}
      BY <3>1, <1>t DEF RunTypeOK
    <3> QED BY <2>1, <3>2, <1>t, PumpTypes
  <2>3. StreamTypeOK' /\ ChunksAccounted' /\ (closed => closed')
    <3>1. closed' \in BOOLEAN /\ (closed => closed')
      <4>1. CASE CloseOnce BY <4>1 DEF CloseOnce
      <4>2. CASE UNCHANGED <<closed, out>> BY <4>2, <1>t
      <4> QED BY <4>1, <4>2, <1>12 DEF StreamWatcher, WatcherStops
    <3> QED BY <3>1, <2>1, <1>12, <1>t DEF StreamWatcher, WatcherStops, CloseOnce
  <2>4. PICK next \in BOOLEAN : next = closed'
    BY <2>3
  <2>5. RunInv(TRUE, next)'
    BY <2>1, <2>2, <2>3, <2>4, <1>0, PumpKeeps
  <2>6. RunInv(Carried, closed)'
    BY <2>1, <2>4, <2>5
  <2> QED BY <2>1, <2>3, <2>6, <1>t DEF ByteInv
<1>13. CASE UNCHANGED vars
  <2>1. RunInv(carried, stopped)'
    BY <1>0, <1>13
    DEF RunInv, RunTypeOK, vars, sessionVars, runVars, contexts, control, books
  <2>2. RunInv(Carried, closed)'
    BY <2>1, <1>0, <1>13 DEF vars, sessionVars, streamVars, byteVars
  <2> QED BY <2>2, <1>13, <1>t DEF ByteInv, vars, sessionVars, streamVars, byteVars
<1> QED
  BY <1>1, <1>2, <1>3, <1>4, <1>5, <1>6, <1>7, <1>r, <1>8, <1>9, <1>10, <1>11, <1>12, <1>13
  DEF Next, MainStep

\* Types, the main goroutine's control and the account of the chunks: where the
\* session is tells whether it has a stream, a lease and a place in the gauge.
THEOREM ByteInvariant == Spec => []ByteInv
BY ByteInit, ByteStep, PTL DEF Spec

\* The state is always well typed; in particular the gauge of connected sessions
\* counts a session at most once, and never more chunks are delivered to the
\* client than the console wrote.
THEOREM TypeCorrect == Spec => []TypeOK
<1>1. ByteInv => TypeOK
  BY ManagedStreamAssumption
  DEF ByteInv, RunInv, TypeOK, ChunksAccounted, StreamTypeOK
<1> QED BY <1>1, ByteInvariant, PTL

-----------------------------------------------------------------------------
(* The outcome                                                             *)

\* Every step keeps the signals and the outcome true.
LEMMA OutcomeStep == ByteInv /\ OutcomeInv /\ [Next]_vars => OutcomeInv'
<1> SUFFICES ASSUME ByteInv, OutcomeInv, [Next]_vars PROVE OutcomeInv'
  OBVIOUS
<1>0. /\ main = "select" => ~canceled /\ outcome = NoOutcome
      /\ ~Carried => outcomes = NoOutcome /\ closed = FALSE
      /\ main = "establish" => ~Carried /\ outcome = NoOutcome
  BY DEF ByteInv, RunInv, Opening, StreamTypeOK
<1>t. /\ provider \in {"running", "eof", "error"} /\ closed \in BOOLEAN
      /\ mode \in {"serial", "vnc"}
  BY DEF ByteInv, StreamTypeOK
<1> USE DEF OutcomeInv, IsTrue, ctxDone
<1>1. CASE ReaderReads
  BY <1>1, <1>0, <1>t
  DEF ReaderReads, Signal, TooBig, InvalidFrame, streamVars, contexts, control, NoOutcome
<1>2. CASE ReaderFails
  BY <1>2, <1>0, <1>t
  DEF ReaderFails, Signal, SocketReadFails, ReadOutcome, streamVars, contexts, control, NoOutcome
<1>3. CASE ReaderForwards
  BY <1>3, <1>0, <1>t
  DEF ReaderForwards, Signal, WriteTaken, WriteFails, streamVars, contexts, control, NoOutcome
<1>4. CASE WriterReads
  BY <1>4, <1>0, <1>t DEF WriterReads, ReadChunk, runVars, contexts, control
<1>5. CASE WriterEnds
  BY <1>5, <1>0, <1>t
  DEF WriterEnds, Signal, ReadError, streamVars, contexts, control, NoOutcome
<1>6. CASE WriterForwards
  BY <1>6, <1>0, <1>t
  DEF WriterForwards, Signal, SocketWriteFails, WriteOutcomes, ReadOutcome,
      streamVars, contexts, control, NoOutcome
<1>7. CASE RunStep(Told) /\ UNCHANGED <<streamVars, byteVars>>
  <2> USE <1>7, <1>0, <1>t DEF streamVars, contexts, books, NoOutcome
  <2>1. CASE Admit BY <2>1 DEF Admit
  <2>2. CASE Upgrade BY <2>2 DEF Upgrade, ByteInv, RunInv
  <2>3. CASE Deferred BY <2>3 DEF Deferred
  <2>4. CASE SelectSignal BY <2>4 DEF SelectSignal, Select
  <2>5. CASE WriteFinal(Told) BY <2>5 DEF WriteFinal
  <2>6. CASE Cancel BY <2>6 DEF Cancel
  <2>7. CASE Complete BY <2>7 DEF Complete
  <2> QED BY <2>1, <2>2, <2>3, <2>4, <2>5, <2>6, <2>7 DEF RunStep
<1>r. CASE ReportFailure
  BY <1>r, <1>0, <1>t
  DEF ReportFailure, WriteTerminalError, Told, Failures, streamVars, contexts, books, NoOutcome
<1>8. CASE Establish
  BY <1>8, <1>0, <1>t
  DEF Establish, OpenFails, OpenSucceeds, OpenFailures, streamVars, contexts, books, NoOutcome
<1>9. CASE CloseRuntime
  BY <1>9, <1>0, <1>t DEF CloseRuntime, Close, GraceOver, contexts, books
<1>10. CASE ClientOrServer
  BY <1>10, <1>0, <1>t DEF ClientOrServer, Environment, streamVars, control, NoOutcome
<1>11. CASE ConsoleWrites \/ ConsoleEnds
  BY <1>11, <1>0, <1>t
  DEF ConsoleWrites, ConsoleEnds, Produce, ProviderReturns, sessionVars, runVars, contexts, control
<1>12. CASE StreamWatcher
  BY <1>12, <1>0, <1>t
  DEF StreamWatcher, WatcherStops, CloseOnce, sessionVars, runVars, contexts, control
<1>13. CASE UNCHANGED vars
  BY <1>13 DEF vars, streamVars, sessionVars, runVars, contexts, control
<1> QED
  BY <1>1, <1>2, <1>3, <1>4, <1>5, <1>6, <1>7, <1>r, <1>8, <1>9, <1>10, <1>11, <1>12, <1>13
  DEF Next, MainStep

\* The outcome a console session reports is what happened: the closing of the
\* stream by its watcher is never taken for the console's own end unless the server
\* shuts down, and a pump's signal of the session's own cancel() never for a
\* shutdown.
THEOREM OutcomeTrue == Spec => []OutcomeIsTrue
<1>1. Init => OutcomeInv
  BY DEF Init, RunInit, OutcomeInv, IsTrue, NoOutcome
<1>2. OutcomeInv => OutcomeIsTrue
  BY DEF OutcomeInv, IsTrue, OutcomeIsTrue
<1> QED BY <1>1, <1>2, ByteInvariant, OutcomeStep, PTL DEF Spec

-----------------------------------------------------------------------------
(* The connection                                                          *)

StreamOf == IF ~Carried THEN "none" ELSE IF closed THEN "closed" ELSE "open"

\* The connection a console session is, before and after a step.
LEMMA ConnectionNow ==
  ASSUME ByteInv, ByteInv'
  PROVE  LET now == AsConnection(StreamOf)
         IN /\ now \in ConnectionStates /\ IsNow(now, Carried, closed)
            /\ now' \in ConnectionStates /\ IsNow(now, Carried, closed)'
<1>1. /\ Stage \in Stages /\ closes \in Nat /\ active \in Nat
      /\ StreamOf \in {"none", "open", "closed"}
  BY StageType DEF ByteInv, RunInv, RunTypeOK, StreamOf
<1>2. /\ Stage' \in Stages /\ closes' \in Nat /\ active' \in Nat
      /\ StreamOf' \in {"none", "open", "closed"}
  <2>1. Stage' \in Stages
    BY DEF Stage, Stages
  <2> QED BY <2>1 DEF ByteInv, RunInv, RunTypeOK, StreamOf
<1> HIDE DEF Stage
<1> QED BY <1>1, <1>2, ConnectionFields DEF AsConnection, IsNow, StreamOf

\* Every step of a console session is a step of the Connection it implements, or
\* none.
LEMMA ConnectionStep ==
  ByteInv /\ [Next]_vars => [Conn!Next]_(AsConnection(StreamOf))
<1> SUFFICES ASSUME ByteInv, [Next]_vars
             PROVE  [Conn!Next]_(AsConnection(StreamOf))
  OBVIOUS
<1>0. PICK carried \in BOOLEAN, stopped \in BOOLEAN :
        carried = Carried /\ stopped = closed /\ RunInv(carried, stopped)
  BY Control
<1>1. PICK opened \in BOOLEAN, ended \in BOOLEAN :
        opened = Carried' /\ ended = closed' /\ ByteInv'
  BY ByteStep DEF ByteInv, StreamTypeOK, Carried
<1> DEFINE now == AsConnection(StreamOf)
<1>2. PICK c \in ConnectionStates, d \in ConnectionStates :
        c = now /\ d = now' /\ IsNow(c, carried, stopped) /\ IsNow(d, opened, ended)'
  <2>1. /\ now \in ConnectionStates /\ IsNow(now, Carried, closed)
        /\ now' \in ConnectionStates /\ IsNow(now, Carried, closed)'
    BY <1>1, ConnectionNow
  <2>2. /\ Carried = carried /\ closed = stopped
        /\ Carried' = opened /\ closed' = ended
    BY <1>0, <1>1
  <2> HIDE DEF now
  <2> QED BY <2>1, <2>2 DEF IsNow
<1> SUFFICES c = d \/ Successor(c, d)
  BY <1>2, Zenon
  DEF Successor, Conn!Next, Conn!Refused, Conn!Admitted, Conn!HandedOver, Conn!Opened,
      Conn!Ended, Conn!Closed, StreamOf
<1> HIDE DEF now
<1>3. CASE \/ ReaderReads \/ ReaderFails \/ ReaderForwards \/ WriterReads \/ WriterEnds
           \/ WriterForwards \/ ConsoleWrites \/ ConsoleEnds \/ ClientOrServer
           \/ (Establish /\ UNCHANGED pump) \/ UNCHANGED vars
  <2>1. UNCHANGED <<Stage, closes, active, closed>>
    BY <1>3
    DEF ReaderReads, ReaderFails, ReaderForwards, WriterReads, WriterEnds, WriterForwards,
        ConsoleWrites, ConsoleEnds, ClientOrServer, Environment, ReadChunk, Produce,
        ProviderReturns, Establish, OpenFails, OpenSucceeds, Stage, ByteInv, RunInv, Opening,
        Carrying, Carried, Pumps, vars, streamVars, sessionVars, runVars, control, books
  <2>2. Carried' = Carried
    BY <1>3
    DEF ByteInv, Carried, Pumps, Becomes, ReaderReads, ReaderFails, ReaderForwards,
        WriterReads, WriterEnds, WriterForwards, ConsoleWrites, ConsoleEnds, ClientOrServer,
        vars, sessionVars, byteVars
  <2>3. /\ d.stage = c.stage /\ d.stream = c.stream
        /\ d.closes = c.closes /\ d.active = c.active
    BY <2>1, <2>2, <1>0, <1>1, <1>2 DEF IsNow
  <2> QED BY <2>3, Successors, Zenon
<1>4. CASE RunStep(Told) /\ UNCHANGED <<streamVars, byteVars>>
  <2>1. opened = carried /\ ended = stopped
    BY <1>0, <1>1, <1>4 DEF Carried, streamVars, byteVars
  <2> QED BY <2>1, <1>0, <1>2, <1>4, RunStepSuccessor
<1>r. CASE ReportFailure
  <2>1. opened = carried /\ ended = stopped
    BY <1>0, <1>1, <1>r DEF ReportFailure, Carried, streamVars, byteVars
  <2>2. UNCHANGED <<Stage, closes, active>>
    BY <1>0, <1>r, TerminalErrorKeeps DEF ReportFailure
  <2>3. /\ d.stage = c.stage /\ d.stream = c.stream
        /\ d.closes = c.closes /\ d.active = c.active
    BY <2>1, <2>2, <1>2 DEF IsNow
  <2> QED BY <2>3, Successors, Zenon
<1>5. CASE Establish /\ OpenSucceeds /\ pump' = [p \in Pumps |-> "waiting"]
  <2>1. ~carried /\ ~stopped
    BY <1>0, <1>5, OpenSucceedsCarries
  <2>2. opened = TRUE /\ ended = FALSE
    BY <2>1, <1>0, <1>1, <1>5 DEF Establish, Carried, Pumps, streamVars
  <2> QED BY <2>2, <1>0, <1>2, <1>5, OpenSucceedsSuccessor
<1>6. CASE CloseRuntime \/ StreamWatcher
  <2>1. /\ carried = TRUE /\ opened = TRUE /\ UNCHANGED <<Stage, closes, active>>
        /\ stopped => ended
    <3>1. CASE CloseRuntime
      BY <3>1, <1>0, <1>1, GraceOverCloses
      DEF CloseRuntime, Close, CloseOnce, GraceOver, Stage, Carried, byteVars, books
    <3>2. CASE StreamWatcher
      <4>1. UNCHANGED <<main, release, closes, active, pump>> /\ Carried
        BY <3>2 DEF StreamWatcher, sessionVars, runVars, byteVars, control, books
      <4>2. closed => closed'
        BY <3>2, Zenon DEF StreamWatcher, WatcherStops, CloseOnce
      <4> QED BY <4>1, <4>2, <1>0, <1>1 DEF Stage, Carried
    <3> QED BY <3>1, <3>2, <1>6
  <2> QED BY <2>1, <1>0, <1>2, ClosedSuccessor
<1> QED BY <1>3, <1>4, <1>r, <1>5, <1>6 DEF Next, MainStep, Establish

\* Every step of a console session is one of its Connection: its lease is returned
\* at most once, by ServeHTTP or by Run and never by both, only after an opened
\* stream was closed, and the gauge of connected sessions falls with it.
THEOREM TakesConnectionSteps == Spec => Conn!Steps
<1>1. Init => Conn!Init
  <2> SUFFICES ASSUME Init PROVE AsConnection(StreamOf) = Conn!Arrived
    BY DEF Conn!Init, StreamOf
  <2>1. Stage = "arrived" /\ closes = 0 /\ active = 0 /\ StreamOf = "none"
    BY DEF Init, RunInit, Stage, StreamOf, Carried, Pumps
  <2> QED BY <2>1 DEF AsConnection, Conn!Arrived
<1>2. ByteInv /\ [Next]_vars => [Conn!Next]_(AsConnection(StreamOf))
  BY ConnectionStep
<1> QED BY <1>1, <1>2, ByteInvariant, PTL DEF Spec, Conn!Steps, StreamOf
=============================================================================
