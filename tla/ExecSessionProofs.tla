-------------------------- MODULE ExecSessionProofs --------------------------
(***************************************************************************)
(* Proofs about ExecSession, for any queue capacities, any number of       *)
(* messages and chunks, with and without a TTY.                            *)
(***************************************************************************)
EXTENDS ExecSession, SessionRunProofs, FiniteSetTheorems, SequenceTheorems

\* The frames a pump may hold.
FramesOf(p) ==
  CASE p = "input"   -> ClientFrames
    [] p = "writer"  -> OutputFrames
    [] p \in Outputs -> {p} \X (1..MaxOutput)
    [] OTHER         -> {}

\* The stream does not exist before the pumps start, and a chunk that waits in
\* a pipe was written.
StreamInv ==
  /\ StreamTypeOK
  /\ ~Carried => executor = "running"
  /\ \A o \in Outputs : pipe[o] = "chunk" => written[o] > 0

PumpInv ==
  /\ pump \in [Pumps -> {Off, Waiting, Stopped} \cup ClientFrames \cup OutputFrames]
  /\ \A p \in Pumps : pump[p] \in {Off, Waiting, Stopped} \cup FramesOf(p)
  /\ \A p \in Pumps : pump[p] = Off <=> ~Carried

QueueInv ==
  /\ delivered \in Seq(ServerFrames)
  /\ inputs \in Seq(ClientFrames) /\ Len(inputs) <= InboundQueue
  /\ outbound \in Seq(OutputFrames) /\ Len(outbound) <= OutboundQueue
  /\ completed \in {None, "exit", "error"}
  /\ ack \in {None, "ok", "failed"}

ExecInv == StreamInv /\ PumpInv /\ QueueInv /\ RunInv(Carried, terminated)

\* The frames in the order in which the client gets them if the writer goes on:
\* what it got, what the writer pump holds and what is queued.
Held == IF Holds("writer") THEN <<pump["writer"]>> ELSE <<>>
Line == (delivered \o Held) \o outbound

NextChunk(o) == Place(Line, o, Len(Line)) + 1

\* A pump that goes on holds the next chunk of its output, and every chunk written
\* is on the line, in the pump's hands or in the pipe, until the pipe is closed.
ChunkInv(o) ==
  /\ Holds(o) => pump[o] = <<o, NextChunk(o)>>
  /\ pipe[o] # "closed" =>
       written[o] + 1 = NextChunk(o) + (IF Holds(o) THEN 1 ELSE 0)
                                     + (IF pipe[o] = "chunk" THEN 1 ELSE 0)

OrderInv ==
  /\ InOrder(delivered)
  /\ pump["writer"] # Stopped =>
       InOrder(Line) /\ \A o \in Outputs : pump[o] # Stopped => ChunkInv(o)

\* The command exited, its completion was taken, and nobody adds to the line.
Exited == pump["waiter"] = Stopped /\ completed = None /\ result = "exit"

\* The exit frame is on the line only then, and no output follows it; the writer's
\* ack says that the client has it, as its last frame while the ack is waited for.
ExitInv ==
  /\ pump["waiter"] = Stopped => executor = "done" /\ \A o \in Outputs : pump[o] = Stopped
  /\ completed # None => pump["waiter"] = Stopped /\ completed = result
  /\ ExitLast(delivered)
  /\ pump["writer"] # Stopped =>
       ExitLast(Line) /\ ((\A n \in 1..Len(Line) : Line[n] # Exit) \/ Exited)
  /\ ack = "ok" => Exited /\ \E n \in 1..Len(delivered) : delivered[n] = Exit
  /\ ack = "ok" /\ main = "ack" => delivered # <<>> /\ delivered[Len(delivered)] = Exit

\* A signal the select loop, or the wait for the ack, can still take is true.
SignalInv ==
  /\ outcomes # "normal"
  /\ main \in {"select", "ack"} =>
       /\ outcomes = "client_closed" => socket = "peerClosed"
       /\ outcomes = "shutdown" => shutdown

-----------------------------------------------------------------------------
(* Frames and their places                                                 *)

\* The outputs' names and the frames are told apart by their first component.
LEMMA FrameKinds ==
  /\ Outputs \in SUBSET {"stdout", "stderr"}
  /\ \A f \in OutputFrames : f = Exit \/ (f[1] \in Outputs /\ f = <<f[1], f[2]>>)
  /\ \A f \in OutputFrames \cup ClientFrames : f \notin {Off, Waiting, Stopped}
  /\ \A o \in Outputs, n \in 1..MaxOutput :
       <<o, n>> \in OutputFrames /\ <<o, n>> # Exit /\ <<o, n>>[1] = o
  /\ Exit \in OutputFrames /\ Exit[1] \notin Outputs
  /\ Error \in ServerFrames \ OutputFrames /\ Error[1] \notin Outputs /\ Error # Exit
  /\ Off # Waiting /\ Off # Stopped /\ Waiting # Stopped
<1>1. Outputs \in SUBSET {"stdout", "stderr"}
  BY DEF Outputs
<1> USE <1>1 DEF OutputFrames, ClientFrames, Exit, Off, Waiting, Stopped
<1>2. \A f \in OutputFrames : f = Exit \/ (f[1] \in Outputs /\ f = <<f[1], f[2]>>)
  OBVIOUS
<1>3. \A f \in OutputFrames \cup ClientFrames : f \notin {Off, Waiting, Stopped}
  <2>1. Off[1] = "off" /\ Waiting[1] = "waiting" /\ Stopped[1] = "stopped"
    OBVIOUS
  <2>2. ASSUME NEW f \in OutputFrames \cup ClientFrames
        PROVE  f[1] \in {"stdout", "stderr", "exit", "stdin", "resize"}
    <3>1. CASE f \in Outputs \X (1..MaxOutput) BY <3>1
    <3>2. CASE f \in ClientFrames BY <3>2
    <3>3. CASE f = Exit BY <3>3
    <3> QED BY <3>1, <3>2, <3>3
  <2> QED BY <2>1, <2>2
<1>4. \A o \in Outputs, n \in 1..MaxOutput :
       <<o, n>> \in OutputFrames /\ <<o, n>> # Exit /\ <<o, n>>[1] = o
  OBVIOUS
<1>5. Exit \in OutputFrames /\ Exit[1] \notin Outputs
  OBVIOUS
<1>6. Off # Waiting /\ Off # Stopped /\ Waiting # Stopped
  OBVIOUS
<1>7. Error \in ServerFrames \ OutputFrames /\ Error[1] \notin Outputs /\ Error # Exit
  <2>1. Error[1] = "error" /\ Exit[1] = "exit"
    BY DEF Error
  <2>2. \A f \in OutputFrames : f[1] # "error"
    BY <1>2, <2>1
  <2> QED BY <2>1, <2>2 DEF ServerFrames
<1> QED BY <1>1, <1>2, <1>3, <1>4, <1>5, <1>6, <1>7

\* Frames for the writer pump are frames for the client.
LEMMA SeqsOfFrames == \A s \in Seq(OutputFrames) : s \in Seq(ServerFrames)
BY SeqMonotonic DEF ServerFrames

\* The place of a frame depends only on the frames up to it, is a number, and
\* grows by one when a frame of the output follows.
LEMMA Places ==
  ASSUME NEW s \in Seq(ServerFrames), NEW o, NEW n \in 0..Len(s)
  PROVE  /\ Place(s, o, n) \in Nat
         /\ Place(s, o, 0) = 0
         /\ n > 0 => Place(s, o, n) = Place(s, o, n - 1) + (IF s[n][1] = o THEN 1 ELSE 0)
         /\ \A t \in Seq(ServerFrames) :
              (\A m \in 1..n : t[m] = s[m]) => Place(t, o, n) = Place(s, o, n)
<1> DEFINE At(k) == {m \in 1..k : s[m][1] = o}
<1>1. ASSUME NEW k \in 0..Len(s) PROVE IsFiniteSet(At(k)) /\ Cardinality(At(k)) \in Nat
  <2>1. IsFiniteSet(1..k)
    BY FS_Interval
  <2>2. IsFiniteSet(At(k))
    BY <2>1, FS_Subset
  <2> QED BY <2>2, FS_CardinalityType
<1>2. At(0) = {}
  OBVIOUS
<1>3. ASSUME n > 0
      PROVE  Place(s, o, n) = Place(s, o, n - 1) + (IF s[n][1] = o THEN 1 ELSE 0)
  <2>1. CASE s[n][1] = o
    <3>1. At(n) = At(n - 1) \cup {n} /\ n \notin At(n - 1)
      BY <1>3, <2>1
    <3>2. IsFiniteSet(At(n - 1))
      BY <1>1, <1>3
    <3> HIDE DEF At
    <3>3. Cardinality(At(n)) = Cardinality(At(n - 1)) + 1
      BY <3>1, <3>2, FS_AddElement
    <3> QED BY <3>3, <2>1 DEF Place, At
  <2>2. CASE s[n][1] # o
    <3>1. At(n) = At(n - 1) /\ n - 1 \in 0..Len(s)
      BY <1>3, <2>2
    <3> HIDE DEF At
    <3>2. Cardinality(At(n - 1)) \in Nat
      BY <1>1, <3>1
    <3>3. Cardinality(At(n)) = Cardinality(At(n - 1)) + 0
      BY <3>1, <3>2
    <3> QED BY <3>3, <2>2 DEF Place, At
  <2> QED BY <2>1, <2>2
<1>4. ASSUME NEW t \in Seq(ServerFrames), \A m \in 1..n : t[m] = s[m]
      PROVE  Place(t, o, n) = Place(s, o, n)
  <2>1. {m \in 1..n : t[m][1] = o} = {m \in 1..n : s[m][1] = o}
    BY <1>4
  <2> QED BY <2>1 DEF Place
<1>5. Place(s, o, n) \in Nat
  BY <1>1 DEF Place
<1>6. Place(s, o, 0) = 0
  BY <1>2, FS_EmptySet DEF Place
<1> QED BY <1>3, <1>4, <1>5, <1>6

\* What begins a sequence in order is in order, and no output follows the exit
\* frame in it if none does in the sequence.
LEMMA Beginnings ==
  ASSUME NEW s \in Seq(ServerFrames), NEW t \in Seq(ServerFrames), Len(s) <= Len(t),
         \A n \in 1..Len(s) : s[n] = t[n]
  PROVE  /\ InOrder(t) => InOrder(s)
         /\ ExitLast(t) => ExitLast(s)
<1>1. ASSUME InOrder(t), NEW n \in 1..Len(s), s[n][1] \in Outputs
      PROVE  s[n][2] = Place(s, s[n][1], n)
  <2>1. n \in 0..Len(t) /\ n \in 1..Len(t) /\ \A m \in 1..n : s[m] = t[m]
    OBVIOUS
  <2>2. Place(s, s[n][1], n) = Place(t, s[n][1], n)
    BY <2>1, Places
  <2> QED BY <2>1, <2>2, <1>1 DEF InOrder
<1> QED BY <1>1 DEF InOrder, ExitLast

\* The next chunk of its output, and the exit frame, may follow a sequence in
\* order.
LEMMA Follows ==
  ASSUME NEW s \in Seq(ServerFrames), NEW f \in ServerFrames, InOrder(s),
         f[1] \in Outputs => f[2] = Place(s, f[1], Len(s)) + 1
  PROVE  /\ InOrder(Append(s, f))
         /\ \A o \in Outputs : Place(Append(s, f), o, Len(Append(s, f)))
              = Place(s, o, Len(s)) + (IF f[1] = o THEN 1 ELSE 0)
<1> DEFINE t == Append(s, f)
<1>1. /\ t \in Seq(ServerFrames) /\ Len(t) = Len(s) + 1 /\ Len(s) \in Nat
      /\ t[Len(t)] = f /\ \A n \in 1..Len(s) : t[n] = s[n]
  BY AppendProperties
<1> HIDE DEF t
<1>2. ASSUME NEW o
      PROVE  Place(t, o, Len(t)) = Place(s, o, Len(s)) + (IF f[1] = o THEN 1 ELSE 0)
  <2>1. Len(t) \in 0..Len(t) /\ Len(s) \in 0..Len(s) /\ Len(t) > 0 /\ Len(t) - 1 = Len(s)
    BY <1>1
  <2>2. Place(t, o, Len(t)) = Place(t, o, Len(t) - 1) + (IF t[Len(t)][1] = o THEN 1 ELSE 0)
    BY <2>1, <1>1, Places
  <2>3. Place(t, o, Len(s)) = Place(s, o, Len(s))
    BY <2>1, <1>1, Places
  <2> QED BY <2>1, <2>2, <2>3, <1>1
<1>3. ASSUME NEW n \in 1..Len(t), t[n][1] \in Outputs
      PROVE  t[n][2] = Place(t, t[n][1], n)
  <2>1. CASE n = Len(t)
    BY <1>1, <1>2, <1>3, <2>1
  <2>2. CASE n \in 1..Len(s)
    <3>1. /\ n \in 0..Len(s) /\ t[n] = s[n] /\ \A m \in 1..n : t[m] = s[m]
      BY <2>2, <1>1
    <3>2. Place(t, t[n][1], n) = Place(s, t[n][1], n)
      BY <3>1, <1>1, Places
    <3> QED BY <3>1, <3>2, <2>2, <1>3 DEF InOrder
  <2> QED BY <2>1, <2>2, <1>1
<1> QED BY <1>2, <1>3 DEF InOrder, t

\* The error frame may be put in anywhere: it is no chunk of an output.
LEMMA Inserted ==
  ASSUME NEW s \in Seq(ServerFrames), NEW t \in Seq(ServerFrames), NEW d \in 0..Len(s),
         Len(t) = Len(s) + 1, \A n \in 1..d : t[n] = s[n], t[d + 1] = Error,
         \A n \in (d + 1)..Len(s) : t[n + 1] = s[n]
  PROVE  /\ InOrder(s) => InOrder(t)
         /\ ExitLast(s) => ExitLast(t)
         /\ (\A n \in 1..Len(s) : s[n] # Exit) => \A n \in 1..Len(t) : t[n] # Exit
         /\ \A o \in Outputs : Place(t, o, Len(t)) = Place(s, o, Len(s))
<1> DEFINE To(n) == IF n <= d THEN n ELSE n + 1
           From(n) == IF n <= d THEN n ELSE n - 1
<1>e. Error[1] \notin Outputs /\ Error # Exit
  BY FrameKinds
<1>l. Len(s) \in Nat /\ d \in Nat /\ d <= Len(s)
  BY LenProperties
<1>1. \A n \in 1..Len(s) : To(n) \in 1..Len(t) /\ To(n) # d + 1 /\ t[To(n)] = s[n]
  BY <1>l
<1>2. \A n \in 1..Len(t) : n # d + 1 =>
        From(n) \in 1..Len(s) /\ To(From(n)) = n /\ s[From(n)] = t[n]
  BY <1>l
<1>3. ASSUME NEW o \in Outputs, NEW n \in 1..Len(s)
      PROVE  Place(t, o, To(n)) = Place(s, o, n)
  <2> DEFINE S == {m \in 1..n : s[m][1] = o}
             T == {m \in 1..To(n) : t[m][1] = o}
             f == [m \in S |-> To(m)]
  <2>1. IsFiniteSet(S)
    <3>1. IsFiniteSet(1..n)
      BY FS_Interval
    <3> QED BY <3>1, FS_Subset
  <2>2. \A m \in S : To(m) \in T
    BY <1>1, <1>l
  <2>3. \A m \in T : From(m) \in S /\ To(From(m)) = m
    <3>1. \A m \in T : m \in 1..Len(t) /\ m # d + 1
      BY <1>1, <1>e, <1>l
    <3>2. \A m \in T : From(m) \in 1..Len(s) /\ To(From(m)) = m /\ s[From(m)] = t[m]
      BY <3>1, <1>2
    <3>3. \A m \in T : From(m) <= n
      BY <3>1, <1>l
    <3> QED BY <3>2, <3>3
  <2>4. \A m, k \in S : To(m) = To(k) => m = k
    BY <1>l
  <2> HIDE DEF S, T, To, From
  <2>5. f \in [S -> T] /\ \A m \in S : f[m] = To(m)
    BY <2>2
  <2>6. f \in Injection(S, T)
    BY <2>4, <2>5 DEF Injection, IsInjective
  <2>7. f \in Surjection(S, T)
    BY <2>3, <2>5 DEF Surjection
  <2>8. ExistsBijection(S, T)
    BY <2>6, <2>7 DEF Bijection, ExistsBijection
  <2>9. Cardinality(T) = Cardinality(S)
    BY <2>1, <2>8, FS_Bijection
  <2> QED BY <2>9 DEF Place, S, T
<1>4. ASSUME InOrder(s), NEW n \in 1..Len(t), t[n][1] \in Outputs
      PROVE  t[n][2] = Place(t, t[n][1], n)
  <2>1. n # d + 1
    BY <1>4, <1>e
  <2>2. PICK k \in 1..Len(s) : k = From(n) /\ To(k) = n /\ s[k] = t[n]
    BY <2>1, <1>2
  <2>3. Place(t, s[k][1], n) = Place(s, s[k][1], k)
    BY <2>2, <1>3, <1>4
  <2> QED BY <2>2, <2>3, <1>4 DEF InOrder
<1>5. ASSUME ExitLast(s), NEW m \in 1..Len(t), NEW n \in 1..Len(t), m < n, t[m] = Exit
      PROVE  t[n] = Error
  <2>1. m # d + 1
    BY <1>5, <1>e
  <2>2. CASE n # d + 1
    <3>1. /\ From(m) \in 1..Len(s) /\ s[From(m)] = t[m]
          /\ From(n) \in 1..Len(s) /\ s[From(n)] = t[n]
      BY <2>1, <2>2, <1>2
    <3>2. From(m) < From(n)
      BY <1>5, <2>1, <2>2, <1>l
    <3>3. PICK j, k \in 1..Len(s) : j < k /\ s[j] = Exit /\ s[k] = t[n]
      BY <3>1, <3>2, <1>5
    <3> QED BY <3>3, <1>5 DEF ExitLast
  <2> QED BY <2>2
<1>6. ASSUME \A n \in 1..Len(s) : s[n] # Exit, NEW n \in 1..Len(t)
      PROVE  t[n] # Exit
  BY <1>6, <1>2, <1>e
<1>7. ASSUME NEW o \in Outputs
      PROVE  Place(t, o, Len(t)) = Place(s, o, Len(s))
  <2>1. CASE d < Len(s)
    <3>1. To(Len(s)) = Len(t) /\ Len(s) \in 1..Len(s)
      BY <2>1, <1>l
    <3> QED BY <3>1, <1>3
  <2>2. CASE d = Len(s)
    <3>1. Len(t) \in 0..Len(t) /\ Len(t) > 0 /\ Len(t) - 1 = Len(s) /\ Len(s) \in 0..Len(s)
      BY <1>l
    <3>2. Place(t, o, Len(t)) = Place(t, o, Len(t) - 1) + (IF t[Len(t)][1] = o THEN 1 ELSE 0)
      BY <3>1, Places
    <3>3. Place(t, o, Len(s)) = Place(s, o, Len(s)) /\ Place(s, o, Len(s)) \in Nat
      <4>1. Len(s) \in 0..Len(t) /\ \A m \in 1..Len(s) : t[m] = s[m]
        BY <3>1, <2>2
      <4>2. Place(s, o, Len(s)) \in Nat
        BY <3>1, Places
      <4>3. Place(t, o, Len(s)) = Place(s, o, Len(s))
        <5>1. {m \in 1..Len(s) : t[m][1] = o} = {m \in 1..Len(s) : s[m][1] = o}
          BY <4>1
        <5> QED BY <5>1 DEF Place
      <4> QED BY <4>2, <4>3
    <3>4. t[Len(t)][1] # o
      BY <2>2, <1>e, <1>l
    <3> QED BY <3>1, <3>2, <3>3, <3>4
  <2> QED BY <2>1, <2>2, <1>l
<1> QED BY <1>4, <1>5, <1>6, <1>7 DEF InOrder, ExitLast

-----------------------------------------------------------------------------
(* Types and the control of the main goroutine                             *)

\* The bound on the command's output leaves room for the chunk it writes.
LEMMA RoomToWrite ==
  ASSUME StreamTypeOK, NEW o \in Outputs, Cardinality(Chunks) < MaxOutput
  PROVE  written[o] + 1 \in 0..MaxOutput
<1>1. written[o] \in 0..MaxOutput /\ MaxOutput \in Nat
  BY ExecStreamAssumption DEF StreamTypeOK
<1> SUFFICES ASSUME written[o] = MaxOutput PROVE FALSE
  BY <1>1
<1> DEFINE all == Outputs \X (1..MaxOutput)
           mine == [n \in 1..MaxOutput |-> <<o, n>>]
<1>2. IsFiniteSet(Outputs) /\ IsFiniteSet(1..MaxOutput) /\ Cardinality(1..MaxOutput) = MaxOutput
  <2>1. IsFiniteSet({"stdout"})
    BY FS_Singleton
  <2>2. IsFiniteSet({"stdout"} \cup {"stderr"})
    BY <2>1, FS_AddElement
  <2>3. {"stdout", "stderr"} = {"stdout"} \cup {"stderr"}
    OBVIOUS
  <2>4. IsFiniteSet(Outputs)
    BY <2>1, <2>2, <2>3 DEF Outputs
  <2> QED BY <2>4, <1>1, FS_Interval
<1>3. IsFiniteSet(Chunks)
  <2>1. IsFiniteSet(all)
    BY <1>2, FS_Product
  <2>2. Chunks \in SUBSET all
    BY DEF Chunks
  <2> QED BY <2>1, <2>2, FS_Subset
<1>4. mine \in Injection(1..MaxOutput, Chunks)
  <2>1. \A n \in 1..MaxOutput : <<o, n>> \in Chunks
    BY DEF Chunks
  <2> QED BY <2>1 DEF Injection, IsInjective
<1>5. MaxOutput <= Cardinality(Chunks)
  BY <1>2, <1>3, <1>4, FS_Injection
<1>6. Cardinality(Chunks) \in Nat
  BY <1>3, FS_CardinalityType
<1> QED BY <1>1, <1>5, <1>6

\* What a pump of a carried session becomes: it goes on, stops or holds one of
\* its frames.
LEMMA PumpBecomes ==
  ASSUME PumpInv, Carried, NEW p \in Pumps,
         NEW state \in {Waiting, Stopped} \cup FramesOf(p), Becomes(p, state)
  PROVE  PumpInv' /\ Carried'
<1>1. FramesOf(p) \subseteq ClientFrames \cup OutputFrames
  BY FrameKinds DEF FramesOf, OutputFrames
<1>2. state # Off
  BY <1>1, FrameKinds
<1>3. pump' = [pump EXCEPT ![p] = state] /\ pump'[p] = state
  BY DEF Becomes, PumpInv
<1>4. /\ pump' \in [Pumps -> {Off, Waiting, Stopped} \cup ClientFrames \cup OutputFrames]
      /\ \A q \in Pumps : pump'[q] \in {Off, Waiting, Stopped} \cup FramesOf(q)
      /\ \A q \in Pumps : pump'[q] # Off
  BY <1>1, <1>2, <1>3 DEF PumpInv
<1>5. "reader" \in Pumps
  BY DEF Pumps
<1> QED BY <1>4, <1>5 DEF PumpInv, Carried, FramesOf

\* A pump that goes on, or holds a frame, is one of a carried session.
LEMMA PumpRuns ==
  ASSUME PumpInv, NEW p \in Pumps, pump[p] # Off
  PROVE  Carried
BY DEF PumpInv

\* The steps in which pumps take no part.
NoPump == \/ RunStep(Failures) /\ UNCHANGED <<streamVars, execVars>>
          \/ Establish /\ UNCHANGED pump
          \/ SelectCompleted \/ AwaitAck \/ ReportFailure \/ CloseRuntime
          \/ ClientOrServer \/ RuntimeRuns \/ RuntimeEnds \/ UNCHANGED vars

\* They leave the pumps as they are.
LEMMA NoPumpKeeps == NoPump => UNCHANGED pump
BY DEF NoPump, SelectCompleted, AwaitAck, ReportFailure, CloseRuntime, ClientOrServer, RuntimeRuns,
       RuntimeEnds, execVars, sessionVars, vars

\* The pumps' steps, each with the pump it is of and what that becomes.
LEMMA PumpStep ==
  ASSUME PumpInv, QueueInv, StreamInv, [Next]_vars
  PROVE  /\ PumpInv'
         /\ Carried' = Carried \/ (OpenSucceeds /\ Carried' /\ ~Carried)
<1> USE DEF Pumps
<1>f. /\ Off # Waiting /\ Off # Stopped /\ Waiting # Stopped
      /\ \A f \in OutputFrames \cup ClientFrames : f \notin {Off, Waiting, Stopped}
  BY FrameKinds
<1>b. ASSUME NEW p \in Pumps, pump[p] # Off,
             NEW state \in {Waiting, Stopped} \cup FramesOf(p), Becomes(p, state)
      PROVE  PumpInv' /\ Carried' = Carried
  <2>1. PumpInv' /\ Carried' /\ Carried
    BY <1>b, PumpBecomes, PumpRuns
  <2> QED BY <2>1 DEF Carried
<1>1. ASSUME NEW frame \in ClientFrames, ReaderQueues(frame)
      PROVE  PumpInv' /\ Carried' = Carried
  <2>1. PICK r \in SendResults(inputs, InboundQueue) :
          Becomes("reader", IF r = "queued" THEN Waiting ELSE Stopped)
    BY <1>1 DEF ReaderQueues
  <2>2. (IF r = "queued" THEN Waiting ELSE Stopped) \in {Waiting, Stopped} \cup FramesOf("reader")
    OBVIOUS
  <2> QED BY <2>1, <2>2, <1>1, <1>b, <1>f DEF ReaderQueues
<1>2. CASE ReaderRejects
  BY <1>2, <1>b, <1>f DEF ReaderRejects
<1>3. CASE ReaderFails
  BY <1>3, <1>b, <1>f DEF ReaderFails
<1>4. CASE InputTakes
  <2>1. PICK state : Becomes("input", state) /\ (state = Stopped \/ (inputs # <<>> /\ state = Head(inputs)))
    BY <1>4 DEF InputTakes
  <2>2. inputs # <<>> => Head(inputs) \in FramesOf("input")
    <3>1. inputs # <<>> => Head(inputs) \in ClientFrames
      BY HeadTailProperties DEF QueueInv
    <3> QED BY <3>1, FrameKinds DEF FramesOf
  <2>3. state \in {Waiting, Stopped} \cup FramesOf("input")
    BY <2>1, <2>2
  <2> QED BY <2>1, <2>3, <1>4, <1>b, <1>f DEF InputTakes
<1>5. CASE InputWrites
  <2>1. pump["input"] # Off
    BY <1>5, <1>f DEF InputWrites, ClientFrames
  <2> QED BY <2>1, <1>5, <1>b DEF InputWrites
<1>6. CASE InputResizes
  <2>1. pump["input"] # Off
    BY <1>6, <1>f DEF InputResizes, ClientFrames
  <2> QED BY <2>1, <1>6, <1>b DEF InputResizes
<1>7. ASSUME NEW o \in Outputs, OutputReads(o)
      PROVE  PumpInv' /\ Carried' = Carried
  <2>1. CASE ReadChunk(o) /\ Becomes(o, <<o, written[o]>>)
    <3>1. written[o] \in 1..MaxOutput
      BY <2>1 DEF StreamInv, StreamTypeOK, ReadChunk
    <3>2. <<o, written[o]>> \in FramesOf(o)
      BY <3>1, FrameKinds DEF FramesOf
    <3> QED BY <3>2, <2>1, <1>7, <1>b, <1>f DEF OutputReads
  <2>2. CASE Becomes(o, Stopped)
    BY <2>2, <1>7, <1>b, <1>f DEF OutputReads
  <2> QED BY <2>1, <2>2, <1>7 DEF OutputReads
<1>8. ASSUME NEW o \in Outputs, OutputEnqueues(o)
      PROVE  PumpInv' /\ Carried' = Carried
  <2>1. PICK r \in SendResults(outbound, OutboundQueue) :
          Becomes(o, IF r = "queued" THEN Waiting ELSE Stopped)
    BY <1>8 DEF OutputEnqueues
  <2>2. (IF r = "queued" THEN Waiting ELSE Stopped) \in {Waiting, Stopped} \cup FramesOf(o)
    OBVIOUS
  <2> QED BY <2>1, <2>2, <1>8, <1>b, <1>f DEF OutputEnqueues, Holds
<1>9. CASE WriterTakes
  <2>1. PICK state : Becomes("writer", state) /\ (state = Stopped \/ (outbound # <<>> /\ state = Head(outbound)))
    BY <1>9 DEF WriterTakes
  <2>2. outbound # <<>> => Head(outbound) \in FramesOf("writer")
    <3>1. outbound # <<>> => Head(outbound) \in OutputFrames
      BY HeadTailProperties DEF QueueInv
    <3> QED BY <3>1, FrameKinds DEF FramesOf
  <2>3. state \in {Waiting, Stopped} \cup FramesOf("writer")
    BY <2>1, <2>2
  <2> QED BY <2>1, <2>3, <1>9, <1>b, <1>f DEF WriterTakes
<1>10. CASE WriterWrites
  BY <1>10, <1>b, <1>f DEF WriterWrites, Holds
<1>11. CASE WaiterReports
  BY <1>11, <1>b, <1>f DEF WaiterReports
<1>12. CASE NoPump
  <2>1. UNCHANGED pump
    BY <1>12, NoPumpKeeps
  <2> QED BY <2>1 DEF PumpInv, Carried, FramesOf
<1>13. CASE OpenSucceeds /\ pump' = [p \in Pumps |-> Waiting]
  BY <1>13, <1>f DEF PumpInv, Carried, FramesOf
<1> QED
  BY <1>1, <1>2, <1>3, <1>4, <1>5, <1>6, <1>7, <1>8, <1>9, <1>10, <1>11, <1>12, <1>13
  DEF Next, MainStep, NoPump, Establish

\* The steps that leave the stream alone.
NoStream ==
  \/ \E frame \in ClientFrames : ReaderQueues(frame)
  \/ ReaderRejects \/ ReaderFails \/ InputTakes \/ InputWrites
  \/ \E o \in Outputs : OutputEnqueues(o)
  \/ WriterTakes \/ WriterWrites \/ WaiterReports
  \/ RunStep(Failures) /\ UNCHANGED <<streamVars, execVars>>
  \/ Establish \/ SelectCompleted \/ AwaitAck \/ ReportFailure \/ ClientOrServer
  \/ UNCHANGED vars

\* They leave it as it is.
LEMMA NoStreamKeeps == NoStream => UNCHANGED streamVars
BY DEF NoStream, ReaderQueues, ReaderRejects, ReaderFails, InputTakes, InputWrites,
       OutputEnqueues, WriterTakes, WriterWrites, WaiterReports, Establish, SelectCompleted,
       AwaitAck, ReportFailure, ClientOrServer, vars

\* The stream's steps: it is typed, ends only once the pumps run, and a chunk in
\* a pipe was written.
LEMMA StreamStep ==
  ASSUME PumpInv, QueueInv, StreamInv, [Next]_vars
  PROVE  StreamInv' /\ (terminated => terminated')
<1>0. Carried => Carried'
  BY PumpStep
<1>t. /\ executor \in {"running", "returned", "done"} /\ result \in {None, "exit", "error"}
      /\ terminated \in BOOLEAN /\ sizes \in 0..ResizeQueue
      /\ pipe \in [Outputs -> {"empty", "chunk", "closed"}]
      /\ written \in [Outputs -> 0..MaxOutput]
      /\ \A o \in Outputs : pipe[o] = "chunk" => written[o] > 0
      /\ ~Carried => executor = "running"
      /\ MaxOutput \in Nat /\ ResizeQueue \in Nat
  BY ExecStreamAssumption DEF StreamInv, StreamTypeOK
<1> USE DEF StreamInv, StreamTypeOK
<1>1. CASE NoStream
  <2>1. UNCHANGED streamVars
    BY <1>1, NoStreamKeeps
  <2> QED BY <2>1, <1>0, <1>t DEF streamVars
<1>2. CASE InputResizes
  <2>1. PICK r \in ResizeResults(ctxDone) :
          (r = "ok" /\ sizes' = sizes + 1) \/ UNCHANGED sizes
    BY <1>2 DEF InputResizes
  <2>2. r = "ok" => sizes < ResizeQueue
    BY DEF ResizeResults
  <2>3. UNCHANGED <<executor, result, terminated, pipe, written>>
    BY <1>2 DEF InputResizes
  <2> QED BY <2>1, <2>2, <2>3, <1>0, <1>t
<1>3. ASSUME NEW o \in Outputs, OutputReads(o)
      PROVE  StreamInv' /\ (terminated => terminated')
  BY <1>0, <1>3, <1>t DEF OutputReads, ReadChunk, streamVars
<1>4. CASE CloseRuntime
  <2>1. terminated' /\ terminated' \in BOOLEAN
    BY <1>4 DEF CloseRuntime, Terminate
  <2>2. UNCHANGED <<executor, result, pipe, written, sizes>>
    BY <1>4 DEF CloseRuntime, Terminate
  <2> QED BY <2>1, <2>2, <1>0, <1>t
<1>5. ASSUME NEW o \in Outputs, Produce(o)
      PROVE  StreamInv' /\ (terminated => terminated')
  <2>1. written[o] + 1 \in 0..MaxOutput
    BY <1>5, RoomToWrite DEF Produce
  <2>2. /\ UNCHANGED <<executor, result, terminated, sizes>>
        /\ pipe' = [pipe EXCEPT ![o] = "chunk"]
        /\ written' = [written EXCEPT ![o] = written[o] + 1]
    BY <1>5 DEF Produce
  <2> QED BY <2>1, <2>2, <1>0, <1>t
<1>6. CASE SizeTaken
  BY <1>0, <1>6, <1>t DEF SizeTaken
<1>7. CASE Carried /\ ExecutorReturns(ctxDone)
  <2>1. terminated' /\ terminated' \in BOOLEAN
    BY <1>7 DEF ExecutorReturns
  <2>2. /\ executor' = "returned" /\ result' \in {"exit", "error"}
        /\ UNCHANGED <<pipe, written, sizes>>
    BY <1>7 DEF ExecutorReturns
  <2> QED BY <2>1, <2>2, <1>0, <1>7, <1>t
<1>8. CASE Carried /\ ExecutorDone
  BY <1>0, <1>8, <1>t DEF ExecutorDone
<1> QED
  BY <1>1, <1>2, <1>3, <1>4, <1>5, <1>6, <1>7, <1>8
  DEF Next, MainStep, RuntimeRuns, RuntimeEnds, NoStream

\* The queues keep to their capacities: an item is sent only to a queue with room.
LEMMA QueueStep ==
  ASSUME PumpInv, QueueInv, StreamInv, [Next]_vars
  PROVE  QueueInv'
<1>t. /\ delivered \in Seq(ServerFrames)
      /\ inputs \in Seq(ClientFrames) /\ Len(inputs) <= InboundQueue
      /\ outbound \in Seq(OutputFrames) /\ Len(outbound) <= OutboundQueue
      /\ completed \in {None, "exit", "error"} /\ ack \in {None, "ok", "failed"}
      /\ result \in {None, "exit", "error"} /\ Exit \in OutputFrames
      /\ InboundQueue \in Nat /\ OutboundQueue \in Nat
  BY FrameKinds, ExecSessionAssumption DEF QueueInv, StreamInv, StreamTypeOK
<1>q. ASSUME NEW S, NEW queue \in Seq(S), NEW capacity \in Nat, NEW f \in S,
             "queued" \in SendResults(queue, capacity)
      PROVE  Append(queue, f) \in Seq(S) /\ Len(Append(queue, f)) <= capacity
  <2>1. Len(queue) < capacity /\ Len(queue) \in Nat
    BY <1>q DEF SendResults
  <2> QED BY <2>1
<1>h. ASSUME NEW S, NEW queue \in Seq(S), NEW capacity \in Nat,
             Len(queue) <= capacity, queue # <<>>
      PROVE  Tail(queue) \in Seq(S) /\ Len(Tail(queue)) <= capacity
  BY <1>h, HeadTailProperties
<1> USE DEF QueueInv
<1>1. ASSUME NEW frame \in ClientFrames, ReaderQueues(frame) PROVE QueueInv'
  <2>1. PICK r \in SendResults(inputs, InboundQueue) :
          inputs' = IF r = "queued" THEN Append(inputs, frame) ELSE inputs
    BY <1>1 DEF ReaderQueues
  <2>2. inputs' \in Seq(ClientFrames) /\ Len(inputs') <= InboundQueue
    BY <2>1, <1>t, <1>q
  <2> QED BY <2>2, <1>1, <1>t DEF ReaderQueues, results
<1>2. CASE InputTakes
  <2>1. inputs' \in Seq(ClientFrames) /\ Len(inputs') <= InboundQueue
    BY <1>2, <1>t, <1>h DEF InputTakes
  <2> QED BY <2>1, <1>2, <1>t DEF InputTakes, results
<1>3. ASSUME NEW o \in Outputs, OutputEnqueues(o) PROVE QueueInv'
  <2>1. PICK r \in SendResults(outbound, OutboundQueue) :
          outbound' = IF r = "queued" THEN Append(outbound, pump[o]) ELSE outbound
    BY <1>3 DEF OutputEnqueues
  <2>2. pump[o] \in OutputFrames
    BY <1>3, FrameKinds DEF OutputEnqueues, Holds, PumpInv, FramesOf, Pumps, OutputFrames
  <2>3. outbound' \in Seq(OutputFrames) /\ Len(outbound') <= OutboundQueue
    BY <2>1, <2>2, <1>t, <1>q
  <2> QED BY <2>3, <1>3, <1>t DEF OutputEnqueues, results
<1>4. CASE WriterTakes
  <2>1. outbound' \in Seq(OutputFrames) /\ Len(outbound') <= OutboundQueue
    BY <1>4, <1>t, <1>h DEF WriterTakes
  <2> QED BY <2>1, <1>4, <1>t DEF WriterTakes, results
<1>5. CASE WriterWrites
  <2>1. pump["writer"] \in OutputFrames
    BY <1>5, FrameKinds DEF WriterWrites, Holds, PumpInv, FramesOf, Pumps
  <2>2. delivered' = delivered \/ delivered' = Append(delivered, pump["writer"])
    BY <1>5, Zenon DEF WriterWrites
  <2>s. PICK f \in ServerFrames : f = pump["writer"]
    BY <2>1 DEF ServerFrames
  <2>a. Append(delivered, f) \in Seq(ServerFrames)
    BY <1>t
  <2>3. delivered' \in Seq(ServerFrames)
    BY <2>s, <2>a, <2>2, <1>t
  <2> QED BY <2>3, <1>5, <1>t DEF WriterWrites, queues
<1>6. CASE WaiterReports
  BY <1>6, <1>t DEF WaiterReports, queues
<1>7. CASE SelectCompleted
  <2>1. outbound' \in Seq(OutputFrames) /\ Len(outbound') <= OutboundQueue
    <3>1. CASE UNCHANGED outbound
      BY <3>1, <1>t
    <3>2. CASE "queued" \in SendResults(outbound, OutboundQueue) /\ outbound' = Append(outbound, Exit)
      BY <3>2, <1>t, <1>q
    <3> QED BY <3>1, <3>2, <1>7 DEF SelectCompleted
  <2> QED BY <2>1, <1>7, <1>t DEF SelectCompleted
<1>r. CASE ReportFailure
  <2>1. delivered' = delivered \/ delivered' = Append(delivered, Error)
    BY <1>r DEF ReportFailure
  <2>s. Error \in ServerFrames
    BY FrameKinds
  <2>2. delivered' \in Seq(ServerFrames)
    BY <2>1, <2>s, <1>t
  <2> QED BY <2>2, <1>r, <1>t DEF ReportFailure, queues, results
<1>8. CASE \/ ReaderRejects \/ ReaderFails \/ InputWrites \/ InputResizes
           \/ (\E o \in Outputs : OutputReads(o))
           \/ RunStep(Failures) /\ UNCHANGED <<streamVars, execVars>>
           \/ Establish \/ AwaitAck \/ CloseRuntime \/ ClientOrServer
           \/ RuntimeRuns \/ RuntimeEnds \/ UNCHANGED vars
  BY <1>8, <1>t
  DEF ReaderRejects, ReaderFails, InputWrites, InputResizes, OutputReads, Establish, AwaitAck,
      CloseRuntime, ClientOrServer, RuntimeRuns, RuntimeEnds, vars, sessionVars, execVars,
      queues, results
<1> QED BY <1>1, <1>2, <1>3, <1>4, <1>5, <1>6, <1>7, <1>r, <1>8 DEF Next, MainStep

\* The steps of the pumps and of the stream's goroutines.
PumpActs ==
  \/ \E frame \in ClientFrames : ReaderQueues(frame)
  \/ ReaderRejects \/ ReaderFails \/ InputTakes \/ InputWrites \/ InputResizes
  \/ \E o \in Outputs : OutputReads(o) \/ OutputEnqueues(o)
  \/ WriterTakes \/ WriterWrites \/ WaiterReports \/ RuntimeRuns \/ RuntimeEnds

\* They are no part of the main goroutine's control, and signal known outcomes.
LEMMA PumpActsTypes ==
  ASSUME RunTypeOK, PumpActs
  PROVE  RunTypeOK' /\ UNCHANGED <<contexts, control>>
<1>t. /\ socket \in {"none", "open", "peerClosed", "broken", "closed"}
      /\ sent \in 0..MaxMessages /\ outcomes \in Outcomes \cup {NoOutcome}
      /\ MaxMessages \in Nat
  BY SessionRunAssumption DEF RunTypeOK
<1>u. UNCHANGED <<contexts, control>>
  BY DEF PumpActs, ReaderQueues, ReaderRejects, ReaderFails, InputTakes, InputWrites,
         InputResizes, OutputReads, OutputEnqueues, WriterTakes, WriterWrites, WaiterReports,
         RuntimeRuns, RuntimeEnds, sessionVars, runVars
<1> DEFINE typed == /\ socket' \in {"none", "open", "peerClosed", "broken", "closed"}
                    /\ sent' \in 0..MaxMessages /\ outcomes' \in Outcomes \cup {NoOutcome}
<1> SUFFICES typed
  BY <1>u, PumpTypes
<1>s. ASSUME NEW o \in Outcomes, Signal(o)
      PROVE  outcomes' \in Outcomes \cup {NoOutcome}
  BY <1>s, <1>t DEF Signal
<1>r. /\ ReadOutcome \in Outcomes /\ WriteOutcomes \subseteq Outcomes
      /\ {"backpressure", "invalid_terminal_frame", "runtime_failed", "shutdown",
          "message_too_big"} \subseteq Outcomes
  BY DEF ReadOutcome, WriteOutcomes, Outcomes
<1>1. ASSUME NEW frame \in ClientFrames, ReaderQueues(frame) PROVE typed
  <2>1. UNCHANGED outcomes \/ Signal("backpressure")
    BY <1>1 DEF ReaderQueues
  <2>2. sent' \in 0..MaxMessages /\ UNCHANGED socket
    BY <1>1, <1>t DEF ReaderQueues
  <2> QED BY <2>1, <2>2, <1>s, <1>r, <1>t
<1>2. CASE ReaderRejects
  <2>1. Signal("invalid_terminal_frame") \/ Signal("shutdown") \/ Signal("message_too_big")
    BY <1>2 DEF ReaderRejects, TooBig
  <2>2. sent' \in 0..MaxMessages /\ (UNCHANGED socket \/ socket' = "broken")
    BY <1>2, <1>t DEF ReaderRejects, TooBig
  <2> QED BY <2>1, <2>2, <1>s, <1>r, <1>t
<1>3. CASE ReaderFails
  <2>1. Signal(ReadOutcome) /\ UNCHANGED sent /\ (UNCHANGED socket \/ socket' = "broken")
    BY <1>3 DEF ReaderFails, SocketReadFails
  <2> QED BY <2>1, <1>s, <1>r, <1>t
<1>4. CASE InputWrites
  <2>1. (UNCHANGED outcomes \/ Signal("runtime_failed")) /\ UNCHANGED <<sent, socket>>
    BY <1>4 DEF InputWrites
  <2> QED BY <2>1, <1>s, <1>r, <1>t
<1>5. CASE InputResizes
  <2>1. /\ UNCHANGED outcomes \/ Signal("backpressure") \/ Signal("runtime_failed")
        /\ UNCHANGED <<sent, socket>>
    BY <1>5 DEF InputResizes
  <2> QED BY <2>1, <1>s, <1>r, <1>t
<1>6. ASSUME NEW o \in Outputs, OutputEnqueues(o) PROVE typed
  <2>1. (UNCHANGED outcomes \/ Signal("backpressure")) /\ UNCHANGED <<sent, socket>>
    BY <1>6 DEF OutputEnqueues
  <2> QED BY <2>1, <1>s, <1>r, <1>t
<1>7. CASE WriterWrites
  <2>1. /\ UNCHANGED outcomes \/ \E o \in WriteOutcomes : Signal(o)
        /\ UNCHANGED sent /\ (UNCHANGED socket \/ socket' = "broken")
    BY <1>7 DEF WriterWrites, SocketWriteFails
  <2> QED BY <2>1, <1>s, <1>r, <1>t
<1>8. CASE \/ InputTakes \/ WriterTakes \/ WaiterReports \/ RuntimeRuns \/ RuntimeEnds
           \/ (\E o \in Outputs : OutputReads(o))
  BY <1>8, <1>t
  DEF InputTakes, WriterTakes, WaiterReports, RuntimeRuns, RuntimeEnds, OutputReads,
      sessionVars, runVars
<1> QED BY <1>1, <1>2, <1>3, <1>4, <1>5, <1>6, <1>7, <1>8 DEF PumpActs

\* The session's select and its wait for the ack: the outcome is selected once.
LEMMA SelectKeeps ==
  ASSUME NEW carried \in BOOLEAN, NEW stopped \in BOOLEAN,
         RunInv(carried, stopped), SelectCompleted \/ AwaitAck
  PROVE  RunInv(carried, stopped)' /\ UNCHANGED <<Stage, closes, active>>
<1>t. RunTypeOK /\ carried /\ main \in {"select", "ack"}
  BY DEF RunInv, SelectCompleted, AwaitAck, Carrying
<1>1. outcomes' \in Outcomes \cup {NoOutcome} /\ UNCHANGED <<contexts, socket, sent, books>>
  BY <1>t DEF SelectCompleted, AwaitAck, Signal, RunTypeOK, Outcomes
<1>2. \/ main' = "ack" /\ UNCHANGED outcome
      \/ main' = "final" /\ outcome' \in Outcomes
  <2>1. WriteOutcomes \subseteq Outcomes
    BY DEF WriteOutcomes, ReadOutcome, Outcomes
  <2> QED BY <1>t, <2>1 DEF SelectCompleted, AwaitAck, Select, RunTypeOK, Outcomes
<1> QED BY <1>t, <1>1, <1>2
        DEF RunInv, RunTypeOK, Opening, Carrying, contexts, books, Stage

\* The facts every step starts from: whether the stream is open, and ended, as
\* values that the step does not change by itself.
LEMMA Control ==
  ASSUME ExecInv
  PROVE  \E carried, stopped \in BOOLEAN :
           /\ carried = Carried /\ stopped = terminated /\ RunInv(carried, stopped)
<1>1. Carried \in BOOLEAN /\ terminated \in BOOLEAN
  BY DEF Carried, ExecInv, StreamInv, StreamTypeOK
<1>2. RunInv(Carried, terminated)
  BY DEF ExecInv
<1> QED BY <1>1, <1>2

\* A step of a pump, of the main goroutine or of the stream keeps what the main
\* goroutine's place says of lease, stream and gauge.
LEMMA ControlStep ==
  ASSUME ExecInv, [Next]_vars
  PROVE  RunInv(Carried, terminated)'
<1>0. PICK carried \in BOOLEAN, stopped \in BOOLEAN :
        carried = Carried /\ stopped = terminated /\ RunInv(carried, stopped)
  BY Control
<1>1. /\ StreamInv' /\ PumpInv' /\ QueueInv' /\ (terminated => terminated')
      /\ Carried' = Carried \/ (OpenSucceeds /\ Carried')
  BY StreamStep, PumpStep, QueueStep DEF ExecInv
<1>2. PICK opened \in BOOLEAN, ended \in BOOLEAN : opened = Carried' /\ ended = terminated'
  BY <1>1 DEF StreamInv, StreamTypeOK, Carried
<1> SUFFICES RunInv(opened, ended)'
  BY <1>2
<1>3. CASE PumpActs
  <2>1. RunTypeOK' /\ UNCHANGED <<contexts, control>>
    BY <1>3, <1>0, PumpActsTypes DEF RunInv
  <2>2. carried = TRUE /\ opened = TRUE
    <3>1. Carried
      BY <1>3, PumpRuns, FrameKinds
      DEF ExecInv, PumpActs, ReaderQueues, ReaderRejects, ReaderFails, InputTakes, InputWrites,
          InputResizes, OutputReads, OutputEnqueues, WriterTakes, WriterWrites, WaiterReports,
          RuntimeRuns, RuntimeEnds, Holds, Pumps, ClientFrames
    <3>2. Carried'
      BY <3>1, <1>1
    <3> QED BY <3>1, <3>2, <1>0, <1>2
  <2> QED BY <2>1, <2>2, <1>0, <1>1, <1>2, PumpKeeps
<1>4. CASE RunStep(Failures) /\ UNCHANGED <<streamVars, execVars>>
  <2>1. opened = carried /\ ended = stopped
    BY <1>0, <1>2, <1>4 DEF Carried, streamVars, execVars
  <2> QED BY <2>1, <1>0, <1>4, RunStepKeeps
<1>r. CASE ReportFailure
  <2>1. opened = carried /\ ended = stopped
    BY <1>0, <1>2, <1>r DEF ReportFailure, Carried, streamVars
  <2> QED BY <2>1, <1>0, <1>r, TerminalErrorKeeps DEF ReportFailure
<1>5. CASE Establish
  <2>1. CASE OpenFails({"invalid_start", "runtime_unavailable"}) /\ UNCHANGED pump
    <3>1. opened = carried /\ ended = stopped
      BY <1>0, <1>2, <1>5, <2>1 DEF Establish, Carried, streamVars
    <3>2. {"invalid_start", "runtime_unavailable"} \in SUBSET Outcomes
      BY DEF Outcomes, OpenFailures
    <3> QED BY <3>1, <3>2, <2>1, <1>0, OpenFailsKeeps
  <2>2. CASE OpenSucceeds /\ pump' = [p \in Pumps |-> Waiting]
    <3>1. ~carried /\ ~stopped /\ RunInv(TRUE, FALSE)'
      BY <1>0, <2>2, OpenSucceedsCarries
    <3>2. opened = TRUE /\ ended = FALSE
      BY <3>1, <1>0, <1>2, <1>5, <2>2, FrameKinds DEF Establish, Carried, Pumps, streamVars
    <3> QED BY <3>1, <3>2
  <2> QED BY <2>1, <2>2, <1>5 DEF Establish
<1>6. CASE SelectCompleted \/ AwaitAck
  <2>1. opened = carried /\ ended = stopped
    BY <1>0, <1>2, <1>6 DEF SelectCompleted, AwaitAck, Carried, streamVars, execVars
  <2> QED BY <2>1, <1>0, <1>6, SelectKeeps
<1>7. CASE CloseRuntime
  <2>1. carried /\ RunInv(TRUE, TRUE)'
    BY <1>0, <1>7, GraceOverCloses DEF CloseRuntime
  <2>2. opened = TRUE /\ ended = TRUE
    BY <2>1, <1>0, <1>2, <1>7 DEF CloseRuntime, Terminate, Carried, execVars
  <2> QED BY <2>1, <2>2
<1>8. CASE ClientOrServer
  <2>1. opened = carried /\ ended = stopped
    BY <1>0, <1>2, <1>8 DEF ClientOrServer, Carried, streamVars, execVars
  <2> QED BY <2>1, <1>0, <1>8, EnvironmentKeeps DEF ClientOrServer
<1>9. CASE UNCHANGED vars
  <2>1. opened = carried /\ ended = stopped
    BY <1>0, <1>2, <1>9 DEF vars, sessionVars, Carried, streamVars, execVars
  <2> QED
    BY <2>1, <1>0, <1>9
    DEF RunInv, RunTypeOK, vars, sessionVars, runVars, contexts, control, books
<1> QED
  BY <1>3, <1>4, <1>r, <1>5, <1>6, <1>7, <1>8, <1>9 DEF Next, MainStep, PumpActs

\* ExecInv holds when the request arrives.
LEMMA ExecInit == Init => ExecInv
<1> SUFFICES ASSUME Init PROVE ExecInv
  OBVIOUS
<1>1. ~Carried /\ \A p \in Pumps : pump[p] = Off
  BY DEF Init, Pumps, Carried
<1>2. terminated = FALSE /\ executor = "running" /\ sizes = 1
  BY DEF Init, StreamInit
<1>3. PumpInv
  BY <1>1 DEF PumpInv, Init
<1>4. QueueInv
  BY ExecSessionAssumption DEF QueueInv, Init
<1>5. StreamInv
  <2>1. terminated \in BOOLEAN BY <1>2
  <2>2. sizes \in 0..ResizeQueue BY <1>2, ExecStreamAssumption
  <2>3. /\ pipe \in [Outputs -> {"empty", "chunk", "closed"}]
        /\ written \in [Outputs -> 0..MaxOutput]
        /\ \A o \in Outputs : pipe[o] = "empty"
    BY ExecStreamAssumption DEF Init, StreamInit
  <2> QED BY <2>1, <2>2, <2>3, <1>2 DEF StreamInv, StreamTypeOK, Init, StreamInit
<1>6. RunInv(Carried, terminated)
  <2>1. PICK carried \in BOOLEAN, stopped \in BOOLEAN : carried = Carried /\ stopped = terminated
    BY <1>2 DEF Carried
  <2>2. RunInv(carried, stopped)
    BY <1>1, <1>2, <2>1, RunInitInv DEF Init
  <2> QED BY <2>1, <2>2
<1> QED BY <1>3, <1>4, <1>5, <1>6 DEF ExecInv

\* Types, the main goroutine's control and what each pump may hold.
THEOREM ExecInvariant == Spec => []ExecInv
<1>1. ExecInv /\ [Next]_vars => ExecInv'
  BY StreamStep, PumpStep, QueueStep, ControlStep DEF ExecInv
<1> QED BY <1>1, ExecInit, PTL DEF Spec

\* The state is always well typed: in particular the queues of frames and sizes
\* never hold more than their capacities, and the gauge counts the session at most
\* once.
THEOREM TypeCorrect == Spec => []TypeOK
<1>1. ExecInv => TypeOK
  BY DEF ExecInv, StreamInv, PumpInv, QueueInv, RunInv, TypeOK
<1> QED BY <1>1, ExecInvariant, PTL

-----------------------------------------------------------------------------
(* The line of frames                                                      *)

\* Taking the first queued frame, and writing the frame held, move the border
\* between the parts of a line; a frame that is queued is appended to it.
LEMMA Borders ==
  ASSUME NEW F, NEW d \in Seq(F), NEW h \in Seq(F), NEW q \in Seq(F), NEW f \in F
  PROVE  /\ (d \o h) \o q \in Seq(F)
         /\ q # <<>> => (d \o <<Head(q)>>) \o Tail(q) = (d \o <<>>) \o q
         /\ (Append(d, f) \o <<>>) \o q = (d \o <<f>>) \o q
         /\ (d \o h) \o Append(q, f) = Append((d \o h) \o q, f)
         /\ Len(d) <= Len((d \o h) \o q)
         /\ \A n \in 1..Len(d) : ((d \o h) \o q)[n] = d[n]
<1>1. (d \o h) \in Seq(F) /\ (d \o h) \o q \in Seq(F)
  BY ConcatProperties
<1>2. ASSUME q # <<>> PROVE (d \o <<Head(q)>>) \o Tail(q) = (d \o <<>>) \o q
  <2>1. Head(q) \in F /\ Tail(q) \in Seq(F) /\ <<Head(q)>> \in Seq(F)
    BY <1>2, HeadTailProperties
  <2>2. q = <<Head(q)>> \o Tail(q)
    BY <1>2, <2>1
  <2>3. (d \o <<Head(q)>>) \o Tail(q) = d \o (<<Head(q)>> \o Tail(q))
    BY <2>1, ConcatAssociative
  <2>4. d \o <<>> = d
    BY ConcatEmptySeq
  <2> QED BY <2>2, <2>3, <2>4
<1>3. (Append(d, f) \o <<>>) \o q = (d \o <<f>>) \o q
  <2>1. Append(d, f) = d \o <<f>> /\ Append(d, f) \in Seq(F)
    BY AppendIsConcat, AppendProperties
  <2>2. Append(d, f) \o <<>> = Append(d, f)
    BY <2>1, ConcatEmptySeq
  <2> QED BY <2>1, <2>2
<1>4. (d \o h) \o Append(q, f) = Append((d \o h) \o q, f)
  <2>1. Append(q, f) = q \o <<f>> /\ <<f>> \in Seq(F)
    BY AppendIsConcat
  <2>2. Append((d \o h) \o q, f) = ((d \o h) \o q) \o <<f>>
    BY <1>1, AppendIsConcat
  <2>3. ((d \o h) \o q) \o <<f>> = (d \o h) \o (q \o <<f>>)
    BY <1>1, <2>1, ConcatAssociative
  <2> QED BY <2>1, <2>2, <2>3
<1>5. /\ Len((d \o h) \o q) = Len(d) + Len(h) + Len(q)
      /\ Len(d) \in Nat /\ Len(h) \in Nat /\ Len(q) \in Nat /\ Len(d \o h) = Len(d) + Len(h)
  BY <1>1, ConcatProperties, LenProperties
<1>6. ASSUME NEW n \in 1..Len(d) PROVE ((d \o h) \o q)[n] = d[n]
  <2>1. (d \o h)[n] = d[n] /\ n <= Len(d \o h)
    BY <1>5, ConcatProperties
  <2>2. ((d \o h) \o q)[n] = (d \o h)[n]
    BY <1>1, <1>5, <2>1, ConcatProperties
  <2> QED BY <2>1, <2>2
<1>7. Len(d) <= Len((d \o h) \o q)
  BY <1>5
<1> QED BY <1>1, <1>2, <1>3, <1>4, <1>6, <1>7, Zenon

\* The line is a sequence of frames and begins with what was delivered.
LEMMA LineFacts ==
  ASSUME PumpInv, QueueInv
  PROVE  /\ Held \in Seq(OutputFrames) /\ Line \in Seq(ServerFrames)
         /\ Len(delivered) <= Len(Line)
         /\ \A n \in 1..Len(delivered) : Line[n] = delivered[n]
         /\ Holds("writer") => /\ pump["writer"] \in OutputFrames
                               /\ Len(delivered) < Len(Line)
                               /\ Line[Len(delivered) + 1] = pump["writer"]
<1>1. Holds("writer") => pump["writer"] \in OutputFrames
  BY FrameKinds DEF PumpInv, FramesOf, Holds, Pumps
<1>2. Held \in Seq(OutputFrames)
  BY <1>1 DEF Held
<1>3. /\ delivered \in Seq(ServerFrames) /\ outbound \in Seq(ServerFrames)
      /\ Held \in Seq(ServerFrames) /\ Error \in ServerFrames
  BY <1>2, FrameKinds, SeqsOfFrames DEF QueueInv
<1>4. /\ Line \in Seq(ServerFrames) /\ Len(delivered) <= Len(Line)
      /\ \A n \in 1..Len(delivered) : Line[n] = delivered[n]
  BY <1>3, Borders DEF Line
<1>5. ASSUME Holds("writer")
      PROVE  Len(delivered) < Len(Line) /\ Line[Len(delivered) + 1] = pump["writer"]
  <2>1. Held = <<pump["writer"]>> /\ Len(Held) = 1 /\ Held[1] = pump["writer"]
    BY <1>5 DEF Held
  <2>2. /\ delivered \o Held \in Seq(ServerFrames)
        /\ Len(delivered \o Held) = Len(delivered) + 1 /\ Len(delivered) \in Nat
        /\ Len(outbound) \in Nat
        /\ (delivered \o Held)[Len(delivered) + 1] = pump["writer"]
    BY <2>1, <1>3, ConcatProperties, LenProperties
  <2>3. PICK s \in Seq(ServerFrames) : s = delivered \o Held
    BY <2>2
  <2>4. /\ Len(s \o outbound) = Len(s) + Len(outbound)
        /\ \A i \in 1..Len(s) + Len(outbound) :
             (s \o outbound)[i] = IF i <= Len(s) THEN s[i] ELSE outbound[i - Len(s)]
    BY <1>3, ConcatProperties
  <2>5. /\ Len(Line) = Len(delivered) + 1 + Len(outbound)
        /\ Line[Len(delivered) + 1] = s[Len(delivered) + 1]
    BY <2>2, <2>3, <2>4 DEF Line
  <2> QED BY <2>2, <2>3, <2>5
<1> QED BY <1>1, <1>2, <1>4, <1>5

\* writeFinal's error frame reaches the client.
Tells == ReportFailure /\ delivered' = Append(delivered, Error)

\* The steps that put nothing on the line.
Quiet ==
  \/ \E frame \in ClientFrames : ReaderQueues(frame)
  \/ ReaderRejects \/ ReaderFails \/ InputTakes \/ InputWrites \/ InputResizes
  \/ \E o \in Outputs : OutputReads(o)
  \/ WaiterReports
  \/ RunStep(Failures) /\ UNCHANGED <<streamVars, execVars>>
  \/ Establish \/ AwaitAck \/ (ReportFailure /\ UNCHANGED delivered) \/ CloseRuntime
  \/ ClientOrServer \/ RuntimeRuns \/ RuntimeEnds \/ UNCHANGED vars

\* They leave queue, socket and writer pump alone.
LEMMA QuietLine ==
  ASSUME ExecInv, Quiet
  PROVE  /\ UNCHANGED <<delivered, outbound>> /\ Line' = Line
         /\ pump'["writer"] = pump["writer"]
              \/ (pump["writer"] = Off /\ pump'["writer"] = Waiting)
<1>1. UNCHANGED <<delivered, outbound>>
  BY DEF Quiet, ReaderQueues, ReaderRejects, ReaderFails, InputTakes, InputWrites,
         InputResizes, OutputReads, WaiterReports, Establish, AwaitAck, ReportFailure,
         CloseRuntime, ClientOrServer, RuntimeRuns, RuntimeEnds, vars, sessionVars, execVars,
         queues
<1>2. \/ pump'["writer"] = pump["writer"]
      \/ pump["writer"] = Off /\ pump'["writer"] = Waiting
  <2>1. CASE Establish /\ OpenSucceeds /\ pump' = [p \in Pumps |-> Waiting]
    <3>1. ~Carried
      BY <2>1 DEF ExecInv, RunInv, OpenSucceeds, Opening
    <3> QED BY <2>1, <3>1 DEF ExecInv, PumpInv, Pumps
  <2>2. CASE \E p \in Pumps \ {"writer"} : \E state : Becomes(p, state)
    BY <2>2 DEF Becomes, ExecInv, PumpInv
  <2>3. CASE UNCHANGED pump
    BY <2>3
  <2>4. CASE \/ \E frame \in ClientFrames : ReaderQueues(frame)
             \/ ReaderRejects \/ ReaderFails
    <3>1. "reader" \in Pumps \ {"writer"}
      BY DEF Pumps
    <3>2. \E state : Becomes("reader", state)
      BY <2>4, Zenon DEF ReaderQueues, ReaderRejects, ReaderFails
    <3> QED BY <3>1, <3>2, <2>2
  <2>5. CASE InputTakes \/ InputWrites \/ InputResizes
    <3>1. "input" \in Pumps \ {"writer"}
      BY DEF Pumps
    <3>2. \E state : Becomes("input", state)
      BY <2>5, Zenon DEF InputTakes, InputWrites, InputResizes
    <3> QED BY <3>1, <3>2, <2>2
  <2>6. CASE \E o \in Outputs : OutputReads(o)
    <3>1. PICK o \in Outputs : \E state : Becomes(o, state)
      BY <2>6, Zenon DEF OutputReads
    <3>2. o \in Pumps \ {"writer"}
      BY FrameKinds DEF Pumps
    <3> QED BY <3>1, <3>2, <2>2
  <2>7. CASE WaiterReports
    <3>1. "waiter" \in Pumps \ {"writer"}
      BY DEF Pumps
    <3> QED BY <3>1, <2>7, <2>2 DEF WaiterReports
  <2> QED BY <2>1, <2>3, <2>4, <2>5, <2>6, <2>7, NoPumpKeeps DEF Quiet, NoPump, Establish
<1>3. Held' = Held
  BY <1>2 DEF Held, Holds
<1> QED BY <1>1, <1>2, <1>3 DEF Line

\* The error frame goes after what was delivered, before what is held and queued,
\* which leaves order, places and the end of the output as they were.
LEMMA TellsLine ==
  ASSUME ExecInv, Tells
  PROVE  /\ UNCHANGED pump
         /\ InOrder(delivered) => InOrder(delivered)'
         /\ ExitLast(delivered) => ExitLast(delivered)'
         /\ InOrder(Line) => InOrder(Line)'
         /\ ExitLast(Line) => ExitLast(Line)'
         /\ (\A n \in 1..Len(Line) : Line[n] # Exit) => \A n \in 1..Len(Line') : Line'[n] # Exit
         /\ \A o \in Outputs : NextChunk(o)' = NextChunk(o)
<1>t. /\ delivered \in Seq(ServerFrames) /\ outbound \in Seq(ServerFrames)
      /\ Held \in Seq(ServerFrames) /\ Error \in ServerFrames
  BY LineFacts, SeqsOfFrames, FrameKinds DEF ExecInv, QueueInv
<1>1. UNCHANGED <<pump, outbound>> /\ delivered' = Append(delivered, Error)
  BY DEF Tells, ReportFailure, queues
<1>2. Held' = Held
  BY <1>1 DEF Held, Holds
<1>3. PICK d \in Seq(ServerFrames), h \in Seq(ServerFrames), q \in Seq(ServerFrames) :
        d = delivered /\ h = Held /\ q = outbound
  BY <1>t
<1>4. PICK e \in Seq(ServerFrames), s \in Seq(ServerFrames), t \in Seq(ServerFrames) :
        /\ e = Append(d, Error) /\ s = (d \o h) \o q /\ t = (e \o h) \o q
  BY <1>t, AppendProperties, ConcatProperties
<1>5. e = delivered' /\ s = Line /\ t = Line'
  BY <1>1, <1>2, <1>3, <1>4 DEF Line
<1>l. /\ Len(d) \in Nat /\ Len(h) \in Nat /\ Len(q) \in Nat
      /\ Len(e) = Len(d) + 1 /\ e[Len(d) + 1] = Error /\ \A n \in 1..Len(d) : e[n] = d[n]
  BY <1>4, <1>t, AppendProperties, LenProperties
<1>6. /\ InOrder(d) => InOrder(e)
      /\ ExitLast(d) => ExitLast(e)
  <2>1. Len(d) \in 0..Len(d) /\ \A n \in (Len(d) + 1)..Len(d) : e[n + 1] = d[n]
    BY <1>l
  <2> QED BY <2>1, <1>l, Inserted
<1>7. /\ Len(s) = Len(d) + Len(h) + Len(q) /\ Len(t) = Len(s) + 1
      /\ \A n \in 1..Len(d) : t[n] = s[n]
      /\ t[Len(d) + 1] = Error
      /\ \A n \in (Len(d) + 1)..Len(s) : t[n + 1] = s[n]
  <2>1. PICK u \in Seq(ServerFrames), v \in Seq(ServerFrames) : u = d \o h /\ v = e \o h
    BY ConcatProperties
  <2>2. /\ Len(u) = Len(d) + Len(h)
        /\ \A i \in 1..Len(d) + Len(h) : u[i] = IF i <= Len(d) THEN d[i] ELSE h[i - Len(d)]
        /\ Len(v) = Len(e) + Len(h)
        /\ \A i \in 1..Len(e) + Len(h) : v[i] = IF i <= Len(e) THEN e[i] ELSE h[i - Len(e)]
    BY <2>1, ConcatProperties
  <2>3. /\ Len(s) = Len(u) + Len(q)
        /\ \A i \in 1..Len(u) + Len(q) : s[i] = IF i <= Len(u) THEN u[i] ELSE q[i - Len(u)]
        /\ Len(t) = Len(v) + Len(q)
        /\ \A i \in 1..Len(v) + Len(q) : t[i] = IF i <= Len(v) THEN v[i] ELSE q[i - Len(v)]
    BY <2>1, <1>4, ConcatProperties
  <2>4. Len(s) = Len(d) + Len(h) + Len(q) /\ Len(t) = Len(s) + 1
    BY <2>2, <2>3, <1>l
  <2>5. ASSUME NEW n \in 1..Len(d) PROVE t[n] = s[n]
    <3>1. u[n] = d[n] /\ v[n] = e[n] /\ e[n] = d[n] /\ n <= Len(u) /\ n <= Len(v)
      BY <2>2, <1>l
    <3> QED BY <3>1, <2>2, <2>3, <1>l
  <2>6. t[Len(d) + 1] = Error
    BY <2>2, <2>3, <1>l
  <2>7. ASSUME NEW n \in (Len(d) + 1)..Len(s) PROVE t[n + 1] = s[n]
    <3>1. CASE n <= Len(u)
      <4>1. u[n] = h[n - Len(d)] /\ v[n + 1] = h[(n + 1) - Len(e)]
        BY <3>1, <2>2, <1>l
      <4>2. s[n] = u[n] /\ t[n + 1] = v[n + 1] /\ (n + 1) - Len(e) = n - Len(d)
        BY <3>1, <2>2, <2>3, <1>l
      <4> QED BY <4>1, <4>2
    <3>2. CASE n > Len(u)
      <4>1. s[n] = q[n - Len(u)] /\ t[n + 1] = q[(n + 1) - Len(v)]
        BY <3>2, <2>2, <2>3, <2>4, <1>l
      <4>2. (n + 1) - Len(v) = n - Len(u)
        BY <2>2, <1>l
      <4> QED BY <4>1, <4>2
    <3> QED BY <3>1, <3>2, <2>2, <1>l
  <2> QED BY <2>4, <2>5, <2>6, <2>7
<1>8. /\ InOrder(s) => InOrder(t)
      /\ ExitLast(s) => ExitLast(t)
      /\ (\A n \in 1..Len(s) : s[n] # Exit) => \A n \in 1..Len(t) : t[n] # Exit
      /\ \A o \in Outputs : Place(t, o, Len(t)) = Place(s, o, Len(s))
  <2>1. Len(d) \in 0..Len(s)
    BY <1>7, <1>l
  <2> QED BY <2>1, <1>7, Inserted
<1>9. /\ InOrder(delivered) => InOrder(delivered)'
      /\ ExitLast(delivered) => ExitLast(delivered)'
  BY <1>3, <1>5, <1>6 DEF InOrder, ExitLast, Place
<1>10. /\ InOrder(Line) => InOrder(Line)'
       /\ ExitLast(Line) => ExitLast(Line)'
       /\ \A o \in Outputs : NextChunk(o)' = NextChunk(o)
  <2> HIDE DEF Line
  <2> QED BY <1>5, <1>8 DEF InOrder, ExitLast, NextChunk, Place
<1> QED BY <1>1, <1>5, <1>8, <1>9, <1>10

\* How a step changes the line while the writer goes on: not at all, or an output
\* pump appends the chunk it holds, or the main goroutine the exit frame, or that
\* puts the error frame in.
LEMMA LineStep ==
  ASSUME ExecInv, [Next]_vars
  PROVE  /\ pump'["writer"] = Stopped => delivered' = delivered \/ Tells
         /\ pump'["writer"] # Stopped =>
              /\ pump["writer"] # Stopped
              /\ \/ /\ Line' = Line
                    /\ \/ Quiet \/ SelectCompleted \/ WriterTakes \/ WriterWrites
                       \/ \E o \in Outputs : OutputEnqueues(o) /\ pump'[o] = Stopped
                 \/ \E o \in Outputs :
                      /\ OutputEnqueues(o)
                      /\ pump'[o] = Waiting /\ Line' = Append(Line, pump[o])
                 \/ /\ SelectCompleted /\ completed = "exit"
                    /\ Line' = Append(Line, Exit)
                 \/ Tells
<1>t. /\ delivered \in Seq(ServerFrames) /\ outbound \in Seq(ServerFrames)
      /\ Held \in Seq(ServerFrames) /\ Exit \in ServerFrames /\ Error \in ServerFrames
      /\ Off # Waiting /\ Off # Stopped /\ Waiting # Stopped
      /\ pump \in [Pumps -> {Off, Waiting, Stopped} \cup ClientFrames \cup OutputFrames]
      /\ "writer" \in Pumps /\ Outputs \subseteq Pumps /\ "writer" \notin Outputs
  BY LineFacts, FrameKinds, SeqsOfFrames DEF ExecInv, QueueInv, PumpInv, Pumps, ServerFrames
<1>o. outbound \in Seq(OutputFrames) /\ \A f \in OutputFrames : f \in ServerFrames
  BY DEF ExecInv, QueueInv, ServerFrames
<1>1. CASE Quiet
  BY <1>1, <1>t, QuietLine
<1>2. CASE WriterTakes
  <2>1. CASE outbound # <<>> /\ Becomes("writer", Head(outbound)) /\ outbound' = Tail(outbound)
    <3>1. Head(outbound) \in OutputFrames
      BY <2>1, <1>o, HeadTailProperties
    <3>2. pump'["writer"] = Head(outbound) /\ Head(outbound) \notin {Off, Waiting, Stopped}
      BY <2>1, <3>1, <1>t, FrameKinds DEF Becomes
    <3>3. Held' = <<Head(outbound)>> /\ Held = <<>>
      BY <3>2, <1>2 DEF Held, Holds, WriterTakes
    <3>4. delivered' = delivered /\ pump["writer"] # Stopped
      BY <1>2, <1>t DEF WriterTakes
    <3>5. Line' = Line
      BY <2>1, <3>3, <3>4, <1>t, Borders DEF Line
    <3> QED BY <3>2, <3>4, <3>5, <1>2
  <2>2. CASE Becomes("writer", Stopped)
    BY <2>2, <1>2, <1>t DEF WriterTakes, Becomes
  <2> QED BY <2>1, <2>2, <1>2 DEF WriterTakes
<1>3. CASE WriterWrites
  <2>0. pump["writer"] # Stopped /\ pump["writer"] \in OutputFrames
    BY <1>3, LineFacts DEF WriterWrites, Holds, ExecInv
  <2>1. CASE delivered' = Append(delivered, pump["writer"]) /\ Becomes("writer", Waiting)
    <3>1. pump'["writer"] = Waiting /\ UNCHANGED outbound
      BY <2>1, <1>3, <1>t DEF Becomes, WriterWrites, queues
    <3>2. Held' = <<>> /\ Held = <<pump["writer"]>>
      BY <3>1, <1>3 DEF Held, Holds, WriterWrites
    <3>3. Line' = Line
      BY <2>0, <2>1, <3>1, <3>2, <1>t, <1>o, Borders DEF Line
    <3> QED BY <3>1, <3>3, <2>0, <1>3, <1>t
  <2>2. CASE Becomes("writer", Stopped) /\ UNCHANGED delivered
    BY <2>2, <1>3, <1>t DEF Becomes
  <2>3. \/ delivered' = Append(delivered, pump["writer"]) /\ Becomes("writer", Waiting)
        \/ Becomes("writer", Stopped) /\ UNCHANGED delivered
    BY <1>3, Zenon DEF WriterWrites
  <2> QED BY <2>1, <2>2, <2>3
<1>4. ASSUME NEW o \in Outputs, OutputEnqueues(o)
      PROVE  /\ UNCHANGED delivered /\ pump'["writer"] = pump["writer"]
             /\ \/ Line' = Line /\ pump'[o] = Stopped
                \/ pump'[o] = Waiting /\ Line' = Append(Line, pump[o])
  <2>1. PICK r \in SendResults(outbound, OutboundQueue) :
          /\ outbound' = IF r = "queued" THEN Append(outbound, pump[o]) ELSE outbound
          /\ Becomes(o, IF r = "queued" THEN Waiting ELSE Stopped)
    BY <1>4 DEF OutputEnqueues
  <2>2. UNCHANGED delivered /\ pump'["writer"] = pump["writer"]
    BY <2>1, <1>4, <1>t DEF OutputEnqueues, Becomes
  <2>3. Held' = Held
    BY <2>2 DEF Held, Holds
  <2>4. pump[o] \in OutputFrames
    BY <1>4, <1>t, FrameKinds DEF OutputEnqueues, Holds, ExecInv, PumpInv, FramesOf, OutputFrames
  <2>5. CASE r = "queued"
    <3>1. outbound' = Append(outbound, pump[o]) /\ pump'[o] = Waiting
      BY <2>1, <2>5, <1>t DEF Becomes
    <3>2. Line' = Append(Line, pump[o])
      BY <3>1, <2>2, <2>3, <2>4, <1>t, <1>o, Borders DEF Line
    <3> QED BY <3>1, <3>2, <2>2
  <2>6. CASE r # "queued"
    <3>1. outbound' = outbound /\ pump'[o] = Stopped
      BY <2>1, <2>6, <1>t DEF Becomes
    <3> QED BY <3>1, <2>2, <2>3 DEF Line
  <2> QED BY <2>5, <2>6
<1>5. CASE SelectCompleted
  <2>1. UNCHANGED <<delivered, pump>>
    BY <1>5 DEF SelectCompleted
  <2>2. Held' = Held
    BY <2>1 DEF Held, Holds
  <2>3. UNCHANGED outbound \/ (completed = "exit" /\ outbound' = Append(outbound, Exit))
    BY <1>5 DEF SelectCompleted
  <2>4. CASE UNCHANGED outbound
    BY <2>1, <2>2, <2>4, <1>5 DEF Line
  <2>5. CASE completed = "exit" /\ outbound' = Append(outbound, Exit)
    <3>1. Line' = Append(Line, Exit)
      BY <2>1, <2>2, <2>5, <1>t, Borders DEF Line
    <3> QED BY <3>1, <2>1, <2>5, <1>5
  <2> QED BY <2>3, <2>4, <2>5
<1>6. CASE Tells
  <2>1. UNCHANGED pump
    BY <1>6 DEF Tells, ReportFailure
  <2> QED BY <2>1, <1>6
<1>7. ReportFailure => Tells \/ Quiet
  BY DEF ReportFailure, Tells, Quiet
<1> HIDE DEF Line, Tells
<1> QED BY <1>1, <1>2, <1>3, <1>4, <1>5, <1>6, <1>7 DEF Next, MainStep, Quiet

-----------------------------------------------------------------------------
(* The order of the output                                                 *)

\* An output pump's account of its chunks, while the line grows by none of them.
LEMMA ChunkSteps ==
  ASSUME ExecInv, NEW o \in Outputs, ChunkInv(o),
         \/ Quiet \/ SelectCompleted \/ WriterTakes \/ WriterWrites \/ Tells
         \/ \E p \in Outputs \ {o} : OutputEnqueues(p),
         NextChunk(o) \in Nat, NextChunk(o)' = NextChunk(o),
         pump[o] # Stopped, pump'[o] # Stopped
  PROVE  ChunkInv(o)'
<1>t. /\ pipe \in [Outputs -> {"empty", "chunk", "closed"}]
      /\ written \in [Outputs -> 0..MaxOutput] /\ MaxOutput \in Nat
      /\ pump \in [Pumps -> {Off, Waiting, Stopped} \cup ClientFrames \cup OutputFrames]
      /\ o \in Pumps \ {"reader", "input", "writer", "waiter"} /\ Outputs \subseteq Pumps
      /\ {"reader", "input", "writer", "waiter"} \subseteq Pumps
  BY ExecStreamAssumption, FrameKinds DEF ExecInv, StreamInv, StreamTypeOK, PumpInv, Pumps
<1>n. PICK k \in Nat : k = NextChunk(o) /\ k = NextChunk(o)'
  OBVIOUS
<1>i. /\ pump[o] \notin {Off, Waiting, Stopped} => pump[o] = <<o, k>>
      /\ pipe[o] # "closed" =>
           written[o] + 1 = k + (IF pump[o] \notin {Off, Waiting, Stopped} THEN 1 ELSE 0)
                              + (IF pipe[o] = "chunk" THEN 1 ELSE 0)
  BY <1>n DEF ChunkInv, Holds
<1> SUFFICES
      /\ pump'[o] \notin {Off, Waiting, Stopped} => pump'[o] = <<o, k>>
      /\ pipe'[o] # "closed" =>
           written'[o] + 1 = k + (IF pump'[o] \notin {Off, Waiting, Stopped} THEN 1 ELSE 0)
                               + (IF pipe'[o] = "chunk" THEN 1 ELSE 0)
  BY <1>n DEF ChunkInv, Holds
<1>1. CASE UNCHANGED <<pump[o], pipe[o], written[o]>>
  BY <1>1, <1>i
<1>2. CASE OutputReads(o)
  <2>1. ReadChunk(o) /\ Becomes(o, <<o, written[o]>>)
    BY <1>2, <1>t DEF OutputReads, Becomes
  <2>2. /\ pump[o] = Waiting /\ pipe[o] = "chunk" /\ pipe'[o] = "empty"
        /\ written' = written /\ pump'[o] = <<o, written[o]>>
    BY <2>1, <1>2, <1>t DEF OutputReads, ReadChunk, Becomes
  <2>3. written[o] = k
    BY <2>2, <1>i, <1>t
  <2>4. written[o] \in 1..MaxOutput
    BY <2>2, <1>t DEF ExecInv, StreamInv
  <2>5. <<o, k>> \notin {Off, Waiting, Stopped}
    BY <2>3, <2>4, FrameKinds
  <2> QED BY <2>2, <2>3, <2>5
<1>3. CASE Produce(o) /\ UNCHANGED pump
  <2>1. /\ pipe[o] = "empty" /\ pipe'[o] = "chunk" /\ written'[o] = written[o] + 1
        /\ pump'[o] = pump[o]
    BY <1>3, <1>t DEF Produce
  <2>2. written[o] \in Nat
    BY <1>t
  <2> QED BY <2>1, <2>2, <1>i
<1>4. CASE ExecutorDone /\ UNCHANGED pump
  BY <1>4, <1>i DEF ExecutorDone
<1>5. CASE OpenSucceeds /\ pump' = [p \in Pumps |-> Waiting] /\ UNCHANGED streamVars
  <2>1. pump[o] = Off /\ pump'[o] = Waiting /\ UNCHANGED <<pipe, written>>
    BY <1>5, <1>t DEF ExecInv, RunInv, PumpInv, OpenSucceeds, Opening, streamVars
  <2> QED BY <2>1, <1>i
<1>6. ASSUME NEW p \in Outputs, p # o,
             OutputReads(p) \/ OutputEnqueues(p) \/ (Produce(p) /\ UNCHANGED pump)
      PROVE  UNCHANGED <<pump[o], pipe[o], written[o]>>
  <2>1. CASE OutputReads(p)
    <3>1. PICK state : Becomes(p, state)
      BY <2>1, Zenon DEF OutputReads
    <3>2. pump'[o] = pump[o]
      BY <3>1, <1>6, <1>t DEF Becomes
    <3>3. pipe'[o] = pipe[o] /\ written' = written
      BY <2>1, <1>6, <1>t DEF OutputReads, ReadChunk, streamVars
    <3> QED BY <3>2, <3>3
  <2>2. CASE OutputEnqueues(p)
    <3>1. PICK state : Becomes(p, state)
      BY <2>2, Zenon DEF OutputEnqueues
    <3>2. pump'[o] = pump[o]
      BY <3>1, <1>6, <1>t DEF Becomes
    <3> QED BY <3>2, <2>2 DEF OutputEnqueues, streamVars
  <2>3. CASE Produce(p) /\ UNCHANGED pump
    BY <2>3, <1>6, <1>t DEF Produce
  <2> QED BY <1>6, <2>1, <2>2, <2>3
<1>7. CASE \/ \E frame \in ClientFrames : ReaderQueues(frame)
           \/ ReaderRejects \/ ReaderFails \/ InputTakes \/ InputWrites \/ InputResizes
           \/ WriterTakes \/ WriterWrites \/ WaiterReports
  <2>1. PICK p \in {"reader", "input", "writer", "waiter"} : \E state : Becomes(p, state)
    BY <1>7, Zenon
    DEF ReaderQueues, ReaderRejects, ReaderFails, InputTakes, InputWrites, InputResizes,
        WriterTakes, WriterWrites, WaiterReports
  <2>2. pump'[o] = pump[o]
    BY <2>1, <1>t DEF Becomes
  <2>3. UNCHANGED <<pipe, written>>
    BY <1>7
    DEF ReaderQueues, ReaderRejects, ReaderFails, InputTakes, InputWrites, InputResizes,
        WriterTakes, WriterWrites, WaiterReports, streamVars
  <2> QED BY <2>2, <2>3, <1>1
<1>8. CASE \/ RunStep(Failures) /\ UNCHANGED <<streamVars, execVars>>
           \/ Establish /\ UNCHANGED pump
           \/ SelectCompleted \/ AwaitAck \/ ReportFailure \/ CloseRuntime \/ ClientOrServer
           \/ UNCHANGED vars
           \/ (SizeTaken \/ ExecutorReturns(ctxDone)) /\ UNCHANGED pump
  BY <1>8, <1>1
  DEF Establish, SelectCompleted, AwaitAck, ReportFailure, CloseRuntime, Terminate,
      ClientOrServer, SizeTaken, ExecutorReturns, vars, sessionVars, execVars, streamVars
<1>9. CASE RuntimeRuns \/ RuntimeEnds
  <2>1. UNCHANGED pump
    BY <1>9 DEF RuntimeRuns, RuntimeEnds, sessionVars, execVars
  <2> QED BY <2>1, <1>9, <1>1, <1>3, <1>4, <1>6, <1>8 DEF RuntimeRuns, RuntimeEnds
<1>10. CASE \E p \in Outputs : OutputReads(p)
  <2>1. PICK p \in Outputs : OutputReads(p)
    BY <1>10
  <2>2. CASE p = o
    BY <2>1, <2>2, <1>2
  <2>3. CASE p # o
    <3>1. UNCHANGED <<pump[o], pipe[o], written[o]>>
      BY <2>1, <2>3, <1>6
    <3> QED BY <3>1, <1>1
  <2> QED BY <2>2, <2>3
<1>11. CASE \E p \in Outputs \ {o} : OutputEnqueues(p)
  <2>1. PICK p \in Outputs : p # o /\ OutputEnqueues(p)
    BY <1>11
  <2>2. UNCHANGED <<pump[o], pipe[o], written[o]>>
    BY <2>1, <1>6
  <2> QED BY <2>2, <1>1
<1>12. CASE Establish
  BY <1>12, <1>5, <1>8 DEF Establish
<1> QED BY <1>7, <1>8, <1>9, <1>10, <1>11, <1>12 DEF Quiet, Tells

\* The same after a step.
LEMMA LineFactsNext ==
  (PumpInv /\ QueueInv)' =>
     /\ delivered' \in Seq(ServerFrames) /\ Line' \in Seq(ServerFrames)
     /\ Len(delivered') <= Len(Line')
     /\ \A n \in 1..Len(delivered') : Line'[n] = delivered'[n]
<1> DEFINE fact == /\ delivered \in Seq(ServerFrames) /\ Line \in Seq(ServerFrames)
                   /\ Len(delivered) <= Len(Line)
                   /\ \A n \in 1..Len(delivered) : Line[n] = delivered[n]
<1>1. PumpInv /\ QueueInv => fact
  BY LineFacts DEF QueueInv
<1> HIDE DEF fact
<1>2. (PumpInv /\ QueueInv)' => fact'
  BY <1>1, PTL
<1> QED BY <1>2 DEF fact

\* An output pump that stopped stays so.
LEMMA StaysStopped ==
  ASSUME ExecInv, [Next]_vars, NEW o \in Outputs, pump[o] = Stopped
  PROVE  pump'[o] = Stopped
<1>t. /\ pump \in [Pumps -> {Off, Waiting, Stopped} \cup ClientFrames \cup OutputFrames]
      /\ o \in Pumps \ {"reader", "input", "writer", "waiter"} /\ Outputs \subseteq Pumps
      /\ Off # Stopped /\ Waiting # Stopped
  BY FrameKinds DEF ExecInv, PumpInv, Pumps
<1>1. CASE NoPump
  BY <1>1, NoPumpKeeps
<1>2. CASE OpenSucceeds
  BY <1>2, <1>t DEF ExecInv, RunInv, PumpInv, OpenSucceeds, Opening
<1>3. CASE \E p \in Pumps \ {o} : \E state : Becomes(p, state)
  BY <1>3, <1>t DEF Becomes
<1>4. CASE \E p \in Outputs : OutputReads(p) \/ OutputEnqueues(p)
  <2>1. PICK p \in Outputs : OutputReads(p) \/ OutputEnqueues(p)
    BY <1>4
  <2>2. p # o
    BY <2>1, <1>t DEF OutputReads, OutputEnqueues, Holds
  <2>3. \E state : Becomes(p, state)
    BY <2>1, Zenon DEF OutputReads, OutputEnqueues
  <2> QED BY <2>2, <2>3, <1>3, <1>t
<1>5. CASE \/ \E frame \in ClientFrames : ReaderQueues(frame)
           \/ ReaderRejects \/ ReaderFails \/ InputTakes \/ InputWrites \/ InputResizes
           \/ WriterTakes \/ WriterWrites \/ WaiterReports
  <2>1. PICK p \in {"reader", "input", "writer", "waiter"} : \E state : Becomes(p, state)
    BY <1>5, Zenon
    DEF ReaderQueues, ReaderRejects, ReaderFails, InputTakes, InputWrites, InputResizes,
        WriterTakes, WriterWrites, WaiterReports
  <2> QED BY <2>1, <1>3, <1>t DEF Pumps
<1> QED BY <1>1, <1>2, <1>4, <1>5 DEF Next, MainStep, NoPump, Establish

\* Every step keeps the order of the line and of what was delivered.
LEMMA OrderStep == ExecInv /\ ExitInv /\ OrderInv /\ [Next]_vars => OrderInv'
<1> SUFFICES ASSUME ExecInv, ExitInv, OrderInv, [Next]_vars PROVE OrderInv'
  OBVIOUS
<1>0. ExecInv'
  BY StreamStep, PumpStep, QueueStep, ControlStep DEF ExecInv
<1>1. CASE pump'["writer"] = Stopped
  <2>1. CASE delivered' = delivered
    BY <2>1, <1>1 DEF OrderInv, InOrder, Place
  <2>2. CASE Tells
    BY <2>2, <1>1, TellsLine DEF OrderInv
  <2> QED BY <2>1, <2>2, <1>1, LineStep
<1>2. CASE pump'["writer"] # Stopped
  <2>1. /\ pump["writer"] # Stopped /\ InOrder(Line)
        /\ \A o \in Outputs : pump[o] # Stopped => ChunkInv(o)
    BY <1>2, LineStep DEF OrderInv
  <2>2. Line \in Seq(ServerFrames) /\ Len(Line) \in 0..Len(Line)
    BY LineFacts, LenProperties DEF ExecInv
  <2>n. \A o \in Outputs : NextChunk(o) \in Nat
    BY <2>2, Places DEF NextChunk
  <2>s. ASSUME NEW o \in Outputs, pump'[o] # Stopped PROVE pump[o] # Stopped
    BY <2>s, StaysStopped
  <2>3. InOrder(Line)' /\ \A o \in Outputs : pump'[o] # Stopped => ChunkInv(o)'
    <3>1. CASE /\ Line' = Line
               /\ \/ Quiet \/ SelectCompleted \/ WriterTakes \/ WriterWrites
                  \/ \E o \in Outputs : OutputEnqueues(o) /\ pump'[o] = Stopped
      <4>1. InOrder(Line)'
        BY <3>1, <2>1 DEF InOrder, Place
      <4>2. ASSUME NEW o \in Outputs, pump'[o] # Stopped PROVE ChunkInv(o)'
        <5>1. \/ Quiet \/ SelectCompleted \/ WriterTakes \/ WriterWrites
              \/ \E p \in Outputs \ {o} : OutputEnqueues(p)
          BY <3>1, <4>2
        <5>2. NextChunk(o)' = NextChunk(o)
          BY <3>1 DEF NextChunk, Place
        <5> QED BY <5>1, <5>2, <4>2, <2>1, <2>n, <2>s, ChunkSteps
      <4> QED BY <4>1, <4>2
    <3>2. CASE \E p \in Outputs :
                 OutputEnqueues(p) /\ pump'[p] = Waiting /\ Line' = Append(Line, pump[p])
      <4>1. PICK p \in Outputs :
              OutputEnqueues(p) /\ pump'[p] = Waiting /\ Line' = Append(Line, pump[p])
        BY <3>2
      <4>2. /\ pump[p] = <<p, NextChunk(p)>> /\ pump[p] \in ServerFrames
            /\ pump[p][1] = p /\ pump[p][2] = NextChunk(p) /\ Holds(p)
        <5>1. Holds(p) /\ pump[p] # Stopped
          BY <4>1 DEF OutputEnqueues, Holds
        <5>2. pump[p] \in OutputFrames
          BY <5>1, FrameKinds DEF Holds, ExecInv, PumpInv, FramesOf, Pumps, OutputFrames
        <5> QED BY <5>1, <5>2, <2>1 DEF ChunkInv, ServerFrames
      <4>3. /\ InOrder(Append(Line, pump[p]))
            /\ \A o \in Outputs : Place(Append(Line, pump[p]), o, Len(Append(Line, pump[p])))
                 = Place(Line, o, Len(Line)) + (IF p = o THEN 1 ELSE 0)
        <5>1. pump[p][2] = Place(Line, pump[p][1], Len(Line)) + 1
          BY <4>2 DEF NextChunk
        <5> QED BY <5>1, <4>2, <2>1, <2>2, Follows
      <4>4. InOrder(Line)'
        BY <4>1, <4>3 DEF InOrder, Place
      <4>5. \A o \in Outputs : NextChunk(o)' = NextChunk(o) + (IF p = o THEN 1 ELSE 0)
        <5> SUFFICES ASSUME NEW o \in Outputs
                     PROVE  NextChunk(o)' = NextChunk(o) + (IF p = o THEN 1 ELSE 0)
          OBVIOUS
        <5>1. PICK t : t = Append(Line, pump[p]) /\ t = Line'
          BY <4>1
        <5>2. NextChunk(o)' = Place(t, o, Len(t)) + 1
          BY <5>1 DEF NextChunk, Place
        <5>3. Place(t, o, Len(t)) = Place(Line, o, Len(Line)) + (IF p = o THEN 1 ELSE 0)
          BY <5>1, <4>3
        <5>4. Place(Line, o, Len(Line)) \in Nat
          BY <2>2, Places
        <5> QED BY <5>2, <5>3, <5>4 DEF NextChunk
      <4>6. ASSUME NEW o \in Outputs, o # p, pump'[o] # Stopped PROVE ChunkInv(o)'
        <5>1. NextChunk(o)' = NextChunk(o) /\ NextChunk(o) \in Nat
          BY <4>5, <4>6, <2>n
        <5>2. \E q \in Outputs \ {o} : OutputEnqueues(q)
          BY <4>1, <4>6
        <5> QED BY <5>1, <5>2, <4>6, <2>1, <2>s, ChunkSteps
      <4>7. ChunkInv(p)'
        <5>1. /\ NextChunk(p)' = NextChunk(p) + 1 /\ NextChunk(p) \in Nat
              /\ UNCHANGED <<pipe, written>> /\ ~Holds(p)'
          BY <4>1, <4>5, <2>n DEF OutputEnqueues, streamVars, Holds
        <5>2. /\ ChunkInv(p) /\ Holds(p) /\ written[p] \in Nat
          BY <4>2, <2>1, ExecStreamAssumption DEF Holds, ExecInv, StreamInv, StreamTypeOK
        <5> QED BY <5>1, <5>2 DEF ChunkInv
      <4> QED BY <4>4, <4>6, <4>7
    <3>3. CASE SelectCompleted /\ completed = "exit" /\ Line' = Append(Line, Exit)
      <4>1. completed # None
        BY <3>3, ExecStreamAssumption
      <4>2. \A o \in Outputs : pump[o] = Stopped
        BY <4>1 DEF ExitInv
      <4>3. InOrder(Append(Line, Exit))
        BY <2>1, <2>2, Follows, FrameKinds DEF ServerFrames
      <4>4. InOrder(Line)'
        BY <3>3, <4>3 DEF InOrder, Place
      <4> QED BY <4>2, <4>4, <2>s
    <3>4. CASE Tells
      <4>1. InOrder(Line)' /\ \A o \in Outputs : NextChunk(o)' = NextChunk(o)
        BY <3>4, <2>1, TellsLine
      <4>2. ASSUME NEW o \in Outputs, pump'[o] # Stopped PROVE ChunkInv(o)'
        BY <3>4, <4>1, <4>2, <2>1, <2>n, <2>s, ChunkSteps
      <4> QED BY <4>1, <4>2
    <3> QED BY <3>1, <3>2, <3>3, <3>4, <1>2, LineStep
  <2>4. InOrder(delivered)'
    <3>1. PICK d, l : d = delivered' /\ l = Line'
      OBVIOUS
    <3>2. /\ d \in Seq(ServerFrames) /\ l \in Seq(ServerFrames) /\ Len(d) <= Len(l)
          /\ \A n \in 1..Len(d) : d[n] = l[n]
      <4>1. (PumpInv /\ QueueInv)'
        BY <1>0 DEF ExecInv
      <4>2. /\ delivered' \in Seq(ServerFrames) /\ Line' \in Seq(ServerFrames)
            /\ Len(delivered') <= Len(Line')
            /\ \A n \in 1..Len(delivered') : Line'[n] = delivered'[n]
        BY <4>1, LineFactsNext
      <4> QED BY <4>2, <3>1
    <3>3. InOrder(l)
      BY <2>3, <3>1 DEF InOrder, Place
    <3>4. InOrder(d)
      BY <3>2, <3>3, Beginnings
    <3> QED BY <3>1, <3>4 DEF InOrder, Place
  <2> QED BY <2>3, <2>4 DEF OrderInv
<1> QED BY <1>1, <1>2

-----------------------------------------------------------------------------
(* The exit frame                                                          *)

\* The waiter stops once, by its report, and what it waited for stays so.
LEMMA WaiterStep ==
  ASSUME ExecInv, [Next]_vars
  PROVE  /\ pump["waiter"] = Stopped => pump'["waiter"] = Stopped
         /\ pump'["waiter"] = Stopped => pump["waiter"] = Stopped \/ WaiterReports
         /\ executor = "done" => executor' = "done" /\ result' = result
<1>t. /\ pump \in [Pumps -> {Off, Waiting, Stopped} \cup ClientFrames \cup OutputFrames]
      /\ "waiter" \in Pumps /\ {"reader", "input", "writer"} \cup Outputs \subseteq Pumps
      /\ "waiter" \notin {"reader", "input", "writer"} \cup Outputs
      /\ Off # Stopped /\ Waiting # Stopped /\ Off # Waiting
  BY FrameKinds DEF ExecInv, PumpInv, Pumps
<1>1. executor = "done" => executor' = "done" /\ result' = result
  <2>1. CASE NoStream
    BY <2>1, NoStreamKeeps DEF streamVars
  <2>2. CASE InputResizes \/ CloseRuntime \/ RuntimeRuns \/ RuntimeEnds
             \/ \E o \in Outputs : OutputReads(o)
    BY <2>2
    DEF InputResizes, CloseRuntime, Terminate, RuntimeRuns, Produce, SizeTaken, RuntimeEnds,
        ExecutorReturns, ExecutorDone, OutputReads, ReadChunk, streamVars
  <2> QED BY <2>1, <2>2 DEF Next, MainStep, NoStream
<1>2. CASE NoPump
  BY <1>1, <1>2, NoPumpKeeps
<1>3. CASE OpenSucceeds /\ pump' = [p \in Pumps |-> Waiting]
  BY <1>1, <1>3, <1>t DEF ExecInv, RunInv, PumpInv, OpenSucceeds, Opening
<1>4. CASE WaiterReports
  BY <1>1, <1>4, <1>t DEF WaiterReports
<1>5. CASE \/ \E frame \in ClientFrames : ReaderQueues(frame)
           \/ ReaderRejects \/ ReaderFails \/ InputTakes \/ InputWrites \/ InputResizes
           \/ \E o \in Outputs : OutputReads(o) \/ OutputEnqueues(o)
           \/ WriterTakes \/ WriterWrites
  <2>1. PICK p \in {"reader", "input", "writer"} \cup Outputs : \E state : Becomes(p, state)
    BY <1>5, Zenon
    DEF ReaderQueues, ReaderRejects, ReaderFails, InputTakes, InputWrites, InputResizes,
        OutputReads, OutputEnqueues, WriterTakes, WriterWrites
  <2>2. pump'["waiter"] = pump["waiter"]
    BY <2>1, <1>t DEF Becomes
  <2> QED BY <2>2, <1>1
<1> QED BY <1>2, <1>3, <1>4, <1>5 DEF Next, MainStep, NoPump, Establish

\* A completion is what the executor returned, and is reported once.
LEMMA CompletedStep ==
  ASSUME ExecInv, [Next]_vars
  PROVE  \/ completed' = completed \/ completed' = None
         \/ WaiterReports /\ completed' = result /\ result' = result
<1>1. CASE WaiterReports
  BY <1>1 DEF WaiterReports, streamVars
<1>2. CASE SelectCompleted
  BY <1>2 DEF SelectCompleted
<1>3. CASE ~WaiterReports /\ ~SelectCompleted
  BY <1>3
  DEF Next, MainStep, ReaderQueues, ReaderRejects, ReaderFails, InputTakes, InputWrites,
      InputResizes, OutputReads, OutputEnqueues, WriterTakes, WriterWrites, Establish, AwaitAck,
      ReportFailure, CloseRuntime, ClientOrServer, RuntimeRuns, RuntimeEnds, vars, sessionVars, execVars, results
<1> QED BY <1>1, <1>2, <1>3

\* The acks change only when the writer writes, the frames delivered also by the
\* error frame; and only the completion is followed by the wait for the ack.
LEMMA AckStep ==
  ASSUME [Next]_vars, ~WriterWrites
  PROVE  /\ ack' = ack /\ (delivered' = delivered \/ Tells)
         /\ main' = "ack" => delivered' = delivered /\ (main = "ack" \/ SelectCompleted)
<1>1. CASE ReportFailure
  BY <1>1 DEF ReportFailure, WriteTerminalError, Tells, results
<1>2. CASE SelectCompleted
  BY <1>2 DEF SelectCompleted
<1>3. CASE RunStep(Failures) /\ UNCHANGED <<streamVars, execVars>>
  BY <1>3 DEF RunStep, Admit, Upgrade, Deferred, SelectSignal, Select, WriteFinal, Cancel,
              Complete, execVars, results
<1>4. CASE Establish \/ AwaitAck \/ CloseRuntime \/ ClientOrServer
  BY <1>4 DEF Establish, OpenFails, OpenSucceeds, AwaitAck, Select, CloseRuntime, GraceOver,
              ClientOrServer, Environment, execVars, results, control
<1>5. CASE \/ PumpActs \/ UNCHANGED vars
  BY <1>5
  DEF PumpActs, ReaderQueues, ReaderRejects, ReaderFails, InputTakes, InputWrites,
       InputResizes, OutputReads, OutputEnqueues, WriterTakes, WaiterReports, RuntimeRuns,
       RuntimeEnds, vars, sessionVars, runVars, control, execVars, results
<1> QED BY <1>1, <1>2, <1>3, <1>4, <1>5 DEF Next, MainStep, PumpActs

\* Once the command has exited and its completion was taken, that stays so.
LEMMA ExitedStays ==
  ASSUME ExecInv, ExitInv, [Next]_vars, Exited
  PROVE  Exited'
<1>1. executor = "done" /\ pump["waiter"] = Stopped /\ completed = None /\ result = "exit"
  BY DEF ExitInv, Exited
<1>2. pump'["waiter"] = Stopped /\ result' = "exit"
  BY <1>1, WaiterStep
<1>3. ~WaiterReports
  BY <1>1, FrameKinds DEF WaiterReports
<1>4. completed' = None
  BY <1>1, <1>3, CompletedStep
<1> QED BY <1>2, <1>4 DEF Exited

\* Every step keeps output from following the exit frame.
LEMMA ExitStep == ExecInv /\ ExitInv /\ [Next]_vars => ExitInv'
<1> SUFFICES ASSUME ExecInv, ExitInv, [Next]_vars PROVE ExitInv'
  OBVIOUS
<1>0. ExecInv'
  BY StreamStep, PumpStep, QueueStep, ControlStep DEF ExecInv
<1>1. pump'["waiter"] = Stopped =>
        executor' = "done" /\ \A o \in Outputs : pump'[o] = Stopped
  <2>1. ASSUME pump'["waiter"] = Stopped
        PROVE  executor = "done" /\ \A o \in Outputs : pump[o] = Stopped
    BY <2>1, WaiterStep DEF ExitInv, WaiterReports
  <2> QED BY <2>1, WaiterStep, StaysStopped
<1>2. completed' # None => pump'["waiter"] = Stopped /\ completed' = result'
  <2>1. CASE completed' = completed /\ completed # None
    BY <2>1, WaiterStep DEF ExitInv
  <2>2. CASE WaiterReports /\ completed' = result /\ result' = result
    <3>1. pump'["waiter"] = Stopped
      BY <2>2 DEF WaiterReports, Becomes, ExecInv, PumpInv, Pumps
    <3> QED BY <3>1, <2>2
  <2> QED BY <2>1, <2>2, CompletedStep
<1>l. Line \in Seq(ServerFrames) /\ Len(Line) \in Nat
  BY LineFacts, LenProperties DEF ExecInv
<1>3. pump'["writer"] # Stopped =>
        /\ ExitLast(Line)' /\ ((\A n \in 1..Len(Line') : Line'[n] # Exit) \/ Exited')
  <2> SUFFICES ASSUME pump'["writer"] # Stopped
               PROVE  /\ ExitLast(Line)'
                      /\ ((\A n \in 1..Len(Line') : Line'[n] # Exit) \/ Exited')
    OBVIOUS
  <2>1. /\ ExitLast(Line) /\ ((\A n \in 1..Len(Line) : Line[n] # Exit) \/ Exited)
    BY LineStep DEF ExitInv
  <2>2. CASE Line' = Line
    <3>1. ExitLast(Line)'
      BY <2>1, <2>2 DEF ExitLast
    <3> QED BY <2>1, <2>2, <3>1, ExitedStays
  <2>3. CASE \E o \in Outputs :
               OutputEnqueues(o) /\ pump'[o] = Waiting /\ Line' = Append(Line, pump[o])
    <3>1. PICK o \in Outputs :
            OutputEnqueues(o) /\ pump'[o] = Waiting /\ Line' = Append(Line, pump[o])
      BY <2>3
    <3>2. Holds(o) /\ pump[o] # Stopped
      BY <3>1 DEF OutputEnqueues, Holds
    <3>3. ~Exited /\ \A n \in 1..Len(Line) : Line[n] # Exit
      BY <3>2, <2>1 DEF ExitInv, Exited
    <3>4. pump[o] \in ServerFrames /\ pump[o] # Exit
      BY <3>2, FrameKinds
      DEF Holds, ExecInv, PumpInv, FramesOf, Pumps, OutputFrames, ServerFrames
    <3>5. \A n \in 1..Len(Line') : Line'[n] # Exit
      BY <3>1, <3>3, <3>4, <1>l, AppendProperties
    <3> QED BY <3>5 DEF ExitLast
  <2>4. CASE SelectCompleted /\ completed = "exit" /\ Line' = Append(Line, Exit)
    <3>1. completed # None
      BY <2>4, ExecStreamAssumption
    <3>2. \A n \in 1..Len(Line) : Line[n] # Exit
      BY <3>1, <2>1 DEF Exited
    <3>3. /\ Len(Line') = Len(Line) + 1 /\ \A n \in 1..Len(Line) : Line'[n] = Line[n]
      BY <2>4, <1>l, AppendProperties, FrameKinds DEF ServerFrames
    <3>4. \A m, n \in 1..Len(Line') : m < n /\ Line'[m] = Exit => Line'[n] = Error
      BY <3>2, <3>3, <1>l
    <3>5. Exited'
      BY <2>4, <3>1 DEF ExitInv, Exited, SelectCompleted, streamVars
    <3> QED BY <3>4, <3>5 DEF ExitLast
  <2>5. CASE Tells
    BY <2>5, <2>1, TellsLine, ExitedStays
  <2> QED BY <2>2, <2>3, <2>4, <2>5, LineStep
<1>4. ExitLast(delivered)'
  <2>1. CASE pump'["writer"] = Stopped
    <3>1. CASE delivered' = delivered
      BY <3>1 DEF ExitInv, ExitLast
    <3>2. CASE Tells
      BY <3>2, TellsLine DEF ExitInv
    <3> QED BY <3>1, <3>2, <2>1, LineStep
  <2>2. CASE pump'["writer"] # Stopped
    <3>1. PICK d, l : d = delivered' /\ l = Line'
      OBVIOUS
    <3>2. /\ d \in Seq(ServerFrames) /\ l \in Seq(ServerFrames) /\ Len(d) <= Len(l)
          /\ \A n \in 1..Len(d) : d[n] = l[n]
      BY <3>1, <1>0, LineFactsNext DEF ExecInv
    <3>3. ExitLast(l)
      BY <2>2, <3>1, <1>3 DEF ExitLast
    <3>4. ExitLast(d)
      BY <3>2, <3>3, Beginnings
    <3> QED BY <3>1, <3>4 DEF ExitLast
  <2> QED BY <2>1, <2>2
<1>d. delivered \in Seq(ServerFrames) /\ Len(delivered) \in Nat
  BY LenProperties DEF ExecInv, QueueInv
<1>5. ack' = "ok" =>
        /\ Exited' /\ \E n \in 1..Len(delivered') : delivered'[n] = Exit
        /\ main' = "ack" => delivered' # <<>> /\ delivered'[Len(delivered')] = Exit
  <2> SUFFICES ASSUME ack' = "ok"
               PROVE  /\ Exited' /\ \E n \in 1..Len(delivered') : delivered'[n] = Exit
                      /\ main' = "ack" => /\ delivered' # <<>>
                                          /\ delivered'[Len(delivered')] = Exit
    OBVIOUS
  <2>1. CASE ~WriterWrites
    <3>1. /\ ack = "ok" /\ (delivered' = delivered \/ Tells)
          /\ main' = "ack" => delivered' = delivered /\ (main = "ack" \/ SelectCompleted)
      BY <2>1, AckStep
    <3>2. Exited /\ Exited' /\ \E n \in 1..Len(delivered) : delivered[n] = Exit
      BY <3>1, ExitedStays DEF ExitInv
    <3>3. ~SelectCompleted
      BY <3>2 DEF Exited, SelectCompleted
    <3>4. main' = "ack" => delivered' # <<>> /\ delivered'[Len(delivered')] = Exit
      BY <3>1, <3>3 DEF ExitInv
    <3>5. \E n \in 1..Len(delivered') : delivered'[n] = Exit
      <4>1. CASE delivered' = delivered
        BY <4>1, <3>2
      <4>2. CASE Tells
        <5>1. /\ Len(delivered') = Len(delivered) + 1
              /\ \A n \in 1..Len(delivered) : delivered'[n] = delivered[n]
          BY <4>2, <1>d, FrameKinds, AppendProperties DEF Tells
        <5> QED BY <5>1, <3>2, <1>d
      <4> QED BY <4>1, <4>2, <3>1
    <3> QED BY <3>2, <3>4, <3>5
  <2>2. CASE WriterWrites
    <3>1. /\ pump["writer"] # Stopped /\ pump["writer"] \in OutputFrames
          /\ Len(delivered) < Len(Line) /\ Line[Len(delivered) + 1] = pump["writer"]
          /\ Len(delivered) \in Nat /\ delivered \in Seq(ServerFrames)
          /\ \A n \in 1..Len(delivered) : Line[n] = delivered[n]
      BY <2>2, LineFacts, LenProperties DEF WriterWrites, Holds, ExecInv, QueueInv
    <3>2. /\ ExitLast(Line) /\ ((\A n \in 1..Len(Line) : Line[n] # Exit) \/ Exited)
      BY <3>1 DEF ExitInv
    <3>3. ack # "ok"
      <4> SUFFICES ASSUME ack = "ok" PROVE FALSE
        OBVIOUS
      <4>1. PICK n \in 1..Len(delivered) : delivered[n] = Exit
        BY DEF ExitInv
      <4>2. /\ n \in 1..Len(Line) /\ n < Len(delivered) + 1 /\ Line[n] = Exit
            /\ Len(delivered) + 1 \in 1..Len(Line)
        BY <4>1, <3>1, <1>l
      <4>3. pump["writer"] = Error
        BY <4>2, <3>1, <3>2 DEF ExitLast
      <4> QED BY <4>3, <3>1, FrameKinds
    <3>4. pump["writer"] = Exit /\ delivered' = Append(delivered, Exit)
      BY <2>2, <3>3, ExecSessionAssumption DEF WriterWrites
    <3>5. Exited
      BY <3>1, <3>2, <3>4, <1>l
    <3>6. /\ delivered' # <<>> /\ delivered'[Len(delivered')] = Exit
          /\ Len(delivered') \in 1..Len(delivered')
      BY <3>1, <3>4, FrameKinds, AppendProperties DEF ServerFrames
    <3> QED BY <3>5, <3>6, ExitedStays
  <2> QED BY <2>1, <2>2
<1> QED BY <1>1, <1>2, <1>3, <1>4, <1>5 DEF ExitInv

\* Order and exit frame, from the beginning.
THEOREM LineInvariant == Spec => [](ExitInv /\ OrderInv)
<1>1. Init => ExitInv /\ OrderInv
  <2> SUFFICES ASSUME Init PROVE ExitInv /\ OrderInv
    OBVIOUS
  <2>1. ExecInv
    BY ExecInit
  <2>2. /\ \A p \in Pumps : pump[p] = Off
        /\ delivered = <<>> /\ outbound = <<>> /\ completed = None /\ ack = None
        /\ \A o \in Outputs : pipe[o] = "empty" /\ written[o] = 0
    BY DEF Init, StreamInit
  <2>3. Off # Stopped /\ {"waiter", "writer"} \cup Outputs \subseteq Pumps
    BY FrameKinds DEF Pumps
  <2>4. Line = <<>> /\ <<>> \in Seq(ServerFrames) /\ Len(Line) = 0
    <3>1. Held = <<>>
      BY <2>2, <2>3 DEF Held, Holds
    <3>2. <<>> \in Seq(ServerFrames) /\ <<>> \o <<>> = <<>>
      BY ConcatEmptySeq, EmptySeq
    <3> QED BY <3>1, <3>2, <2>2, EmptySeq DEF Line
  <2>5. \A o \in Outputs : NextChunk(o) = 1
    <3>1. \A o \in Outputs : Place(<<>>, o, 0) = 0
      <4>1. \A o \in Outputs : {m \in 1..0 : (<<>>)[m][1] = o} = {}
        OBVIOUS
      <4> QED BY <4>1, FS_EmptySet DEF Place
    <3> QED BY <2>4, <3>1 DEF NextChunk
  <2>6. \A o \in Outputs : ChunkInv(o)
    BY <2>2, <2>3, <2>5 DEF ChunkInv, Holds
  <2>7. InOrder(delivered) /\ InOrder(Line) /\ ExitLast(delivered) /\ ExitLast(Line)
    BY <2>2, <2>4 DEF InOrder, ExitLast
  <2>8. OrderInv
    BY <2>6, <2>7 DEF OrderInv
  <2>9. ExitInv
    BY <2>2, <2>3, <2>4, <2>7, ExecSessionAssumption DEF ExitInv
  <2> QED BY <2>8, <2>9
<1>2. ExecInv /\ ExitInv /\ OrderInv /\ [Next]_vars => (ExitInv /\ OrderInv)'
  BY OrderStep, ExitStep
<1> QED BY <1>1, <1>2, ExecInvariant, PTL DEF Spec

\* What the client sees of each output is a prefix of what the command wrote,
\* chunk by chunk: none is lost before one that is shown, duplicated or reordered.
THEOREM OutputPrefix == Spec => []OutputIsPrefix
<1>1. OrderInv => OutputIsPrefix
  BY DEF OrderInv, OutputIsPrefix
<1> QED BY <1>1, LineInvariant, PTL

\* After the exit frame the client gets no output and no second exit frame: nothing
\* but the error frame of writeFinal, which the wait for the ack allows for.
THEOREM ExitEndsOutput == Spec => []NoOutputAfterExit
<1>1. ExitInv => NoOutputAfterExit
  BY DEF ExitInv, NoOutputAfterExit
<1> QED BY <1>1, LineInvariant, PTL

-----------------------------------------------------------------------------
(* The outcome                                                             *)

\* Every step keeps a signal that can still be taken true.
LEMMA SignalStep == ExecInv /\ SignalInv /\ [Next]_vars => SignalInv'
<1> SUFFICES ASSUME ExecInv, SignalInv, [Next]_vars PROVE SignalInv'
  OBVIOUS
<1>0. /\ main \in {"admit", "upgrade", "establish", "select", "ack"} => ~canceled
      /\ main = "establish" => outcomes = NoOutcome
  BY DEF ExecInv, RunInv, Opening
<1> USE DEF SignalInv, ctxDone, NoOutcome
<1>1. ASSUME NEW frame \in ClientFrames, ReaderQueues(frame) PROVE SignalInv'
  BY <1>0, <1>1 DEF ReaderQueues, Signal, contexts, control
<1>2. CASE ReaderRejects
  BY <1>0, <1>2 DEF ReaderRejects, Signal, TooBig, contexts, control
<1>3. CASE ReaderFails
  BY <1>0, <1>3 DEF ReaderFails, SocketReadFails, ReadOutcome, Signal, contexts, control
<1>4. CASE InputWrites
  BY <1>0, <1>4 DEF InputWrites, Signal, contexts, control
<1>5. CASE InputResizes
  BY <1>0, <1>5 DEF InputResizes, Signal, contexts, control
<1>6. ASSUME NEW o \in Outputs, OutputEnqueues(o) PROVE SignalInv'
  BY <1>0, <1>6 DEF OutputEnqueues, Signal, contexts, control
<1>7. CASE WriterWrites
  <2>1. UNCHANGED <<contexts, control>>
    BY <1>7 DEF WriterWrites
  <2>2. \/ UNCHANGED <<socket, outcomes>>
        \/ SocketWriteFails
    BY <1>7 DEF WriterWrites
  <2> QED BY <1>0, <2>1, <2>2
          DEF SocketWriteFails, WriteOutcomes, ReadOutcome, Signal, contexts, control
<1>8. CASE RunStep(Failures)
  BY <1>0, <1>8
  DEF RunStep, Admit, Upgrade, Deferred, SelectSignal, Select, WriteFinal, Cancel, Complete,
      contexts, books
<1>r. CASE ReportFailure
  BY <1>0, <1>r DEF ReportFailure, WriteTerminalError, contexts, books
<1>9. CASE Establish
  BY <1>0, <1>9 DEF Establish, OpenFails, OpenSucceeds, contexts, books
<1>10. CASE SelectCompleted
  BY <1>0, <1>10 DEF SelectCompleted, Select, Signal, contexts, books
<1>11. CASE AwaitAck
  BY <1>0, <1>11 DEF AwaitAck, Select, contexts, books
<1>12. CASE CloseRuntime
  BY <1>0, <1>12 DEF CloseRuntime, GraceOver, contexts, books
<1>13. CASE ClientOrServer
  BY <1>0, <1>13 DEF ClientOrServer, Environment, control
<1>14. CASE UNCHANGED runVars
  BY <1>14 DEF runVars, contexts, control
<1>15. CASE \/ InputTakes \/ WriterTakes \/ WaiterReports \/ RuntimeRuns \/ RuntimeEnds
            \/ (\E o \in Outputs : OutputReads(o)) \/ UNCHANGED vars
  BY <1>14, <1>15
  DEF InputTakes, WriterTakes, WaiterReports, RuntimeRuns, RuntimeEnds, OutputReads, vars,
      sessionVars
<1> QED
  BY <1>1, <1>2, <1>3, <1>4, <1>5, <1>6, <1>7, <1>8, <1>r, <1>9, <1>10, <1>11, <1>12, <1>13,
     <1>15
  DEF Next, MainStep

\* What OutcomeIsTrue asks of the outcome selected, and of a pump that signals
\* backpressure.
SelectsTrue ==
  /\ outcome' = "normal" => /\ result = "exit" /\ delivered # <<>>
                            /\ delivered[Len(delivered)] = Exit
  /\ outcome' = "client_closed" => socket = "peerClosed"
  /\ outcome' = "shutdown" => shutdown
  /\ outcome' = "backpressure" => \/ shutdown \/ outcomes = "backpressure"
                                  \/ Len(outbound) >= OutboundQueue
SignalsTrue ==
  outcomes' = "backpressure" => \/ outcomes = "backpressure"
                                \/ Len(inputs) >= InboundQueue
                                \/ Len(outbound) >= OutboundQueue
                                \/ sizes >= ResizeQueue

\* The steps that select an outcome.
LEMMA Selections ==
  ASSUME ExecInv, ExitInv, SignalInv, Next, outcome = NoOutcome
  PROVE  SelectsTrue
<1>0. /\ main \in {"select", "ack"} => ~canceled
      /\ outcomes # "normal"
      /\ main \in {"select", "ack"} => /\ outcomes = "client_closed" => socket = "peerClosed"
                                       /\ outcomes = "shutdown" => shutdown
  BY DEF ExecInv, RunInv, SignalInv
<1> USE DEF SelectsTrue, NoOutcome
<1>1. CASE UNCHANGED outcome
  BY <1>1
<1>2. CASE SelectSignal
  BY <1>0, <1>2 DEF SelectSignal, Select, ctxDone
<1>3. CASE Establish
  BY <1>3 DEF Establish, OpenFails, OpenSucceeds
<1>4. CASE SelectCompleted
  BY <1>0, <1>4 DEF SelectCompleted, Select, SendResults, ctxDone
<1>5. CASE AwaitAck
  <2>1. CASE ack = "ok" /\ Select("normal")
    BY <2>1, <1>5 DEF ExitInv, Exited, Select, AwaitAck
  <2>2. CASE \E o \in WriteOutcomes : Select(o)
    BY <2>2, <1>0, <1>5 DEF AwaitAck, Select, WriteOutcomes, ReadOutcome, ctxDone
  <2>3. CASE (outcomes # NoOutcome /\ Select(outcomes)) \/ (ctxDone /\ Select("shutdown"))
    BY <2>3, <1>0, <1>5 DEF AwaitAck, Select, ctxDone
  <2> QED BY <2>1, <2>2, <2>3, <1>5 DEF AwaitAck
<1>6. \/ UNCHANGED outcome \/ SelectSignal \/ Establish \/ SelectCompleted \/ AwaitAck
  BY DEF Next, MainStep, ReaderQueues, ReaderRejects, ReaderFails, InputTakes, InputWrites,
         InputResizes, OutputReads, OutputEnqueues, WriterTakes, WriterWrites, WaiterReports,
         RunStep, Admit, Upgrade, Deferred, WriteFinal, WriteTerminalError, ReportFailure,
         Cancel, Complete, CloseRuntime, GraceOver, ClientOrServer, Environment, RuntimeRuns, RuntimeEnds, sessionVars, runVars,
         control
<1> QED BY <1>1, <1>2, <1>3, <1>4, <1>5, <1>6

\* The steps that signal backpressure found a queue full.
LEMMA Backpressure ==
  ASSUME ExecInv, Next
  PROVE  SignalsTrue
<1>t. /\ Len(inputs) \in Nat /\ Len(outbound) \in Nat /\ sizes \in Nat
      /\ InboundQueue \in Nat /\ OutboundQueue \in Nat /\ ResizeQueue \in Nat
  BY ExecSessionAssumption, ExecStreamAssumption
  DEF ExecInv, QueueInv, StreamInv, StreamTypeOK
<1> USE DEF SignalsTrue, Signal, NoOutcome
<1>1. ASSUME NEW frame \in ClientFrames, ReaderQueues(frame) PROVE SignalsTrue
  BY <1>1, <1>t DEF ReaderQueues, SendResults
<1>2. ASSUME NEW o \in Outputs, OutputEnqueues(o) PROVE SignalsTrue
  BY <1>2, <1>t DEF OutputEnqueues, SendResults
<1>3. CASE InputResizes
  BY <1>3, <1>t DEF InputResizes, ResizeResults
<1>4. CASE SelectCompleted
  BY <1>4, <1>t DEF SelectCompleted, SendResults
<1>5. CASE \/ ReaderRejects \/ ReaderFails \/ InputWrites \/ WriterWrites
  BY <1>5
  DEF ReaderRejects, TooBig, ReaderFails, SocketReadFails, ReadOutcome, InputWrites,
      WriterWrites, SocketWriteFails, WriteOutcomes
<1>6. CASE outcomes' = outcomes \/ outcomes' = NoOutcome
  BY <1>6
<1>7. CASE \/ InputTakes \/ WriterTakes \/ WaiterReports \/ RuntimeRuns \/ RuntimeEnds
           \/ (\E o \in Outputs : OutputReads(o)) \/ RunStep(Failures) \/ Establish \/ AwaitAck
           \/ ReportFailure \/ CloseRuntime \/ ClientOrServer
  BY <1>6, <1>7
  DEF InputTakes, WriterTakes, WaiterReports, RuntimeRuns, RuntimeEnds, OutputReads, RunStep,
      Admit, Upgrade, Deferred, SelectSignal, WriteFinal, WriteTerminalError, ReportFailure,
      Cancel, Complete, Establish, OpenFails, OpenSucceeds, AwaitAck, CloseRuntime, GraceOver, ClientOrServer, Environment,
      sessionVars, runVars
<1> QED BY <1>1, <1>2, <1>3, <1>4, <1>5, <1>7 DEF Next, MainStep

\* The outcome an exec session reports is what happened: in particular `normal'
\* only once the exit frame of a command that exited was written, and
\* `backpressure' only for a queue that was full.
THEOREM OutcomeTrue == Spec => OutcomeIsTrue
<1>1. Init => SignalInv
  BY DEF Init, RunInit, SignalInv, NoOutcome
<1>2. Spec => []SignalInv
  BY <1>1, SignalStep, ExecInvariant, PTL DEF Spec
<1>3. ExecInv /\ ExitInv /\ SignalInv /\ [Next]_vars =>
        [outcome = NoOutcome => SelectsTrue /\ SignalsTrue]_vars
  BY Selections, Backpressure
<1> QED
  BY <1>2, <1>3, ExecInvariant, LineInvariant, PTL
  DEF Spec, OutcomeIsTrue, SelectsTrue, SignalsTrue

-----------------------------------------------------------------------------
(* The connection                                                          *)

StreamOf == IF ~Carried THEN "none" ELSE IF terminated THEN "closed" ELSE "open"

\* The connection an exec session is, before and after a step.
LEMMA ConnectionNow ==
  ASSUME ExecInv, ExecInv'
  PROVE  LET now == AsConnection(StreamOf)
         IN /\ now \in ConnectionStates /\ IsNow(now, Carried, terminated)
            /\ now' \in ConnectionStates /\ IsNow(now, Carried, terminated)'
<1>1. /\ Stage \in Stages /\ closes \in Nat /\ active \in Nat
      /\ StreamOf \in {"none", "open", "closed"}
  BY StageType DEF ExecInv, RunInv, RunTypeOK, StreamOf
<1>2. /\ Stage' \in Stages /\ closes' \in Nat /\ active' \in Nat
      /\ StreamOf' \in {"none", "open", "closed"}
  <2>1. Stage' \in Stages
    BY DEF Stage, Stages
  <2> QED BY <2>1 DEF ExecInv, RunInv, RunTypeOK, StreamOf
<1> HIDE DEF Stage
<1> QED BY <1>1, <1>2, ConnectionFields DEF AsConnection, IsNow, StreamOf

\* Every step of an exec session is a step of the Connection it implements, or
\* none.
LEMMA ConnectionStep ==
  ExecInv /\ [Next]_vars => [Conn!Next]_(AsConnection(StreamOf))
<1> SUFFICES ASSUME ExecInv, [Next]_vars
             PROVE  [Conn!Next]_(AsConnection(StreamOf))
  OBVIOUS
<1>0. PICK carried \in BOOLEAN, stopped \in BOOLEAN :
        carried = Carried /\ stopped = terminated /\ RunInv(carried, stopped)
  BY Control
<1>1. /\ ExecInv' /\ (terminated => terminated')
      /\ Carried' = Carried \/ (OpenSucceeds /\ Carried')
  BY StreamStep, PumpStep, QueueStep, ControlStep DEF ExecInv
<1>2. PICK opened \in BOOLEAN, ended \in BOOLEAN : opened = Carried' /\ ended = terminated'
  BY <1>1 DEF ExecInv, StreamInv, StreamTypeOK, Carried
<1> DEFINE now == AsConnection(StreamOf)
<1>3. PICK c \in ConnectionStates, d \in ConnectionStates :
        c = now /\ d = now' /\ IsNow(c, carried, stopped) /\ IsNow(d, opened, ended)'
  <2>1. /\ now \in ConnectionStates /\ IsNow(now, Carried, terminated)
        /\ now' \in ConnectionStates /\ IsNow(now, Carried, terminated)'
    BY <1>1, ConnectionNow
  <2>2. /\ Carried = carried /\ terminated = stopped
        /\ Carried' = opened /\ terminated' = ended
    BY <1>0, <1>2
  <2> HIDE DEF now
  <2> QED BY <2>1, <2>2 DEF IsNow
<1> SUFFICES c = d \/ Successor(c, d)
  BY <1>3, Zenon
  DEF Successor, Conn!Next, Conn!Refused, Conn!Admitted, Conn!HandedOver, Conn!Opened,
      Conn!Ended, Conn!Closed, StreamOf
<1> HIDE DEF now
<1>s. ASSUME UNCHANGED <<Stage, closes, active>>, opened = carried, ended = stopped
      PROVE  c = d
  <2>1. /\ d.stage = c.stage /\ d.stream = c.stream
        /\ d.closes = c.closes /\ d.active = c.active
    BY <1>s, <1>3 DEF IsNow
  <2> QED BY <2>1, Successors, Zenon
<1>4. CASE PumpActs \/ CloseRuntime
  <2>1. carried = TRUE /\ opened = TRUE
    <3>1. Carried
      <4>1. CASE PumpActs
        BY <4>1, PumpRuns, FrameKinds
        DEF ExecInv, PumpActs, ReaderQueues, ReaderRejects, ReaderFails, InputTakes,
            InputWrites, InputResizes, OutputReads, OutputEnqueues, WriterTakes, WriterWrites,
            WaiterReports, RuntimeRuns, RuntimeEnds, Holds, Pumps, ClientFrames
      <4>2. CASE CloseRuntime
        BY <4>2, <1>0, GraceOverCloses DEF CloseRuntime
      <4> QED BY <4>1, <4>2, <1>4
    <3>2. Carried'
      BY <3>1, <1>1
    <3> QED BY <3>1, <3>2, <1>0, <1>2
  <2>2. UNCHANGED <<Stage, closes, active>>
    <3>1. CASE PumpActs
      BY <3>1, <1>0, PumpActsTypes DEF RunInv, control, books, Stage
    <3>2. CASE CloseRuntime
      BY <3>2 DEF CloseRuntime, GraceOver, Stage, books
    <3> QED BY <3>1, <3>2, <1>4
  <2>3. stopped => ended
    BY <1>0, <1>1, <1>2
  <2> QED BY <2>1, <2>2, <2>3, <1>0, <1>3, ClosedSuccessor
<1>5. CASE RunStep(Failures) /\ UNCHANGED <<streamVars, execVars>>
  <2>1. opened = carried /\ ended = stopped
    BY <1>0, <1>2, <1>5 DEF Carried, streamVars, execVars
  <2> QED BY <2>1, <1>0, <1>3, <1>5, RunStepSuccessor
<1>r. CASE ReportFailure
  <2>1. opened = carried /\ ended = stopped
    BY <1>0, <1>2, <1>r DEF ReportFailure, Carried, streamVars
  <2>2. UNCHANGED <<Stage, closes, active>>
    BY <1>0, <1>r, TerminalErrorKeeps DEF ReportFailure
  <2> QED BY <2>1, <2>2, <1>s
<1>6. CASE Establish
  <2>1. CASE OpenFails({"invalid_start", "runtime_unavailable"}) /\ UNCHANGED pump
    <3>1. opened = carried /\ ended = stopped
      BY <1>0, <1>2, <1>6, <2>1 DEF Establish, Carried, streamVars
    <3>2. UNCHANGED <<Stage, closes, active>>
      BY <2>1 DEF OpenFails, Stage, books
    <3> QED BY <3>1, <3>2, <1>s
  <2>2. CASE OpenSucceeds /\ pump' = [p \in Pumps |-> Waiting]
    <3>1. ~carried /\ ~stopped
      BY <1>0, <2>2, OpenSucceedsCarries
    <3>2. opened = TRUE /\ ended = FALSE
      BY <3>1, <1>0, <1>2, <1>6, <2>2, FrameKinds DEF Establish, Carried, Pumps, streamVars
    <3> QED BY <3>2, <2>2, <1>0, <1>3, OpenSucceedsSuccessor
  <2> QED BY <2>1, <2>2, <1>6 DEF Establish
<1>7. CASE SelectCompleted \/ AwaitAck
  <2>1. opened = carried /\ ended = stopped
    BY <1>0, <1>2, <1>7 DEF SelectCompleted, AwaitAck, Carried, streamVars, execVars
  <2> QED BY <2>1, <1>0, <1>7, <1>s, SelectKeeps
<1>8. CASE ClientOrServer \/ UNCHANGED vars
  <2>1. opened = carried /\ ended = stopped
    BY <1>0, <1>2, <1>8 DEF ClientOrServer, Carried, vars, sessionVars, streamVars, execVars
  <2>2. UNCHANGED <<Stage, closes, active>>
    BY <1>8 DEF ClientOrServer, Environment, Stage, vars, sessionVars, runVars, control, books
  <2> QED BY <2>1, <2>2, <1>s
<1> QED
  BY <1>4, <1>5, <1>r, <1>6, <1>7, <1>8 DEF Next, MainStep, PumpActs

\* Every step of an exec session is one of its Connection: its lease is returned
\* at most once, by ServeHTTP or by Run and never by both, only after an opened
\* stream was ended, and the gauge of connected sessions falls with it.
THEOREM TakesConnectionSteps == Spec => Conn!Steps
<1>1. Init => Conn!Init
  <2> SUFFICES ASSUME Init PROVE AsConnection(StreamOf) = Conn!Arrived
    BY DEF Conn!Init, StreamOf
  <2>1. Stage = "arrived" /\ closes = 0 /\ active = 0 /\ StreamOf = "none"
    BY DEF Init, RunInit, Stage, StreamOf, Carried, Pumps
  <2> QED BY <2>1 DEF AsConnection, Conn!Arrived
<1>2. ExecInv /\ [Next]_vars => [Conn!Next]_(AsConnection(StreamOf))
  BY ConnectionStep
<1> QED BY <1>1, <1>2, ExecInvariant, PTL DEF Spec, Conn!Steps, StreamOf
=============================================================================
