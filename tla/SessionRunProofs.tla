-------------------------- MODULE SessionRunProofs --------------------------
(***************************************************************************)
(* What every step of the main goroutine keeps, for the two kinds of       *)
(* session that share it.  The stream belongs to those: here `carried'     *)
(* says that it was opened and `stopped' that it was closed.               *)
(***************************************************************************)
EXTENDS SessionRun, TLAPS

Opening  == {"admit", "upgrade", "establish", "refuse", "dismiss"}
Carrying == {"select", "ack", "final", "close", "cancel", "grace"}

\* Where the main goroutine is tells whether there is a stream; it has not
\* returned the lease before complete or the deferred function do, and one of
\* the two, told by the release flag, is responsible for it; the gauge counts the
\* session while its stream is carried; and the stream is closed by then.  Only
\* the session's own end calls cancel().
RunInv(carried, stopped) ==
  /\ RunTypeOK
  /\ main \in Opening => ~carried
  /\ main \in Carrying => carried
  /\ stopped => carried
  /\ main \in {"complete", "deferred", "done"} /\ carried => stopped
  /\ main = "upgrade" => release
  /\ release => main \in {"upgrade", "deferred", "done"}
  /\ main \in Opening \cup Carrying \cup {"complete"} => closes = 0
  /\ main = "deferred" => closes = IF release THEN 0 ELSE 1
  /\ release /\ main = "deferred" => ~carried
  /\ active = IF carried /\ main \notin {"deferred", "done"} THEN 1 ELSE 0
  /\ main \in {"admit", "upgrade", "establish", "select", "ack"} => ~canceled
  /\ ~carried => outcomes = NoOutcome
  /\ main \in {"admit", "upgrade", "establish", "select", "ack"} => outcome = NoOutcome

\* A request arrives with no stream, no lease and nothing counted.
LEMMA RunInitInv ==
  ASSUME NEW carried \in BOOLEAN, NEW stopped \in BOOLEAN, ~carried, ~stopped, RunInit
  PROVE  RunInv(carried, stopped)
<1> USE DEF RunInit, Opening, Carrying
<1>1. RunTypeOK
  <2>1. sent \in 0..MaxMessages /\ closes \in Nat /\ active \in 0..1
    BY SessionRunAssumption
  <2>2. outcomes \in Outcomes \cup {NoOutcome} /\ outcome \in Outcomes \cup {NoOutcome}
    OBVIOUS
  <2>3. shutdown \in BOOLEAN /\ canceled \in BOOLEAN /\ release \in BOOLEAN
    OBVIOUS
  <2> QED BY <2>1, <2>2, <2>3 DEF RunTypeOK
<1> QED BY <1>1 DEF RunInv

\* The steps of the main goroutine that do not touch the stream.
LEMMA RunStepKeeps ==
  ASSUME NEW carried \in BOOLEAN, NEW stopped \in BOOLEAN,
         NEW told, RunInv(carried, stopped), RunStep(told)
  PROVE  RunInv(carried, stopped)'
<1> USE DEF RunInv, RunTypeOK, Opening, Carrying, contexts, books
<1>1. CASE Admit BY <1>1 DEF Admit
<1>2. CASE Upgrade BY <1>2 DEF Upgrade
<1>3. CASE Deferred BY <1>3 DEF Deferred
<1>4. CASE SelectSignal BY <1>4 DEF SelectSignal, Select, Outcomes
<1>5. CASE WriteFinal(told) BY <1>5 DEF WriteFinal
<1>6. CASE Cancel BY <1>6 DEF Cancel
<1>7. CASE Complete BY <1>7 DEF Complete, Finish
<1> QED BY <1>1, <1>2, <1>3, <1>4, <1>5, <1>6, <1>7 DEF RunStep

\* The error frame is written before the lease is returned.
LEMMA TerminalErrorKeeps ==
  ASSUME NEW carried \in BOOLEAN, NEW stopped \in BOOLEAN, NEW told,
         NEW reached \in BOOLEAN, RunInv(carried, stopped), WriteTerminalError(told, reached)
  PROVE  RunInv(carried, stopped)' /\ UNCHANGED <<Stage, closes, active>>
BY DEF RunInv, RunTypeOK, Opening, Carrying, WriteTerminalError, contexts, books, Stage

\* Opening the stream fails: there is none.
LEMMA OpenFailsKeeps ==
  ASSUME NEW carried \in BOOLEAN, NEW stopped \in BOOLEAN, NEW failures \in SUBSET Outcomes,
         RunInv(carried, stopped), OpenFails(failures)
  PROVE  RunInv(carried, stopped)'
BY DEF RunInv, RunTypeOK, Opening, Carrying, OpenFails, books

\* Opening succeeds: the stream is carried from now on.
LEMMA OpenSucceedsCarries ==
  ASSUME NEW carried \in BOOLEAN, NEW stopped \in BOOLEAN,
         RunInv(carried, stopped), OpenSucceeds
  PROVE  ~carried /\ ~stopped /\ RunInv(TRUE, FALSE)'
BY DEF RunInv, RunTypeOK, Opening, Carrying, OpenSucceeds, Connected, contexts

\* The session closes its stream once the grace is over.
LEMMA GraceOverCloses ==
  ASSUME NEW carried \in BOOLEAN, NEW stopped \in BOOLEAN,
         RunInv(carried, stopped), GraceOver
  PROVE  carried /\ RunInv(TRUE, TRUE)'
BY DEF RunInv, RunTypeOK, Opening, Carrying, GraceOver, contexts, books

\* The client leaves or the server's context ends.
LEMMA EnvironmentKeeps ==
  ASSUME NEW carried \in BOOLEAN, NEW stopped \in BOOLEAN,
         RunInv(carried, stopped), Environment
  PROVE  RunInv(carried, stopped)'
BY DEF RunInv, RunTypeOK, Opening, Carrying, Environment, control, books

\* A pump's step on the socket keeps the types of what the pumps share with the
\* main goroutine.
LEMMA PumpTypes ==
  ASSUME RunTypeOK, UNCHANGED <<contexts, control>>,
         socket' \in {"none", "open", "peerClosed", "broken", "closed"},
         sent' \in 0..MaxMessages, outcomes' \in Outcomes \cup {NoOutcome}
  PROVE  RunTypeOK'
BY DEF RunTypeOK, contexts, control, books

\* A pump of an open stream reads, writes and signals; what it does is no part
\* of the main goroutine's control.  The stream may be closed beside it.
LEMMA PumpKeeps ==
  ASSUME NEW stopped \in BOOLEAN, NEW next \in BOOLEAN, stopped => next,
         RunInv(TRUE, stopped), UNCHANGED <<contexts, control>>,
         RunTypeOK'
  PROVE  RunInv(TRUE, next)'
BY DEF RunInv, RunTypeOK, Opening, Carrying, contexts, control, books

\* What a step of the main goroutine does to the Connection the session is:
\* nothing, or it is refused, admitted, handed over, or its lease is returned,
\* once and after its stream was closed.
LEMMA RunStepStage ==
  ASSUME NEW carried \in BOOLEAN, NEW stopped \in BOOLEAN,
         NEW told, RunInv(carried, stopped), RunStep(told)
  PROVE  \/ Stage' = Stage /\ closes' = closes /\ active' = active
         \/ /\ Stage = "arrived" /\ Stage' \in {"over", "admitted"}
            /\ closes' = closes /\ active' = active
         \/ /\ Stage = "admitted" /\ Stage' = "running" /\ ~carried
            /\ closes' = closes /\ active' = active
         \/ /\ Stage = "admitted" /\ Stage' = "over" /\ ~carried
            /\ closes' = closes + 1 /\ active' = 0
         \/ /\ Stage = "running" /\ Stage' = "over" /\ (carried => stopped)
            /\ closes' = closes + 1 /\ active' = 0
<1> USE DEF RunInv, RunTypeOK, Opening, Carrying, books, Stage
<1>1. CASE Admit BY <1>1 DEF Admit
<1>2. CASE Upgrade BY <1>2 DEF Upgrade
<1>3. CASE Deferred BY <1>3 DEF Deferred
<1>4. CASE SelectSignal BY <1>4 DEF SelectSignal, Select
<1>5. CASE WriteFinal(told) BY <1>5 DEF WriteFinal
<1>6. CASE Cancel BY <1>6 DEF Cancel
<1>7. CASE Complete BY <1>7 DEF Complete, Finish
<1> QED BY <1>1, <1>2, <1>3, <1>4, <1>5, <1>6, <1>7 DEF RunStep

\* The states of a Connection, with as many closes as there may be.
ConnectionStates ==
  [stage : {"arrived", "admitted", "running", "over"}, stream : {"none", "open", "closed"},
   closes : Nat, active : Nat]

Stages == {"arrived", "admitted", "running", "over"}

\* The connection of a session is such a state, and its fields are what they say.
LEMMA ConnectionFields ==
  ASSUME NEW s \in Stages, NEW t \in {"none", "open", "closed"}, NEW n \in Nat, NEW a \in Nat
  PROVE  LET c == [stage |-> s, stream |-> t, closes |-> n, active |-> a]
         IN /\ c \in ConnectionStates /\ c.stage = s /\ c.stream = t
            /\ c.closes = n /\ c.active = a
BY DEF ConnectionStates, Stages

\* A main goroutine is always at one of the four stages.
LEMMA StageType == Stage \in Stages
BY DEF Stage, Stages

\* The successors of a Connection, by their fields.
LEMMA Successors ==
  ASSUME NEW c \in ConnectionStates, NEW d \in ConnectionStates
  PROVE  /\ (d.stage = c.stage /\ d.stream = c.stream
              /\ d.closes = c.closes /\ d.active = c.active) => d = c
         /\ \A s \in {"admitted", "running", "over"} :
              (d.stage = s /\ d.stream = c.stream
                /\ d.closes = c.closes /\ d.active = c.active)
                => d = [c EXCEPT !.stage = s]
         /\ (d.stage = c.stage /\ d.stream = "open"
              /\ d.closes = c.closes /\ d.active = 1)
              => d = [c EXCEPT !.stream = "open", !.active = 1]
         /\ (d.stage = c.stage /\ d.stream = "closed"
              /\ d.closes = c.closes /\ d.active = c.active)
              => d = [c EXCEPT !.stream = "closed"]
         /\ (d.stage = "over" /\ d.stream = c.stream
              /\ d.closes = c.closes + 1 /\ d.active = 0)
              => d = [c EXCEPT !.stage = "over", !.closes = @ + 1, !.active = 0]
<1> USE DEF ConnectionStates
<1>1. (d.stage = c.stage /\ d.stream = c.stream
        /\ d.closes = c.closes /\ d.active = c.active) => d = c
  OBVIOUS
<1>2. ASSUME NEW s \in {"admitted", "running", "over"},
             d.stage = s, d.stream = c.stream, d.closes = c.closes, d.active = c.active
      PROVE  d = [c EXCEPT !.stage = s]
  BY <1>2
<1>3. ASSUME d.stage = c.stage, d.stream = "open", d.closes = c.closes, d.active = 1
      PROVE  d = [c EXCEPT !.stream = "open", !.active = 1]
  BY <1>3
<1>4. ASSUME d.stage = c.stage, d.stream = "closed", d.closes = c.closes, d.active = c.active
      PROVE  d = [c EXCEPT !.stream = "closed"]
  BY <1>4
<1>5. ASSUME d.stage = "over", d.stream = c.stream, d.closes = c.closes + 1, d.active = 0
      PROVE  d = [c EXCEPT !.stage = "over", !.closes = @ + 1, !.active = 0]
  BY <1>5
<1> HIDE DEF ConnectionStates
<1> QED BY <1>1, <1>2, <1>3, <1>4, <1>5, Zenon

\* The steps of a Connection, by their fields.
Successor(c, d) ==
  \/ /\ c.stage = "arrived"
     /\ d \in {[c EXCEPT !.stage = "over"], [c EXCEPT !.stage = "admitted"]}
  \/ /\ c.stage = "admitted"
     /\ d \in {[c EXCEPT !.stage = "running"],
               [c EXCEPT !.stage = "over", !.closes = @ + 1, !.active = 0]}
  \/ /\ c.stage = "running" /\ c.stream = "none"
     /\ d \in {[c EXCEPT !.stream = "open", !.active = 1],
               [c EXCEPT !.stage = "over", !.closes = @ + 1, !.active = 0]}
  \/ /\ c.stage = "running" /\ c.stream = "open"
     /\ d = [c EXCEPT !.stream = "closed"]
  \/ /\ c.stage = "running" /\ c.stream = "closed"
     /\ d = [c EXCEPT !.stage = "over", !.closes = @ + 1, !.active = 0]

\* c is the connection of a session whose stream was opened and closed as said.
IsNow(c, carried, stopped) ==
  /\ c.stage = Stage /\ c.closes = closes /\ c.active = active
  /\ c.stream = IF ~carried THEN "none" ELSE IF stopped THEN "closed" ELSE "open"

\* A step of the main goroutine apart from the stream is one of the connection.
LEMMA RunStepSuccessor ==
  ASSUME NEW carried \in BOOLEAN, NEW stopped \in BOOLEAN,
         NEW told, RunInv(carried, stopped), RunStep(told),
         NEW c \in ConnectionStates, NEW d \in ConnectionStates,
         IsNow(c, carried, stopped), IsNow(d, carried, stopped)'
  PROVE  c = d \/ Successor(c, d)
<1> USE DEF IsNow
<1>1. d.stream = c.stream
  OBVIOUS
<1> HIDE DEF Stage
<1>2. CASE Stage' = Stage /\ closes' = closes /\ active' = active
  <2>1. /\ d.stage = c.stage /\ d.stream = c.stream
        /\ d.closes = c.closes /\ d.active = c.active
    BY <1>1, <1>2
  <2> QED BY <2>1, Successors, Zenon
<1>3. CASE /\ Stage = "arrived" /\ Stage' \in {"over", "admitted"}
           /\ closes' = closes /\ active' = active
  <2>1. /\ d.stage \in {"over", "admitted"} /\ d.stream = c.stream
        /\ d.closes = c.closes /\ d.active = c.active /\ c.stage = "arrived"
    BY <1>1, <1>3
  <2>2. d \in {[c EXCEPT !.stage = "over"], [c EXCEPT !.stage = "admitted"]}
    BY <2>1, Successors, Zenon
  <2> QED BY <2>1, <2>2, Zenon DEF Successor
<1>4. CASE /\ Stage = "admitted" /\ Stage' = "running" /\ ~carried
           /\ closes' = closes /\ active' = active
  <2>1. /\ d.stage = "running" /\ d.stream = c.stream
        /\ d.closes = c.closes /\ d.active = c.active /\ c.stage = "admitted"
    BY <1>1, <1>4
  <2>2. d = [c EXCEPT !.stage = "running"]
    BY <2>1, Successors, Zenon
  <2> QED BY <2>1, <2>2, Zenon DEF Successor
<1>5. CASE /\ Stage' = "over" /\ closes' = closes + 1 /\ active' = 0
           /\ \/ Stage = "admitted"
              \/ Stage = "running" /\ (carried => stopped)
  <2>1. /\ d.stage = "over" /\ d.stream = c.stream
        /\ d.closes = c.closes + 1 /\ d.active = 0
        /\ c.stage = "running" => c.stream \in {"none", "closed"}
        /\ c.stage \in {"admitted", "running"}
    BY <1>1, <1>5
  <2>2. d = [c EXCEPT !.stage = "over", !.closes = @ + 1, !.active = 0]
    BY <2>1, Successors, Zenon
  <2> QED BY <2>1, <2>2, Zenon DEF Successor
<1> QED BY <1>2, <1>3, <1>4, <1>5, RunStepStage

\* So is the opening of the stream.
LEMMA OpenSucceedsSuccessor ==
  ASSUME NEW carried \in BOOLEAN, NEW stopped \in BOOLEAN,
         RunInv(carried, stopped), OpenSucceeds,
         NEW c \in ConnectionStates, NEW d \in ConnectionStates,
         IsNow(c, carried, stopped), IsNow(d, TRUE, FALSE)'
  PROVE  Successor(c, d)
<1>1. ~carried /\ ~stopped /\ active = 0
  BY OpenSucceedsCarries DEF OpenSucceeds, RunInv
<1>2. Stage = "running" /\ Stage' = "running" /\ closes' = closes /\ active' = 1
  BY <1>1 DEF OpenSucceeds, Connected, Stage
<1>3. /\ d.stage = c.stage /\ d.stream = "open" /\ d.closes = c.closes /\ d.active = 1
      /\ c.stage = "running" /\ c.stream = "none"
  BY <1>1, <1>2 DEF IsNow
<1>4. d = [c EXCEPT !.stream = "open", !.active = 1]
  BY <1>3, Successors, Zenon
<1> QED BY <1>3, <1>4, Zenon DEF Successor

\* And the closing of a carried stream, by whoever closes it.
LEMMA ClosedSuccessor ==
  ASSUME NEW stopped \in BOOLEAN, NEW next \in BOOLEAN, stopped => next,
         RunInv(TRUE, stopped), UNCHANGED <<Stage, closes, active>>,
         NEW c \in ConnectionStates, NEW d \in ConnectionStates,
         IsNow(c, TRUE, stopped), IsNow(d, TRUE, next)'
  PROVE  c = d \/ Successor(c, d)
<1>1. CASE next = stopped
  <2>1. /\ d.stage = c.stage /\ d.stream = c.stream
        /\ d.closes = c.closes /\ d.active = c.active
    BY <1>1 DEF IsNow
  <2> QED BY <2>1, Successors, Zenon
<1>2. CASE next /\ ~stopped
  <2>1. Stage = "running"
    BY <1>2 DEF RunInv, RunTypeOK, Opening, Carrying, Stage
  <2>2. /\ d.stage = c.stage /\ d.stream = "closed"
        /\ d.closes = c.closes /\ d.active = c.active
        /\ c.stage = "running" /\ c.stream = "open"
    BY <1>2, <2>1 DEF IsNow
  <2>3. d = [c EXCEPT !.stream = "closed"]
    BY <2>2, Successors, Zenon
  <2> QED BY <2>2, <2>3, Zenon DEF Successor
<1> QED BY <1>1, <1>2
=============================================================================
