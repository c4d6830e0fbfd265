----------------------------- MODULE Connection -----------------------------
(***************************************************************************)
(* What the gateway promises about one WebSocket request, whatever its     *)
(* session carries: a claimed lease is given back exactly once, by         *)
(* ServeHTTP if the request was not upgraded and else by Run, after the    *)
(* runtime stream of the session, if one was opened, was closed and with   *)
(* the session no longer counted as active; and every request ends.        *)
(*                                                                         *)
(* ByteSession and ExecSession implement this specification; Gateway       *)
(* composes connections that behave like it.                               *)
(***************************************************************************)
EXTENDS Naturals

VARIABLE connection

\* stage: "arrived", "admitted" (ServeHTTP has a lease), "running" (the lease
\* is Run's and the connection hijacked), "over"; closes: calls of Manager.Close;
\* active: what the session adds to the gauge of connected sessions.
Connections == [stage : {"arrived", "admitted", "running", "over"},
                stream : {"none", "open", "closed"}, closes : 0..1, active : 0..1]

Arrived == [stage |-> "arrived", stream |-> "none", closes |-> 0, active |-> 0]

Init == connection = Arrived

\* The successors of a connection: no lease, ...
Refused(c)    == [c EXCEPT !.stage = "over"]
Admitted(c)   == [c EXCEPT !.stage = "admitted"]
\* ... a lease and no stream, ...
HandedOver(c) == [c EXCEPT !.stage = "running"]
Opened(c)     == [c EXCEPT !.stream = "open", !.active = 1]
\* ... a stream, ...
Ended(c)      == [c EXCEPT !.stream = "closed"]
\* ... and the lease given back.
Closed(c)     == [c EXCEPT !.stage = "over", !.closes = @ + 1, !.active = 0]

Next ==
  \/ connection.stage = "arrived"  /\ connection' \in {Refused(connection), Admitted(connection)}
  \/ connection.stage = "admitted" /\ connection' \in {HandedOver(connection), Closed(connection)}
  \/ /\ connection.stage = "running"
     /\ \/ connection.stream = "none"   /\ connection' \in {Opened(connection), Closed(connection)}
        \/ connection.stream = "open"   /\ connection' = Ended(connection)
        \/ connection.stream = "closed" /\ connection' = Closed(connection)

\* What the steps promise, and that every request ends.
Steps == Init /\ [][Next]_connection
Spec  == Steps /\ <>(connection.stage = "over")
=============================================================================
