---------------------------- MODULE MCBrokerConn ----------------------------
(* Scenarios for TLC. *)
EXTENDS BrokerConn

Calm == [reqs |-> 3, faults |-> 0, cancels |-> 0, reaps |-> 0, stops |-> 0, reauths |-> 0]

\* Dials, writes, reads and logins fail.
Failing == [Calm EXCEPT !.faults = 2]

\* A SASL session expires, also while a response is outstanding.
Expiring == [Calm EXCEPT !.faults = 1, !.reauths = 1]

\* The broker is stopped and connections are reaped.
Stopping == [Calm EXCEPT !.cancels = 1, !.reaps = 1, !.stops = 1]

Checked == {Failing, Expiring, Stopping}

Pipelined == {[Calm EXCEPT !.reauths = 1]}

\* The broker is stopped while a connection is being opened.
StopOnly == {[Calm EXCEPT !.stops = 1]}
=============================================================================
