--------------------------- MODULE MCTransaction ---------------------------
(* The runs of module Transaction. *)
EXTENDS Transaction

Calm ==
    [cooperative |-> FALSE, stable |-> TRUE, txns |-> 2, txnsFirst |-> 2, aborts |-> TRUE,
     rebalances |-> 1, expels |-> 0, joining |-> FALSE, timeouts |-> 0, fails |-> 0, unknowns |-> 0]

\* One rebalance between and within transactions.
Eager == Calm
Cooperative == [Calm EXCEPT !.cooperative = TRUE]

\* The partition moves away and back.
Returning == [Calm EXCEPT !.cooperative = TRUE, !.txns = 1, !.txnsFirst = 1, !.rebalances = 2]

\* A producer ID fails, the broker aborts a transaction.
Failing == [Calm EXCEPT !.timeouts = 1, !.fails = 1]

\* A member is dropped, in or between its transactions, and goes on ...
Dropped == [Calm EXCEPT !.aborts = FALSE, !.rebalances = 0, !.expels = 1]
Expelled == [Dropped EXCEPT !.cooperative = TRUE, !.txns = 1]
ExpelledEager == Dropped

\* ... or is dropped when it is about to join.
ExpelledJoining == [Expelled EXCEPT !.txnsFirst = 1, !.rebalances = 1, !.joining = TRUE]

\* EndTxn is answered with UNKNOWN_SERVER_ERROR.
Unknown == [Calm EXCEPT !.txns = 1, !.txnsFirst = 1, !.unknowns = 1]

Checked ==
    {Eager, Cooperative, Returning, Failing, Expelled, ExpelledEager, ExpelledJoining, Unknown}

ExpelledOnly == {Expelled, ExpelledJoining}
UnknownOnly == {Unknown}
=============================================================================
