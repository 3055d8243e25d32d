------------------------------ MODULE MCGroup ------------------------------
(***************************************************************************)
(* Scenarios for GroupConsumer.                                            *)
(***************************************************************************)
EXTENDS GroupConsumer

CONSTANTS m1, m2, p1, p2

Quiet ==
    [members |-> {m1, m2}, cooperative |-> TRUE, block |-> FALSE, parallel |-> FALSE,
     polls |-> 0, forced |-> 0, leavers |-> {}, faults |-> 0]

\* A cooperative group: one member leaves, one rebalance is forced.
Cooperative == [Quiet EXCEPT !.forced = 1, !.leavers = {m1}]

\* The same with a member that is dropped or an offset fetch that fails.
Dropped == [Quiet EXCEPT !.faults = 1]

Eager == [Cooperative EXCEPT !.cooperative = FALSE]

EagerDropped == [Dropped EXCEPT !.cooperative = FALSE]

\* Polls block rebalances.
Blocking == [Quiet EXCEPT !.block = TRUE, !.polls = 2, !.leavers = {m1}]

EagerOnly == {Eager}

Checked == {Cooperative, Dropped, Eager, EagerDropped, Blocking}
=============================================================================
