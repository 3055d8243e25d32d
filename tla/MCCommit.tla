------------------------------ MODULE MCCommit ------------------------------
(***************************************************************************)
(* The runs of module Commit.  With autocommits, at most one other commit  *)
(* is made: several of them unblock autocommits for each other.            *)
(***************************************************************************)
EXTENDS Commit

Calm ==
    [cooperative |-> FALSE, auto |-> TRUE, ticks |-> 2, asyncs |-> 0, syncs |-> 0,
     joins |-> 1, cancels |-> 0, expels |-> 0, fails |-> 0]

\* Autocommits and the commit of a revoke.
Eager == [Calm EXCEPT !.expels = 1]
Cooperative == [Calm EXCEPT !.cooperative = TRUE]

\* Autocommits and a commit of the user, of which the member may lose the group.
Async == [Calm EXCEPT !.asyncs = 1, !.joins = 0]
Sync == [Calm EXCEPT !.syncs = 1, !.ticks = 1, !.joins = 0, !.expels = 1]

\* Without autocommits: several commits of the user across rebalances.
Manual ==
    [Calm EXCEPT !.auto = FALSE, !.ticks = 0, !.asyncs = 1, !.syncs = 1, !.cancels = 1,
                 !.cooperative = TRUE]
Overlapping == [Manual EXCEPT !.asyncs = 2, !.syncs = 0]

\* Joins and syncs fail while partitions are kept, with autocommits or without.
Failing == [Calm EXCEPT !.cooperative = TRUE, !.ticks = 1, !.fails = 1, !.expels = 1]
FailingManual == [Manual EXCEPT !.syncs = 0, !.fails = 1, !.expels = 1]

Checked == {Eager, Cooperative, Async, Sync, Manual, Overlapping, Failing, FailingManual}

\* Two commits of the user and one autocommit.
TwoSyncs == {[Calm EXCEPT !.syncs = 2, !.ticks = 1, !.joins = 0]}

\* A commit of the user during a revoke.
OneRevoke == {[Calm EXCEPT !.syncs = 1, !.ticks = 0]}
=============================================================================
