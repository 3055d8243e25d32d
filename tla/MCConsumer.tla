----------------------------- MODULE MCConsumer -----------------------------
(***************************************************************************)
(* Scenarios for Consumer: which of its sources of nondeterminism are      *)
(* bounded by what.  Each one lets two or three of them meet.              *)
(***************************************************************************)
EXTENDS Consumer

CONSTANTS s1, s2, p1, p2

OneSource ==
    [first |-> s1, sources |-> {s1}, parts |-> {p1}, end |-> 1, control |-> {},
     ops |-> {"set", "drop"}, sessions |-> 2, allowed |-> 1, faults |-> 0, pausable |-> {}]

\* Two brokers share one fetch; a partition moves between them or a request fails.
TwoSources == [OneSource EXCEPT !.sources = {s1, s2}, !.faults = 1, !.ops = {"set"}]

\* Pausing and resuming around a session change.
Pausing == [OneSource EXCEPT !.pausable = {p1}, !.allowed = 2, !.end = 2]

\* Two partitions in one request, one buffer and one load.
TwoPartitions == [OneSource EXCEPT !.parts = {p1, p2}, !.ops = {"drop"}]

\* One response answers two partitions differently.
TwoAnswers == [TwoPartitions EXCEPT !.ops = {}, !.faults = 1, !.end = 2]

\* The broker errs.
Faulty1 == [OneSource EXCEPT !.faults = 1]

\* Two session changes follow each other.
Resessions == [OneSource EXCEPT !.sessions = 3]

\* Several records, with a control record between them.
LongLog == [OneSource EXCEPT !.end = 3, !.control = {1}]

Checked ==
    {TwoSources, Pausing, TwoPartitions, TwoAnswers, Faulty1, Resessions, LongLog}

\* A partition is polled, then set while a fenced epoch is being validated.
SetWhileLoading == {[Faulty1 EXCEPT !.end = 2, !.ops = {"set"}]}

OnlyResessions == {Resessions}
=============================================================================
