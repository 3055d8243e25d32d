----------------------------- MODULE MCMetadata -----------------------------
(* Scenarios for TLC. *)
EXTENDS Metadata

Plain == [recs |-> 3, retries |-> 1, answers |-> {}, faults |-> 0, ticks |-> FALSE,
          calls |-> {}, concurrent |-> FALSE]

\* Requests fail and the topic is answered with errors.
Failing == [Plain EXCEPT !.answers = {"error", "fatal", "retriable"}, !.faults = 2]

\* The broker leaves the topic out of a response: only the ticker asks again.
Missing == [Plain EXCEPT !.recs = 2, !.answers = {"retriable", "missing"},
                         !.faults = 2, !.ticks = TRUE]

\* The producing goroutine purges.
Purging == [Plain EXCEPT !.answers = {"retriable"}, !.faults = 1, !.calls = {"purge"}]

\* A context is canceled as the topic loads.
Canceling == [Plain EXCEPT !.calls = {"cancel"}]

\* Records are aborted and the client is closed while a Produce is running.
Closing == [Plain EXCEPT !.recs = 2, !.answers = {"retriable"}, !.faults = 1,
                         !.calls = {"abort", "close"},
                         !.concurrent = TRUE]

\* UnsafeAbortBufferedRecords, after which nothing is produced.
Unsafe == [Plain EXCEPT !.recs = 1, !.calls = {"unsafe"}, !.concurrent = TRUE]

Checked == {Failing, Missing, Purging, Canceling, Closing, Unsafe}

\* failBufferedRecords while an update is running, and a Produce after it.
UnsafeReuse == {[Unsafe EXCEPT !.recs = 2, !.concurrent = FALSE]}

\* A purge while a Produce is running.
PurgeRaces == {[Plain EXCEPT !.answers = {"retriable"}, !.faults = 1, !.calls = {"purge"},
                             !.concurrent = TRUE]}
=============================================================================
