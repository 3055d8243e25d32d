------------------------------- MODULE RecBuf -------------------------------
(***************************************************************************)
(* The record buffer of one partition (recBuf of sink.go): its batches,    *)
(* how many of them are drained, the sequence numbers, and how many        *)
(* requests hold the partition and on which sink.  What sinks do to it,    *)
(* and when, is in Sink.                                                   *)
(*                                                                         *)
(* Records of a partition are numbered in the order they are buffered; a   *)
(* batch is known by its first record.                                     *)
(***************************************************************************)
EXTENDS Integers, Sequences, PartitionLog

CONSTANTS
    Partitions,
    Sinks,          \* one per broker
    None,           \* no sink
    FirstLeader     \* the sink partitions start on

ASSUME RecBufAssumption ==
    /\ None \notin Sinks
    /\ FirstLeader \in [Partitions -> Sinks]

newRecBuf(p) ==
    [sink |-> FirstLeader[p], ep |-> 0, batches |-> <<>>, idx |-> 0, seq |-> 0,
     seq0 |-> 0, reset |-> FALSE, inflight |-> 0, on |-> None, ok |-> FALSE,
     failing |-> FALSE, unknown |-> 0, acked |-> -1]

(* A batch that was never sent can be failed.                              *)
newRecordBatch(rec) == [first |-> rec, n |-> 1, frozen |-> FALSE, canFail |-> TRUE]

(* Mutant of resetBatchDrainIdx: what is retried gets new numbers.         *)
resetKeepsSeq(r) == [r EXCEPT !.idx = 0]

resetBatchDrainIdx(r) == [r EXCEPT !.seq = r.seq0, !.idx = 0]

failAllRecords(r) == [resetBatchDrainIdx(r) EXCEPT !.batches = <<>>]

Promise(b, ok) == [first |-> b.first, n |-> b.n, ok |-> ok]
FailedPromises(r) == [i \in 1 .. Len(r.batches) |-> Promise(r.batches[i], FALSE)]

isOwnersFirstBatch(r, b) == r.batches # <<>> /\ r.batches[1].first = b.first

Pending(r) == r.idx # Len(r.batches)

-----------------------------------------------------------------------------
(* Draining                                                                *)

(* Mutant of Drainable: whatever is in flight on another sink.             *)
DrainableAnywhere(s, r) ==
    r.sink = s /\ ~r.failing /\ Pending(r) /\ (r.inflight = 0 \/ r.ok)

(* createReq skips what is failing, drained or lingering, in flight on     *)
(* another sink, or in flight after an error.                              *)
Drainable(s, r) ==
    /\ r.sink = s
    /\ ~r.failing
    /\ Pending(r)
    /\ r.on \in {None, s}
    /\ r.inflight = 0 \/ r.ok

(* tryAddBatch resets the sequence numbers only with the first batch.      *)
maybeSeqReset(r) ==
    IF r.idx = 0 /\ r.reset THEN [r EXCEPT !.reset = FALSE, !.seq = 0, !.seq0 = 0] ELSE r

tryAddBatch(s, r0) ==
    LET r == maybeSeqReset(r0)
        i == r.idx + 1
    IN [r EXCEPT !.batches[i].frozen = TRUE,
                 !.on = s,
                 !.inflight = @ + 1,
                 !.idx = i,
                 !.seq = incrementSequence(@, r.batches[i].n)]

(* The batch of a new request: r is the recBuf it was drained from.        *)
seqRecBatch(r) ==
    LET b == r.batches[r.idx + 1]
    IN [first |-> b.first, n |-> b.n, seq |-> maybeSeqReset(r).seq, null |-> FALSE]

(* Mutant of cannotFail: a batch on its way may still be failed.           *)
staysFailable(r, ks) == r

cannotFail(r, ks) ==
    [r EXCEPT !.batches = [k \in 1 .. Len(@) |->
        IF k \in ks THEN [@[k] EXCEPT !.canFail = FALSE] ELSE @[k]]]

-----------------------------------------------------------------------------
(* Finishing                                                               *)

(* handleReqRespBatch sets these before it looks at the error.             *)
responded(r) == [r EXCEPT !.batches[1].canFail = TRUE, !.ok = FALSE]

checkUnknownFailLimit(r, code) ==
    [r EXCEPT !.unknown = IF code = "unknownTopicOrPartition" THEN @ + 1 ELSE 0]

(* finishBatch without an error.                                           *)
finishBatch(r) ==
    [r EXCEPT !.seq0 = incrementSequence(@, r.batches[1].n),
              !.batches = Tail(@),
              !.idx = @ - 1]

decInflight(r) ==
    [r EXCEPT !.inflight = @ - 1, !.on = IF r.inflight = 1 THEN None ELSE @]

-----------------------------------------------------------------------------
(* S has n elements: they can be numbered.                                 *)
Numbered(n, S) ==
    \E f \in [1 .. n -> S] :
        /\ \A i, j \in 1 .. n : f[i] = f[j] => i = j
        /\ \A x \in S : \E i \in 1 .. n : f[i] = x

(* The records of the batches of q, one batch after the other, are         *)
(* numbered first .. last.                                                 *)
Contiguous(q, first, last) ==
    /\ q = <<>> => first = last + 1
    /\ q # <<>> => q[1].first = first /\ q[Len(q)].first + q[Len(q)].n = last + 1
    /\ \A i \in 1 .. Len(q) - 1 : q[i + 1].first = q[i].first + q[i].n
=============================================================================
