---------------------------- MODULE PartitionLog ----------------------------
(***************************************************************************)
(* The log of one partition as the producer meets it, and the sequence     *)
(* numbers both sides count with.                                          *)
(*                                                                         *)
(* The broker is not part of the client: what it does is taken from how    *)
(* sink.go treats its answers, and from its comments on the broker (any    *)
(* sequence number is accepted from a producer the broker does not know,   *)
(* the sequence numbers of a bumped epoch start at 0).                     *)
(*                                                                         *)
(* A log is a record: the batches appended to it, oldest first, and how    *)
(* many of them retention has deleted since.  Offsets count batches.  A    *)
(* batch is the run of n records from record number first, with the        *)
(* sequence number and the epoch it was sent with; batches of other        *)
(* producers have first = 0.                                               *)
(***************************************************************************)
EXTENDS Integers, Sequences

CONSTANTS
    MaxInt32,   \* the largest sequence number
    Window      \* how many of a producer's last batches a broker remembers

ASSUME MaxInt32Assumption == MaxInt32 \in Nat \ {0}
ASSUME WindowAssumption == Window \in Nat \ {0}

incrementSequence(sequence, increment) ==
    IF sequence > MaxInt32 - increment
    THEN increment - (MaxInt32 - sequence) - 1
    ELSE sequence + increment

(* The sequence number brokers expect after n records from seq on.         *)
SequenceAfter(seq, n) == (seq + n) % (MaxInt32 + 1)

EmptyLog == [entries |-> <<>>, start |-> 0]

Entry(first, n, seq, epoch) == [first |-> first, n |-> n, seq |-> seq, epoch |-> epoch]

(* What the broker still knows of the producer: its batches that retention *)
(* has not deleted.                                                        *)
Known(log) ==
    SelectSeq(SubSeq(log.entries, log.start + 1, Len(log.entries)),
              LAMBDA e : e.first # 0)

IsDup(e, b, epoch) == e.epoch = epoch /\ e.seq = b.seq /\ e.n = b.n

(* What the broker does with a batch: append it, recognise a duplicate, or *)
(* refuse it.                                                              *)
Judge(log, b, epoch) ==
    LET known == Known(log)
        last == known[Len(known)]
        recent == {i \in 1 .. Len(known) : i > Len(known) - Window}
    IN CASE known = <<>> /\ log.start > 0 /\ b.seq # 0 -> "unknownProducerID"
         [] known = <<>> /\ (log.start = 0 \/ b.seq = 0) -> "append"
         [] known # <<>> /\ epoch < last.epoch -> "invalidProducerEpoch"
         [] known # <<>> /\ epoch > last.epoch ->
                IF b.seq = 0 THEN "append" ELSE "outOfOrderSequenceNumber"
         [] known # <<>> /\ epoch = last.epoch ->
                IF \E i \in recent : IsDup(known[i], b, epoch) THEN "duplicate"
                ELSE IF b.seq = SequenceAfter(last.seq, last.n) THEN "append"
                ELSE "outOfOrderSequenceNumber"

AppendBatch(log, b, epoch) ==
    [log EXCEPT !.entries = Append(@, Entry(b.first, b.n, b.seq, epoch))]

(* The offset after batch b, which is in the log or a duplicate of what is *)
(* there: the response's BaseOffset plus the number of records.            *)
OffsetAfter(log, b, epoch) ==
    CHOOSE i \in 1 .. Len(log.entries) :
        /\ IsDup(log.entries[i], b, epoch)
        /\ \A j \in i + 1 .. Len(log.entries) : ~IsDup(log.entries[j], b, epoch)

(* The record numbers in the log, in order: a batch contributes n of them. *)
InLog(log, rec) ==
    \E i \in 1 .. Len(log.entries) :
        LET e == log.entries[i] IN e.first # 0 /\ rec \in e.first .. e.first + e.n - 1
=============================================================================
