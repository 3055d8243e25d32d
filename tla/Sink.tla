-------------------------------- MODULE Sink --------------------------------
(***************************************************************************)
(* Idempotent producing: the record buffers (recBuf), the sinks that drain *)
(* them into produce requests, the producer ID they share, and what        *)
(* responses, dead connections and metadata updates do to them (sink.go,   *)
(* with the producer ID of producer.go and the partition moves of          *)
(* topics_and_partitions.go).                                              *)
(*                                                                         *)
(* A step is what runs under one recBuf lock, or one pass of the drain     *)
(* loop up to a point where it can be overtaken: loading the semaphore,    *)
(* loading the producer ID, building the request, writing it.  A sink has  *)
(* one drain loop and is drained again after every trigger (see WorkLoop), *)
(* and its responses are handled one at a time in request order (see       *)
(* Ring).                                                                  *)
(*                                                                         *)
(* Records of a partition are numbered in the order they are buffered; a   *)
(* batch is known by its first record.                                     *)
(***************************************************************************)
EXTENDS RecBuf

CONSTANTS
    BatchMax,       \* records that fit a batch
    MaxInflight,    \* capacity of the upgraded inflightSem (4 in the code)
    MaxUnknown,     \* cfg.maxUnknownFailures
    Scenarios       \* what is configured, what goes wrong, and bounds:
                    \* stop: cfg.stopOnDataLoss
                    \* limits: a record may time out, run out of retries or be canceled
                    \* kinds, faults: the kinds of faults that happen, and how many
                    \* recs: per partition, the records buffered
                    \* epochs: the producer epoch
                    \* seq: the next sequence number: 0, or that of a client that
                    \* has produced to every partition before

ASSUME SinkAssumption ==
    /\ {BatchMax, MaxInflight} \subseteq Nat \ {0}
    /\ MaxUnknown \in Nat
    /\ \A b \in Scenarios : {b.stop, b.limits} \subseteq BOOLEAN /\ {b.faults, b.epochs} \subseteq Nat
    /\ \A b \in Scenarios : b.recs \in [Partitions -> Nat] /\ b.seq \in 0 .. MaxInt32

VARIABLES
    rb,         \* per partition: its recBuf
    pid,        \* producer.id: the epoch (-1: no ID yet) and its error
    pc,         \* per sink: where its drain loop is, and what it has loaded
    want,       \* per sink: a drain was triggered and has not begun
    gen,        \* per sink: 0 until firstRespCheck upgrades inflightSem, then 1
    sem,        \* per sink: the slots in use of either inflightSem
    reqs,       \* per sink: requests whose responses are to be handled, in order
    ghosts,     \* per sink: requests a dead connection has left at the broker
    moves,      \* KIP-951 moves that were begun
    next,       \* per partition: the next record to be buffered
    done,       \* per partition: finished batches, in the order of promises
    leader,     \* per partition: the leader and its epoch
    log,        \* per partition: the log
    bound,      \* the scenario
    forgot,     \* history: the sequence errors that were handled
    lost,       \* history: partitions that lost records
    faults      \* faults that happened

client == <<rb, pid, pc, want, gen, sem, reqs, moves, next, done, forgot, bound>>
broker == <<ghosts, leader, log, lost, faults>>
vars == <<rb, pid, pc, want, gen, sem, reqs, moves, next, done, forgot, bound,
          ghosts, leader, log, lost, faults>>

-----------------------------------------------------------------------------
(* A recBuf after the response to its latest batch.                        *)
Produced(r) == [r EXCEPT !.seq = bound.seq, !.seq0 = bound.seq, !.ok = TRUE, !.acked = 1]

Drain(s) == want' = [want EXCEPT ![s] = TRUE]
DrainIf(cond, s) == IF cond THEN Drain(s) ELSE UNCHANGED want

(* batch.maybeFailErr: a limit or a canceled context may fail the batch,   *)
(* at any time if there is one.                                            *)
maybeFailErr == IF bound.limits THEN BOOLEAN ELSE {FALSE}

(* Nothing was produced yet, or all that was produced is acknowledged.     *)
Init ==
    /\ bound \in Scenarios
    /\ LET started == bound.seq > 0
       IN /\ rb = [p \in Partitions |-> IF started THEN Produced(newRecBuf(p)) ELSE newRecBuf(p)]
          /\ pid = IF started THEN [epoch |-> 0, err |-> "none"] ELSE [epoch |-> -1, err |-> "reload"]
          /\ gen = [s \in Sinks |-> IF started /\ \E p \in Partitions : FirstLeader[p] = s THEN 1 ELSE 0]
          /\ log = [p \in Partitions |->
                      IF started THEN AppendBatch(EmptyLog, [first |-> -1, n |-> 1, seq |-> bound.seq - 1], 0)
                      ELSE EmptyLog]
    /\ sem = [s \in Sinks |-> [g \in {0, 1} |-> 0]]
    /\ pc = [s \in Sinks |-> [at |-> "idle", gen |-> 0, epoch |-> -1]]
    /\ want = [s \in Sinks |-> FALSE]
    /\ reqs = [s \in Sinks |-> <<>>]
    /\ ghosts = [s \in Sinks |-> <<>>]
    /\ moves = {}
    /\ next = [p \in Partitions |-> 1]
    /\ done = [p \in Partitions |-> <<>>]
    /\ leader = [p \in Partitions |-> [id |-> FirstLeader[p], ep |-> 0]]
    /\ forgot = {}
    /\ lost = {}
    /\ faults = 0

(* A fault happens, if faults of this kind happen.                         *)
Fault(kind) ==
    /\ kind \in bound.kinds
    /\ faults < bound.faults
    /\ faults' = faults + 1

-----------------------------------------------------------------------------
(* Producing                                                               *)

bufferRecord(p) ==
    LET r == rb[p]
        len == Len(r.batches)
        onDrainBatch == r.idx = len
        appended == ~onDrainBatch /\ ~r.batches[len].frozen /\ r.batches[len].n < BatchMax
    IN /\ next[p] <= bound.recs[p]
       /\ next' = [next EXCEPT ![p] = @ + 1]
       /\ rb' = [rb EXCEPT ![p].batches =
                    IF appended THEN [r.batches EXCEPT ![len].n = @ + 1]
                    ELSE Append(@, newRecordBatch(next[p]))]
       /\ DrainIf(onDrainBatch, r.sink)
       /\ UNCHANGED <<pid, pc, gen, sem, reqs, moves, done, forgot, bound, broker>>

(* drain: the loop begins, and loads the semaphore it will wait on.        *)
drainBegin(s) ==
    /\ pc[s].at = "idle"
    /\ want[s]
    /\ want' = [want EXCEPT ![s] = FALSE]
    /\ pc' = [pc EXCEPT ![s] = [@ EXCEPT !.at = "sem", !.gen = gen[s]]]
    /\ UNCHANGED <<rb, pid, gen, sem, reqs, moves, next, done, forgot, bound, broker>>

(* The semaphore that was loaded has a slot.  produce takes it, and unless *)
(* it makes no request, the slot is kept until the response is handled.    *)
HasSlot(s) ==
    /\ pc[s].at = "sem"
    /\ sem[s][pc[s].gen] < IF pc[s].gen = 0 THEN 1 ELSE MaxInflight

TakeSlot(s) == sem' = [sem EXCEPT ![s][pc[s].gen] = @ + 1]
FreeSlot(s, g) == sem' = [sem EXCEPT ![s][g] = @ - 1]

Buffered == {p \in Partitions : rb[p].batches # <<>>}

(* BufferedProduceRecords may not be 0: there are records in some recBuf,  *)
(* or the promises of some are about to be called.                         *)
MaybeBuffered == \E p \in Partitions : next[p] > 1

(* produce ends without a request; again is what it returns.               *)
ProduceEnds(s, again) ==
    /\ pc' = [pc EXCEPT ![s].at = "idle"]
    /\ DrainIf(again, s)

ProduceNothing(s) ==
    /\ HasSlot(s)
    /\ Buffered = {}
    /\ ProduceEnds(s, FALSE)
    /\ UNCHANGED <<rb, pid, gen, sem, reqs, moves, next, done, forgot, bound, broker>>

(* producerID returns an epoch: the current one, the next one (KIP-360),   *)
(* or that of a new ID; only with the current one are no sequence numbers  *)
(* reset.                                                                  *)
resetAllProducerSequences == rb' = [p \in Partitions |-> [rb[p] EXCEPT !.reset = TRUE]]

producerID(s) ==
    /\ HasSlot(s)
    /\ MaybeBuffered
    /\ \/ /\ pid.err = "none"
          /\ UNCHANGED <<rb, pid>>
       \/ /\ pid.err = "reload"
          /\ pid.epoch < bound.epochs
          /\ resetAllProducerSequences
          /\ pid' = [epoch |-> pid.epoch + 1, err |-> "none"]
    /\ pc' = [pc EXCEPT ![s] = [@ EXCEPT !.at = "create", !.epoch = pid'.epoch]]
    /\ TakeSlot(s)
    /\ UNCHANGED <<want, gen, reqs, moves, next, done, forgot, bound, broker>>

(* The records of partitions F fail.                                       *)
FailPartitions(F) ==
    /\ rb' = [p \in Partitions |-> IF p \in F THEN failAllRecords(rb[p]) ELSE rb[p]]
    /\ done' = [p \in Partitions |-> IF p \in F THEN done[p] \o FailedPromises(rb[p]) ELSE done[p]]

(* Partitions whose buffered records may fail without a response: nothing  *)
(* of their first batch is on its way.                                     *)
CanFail == {p \in Buffered : bound.limits /\ rb[p].batches[1].canFail}

(* The first ID cannot be loaded: bumpRepeatedLoadErr, or, if it is the    *)
(* context of some first record that was canceled, the failing of such     *)
(* partitions.                                                             *)
producerIDLoadFail(s) ==
    /\ HasSlot(s)
    /\ MaybeBuffered
    /\ pid.err = "reload"
    /\ pid.epoch = -1
    /\ Fault("initPid")
    /\ \E F \in SUBSET CanFail : FailPartitions(F)
    /\ ProduceEnds(s, TRUE)
    /\ UNCHANGED <<pid, gen, sem, reqs, moves, next, forgot, bound, ghosts, leader, log, lost>>

(* The producer ID has failed for good, or is denied to us: everything     *)
(* buffered fails.                                                         *)
producerIDFatal(s) ==
    /\ HasSlot(s)
    /\ MaybeBuffered
    /\ \/ pid.err = "fatal" /\ UNCHANGED faults
       \/ pid = [epoch |-> -1, err |-> "reload"] /\ Fault("initPidDenied")
    /\ pid' = [pid EXCEPT !.err = "fatal"]
    /\ FailPartitions(Partitions)
    /\ ProduceEnds(s, FALSE)
    /\ UNCHANGED <<gen, sem, reqs, moves, next, forgot, bound, ghosts, leader, log, lost>>

newRequest(s, add) ==
    [epoch |-> pc[s].epoch, gen |-> pc[s].gen, st |-> "made",
     bs |-> [p \in add |-> seqRecBatch(rb[p])], resp |-> <<>>,
     todo |-> {}, miss |-> {}, retry |-> {}, dec |-> add, moving |-> {},
     updateMeta |-> FALSE, needsMeta |-> FALSE, backoff |-> FALSE]

(* createReq and the push to seqResps: of the partitions that can be       *)
(* drained, some are added, some fail on a limit, and the others do not    *)
(* fit the request.                                                        *)
createReq(s) ==
    /\ pc[s].at = "create"
    /\ LET drainable == {p \in Partitions : Drainable(s, rb[p])}
       IN \E add \in SUBSET drainable :
          \E fail \in SUBSET {p \in drainable \ add : rb[p].idx = 0 /\ p \in CanFail} :
             LET moreToDrain == \/ drainable # add
                                \/ \E p \in add : rb[p].idx + 1 < Len(rb[p].batches)
             IN /\ drainable # {} => add \cup fail # {}
                /\ rb' = [p \in Partitions |->
                            IF p \in add THEN tryAddBatch(s, rb[p])
                            ELSE IF p \in fail THEN failAllRecords(rb[p]) ELSE rb[p]]
                /\ done' = [p \in Partitions |->
                              IF p \in fail THEN done[p] \o FailedPromises(rb[p]) ELSE done[p]]
                /\ reqs' = IF add = {} THEN reqs
                           ELSE [reqs EXCEPT ![s] = Append(@, newRequest(s, add))]
                /\ IF add = {} THEN FreeSlot(s, pc[s].gen) ELSE UNCHANGED sem
                /\ ProduceEnds(s, moreToDrain)
    /\ UNCHANGED <<pid, gen, moves, next, forgot, bound, broker>>

(* The first request of s in state st.                                     *)
IsFirst(s, i, st) ==
    /\ i \in 1 .. Len(reqs[s])
    /\ reqs[s][i].st = st
    /\ \A j \in 1 .. i - 1 : reqs[s][j].st # st

(* Where the batch of a request is in its recBuf: nowhere, if it was       *)
(* failed in the meantime.                                                 *)
Places(p, b) == {k \in 1 .. Len(rb[p].batches) : rb[p].batches[k].first = b.first}

(* AppendTo: once written, a batch must not be failed until there is a     *)
(* response; a batch that was failed is written as null.                   *)
AppendTo(s) ==
    \E i \in 1 .. Len(reqs[s]) :
        LET bs == reqs[s][i].bs
            sent(p) == IF p \in DOMAIN bs THEN Places(p, bs[p]) ELSE {}
        IN /\ IsFirst(s, i, "made")
           /\ rb' = [p \in Partitions |-> cannotFail(rb[p], sent(p))]
           /\ reqs' = [reqs EXCEPT ![s][i] =
                         [@ EXCEPT !.st = "sent",
                                   !.bs = [p \in DOMAIN bs |-> [bs[p] EXCEPT !.null = sent(p) = {}]]]]
           /\ UNCHANGED <<pid, pc, want, gen, sem, moves, next, done, forgot, bound, broker>>

(* The broker is unknown, or cannot be dialed.                             *)
DialFails(s) ==
    \E i \in 1 .. Len(reqs[s]) :
        /\ IsFirst(s, i, "made")
        /\ Fault("dial")
        /\ reqs' = [reqs EXCEPT ![s][i].st = "dialErr"]
        /\ UNCHANGED <<rb, pid, pc, want, gen, sem, moves, next, done, forgot, bound, ghosts, leader, log, lost>>

-----------------------------------------------------------------------------
(* Brokers, connections and faults                                         *)

(* What a broker does with the batch b of partition p.                     *)
Verdict(s, p, b, epoch) ==
    IF b.null THEN "corruptMessage"
    ELSE IF leader[p].id # s THEN "notLeaderForPartition"
    ELSE Judge(log[p], b, epoch)

(* A broker handles the batches bs, but for those of partitions F, which   *)
(* it refuses.                                                             *)
Store(s, bs, epoch, F) ==
    log' = [p \in Partitions |->
              IF p \in DOMAIN bs \ F /\ Verdict(s, p, bs[p], epoch) = "append"
              THEN AppendBatch(log[p], bs[p], epoch) ELSE log[p]]

(* The response for partition p, if f is what goes wrong with it.          *)
Response(s, p, b, epoch, f, hint) ==
    LET v == Verdict(s, p, b, epoch)
        code == IF v \in {"append", "duplicate"}
                THEN IF f = "none" \/ f = "missing" THEN "ok" ELSE f
                ELSE v
    IN [code |-> code,
        off |-> IF code = "ok" THEN OffsetAfter(log'[p], b, epoch) ELSE -1,
        start |-> log[p].start,
        leader |-> IF hint THEN leader[p] ELSE [id |-> None, ep |-> -1]]

(* The response to request q, if f goes wrong for partitions F.            *)
Responses(s, q, f, F, hint) ==
    [p \in IF f = "missing" THEN DOMAIN q.bs \ F ELSE DOMAIN q.bs |->
        Response(s, p, q.bs[p], q.epoch, IF p \in F THEN f ELSE "none", hint)]

Refusals == {"notEnoughReplicas", "unknownTopicOrPartition", "messageTooLarge"}
Troubles == Refusals \cup {"notEnoughReplicasAfterAppend", "missing"}

(* A broker handles the first request it has not seen.  It may refuse some *)
(* partitions, append but answer with an error, or not answer for them;    *)
(* and it may tell who the leader is (KIP-951).                            *)
BrokerHandle(s) ==
    \E i \in 1 .. Len(reqs[s]) :
        LET q == reqs[s][i]
        IN /\ IsFirst(s, i, "sent")
           /\ \E f \in {"none"} \cup (Troubles \cap bound.kinds), hint \in BOOLEAN :
              \E F \in SUBSET DOMAIN q.bs :
                 /\ IF f = "none" THEN F = {} /\ UNCHANGED faults ELSE F # {} /\ Fault(f)
                 /\ hint => \E p \in DOMAIN q.bs : leader[p].id # s
                 /\ Store(s, q.bs, q.epoch, IF f \in Refusals THEN F ELSE {})
                 /\ reqs' = [reqs EXCEPT ![s][i] =
                       [@ EXCEPT !.st = "replied", !.resp = Responses(s, q, f, F, hint)]]
           /\ UNCHANGED <<rb, pid, pc, want, gen, sem, moves, next, done, forgot, bound, ghosts, leader, lost>>

(* The connection of s dies.  Responses that were not read are lost;       *)
(* requests the broker has not handled are lost too, or handled later.     *)
ConnDies(s) ==
    \E k \in 0 .. Len(reqs[s]) - 1 :
        LET hit == {i \in k + 1 .. Len(reqs[s]) : reqs[s][i].st \in {"sent", "replied"}}
            unseen == SelectSeq(reqs[s], LAMBDA q : q.st = "sent")
        IN /\ hit # {}
           /\ \A i \in 1 .. k : reqs[s][i].st # "sent"
           /\ Fault("conn")
           /\ reqs' = [reqs EXCEPT ![s] = [i \in 1 .. Len(@) |->
                         IF i \in hit THEN [@[i] EXCEPT !.st = "connErr"] ELSE @[i]]]
           /\ ghosts' = IF "ghost" \in bound.kinds
                        THEN [ghosts EXCEPT ![s] = @ \o [i \in 1 .. Len(unseen) |->
                                [bs |-> unseen[i].bs, epoch |-> unseen[i].epoch]]]
                        ELSE ghosts
           /\ UNCHANGED <<rb, pid, pc, want, gen, sem, moves, next, done, forgot, bound, leader, log, lost>>

(* A broker handles a request of a dead connection, or drops what is left  *)
(* of them.                                                                *)
GhostHandled(s) ==
    /\ ghosts[s] # <<>>
    /\ \/ /\ Store(s, Head(ghosts[s]).bs, Head(ghosts[s]).epoch, {})
          /\ ghosts' = [ghosts EXCEPT ![s] = Tail(@)]
       \/ /\ ghosts' = [ghosts EXCEPT ![s] = <<>>]
          /\ UNCHANGED log
    /\ UNCHANGED <<client, leader, lost, faults>>

(* The leader of p changes.                                                *)
LeaderMoves(p) ==
    /\ Fault("move")
    /\ \E s \in Sinks \ {leader[p].id} : leader' = [leader EXCEPT ![p] = [id |-> s, ep |-> @.ep + 1]]
    /\ UNCHANGED <<client, ghosts, log, lost>>

(* A new leader lacks the last batches; not all of ours, for no client can *)
(* tell a broker that lost everything from one it is new to.  This happens *)
(* to a partition once.                                                    *)
LogLosesTail(p) ==
    /\ p \notin lost
    /\ Fault("lose")
    /\ \E n \in log[p].start + 1 .. Len(log[p].entries) - 1 :
          /\ log' = [log EXCEPT ![p].entries = SubSeq(@, 1, n)]
          /\ Known(log'[p]) # <<>>
    /\ lost' = lost \cup {p}
    /\ UNCHANGED <<client, ghosts, leader>>

(* Retention deletes what is in the log, ours and, after it, a record of   *)
(* another producer if there is one.                                       *)
LogTruncated(p) ==
    /\ Len(log[p].entries) > log[p].start
    /\ Fault("truncate")
    /\ \E others \in {<<>>, <<Entry(0, 1, 0, 0)>>} :
          log' = [log EXCEPT ![p] = [entries |-> @.entries \o others,
                                     start |-> Len(@.entries) + Len(others)]]
    /\ UNCHANGED <<client, ghosts, leader, lost>>

-----------------------------------------------------------------------------
(* Handling responses                                                      *)

Handling(s) == reqs[s] # <<>> /\ reqs[s][1].st = "handling"

(* The semaphore after a response, if g is the one before.                 *)
firstRespCheck(g) == 1

(* handleSeqResps gets to the next request that has a response or an       *)
(* error: firstRespCheck for a response, handleReqClientErr for an error.  *)
handleSeqResps(s) ==
    LET q == reqs[s][1]
        all == DOMAIN q.bs
    IN /\ reqs[s] # <<>>
       /\ q.st \in {"replied", "connErr", "dialErr"}
       /\ gen' = IF q.st = "replied" THEN [gen EXCEPT ![s] = firstRespCheck(@)] ELSE gen
       /\ reqs' = [reqs EXCEPT ![s][1] =
                     [@ EXCEPT !.st = "handling",
                               !.todo = IF q.st = "replied" THEN DOMAIN q.resp ELSE {},
                               !.miss = IF q.st = "replied" THEN all \ DOMAIN q.resp ELSE all,
                               !.updateMeta = q.st # "connErr"]]
       /\ UNCHANGED <<rb, pid, pc, want, sem, moves, next, done, forgot, bound, broker>>

(* failProducerID: only the first failure of the current ID counts.        *)
failProducerID(epoch, err) ==
    pid' = IF pid = [epoch |-> epoch, err |-> "none"] THEN [pid EXCEPT !.err = err] ELSE pid

Retriable == {"notLeaderForPartition", "notEnoughReplicas", "notEnoughReplicasAfterAppend",
              "unknownTopicOrPartition"}
SequenceErrors == {"outOfOrderSequenceNumber", "unknownProducerID", "invalidProducerEpoch"}

(* The response is about a batch that is not the first any more.           *)
RespSkipped(s, p) ==
    /\ ~isOwnersFirstBatch(rb[p], reqs[s][1].bs[p])
    /\ reqs' = [reqs EXCEPT ![s][1].todo = @ \ {p}]
    /\ UNCHANGED <<rb, pid, done, forgot>>

(* NOT_LEADER_FOR_PARTITION with the new leader.                           *)
RespMoving(s, p) ==
    LET q == reqs[s][1]
        a == q.resp[p]
    IN /\ isOwnersFirstBatch(rb[p], q.bs[p])
       /\ a.code = "notLeaderForPartition" /\ a.leader.id # None
       /\ rb' = [rb EXCEPT ![p] = [responded(@) EXCEPT !.failing = TRUE]]
       /\ reqs' = [reqs EXCEPT ![s][1] = [q EXCEPT !.todo = @ \ {p}, !.retry = @ \cup {p},
                                                   !.moving = @ \cup {p}]]
       /\ UNCHANGED <<pid, done, forgot>>

(* Not skipped and not moving: the response's error decides.               *)
RespDecides(s, p) ==
    LET a == reqs[s][1].resp[p]
    IN /\ isOwnersFirstBatch(rb[p], reqs[s][1].bs[p])
       /\ ~(a.code = "notLeaderForPartition" /\ a.leader.id # None)

RespRetry(s, p) ==
    LET q == reqs[s][1]
        a == q.resp[p]
        r == checkUnknownFailLimit(responded(rb[p]), a.code)
    IN /\ RespDecides(s, p)
       /\ a.code \in Retriable
       /\ r.unknown <= MaxUnknown
       /\ rb' = [rb EXCEPT ![p] = r]
       /\ reqs' = [reqs EXCEPT ![s][1] = [q EXCEPT !.todo = @ \ {p}, !.retry = @ \cup {p}]]
       /\ UNCHANGED <<pid, done, forgot>>

(* Mutants of PrefixTruncated: compared the other way round, and only with *)
(* what was produced at all.                                               *)
PrefixRemains(r, a) == r.acked >= 0 /\ a.start < r.acked
PrefixIgnored(r, a) == r.acked >= 0

(* All we produced was deleted since, and the broker forgot us for it.     *)
PrefixTruncated(r, a) == r.acked >= 0 /\ a.start > r.acked

(* A sequence error of partition p, what is known of its log, and what the *)
(* error is taken for.                                                     *)
Forgot(p, r, q, kind) ==
    [p |-> p, epoch |-> q.epoch, start |-> q.resp[p].start, acked |-> r.acked, kind |-> kind]

(* The broker does not know the sequence: without data loss if all we      *)
(* produced was deleted since, else with data loss.                        *)
RespReset(s, p) ==
    LET q == reqs[s][1]
        r == checkUnknownFailLimit(responded(rb[p]), q.resp[p].code)
        truncated == PrefixTruncated(r, q.resp[p])
    IN /\ RespDecides(s, p)
       /\ q.resp[p].code \in SequenceErrors
       /\ truncated \/ ~bound.stop
       /\ forgot' = forgot \cup {Forgot(p, r, q, IF truncated THEN "retention" ELSE "onDataLoss")}
       /\ failProducerID(q.epoch, "reload")
       /\ rb' = [rb EXCEPT ![p] = r]
       /\ reqs' = [reqs EXCEPT ![s][1] = [q EXCEPT !.todo = @ \ {p}, !.retry = @ \cup {p}]]
       /\ UNCHANGED done

RespFatal(s, p) ==
    LET q == reqs[s][1]
        r == checkUnknownFailLimit(responded(rb[p]), q.resp[p].code)
    IN /\ RespDecides(s, p)
       /\ q.resp[p].code \in SequenceErrors
       /\ bound.stop /\ ~PrefixTruncated(r, q.resp[p])
       /\ forgot' = forgot \cup {Forgot(p, r, q, "stopOnDataLoss")}
       /\ failProducerID(q.epoch, "fatal")
       /\ rb' = [rb EXCEPT ![p] = failAllRecords(r)]
       /\ done' = [done EXCEPT ![p] = @ \o FailedPromises(r)]
       /\ reqs' = [reqs EXCEPT ![s][1].todo = @ \ {p}]

RespOk(s, p) ==
    LET a == reqs[s][1].resp[p]
        r == checkUnknownFailLimit(responded(rb[p]), a.code)
    IN /\ RespDecides(s, p)
       /\ a.code = "ok"
       /\ rb' = [rb EXCEPT ![p] = [finishBatch(r) EXCEPT !.ok = TRUE, !.acked = a.off]]
       /\ done' = [done EXCEPT ![p] = Append(@, Promise(r.batches[1], TRUE))]
       /\ reqs' = [reqs EXCEPT ![s][1].todo = @ \ {p}]
       /\ UNCHANGED <<pid, forgot>>

(* An error that is not retried, or that was retried up to the limit:      *)
(* finishBatch fails everything that is buffered.                          *)
RespFails(s, p) ==
    LET a == reqs[s][1].resp[p]
        r == checkUnknownFailLimit(responded(rb[p]), a.code)
    IN /\ RespDecides(s, p)
       /\ \/ a.code \in {"messageTooLarge", "corruptMessage"}
          \/ a.code \in Retriable /\ (r.unknown > MaxUnknown \/ TRUE \in maybeFailErr)
       /\ rb' = [rb EXCEPT ![p] = failAllRecords(r)]
       /\ done' = [done EXCEPT ![p] = @ \o FailedPromises(r)]
       /\ reqs' = [reqs EXCEPT ![s][1].todo = @ \ {p}]
       /\ UNCHANGED <<pid, forgot>>

handleReqRespBatch(s, p) ==
    /\ Handling(s)
    /\ p \in reqs[s][1].todo
    /\ \/ RespSkipped(s, p) \/ RespMoving(s, p) \/ RespRetry(s, p) \/ RespReset(s, p)
       \/ RespFatal(s, p) \/ RespOk(s, p) \/ RespFails(s, p)
    /\ UNCHANGED <<pc, want, gen, sem, moves, next, bound, broker>>

-----------------------------------------------------------------------------
(* Retrying                                                                *)

(* handleRetryBatches runs for the partitions without a response first,    *)
(* then for those the responses said to retry; phase is what is left of    *)
(* the current call.                                                       *)
Phase(q) == IF q.miss # {} THEN q.miss ELSE q.retry

(* One partition of handleRetryBatches is done: with the last one, the     *)
(* call ends by asking for metadata, or else by draining if what failed    *)
(* does not need any, and KIP-951 moves begin.                             *)
RetryEnds(s, p, needsMeta, backoff) ==
    LET q == reqs[s][1]
        last == Phase(q) = {p}
        meta == q.needsMeta \/ needsMeta
        back == q.backoff \/ backoff
    IN /\ reqs' = [reqs EXCEPT ![s][1] =
                     [q EXCEPT !.miss = @ \ {p},
                               !.retry = IF q.miss # {} THEN @ ELSE @ \ {p},
                               !.needsMeta = meta /\ ~last,
                               !.backoff = back /\ ~last]]
       /\ DrainIf(last /\ ~meta /\ (back \/ ~q.updateMeta), s)
       /\ moves' = IF last /\ q.miss = {}
                   THEN moves \cup {[p |-> m, leader |-> q.resp[m].leader] : m \in q.moving}
                   ELSE moves

RetrySkipped(s, p) ==
    /\ ~isOwnersFirstBatch(rb[p], reqs[s][1].bs[p])
    /\ RetryEnds(s, p, FALSE, FALSE)
    /\ UNCHANGED <<rb, done>>

(* The partition has moved to another sink meanwhile.                      *)
RetryOnOtherSink(s, p) ==
    /\ isOwnersFirstBatch(rb[p], reqs[s][1].bs[p])
    /\ rb[p].sink # s
    /\ rb' = [rb EXCEPT ![p] = resetBatchDrainIdx(@)]
    /\ RetryEnds(s, p, FALSE, FALSE)
    /\ UNCHANGED done

(* A limit is reached; only checked when there was a response.             *)
RetryFails(s, p) ==
    /\ isOwnersFirstBatch(rb[p], reqs[s][1].bs[p])
    /\ rb[p].sink = s
    /\ reqs[s][1].miss = {}
    /\ TRUE \in maybeFailErr
    /\ rb' = [rb EXCEPT ![p] = failAllRecords(@)]
    /\ done' = [done EXCEPT ![p] = @ \o FailedPromises(rb[p])]
    /\ RetryEnds(s, p, FALSE, FALSE)

Retried(s, p) ==
    LET q == reqs[s][1]
        r == resetBatchDrainIdx(rb[p])
        moving == q.miss = {} /\ p \in q.moving
        unknownAndFirstBatch == ~moving /\ r.unknown = 1 /\ r.seq = 0
        failing == ~moving /\ ~unknownAndFirstBatch /\ q.updateMeta
    IN /\ isOwnersFirstBatch(rb[p], q.bs[p])
       /\ rb[p].sink = s
       /\ rb' = [rb EXCEPT ![p] = [r EXCEPT !.failing = @ \/ failing]]
       /\ RetryEnds(s, p, failing, unknownAndFirstBatch)
       /\ UNCHANGED done

handleRetryBatches(s, p) ==
    /\ Handling(s)
    /\ reqs[s][1].todo = {}
    /\ p \in Phase(reqs[s][1])
    /\ RetrySkipped(s, p) \/ RetryOnOtherSink(s, p) \/ RetryFails(s, p) \/ Retried(s, p)
    /\ UNCHANGED <<pid, pc, gen, sem, next, forgot, bound, broker>>

(* The last thing that happens to a request, for each of its partitions;   *)
(* with the last of them its slot is free.                                 *)
reqFinished(s, p) ==
    LET q == reqs[s][1]
        r == decInflight(rb[p])
    IN /\ Handling(s)
       /\ q.todo \cup q.miss \cup q.retry = {}
       /\ p \in q.dec
       /\ rb' = [rb EXCEPT ![p] = r]
       /\ DrainIf(r.inflight = 0 /\ Pending(r), r.sink)
       /\ reqs' = IF q.dec = {p} THEN [reqs EXCEPT ![s] = Tail(@)]
                  ELSE [reqs EXCEPT ![s][1].dec = @ \ {p}]
       /\ IF q.dec = {p} THEN FreeSlot(s, q.gen) ELSE UNCHANGED sem
       /\ UNCHANGED <<pid, pc, gen, moves, next, done, forgot, bound, broker>>

-----------------------------------------------------------------------------
(* Metadata                                                                *)

(* Mutant of LearnLeader: nothing is drained.                              *)
LearnSilently(p, l) ==
    /\ rb' = [rb EXCEPT ![p] = [@ EXCEPT !.failing = FALSE, !.sink = l.id, !.ep = l.ep]]
    /\ UNCHANGED want

(* A recBuf learns of its leader: migrateProductionTo, or clearFailing if  *)
(* nothing changed; both end in clearFailing.                              *)
LearnLeader(p, l) ==
    LET r == [rb[p] EXCEPT !.failing = FALSE, !.sink = l.id, !.ep = l.ep]
    IN /\ rb' = [rb EXCEPT ![p] = r]
       /\ DrainIf(Pending(r), r.sink)

updateMetadata(p) ==
    /\ LearnLeader(p, leader[p])
    /\ UNCHANGED <<pid, pc, gen, sem, reqs, moves, next, done, forgot, bound, broker>>

(* doMove: nothing moves if metadata has moved the partition already.      *)
doMove(m) ==
    /\ m \in moves
    /\ moves' = moves \ {m}
    /\ LearnLeader(m.p, IF rb[m.p].ep > m.leader.ep
                        THEN [id |-> rb[m.p].sink, ep |-> rb[m.p].ep] ELSE m.leader)
    /\ UNCHANGED <<pid, pc, gen, sem, reqs, next, done, forgot, bound, broker>>

(* Metadata has an error for the partition: unless the first batch may     *)
(* have reached the broker, everything buffered fails if the error is not  *)
(* one to retry, or if a limit is reached.                                 *)
bumpRepeatedLoadErr(p) ==
    /\ rb[p].batches # <<>>
    /\ Fault("loadErr")
    /\ \E err \in {"network", "retriable", "unknownTopicOrPartition", "fatal"} :
          LET r == checkUnknownFailLimit(rb[p], err)
              mayFail == IF err = "fatal" \/ r.unknown > MaxUnknown THEN {TRUE} ELSE maybeFailErr
          IN \E batch0Fail \in mayFail :
                LET willFail == r.batches[1].canFail /\ batch0Fail
                IN /\ rb' = [rb EXCEPT ![p] = IF willFail THEN failAllRecords(r) ELSE r]
                   /\ done' = [done EXCEPT ![p] = IF willFail THEN @ \o FailedPromises(r) ELSE @]
    /\ UNCHANGED <<pid, pc, want, gen, sem, reqs, moves, next, forgot, bound, ghosts, leader, log, lost>>

-----------------------------------------------------------------------------
drain(s) ==
    \/ drainBegin(s) \/ ProduceNothing(s) \/ producerID(s) \/ producerIDFatal(s) \/ createReq(s)

handleReqResp(s) ==
    \/ handleSeqResps(s)
    \/ \E p \in Partitions : handleReqRespBatch(s, p) \/ handleRetryBatches(s, p) \/ reqFinished(s, p)

Next ==
    \/ \E p \in Partitions : bufferRecord(p) \/ updateMetadata(p) \/ bumpRepeatedLoadErr(p)
    \/ \E s \in Sinks : drain(s) \/ AppendTo(s) \/ BrokerHandle(s) \/ handleReqResp(s)
    \/ \E m \in moves : doMove(m)
    \/ \E s \in Sinks : producerIDLoadFail(s) \/ DialFails(s) \/ ConnDies(s) \/ GhostHandled(s)
    \/ \E p \in Partitions : LeaderMoves(p) \/ LogLosesTail(p) \/ LogTruncated(p)

(* Goroutines run, requests are written and answered, and metadata is      *)
(* loaded again and again; faults and new records owe nobody anything.     *)
Fairness ==
    /\ \A s \in Sinks : /\ WF_vars(drain(s)) /\ WF_vars(AppendTo(s))
                        /\ WF_vars(BrokerHandle(s)) /\ WF_vars(handleReqResp(s))
    /\ \A p \in Partitions : WF_vars(updateMetadata(p))
    /\ WF_vars(\E m \in moves : doMove(m))

Spec == Init /\ [][Next]_vars /\ Fairness

-----------------------------------------------------------------------------
(* Properties                                                              *)

Batch == [first : Nat \ {0}, n : 1 .. BatchMax, frozen : BOOLEAN, canFail : BOOLEAN]

(* Every variable has its type.                                            *)
TypeOK ==
    /\ \A p \in Partitions :
          LET r == rb[p]
          IN /\ r.sink \in Sinks /\ r.on \in Sinks \cup {None}
             /\ r.batches \in Seq(Batch)
             /\ r.idx \in 0 .. Len(r.batches)
             /\ {r.seq, r.seq0} \subseteq 0 .. MaxInt32
             /\ {r.reset, r.ok, r.failing} \subseteq BOOLEAN
             /\ {r.inflight, r.ep, r.unknown} \subseteq Nat
             /\ r.acked \in Nat \cup {-1}
    /\ pid \in [epoch : -1 .. bound.epochs, err : {"none", "reload", "fatal"}]
    /\ pc \in [Sinks -> [at : {"idle", "sem", "create"}, gen : {0, 1}, epoch : -1 .. bound.epochs]]
    /\ want \in [Sinks -> BOOLEAN]
    /\ gen \in [Sinks -> {0, 1}] /\ sem \in [Sinks -> [{0, 1} -> Nat]]
    /\ \A s \in Sinks : \A i \in 1 .. Len(reqs[s]) :
          LET q == reqs[s][i]
          IN /\ q.st \in {"made", "sent", "replied", "handling", "connErr", "dialErr"}
             /\ q.epoch \in 0 .. bound.epochs
             /\ DOMAIN q.bs \in SUBSET Partitions \ {{}}
             /\ q.dec # {} /\ q.dec \subseteq DOMAIN q.bs
             /\ q.st = "handling" => i = 1
    /\ \A p \in Partitions : next[p] \in 1 .. bound.recs[p] + 1
    /\ bound \in Scenarios
    /\ faults \in 0 .. bound.faults

(* The requests that hold partition p.                                     *)
Holding(p) == {h \in Sinks \X (1 .. MaxInflight + 1) :
                  h[2] <= Len(reqs[h[1]]) /\ p \in reqs[h[1]][h[2]].dec}

(* inflight counts the requests a partition is in, and all of them are on  *)
(* one sink, whatever the partition was moved to meanwhile: a new leader   *)
(* sees none of its batches before the old one is done with.  And swapping *)
(* inflightSem while a drain loop waits on the old one lets one request    *)
(* more than its capacity through, never more: brokers remember only the   *)
(* last five batches of a producer.                                        *)
InflightOnOneSink ==
    /\ \A p \in Partitions :
          /\ Numbered(rb[p].inflight, Holding(p))
          /\ \A h \in Holding(p) : rb[p].on = h[1]
          /\ rb[p].on = None <=> rb[p].inflight = 0
    /\ \A s \in Sinks : Len(reqs[s]) <= MaxInflight + 1

(* Every record is promised exactly once, in the order records were        *)
(* buffered, or else it is still buffered.                                 *)
EachRecordOnce ==
    \A p \in Partitions : Contiguous(done[p] \o rb[p].batches, 1, next[p] - 1)

(* The log holds each record at most once, in the order of buffering,      *)
(* whatever was retried, moved or handled late.                            *)
LogOrdered ==
    \A p \in Partitions :
        LET es == log[p].entries
        IN \A i, j \in 1 .. Len(es) :
              i < j /\ es[i].first # 0 /\ es[j].first # 0 => es[i].first + es[i].n <= es[j].first

(* Retries, moves, late answers and failing on limits neither repeat nor   *)
(* reorder nor forget a record, towards the user or in the log.            *)
OnceInOrder == EachRecordOnce /\ LogOrdered

Records(b) == b.first .. b.first + b.n - 1

(* A record that was promised without an error is in the log.              *)
AckedInLog ==
    \A p \in Partitions \ lost : \A i \in 1 .. Len(done[p]) :
        done[p][i].ok => \A rec \in Records(done[p][i]) : InLog(log[p], rec)

(* A record that was promised with an error is not in the log.             *)
FailedNotInLog ==
    \A p \in Partitions : \A i \in 1 .. Len(done[p]) :
        ~done[p][i].ok => \A rec \in Records(done[p][i]) : ~InLog(log[p], rec)

(* What promises say of a record is true: its error tells whether it is in *)
(* the log, through lost responses and through the numbers that are reused *)
(* after a batch was failed on a limit (finishBatch, failAllRecords,       *)
(* canFail).  It does not hold of a client that meets both, a limit after  *)
(* a lost response: AckedInLog fails then (Reuse in MCSink).               *)
PromisesTrue == AckedInLog /\ FailedNotInLog

(* The epoch was bumped and other partitions than p are produced to.       *)
BumpShared(p) ==
    /\ \E k \in forgot : k.epoch < pid.epoch
    /\ \E o \in Partitions \ {p} : next[o] > 1

(* What is reported as data loss (onDataLoss, stopOnDataLoss) is one, for  *)
(* a log that retention deleted is told from one that lost its end by its  *)
(* LogStartOffset.  Excepted are a log that starts right after our last    *)
(* record, which the strict comparison takes for a loss, and a partition   *)
(* that meets the epoch another one has begun (see EpochStartsAtZero).     *)
LossOnlyIfLost ==
    \A k \in forgot :
        k.kind # "retention" => k.p \in lost \/ k.start = k.acked \/ BumpShared(k.p)

(* The batches of p that a broker sees with epoch e before request i of s  *)
(* does.                                                                   *)
SeenWithEpoch(s, i, p, e) ==
    \/ \E k \in 1 .. Len(log[p].entries) : log[p].entries[k].epoch = e
    \/ \E j \in 1 .. i - 1 : p \in DOMAIN reqs[s][j].bs /\ reqs[s][j].epoch = e

(* Once the epoch is bumped, every partition begins again with sequence    *)
(* number 0: no request has the new epoch with an old sequence number.     *)
EpochStartsAtZero ==
    \A s \in Sinks : \A i \in 1 .. Len(reqs[s]) :
        LET q == reqs[s][i]
        IN \A p \in DOMAIN q.bs :
              q.epoch > 0 /\ ~SeenWithEpoch(s, i, p, q.epoch) => q.bs[p].seq = 0

(* A record that was acknowledged is not in the log, and a later one is.   *)
Gap(p) ==
    \E i \in 1 .. Len(done[p]), k \in 1 .. Len(log[p].entries) :
        /\ done[p][i].ok /\ log[p].entries[k].first > done[p][i].first
        /\ ~InLog(log[p], done[p][i].first)

(* Nothing is written after acknowledged records that were lost before the *)
(* loss is reported, and nothing at all with stopOnDataLoss (producerID,   *)
(* resetAllProducerSequences, handleReqRespBatch).  Excepted are a log     *)
(* that retention deleted before the loss was met, and a shared epoch that *)
(* was bumped: both let numbers begin again.                               *)
LossNoticed ==
    \A p \in Partitions :
        Gap(p) => \/ log[p].start > 0 \/ BumpShared(p)
                  \/ ~bound.stop /\ \E k \in forgot : k.p = p /\ k.kind = "onDataLoss"

(* Every buffered record is promised at some time: again and again, all    *)
(* that are buffered are.                                                  *)
EveryRecordPromised ==
    []<>(\A p \in Partitions : \A rec \in 1 .. next[p] - 1 :
            \E i \in 1 .. Len(done[p]) : rec \in Records(done[p][i]))
=============================================================================
