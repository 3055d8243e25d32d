------------------------------ MODULE Metadata ------------------------------
(***************************************************************************)
(* The metadata loop (metadata.go) and the records it releases: records    *)
(* produced to a topic whose partitions are not loaded wait in the         *)
(* producer's unknownTopics (producer.go, topics_and_partitions.go) until  *)
(* a metadata update loads the topic, a limit is hit, or the topic is      *)
(* purged, aborted or failed.                                              *)
(*                                                                         *)
(* One topic.  The topicPartitions objects stored for it in p.topics are   *)
(* numbered in the order they are created (t.made of them), and so are the *)
(* unknownTopicProduces (gens); 0 is nil.  A step is what a goroutine does *)
(* under one critical section of topicsMu and unknownTopicsMu, or between  *)
(* two of them.  RecordRetries stands for UnknownTopicRetries too, and     *)
(* consuming by regex, which requests all topics, is not modelled.         *)
(***************************************************************************)
EXTENDS Naturals, Sequences, SequencesExt

CONSTANTS
    Producers,    \* goroutines that call Produce
    WaitCap,      \* capacity of unknown.wait; 5 in the source
    NowTries,     \* updates an immediate trigger may loop for; 8 in the source
    Scenarios     \* what a behaviour may do: see Init

VARIABLES
    pr,           \* producers: record in hand, phase, topicPartitions in hand
    t,            \* the topic's topicPartitions objects
    gens,         \* sequence of unknownTopicProduces, each with its waiter
    unk,          \* unknownTopics[topic], an index of gens or 0
    md,           \* the metadata loop
    ch, nowCh,    \* updateMetadataCh and updateMetadataNowCh hold a trigger
    fresh,        \* an update succeeded less than MetadataMinAge ago
    user,         \* the goroutine that purges, aborts or closes
    out,          \* history: the records handed on, in order, with their fate
    bound         \* what is left of the scenario

vars == <<pr, t, gens, unk, md, ch, nowCh, fresh, user, out, bound>>

(***************************************************************************)
(* A scenario: recs, the records produced; retries, the limit              *)
(* RecordRetries; answers, what a metadata request may return for the      *)
(* topic; faults, how often it may return something else than partitions;  *)
(* ticks, whether MetadataMaxAge passes; calls, the client calls made; and *)
(* concurrent, whether they are made while a Produce is running.           *)
(***************************************************************************)
Init ==
    /\ bound \in Scenarios
    /\ pr = [p \in Producers |-> [rec |-> 0, ph |-> "idle", parts |-> 0]]
    /\ t = [cur |-> 0, made |-> 0, loaded |-> {}, failed |-> {}, named |-> {}, purged |-> {}]
    /\ gens = <<>> /\ unk = 0
    /\ md = [ph |-> "select", now |-> FALSE, tries |-> 0, snap |-> 0, retry |-> FALSE]
    /\ ch = FALSE /\ nowCh = FALSE /\ fresh = FALSE
    /\ user = [ph |-> "idle", aborting |-> FALSE, closed |-> FALSE]
    /\ out = <<>>

Record(p) == <<p, pr[p].rec>>
\* History: what became of a record.
Fated(recs, fate) == [i \in 1..Len(recs) |-> [rec |-> recs[i], fate |-> fate]]
Buffered(parts) == IF parts \in t.purged THEN 0 ELSE parts
-----------------------------------------------------------------------------
(* Produce: partitionsForTopicProduce and doPartition. *)

\* Partitions were found, with or without a fatal load error of a later update.
Found(parts) == IF parts \in t.failed THEN "failed" ELSE "fast"

\* The fate of a record is 0 when its promise is failed, or the number of the
\* topicPartitions in whose buffers it is put.
Load(p) ==
    /\ pr[p].ph = "idle" /\ bound.recs > 0 /\ (bound.concurrent \/ user.ph = "idle")
    /\ bound' = [bound EXCEPT !.recs = @ - 1]
    /\ pr' = [pr EXCEPT ![p].parts = t.cur, ![p].rec = bound.recs,
                        ![p].ph = IF t.cur \in t.loaded THEN Found(t.cur) ELSE "slow"]
    /\ UNCHANGED <<t, gens, unk, md, ch, nowCh, fresh, user, out>>

Done(p) == [pr EXCEPT ![p] = [rec |-> 0, ph |-> "idle", parts |-> 0]]

Partition(p) ==
    /\ pr[p].ph \in {"fast", "failed"}
    /\ out' = out \o Fated(<<Record(p)>>,
                           IF pr[p].ph = "fast" THEN Buffered(pr[p].parts) ELSE 0)
    /\ pr' = Done(p)
    /\ UNCHANGED <<t, gens, unk, md, ch, nowCh, fresh, user, bound>>

NewUnknown(r) ==
    [buf |-> <<r>>, ph |-> "start", errs |-> 0, tries |-> 0, closed |-> FALSE, fatal |-> FALSE]

AddUnknownTopicRecord(r) ==
    IF unk = 0
    THEN gens' = Append(gens, NewUnknown(r)) /\ unk' = Len(gens) + 1
    ELSE gens' = [gens EXCEPT ![unk].buf = Append(@, r)] /\ unk' = unk

TopicsMuFree == user.ph # "purging"

\* The topic was not stored: stored now, in the critical section that adds
\* the record.
StoreTopic(p) ==
    /\ pr[p].ph = "slow" /\ pr[p].parts = 0 /\ TopicsMuFree /\ t.cur = 0
    /\ t' = [t EXCEPT !.made = @ + 1, !.cur = t.made + 1]
    /\ AddUnknownTopicRecord(Record(p))
    /\ nowCh' = TRUE
    /\ pr' = Done(p)
    /\ UNCHANGED <<md, ch, fresh, user, out, bound>>

RecheckNot(p, parts) ==
    /\ AddUnknownTopicRecord(Record(p))
    /\ ch' = (ch \/ ~fresh)
    /\ pr' = Done(p)

\* The topic was stored: the partitions are looked at again under the lock.
Recheck(p, parts) ==
    IF parts \in t.loaded
    THEN /\ pr' = [pr EXCEPT ![p].ph = Found(parts), ![p].parts = parts]
         /\ UNCHANGED <<gens, unk, ch>>
    ELSE /\ AddUnknownTopicRecord(Record(p))
         /\ ch' = (ch \/ ~fresh)
         /\ pr' = Done(p)

PartitionsForTopicProduce(p) ==
    /\ pr[p].ph = "slow" /\ (pr[p].parts = 0 => TopicsMuFree /\ t.cur # 0)
    /\ Recheck(p, IF pr[p].parts = 0 THEN t.cur ELSE pr[p].parts)
    /\ UNCHANGED <<t, md, nowCh, fresh, user, out, bound>>
-----------------------------------------------------------------------------
(* waitUnknownTopic *)

WaiterOff(g, ph) == gens' = [gens EXCEPT ![g].ph = ph]

StartWait(g) ==
    /\ gens[g].ph = "start"
    /\ WaiterOff(g, IF user.aborting THEN "failing" ELSE "wait")
    /\ UNCHANGED <<pr, t, unk, md, ch, nowCh, fresh, user, out, bound>>

WaitErr(g) ==
    /\ gens[g].ph = "wait"
    /\ \/ gens[g].closed /\ WaiterOff(g, "done")
       \/ (gens[g].fatal \/ user.closed) /\ WaiterOff(g, "failing")
       \/ /\ gens[g].errs > 0
          /\ gens' = [gens EXCEPT ![g].errs = @ - 1, ![g].tries = @ + 1,
                         ![g].ph = IF gens[g].tries >= bound.retries THEN "failing" ELSE "wait"]
    /\ UNCHANGED <<pr, t, unk, md, ch, nowCh, fresh, user, out, bound>>

\* The context of the first record, or RecordDeliveryTimeout.
WaitCanceled(g) ==
    /\ gens[g].ph = "wait" /\ "cancel" \in bound.calls
    /\ WaiterOff(g, "failing")
    /\ bound' = [bound EXCEPT !.calls = @ \ {"cancel"}]
    /\ UNCHANGED <<pr, t, unk, md, ch, nowCh, fresh, user, out>>

FailUnknownAny(g) == unk' = 0 /\ out' = out \o Fated(gens[g].buf, 0)

FailUnknown(g) ==
    IF unk = g
    THEN unk' = 0 /\ out' = out \o Fated(gens[g].buf, 0)
    ELSE UNCHANGED <<unk, out>>

WaitFailed(g) ==
    /\ gens[g].ph = "failing"
    /\ WaiterOff(g, "done")
    /\ FailUnknown(g)
    /\ UNCHANGED <<pr, t, md, ch, nowCh, fresh, user, bound>>
-----------------------------------------------------------------------------
(* updateMetadataLoop *)

\* Where the loop runs functions sent to blockingMetadataFnCh.
RunsFn == {"select", "prewait", "drain", "quick", "backoff"}
BlockingFnAlways == md.ph # "stopped"
BlockingFn == md.ph \in RunsFn

Select ==
    /\ md.ph = "select" /\ ~user.closed
    /\ \/ ch /\ ch' = FALSE /\ UNCHANGED nowCh /\ md' = [md EXCEPT !.ph = "prewait", !.tries = 1]
       \/ nowCh /\ nowCh' = FALSE /\ UNCHANGED ch
          /\ md' = [md EXCEPT !.ph = "drain", !.now = TRUE, !.tries = 1]
       \/ bound.ticks /\ md' = [md EXCEPT !.ph = "prewait", !.tries = 1] /\ UNCHANGED <<ch, nowCh>>
    /\ UNCHANGED <<pr, t, gens, unk, fresh, user, out, bound>>

\* The wait for MetadataMinAge, ended by its timer or by an immediate trigger.
Prewait ==
    /\ md.ph = "prewait" /\ ~user.closed
    /\ nowCh' \in {nowCh, FALSE}
    /\ md' = [md EXCEPT !.ph = "drain"]
    /\ UNCHANGED <<pr, t, gens, unk, ch, fresh, user, out, bound>>

Drain ==
    /\ md.ph = "drain"
    /\ ch' = FALSE /\ nowCh' = FALSE
    /\ md' = [md EXCEPT !.ph = "load"]
    /\ UNCHANGED <<pr, t, gens, unk, fresh, user, out, bound>>

\* updateMetadata loads the topics to ask for.
LoadTopics ==
    /\ md.ph = "load"
    /\ md' = [md EXCEPT !.ph = "fetch", !.snap = t.cur]
    /\ UNCHANGED <<pr, t, gens, unk, ch, nowCh, fresh, user, out, bound>>

Bumped(g) == [gens EXCEPT ![g].errs = IF @ < WaitCap THEN @ + 1 ELSE @]

\* The request fails (always, once the client is closed): every unknown topic
\* is told, the loop triggers itself and backs off.
FetchFailed ==
    /\ md.ph = "fetch"
    /\ \/ user.closed /\ UNCHANGED bound
       \/ /\ "error" \in bound.answers /\ bound.faults > 0
          /\ bound' = [bound EXCEPT !.faults = @ - 1]
    /\ gens' = IF unk = 0 THEN gens ELSE Bumped(unk)
    /\ ch' = TRUE
    /\ md' = [md EXCEPT !.ph = "backoff", !.now = FALSE]
    /\ UNCHANGED <<pr, t, unk, nowCh, fresh, user, out>>

\* mergeTopicPartitions and storePartitionsUpdate for the object in the
\* snapshot, by what the response says of the topic.
StorePartitionsUpdate(loaded) ==
    /\ t' = [t EXCEPT !.named = @ \cup {md.snap},
                      !.loaded = IF loaded THEN @ \cup {md.snap} ELSE @,
                      !.failed = IF loaded THEN @ \ {md.snap} ELSE @ \cup {md.snap}]
    /\ IF unk = 0 \/ md.snap \in t.loaded
       THEN UNCHANGED <<gens, unk, out>>
       ELSE /\ gens' = [gens EXCEPT ![unk].closed = TRUE]
            /\ unk' = 0
            /\ out' = out \o Fated(gens[unk].buf, IF loaded THEN md.snap ELSE 0)

MergeRetriable ==
    /\ t' = [t EXCEPT !.named = @ \cup {md.snap}, !.failed = @ \ {md.snap}]
    /\ gens' = IF unk = 0 \/ md.snap \in t.loaded THEN gens ELSE Bumped(unk)
    /\ UNCHANGED <<unk, out>>

\* The topic is missing in the response: bumpMetadataFailForTopics by the name
\* the object has from an earlier response.
MergeMissing ==
    /\ gens' = IF unk = 0 \/ md.snap \notin t.named THEN gens ELSE Bumped(unk)
    /\ UNCHANGED <<t, unk, out>>

Answer(a) ==
    /\ a = "parts" \/ (a \in bound.answers /\ bound.faults > 0)
    /\ bound' = IF a = "parts" THEN bound ELSE [bound EXCEPT !.faults = @ - 1]
    /\ CASE a = "parts"     -> StorePartitionsUpdate(TRUE)
         [] a = "fatal"     -> StorePartitionsUpdate(FALSE)
         [] a = "retriable" -> MergeRetriable
         [] a = "missing"   -> MergeMissing
    /\ md' = [md EXCEPT !.ph = "updated", !.retry = a \in {"fatal", "retriable"}]

UpdateMetadata ==
    /\ md.ph = "fetch" /\ ~user.closed
    /\ IF md.snap = 0
       THEN /\ md' = [md EXCEPT !.ph = "updated", !.retry = FALSE]
            /\ UNCHANGED <<t, gens, unk, out, bound>>
       ELSE \E a \in {"parts", "fatal", "retriable", "missing"} : Answer(a)
    /\ UNCHANGED <<pr, ch, nowCh, fresh, user>>

\* After a successful request: look again quickly, or trigger and go on.
Updated ==
    /\ md.ph = "updated"
    /\ IF md.retry /\ md.now /\ md.tries < NowTries
       THEN md' = [md EXCEPT !.ph = "quick", !.tries = @ + 1] /\ UNCHANGED <<ch, fresh>>
       ELSE /\ md' = [md EXCEPT !.ph = "select", !.now = FALSE, !.tries = 0, !.snap = 0]
            /\ ch' = (ch \/ md.retry)
            /\ fresh' = TRUE
    /\ UNCHANGED <<pr, t, gens, unk, nowCh, user, out, bound>>

\* The timers of the quick retry and of the backoff after a failed request.
TimerFires ==
    /\ md.ph \in {"quick", "backoff"} /\ ~user.closed
    /\ md' = [md EXCEPT !.ph = IF md.ph = "quick" THEN "drain" ELSE "select"]
    /\ UNCHANGED <<pr, t, gens, unk, ch, nowCh, fresh, user, out, bound>>

LoopStops ==
    /\ md.ph \in {"select", "prewait", "quick", "backoff"} /\ user.closed
    /\ md' = [md EXCEPT !.ph = "stopped"]
    /\ UNCHANGED <<pr, t, gens, unk, ch, nowCh, fresh, user, out, bound>>

MinAgePasses ==
    /\ fresh /\ fresh' = FALSE
    /\ UNCHANGED <<pr, t, gens, unk, md, ch, nowCh, user, out, bound>>
-----------------------------------------------------------------------------
(* PurgeTopicsFromProducing, AbortBufferedRecords, failBufferedRecords and  *)
(* Close.                                                                    *)

MayCall(c) ==
    /\ user.ph = "idle" /\ c \in bound.calls
    /\ bound.concurrent \/ \A p \in Producers : pr[p].ph = "idle"
    /\ bound' = [bound EXCEPT !.calls = @ \ {c}]

\* Every unknown topic is dropped and its records are failed.
DropUnknown ==
    IF unk = 0
    THEN UNCHANGED <<gens, unk, out>>
    ELSE /\ gens' = [gens EXCEPT ![unk].closed = TRUE]
         /\ unk' = 0
         /\ out' = out \o Fated(gens[unk].buf, 0)

\* purgeTopics, run by the metadata loop: first the unknown topic ...
Purge ==
    /\ MayCall("purge") /\ BlockingFn
    /\ DropUnknown
    /\ user' = [user EXCEPT !.ph = "purging"]
    /\ UNCHANGED <<pr, t, md, ch, nowCh, fresh>>

\* ... then the topic and its buffers.
PurgeTopic ==
    /\ user.ph = "purging"
    /\ t' = [t EXCEPT !.cur = 0, !.purged = IF t.cur \in t.loaded THEN @ \cup {t.cur} ELSE @]
    /\ user' = [user EXCEPT !.ph = "idle"]
    /\ UNCHANGED <<pr, gens, unk, md, ch, nowCh, fresh, out, bound>>

AbortBufferedRecords ==
    /\ MayCall("abort")
    /\ user' = [user EXCEPT !.ph = "aborting", !.aborting = TRUE]
    /\ UNCHANGED <<pr, t, gens, unk, md, ch, nowCh, fresh, out>>

AbortUnknown ==
    /\ user.ph = "aborting"
    /\ gens' = IF unk = 0 THEN gens ELSE [gens EXCEPT ![unk].fatal = TRUE]
    /\ user' = [user EXCEPT !.ph = "flushing"]
    /\ UNCHANGED <<pr, t, unk, md, ch, nowCh, fresh, out, bound>>

\* Flush returns once no record is buffered; the buffers themselves are
\* flushed by the sinks.
Aborted ==
    /\ user.ph = "flushing" /\ unk = 0
    /\ user' = [user EXCEPT !.ph = "idle", !.aborting = FALSE]
    /\ UNCHANGED <<pr, t, gens, unk, md, ch, nowCh, fresh, out, bound>>

FailBufferedRecords ==
    /\ t' = IF unk = 0 THEN t ELSE [t EXCEPT !.cur = 0]
    /\ DropUnknown

UnsafeAbortBufferedRecords ==
    /\ MayCall("unsafe")
    /\ FailBufferedRecords
    /\ UNCHANGED <<pr, md, ch, nowCh, fresh, user>>

Close ==
    /\ MayCall("close")
    /\ user' = [user EXCEPT !.ph = "closing", !.closed = TRUE]
    /\ UNCHANGED <<pr, t, gens, unk, md, ch, nowCh, fresh, out>>

Closed ==
    /\ user.ph = "closing" /\ md.ph = "stopped"
    /\ FailBufferedRecords
    /\ user' = [user EXCEPT !.ph = "closed"]
    /\ UNCHANGED <<pr, md, ch, nowCh, fresh, bound>>
-----------------------------------------------------------------------------
Produce == \E p \in Producers :
    Load(p) \/ Partition(p) \/ StoreTopic(p) \/ PartitionsForTopicProduce(p)
Waiter(g) == g \in DOMAIN gens /\ (StartWait(g) \/ WaitErr(g) \/ WaitFailed(g))
\* A purge runs on the loop's goroutine.
Loop ==
    /\ user.ph # "purging"
    /\ \/ Select \/ Prewait \/ Drain \/ LoadTopics \/ FetchFailed \/ UpdateMetadata
       \/ Updated \/ TimerFires \/ LoopStops
Returns == PurgeTopic \/ AbortUnknown \/ Aborted \/ Closed
Calls == Purge \/ AbortBufferedRecords \/ UnsafeAbortBufferedRecords \/ Close
            \/ \E g \in DOMAIN gens : WaitCanceled(g)

Next == Produce \/ (\E g \in DOMAIN gens : Waiter(g)) \/ Loop \/ MinAgePasses \/ Calls \/ Returns

Spec == Init /\ [][Next]_vars

\* Goroutines are scheduled, timers fire, and requests return.
FairSpec == Spec /\ WF_vars(Produce) /\ WF_vars(\E g \in DOMAIN gens : Waiter(g))
                 /\ WF_vars(Loop) /\ WF_vars(Returns)
-----------------------------------------------------------------------------
(***************************************************************************)
(* A record leaves unknownTopics once, whoever takes it (a metadata        *)
(* update, its waiter, a purge, an abort or Close), and the records of one *)
(* Produce caller are buffered in the order they were produced (a record's *)
(* number counts down): "we have to do it under the unknownMu to ensure    *)
(* prior buffered records are produced in order before we release the mu"  *)
(* (storePartitionsUpdate).                                                *)
(***************************************************************************)
HandedOnOnce ==
    \A i, j \in 1..Len(out) :
        i < j => /\ out[i].rec # out[j].rec
                 /\ out[i].rec[1] = out[j].rec[1] /\ out[i].fate # 0 /\ out[j].fate # 0
                        => out[i].rec[2] > out[j].rec[2]

(***************************************************************************)
(* The topic has one live set of partition buffers, the one new records    *)
(* find: "By storing before releasing the locks, we ensure that later      *)
(* partition loads for this topic under the mu will see our update"        *)
(* (storePartitionsUpdate).  Two live buffers of a partition would number  *)
(* their batches independently.                                            *)
(***************************************************************************)
OneBuffer == \A i, j \in t.loaded \ t.purged : i = j

(***************************************************************************)
(* Records that wait for their topic to load are eventually buffered or    *)
(* failed: no trigger for a metadata update is lost between the producers  *)
(* and the loop, and no waiter misses its notification.  A topic that is   *)
(* purged beside a running Produce is excepted: in the run it is purged    *)
(* between two calls (MCMetadataPurge has the other case).                 *)
(***************************************************************************)
RecordsSettle == \A g \in 1..3 : (unk = g) ~> (unk # g)
=============================================================================
