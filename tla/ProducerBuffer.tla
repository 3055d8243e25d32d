--------------------------- MODULE ProducerBuffer ---------------------------
(***************************************************************************)
(* The buffer limits of the producer (producer.go): Produce counts a       *)
(* record, or blocks until there is room or its context is canceled; the   *)
(* promise of a finished record is called and the record is uncounted;     *)
(* Flush waits until nothing is counted and nothing is blocked.  They meet *)
(* at the mutex p.mu, the condition p.c and the counters.                  *)
(*                                                                         *)
(* What runs between p.mu.Lock and p.mu.Unlock or p.c.Wait is one step.    *)
(* The mutex is a variable because the goroutine of a blocked Produce      *)
(* returns with it locked, for Produce to go on with.  A goroutine that    *)
(* was woken is one that wants the mutex again.                            *)
(*                                                                         *)
(* A record is one call of Produce.  What happens to it once it is being   *)
(* drained is the business of Sink; here it is finished at some time.      *)
(* Lingering ends when Flush or a blocked Produce ends it, or when its     *)
(* timer fires, which nothing here may rely on: manual flushing is a       *)
(* linger whose timer never fires.                                         *)
(***************************************************************************)
EXTENDS Integers, Sequences, FiniteSets

CONSTANTS
    Records,        \* the calls of Produce
    Flushers,       \* the calls of Flush
    Size,           \* the user size of a record
    Invalid,        \* records that may lack a topic or a transaction
    NonBlocking,    \* records that may be produced with TryProduce
    Cancelable,     \* records whose context may be canceled while they wait
    FlushCancelable,\* flushes whose context may be canceled
    MaxRecords,     \* cfg.maxBufferedRecords
    MaxBytes,       \* cfg.maxBufferedBytes, 0 if there is no such limit
    None            \* no record

ASSUME BufferAssumption ==
    /\ IsFiniteSet(Records) /\ IsFiniteSet(Flushers)
    /\ None \notin Records
    /\ Size \in [Records -> Nat]
    /\ MaxRecords \in Nat \ {0} /\ MaxBytes \in Nat
    /\ Invalid \subseteq Records /\ NonBlocking \subseteq Records /\ Cancelable \subseteq Records
    /\ FlushCancelable \subseteq Flushers

VARIABLES
    st,         \* where each record is
    goro,       \* the goroutine that waits for room for a blocked record
    killer,     \* the goroutine that makes it quit
    mu,         \* the record whose goroutine has left the mutex locked
    bufferedRecords, bufferedBytes, blocked, blockedBytes,
    promises,   \* the ring batchPromises: records to promise, in order
    finisher,   \* where finishPromises is
    broadcast,  \* what it is to do when it ends
    broadcasts, \* ended runs of it that have yet to broadcast
    flushing,
    fl,         \* where each Flush is
    fgoro,      \* the goroutine that waits for it
    snap        \* history: what was buffered or blocked when a Flush began

producing == <<st, goro, killer, mu>>
counters == <<bufferedRecords, bufferedBytes, blocked, blockedBytes>>
finishing == <<promises, finisher, broadcast, broadcasts>>
flushes == <<flushing, fl, fgoro, snap>>
vars == <<producing, counters, finishing, flushes>>

Init ==
    /\ st = [r \in Records |-> "new"]
    /\ goro = [r \in Records |-> "none"]
    /\ killer = [r \in Records |-> "none"]
    /\ mu = None
    /\ bufferedRecords = 0 /\ bufferedBytes = 0 /\ blocked = 0 /\ blockedBytes = 0
    /\ promises = <<>> /\ finisher = "idle" /\ broadcast = FALSE /\ broadcasts = 0
    /\ flushing = 0
    /\ fl = [f \in Flushers |-> "idle"]
    /\ fgoro = [f \in Flushers |-> "none"]
    /\ snap = [f \in Flushers |-> {}]

-----------------------------------------------------------------------------
(* p.c.Broadcast: who waits wants the mutex again.                         *)
Woken(g) == IF g = "wait" THEN "lock" ELSE g

Broadcast ==
    /\ goro' = [r \in Records |-> Woken(goro[r])]
    /\ fgoro' = [f \in Flushers |-> Woken(fgoro[f])]

(* promiseBatch: the first to push starts finishPromises.                  *)
promiseRecord(r) ==
    /\ promises' = Append(promises, r)
    /\ IF promises = <<>> THEN finisher' = "call" /\ broadcast' = FALSE
                          ELSE UNCHANGED <<finisher, broadcast>>
    /\ UNCHANGED broadcasts

-----------------------------------------------------------------------------
(* Produce                                                                 *)

(* Mutant of Over: what is buffered counts, r itself does not.             *)
OverAlready(r) ==
    \/ bufferedRecords > MaxRecords
    \/ MaxBytes > 0 /\ bufferedBytes > MaxBytes

(* calcNums: with r, there would be too many records or bytes.             *)
Over(r) ==
    \/ bufferedRecords + 1 > MaxRecords
    \/ MaxBytes > 0 /\ bufferedBytes + Size[r] > MaxBytes

TooLarge(r) == MaxBytes > 0 /\ Size[r] > MaxBytes

(* The record is failed before it is counted.                              *)
ProduceRejects(r) ==
    /\ st[r] = "new"
    /\ r \in Invalid \/ TooLarge(r) \/ (mu = None /\ Over(r) /\ r \in NonBlocking)
    /\ st' = [st EXCEPT ![r] = "rejected"]
    /\ promiseRecord(r)
    /\ UNCHANGED <<goro, killer, mu, counters, flushes>>

ProduceCounts(r) ==
    /\ st[r] = "new"
    /\ ~TooLarge(r)
    /\ mu = None
    /\ ~Over(r)
    /\ st' = [st EXCEPT ![r] = "counted"]
    /\ bufferedRecords' = bufferedRecords + 1
    /\ bufferedBytes' = bufferedBytes + Size[r]
    /\ UNCHANGED <<goro, killer, mu, blocked, blockedBytes, finishing, flushes>>

ProduceBlocks(r) ==
    /\ st[r] = "new"
    /\ ~TooLarge(r)
    /\ mu = None
    /\ Over(r)
    /\ st' = [st EXCEPT ![r] = "blocking"]
    /\ blocked' = blocked + 1
    /\ blockedBytes' = blockedBytes + Size[r]
    /\ UNCHANGED <<goro, killer, mu, bufferedRecords, bufferedBytes, finishing, flushes>>

(* All lingering ends.                                                     *)
Unlingered(s) == [r \in Records |-> IF s[r] = "lingering" THEN "draining" ELSE s[r]]

(* Mutant of unlingerDueToMaxRecsBuffered: lingers are left alone.         *)
ignoreMaxRecsBuffered(r) ==
    /\ st[r] = "blocking"
    /\ st' = [st EXCEPT ![r] = "blocked"]
    /\ goro' = [goro EXCEPT ![r] = "lock"]
    /\ UNCHANGED <<killer, mu, counters, finishing, flushes>>

(* Before it waits, a blocked Produce ends all lingers.                    *)
unlingerDueToMaxRecsBuffered(r) ==
    /\ st[r] = "blocking"
    /\ st' = [Unlingered(st) EXCEPT ![r] = "blocked"]
    /\ goro' = [goro EXCEPT ![r] = "lock"]
    /\ UNCHANGED <<killer, mu, counters, finishing, flushes>>

quit(r) == killer[r] \in {"broadcast", "done"}

(* The goroutine gets the mutex and waits, or returns with the mutex.      *)
GoroWaits(r) ==
    /\ goro[r] = "lock"
    /\ mu = None
    /\ ~quit(r) /\ Over(r)
    /\ goro' = [goro EXCEPT ![r] = "wait"]
    /\ UNCHANGED <<st, killer, mu, counters, finishing, flushes>>

GoroReturns(r) ==
    /\ goro[r] = "lock"
    /\ mu = None
    /\ quit(r) \/ ~Over(r)
    /\ goro' = [goro EXCEPT ![r] = "held"]
    /\ mu' = r
    /\ blocked' = blocked - 1
    /\ blockedBytes' = blockedBytes - Size[r]
    /\ UNCHANGED <<st, killer, bufferedRecords, bufferedBytes, finishing, flushes>>

(* Produce goes on with the mutex its goroutine has locked.                *)
ProduceResumes(r) ==
    /\ st[r] = "blocked"
    /\ goro[r] = "held"
    /\ st' = [st EXCEPT ![r] = "counted"]
    /\ goro' = [goro EXCEPT ![r] = "done"]
    /\ mu' = None
    /\ bufferedRecords' = bufferedRecords + 1
    /\ bufferedBytes' = bufferedBytes + Size[r]
    /\ UNCHANGED <<killer, blocked, blockedBytes, finishing, flushes>>

(* drainBuffered: a context is done, whether or not the goroutine has      *)
(* returned.                                                               *)
ProduceQuits(r) ==
    /\ st[r] = "blocked"
    /\ r \in Cancelable
    /\ st' = [st EXCEPT ![r] = "quitting"]
    /\ killer' = [killer EXCEPT ![r] = "lock"]
    /\ UNCHANGED <<goro, mu, counters, finishing, flushes>>

KillerQuits(r) ==
    /\ killer[r] = "lock"
    /\ mu = None
    /\ killer' = [killer EXCEPT ![r] = "broadcast"]
    /\ UNCHANGED <<st, goro, mu, counters, finishing, flushes>>

KillerBroadcasts(r) ==
    /\ killer[r] = "broadcast"
    /\ killer' = [killer EXCEPT ![r] = "done"]
    /\ Broadcast
    /\ UNCHANGED <<st, mu, counters, finishing, flushing, fl, snap>>

(* The goroutine has returned: Produce unlocks and fails the record.       *)
ProduceFails(r) ==
    /\ st[r] = "quitting"
    /\ goro[r] = "held"
    /\ st' = [st EXCEPT ![r] = "rejected"]
    /\ goro' = [goro EXCEPT ![r] = "done"]
    /\ mu' = None
    /\ promiseRecord(r)
    /\ UNCHANGED <<killer, counters, flushes>>

-----------------------------------------------------------------------------
(* A counted record                                                        *)

lockedMaybeLinger == flushing = 0 /\ blocked = 0

(* The record gets to its partition, and lingers there or is drained.      *)
bufferRecord(r) ==
    /\ st[r] = "counted"
    /\ st' = [st EXCEPT ![r] = IF lockedMaybeLinger THEN "lingering" ELSE "draining"]
    /\ UNCHANGED <<goro, killer, mu, counters, finishing, flushes>>

(* The drain loop lets the last batch of a partition linger again, and the *)
(* timer of a linger may fire.                                             *)
tryStopLingerForDraining(r) ==
    /\ \/ st[r] = "draining" /\ lockedMaybeLinger /\ st' = [st EXCEPT ![r] = "lingering"]
       \/ st[r] = "lingering" /\ st' = [st EXCEPT ![r] = "draining"]
    /\ UNCHANGED <<goro, killer, mu, counters, finishing, flushes>>

(* A record is produced or failed.                                         *)
Finish(r) ==
    /\ st' = [st EXCEPT ![r] = "promised"]
    /\ promiseRecord(r)
    /\ UNCHANGED <<goro, killer, mu, counters, flushes>>

finishBatch(r) == st[r] = "draining" /\ Finish(r)

(* No partition for it, or everything buffered is failed.                  *)
failBufferedRecords(r) == st[r] \in {"counted", "lingering"} /\ Finish(r)

-----------------------------------------------------------------------------
(* finishPromises                                                          *)

(* The promise is called; that is all for a record that was not counted.   *)
CallPromise ==
    /\ finisher = "call"
    /\ LET r == Head(promises)
           counted == st[r] = "promised"
       IN /\ st' = [st EXCEPT ![r] = IF counted THEN "called" ELSE "done"]
          /\ finisher' = IF counted THEN "count" ELSE "drop"
    /\ UNCHANGED <<goro, killer, mu, counters, promises, broadcast, broadcasts, flushes>>

(* Mutant of NeedsBroadcast: only flushes are told.                        *)
NeedsBroadcastFlush(n) == n = 0 /\ flushing > 0

(* Somebody waits for what happens when n records are left.                *)
NeedsBroadcast(n) == blocked > 0 \/ (n = 0 /\ flushing > 0)

(* The record is uncounted.                                                *)
finishRecordPromise ==
    /\ finisher = "count"
    /\ mu = None
    /\ LET r == Head(promises)
       IN /\ st' = [st EXCEPT ![r] = "done"]
          /\ bufferedRecords' = bufferedRecords - 1
          /\ bufferedBytes' = bufferedBytes - Size[r]
    /\ broadcast' = (broadcast \/ NeedsBroadcast(bufferedRecords'))
    /\ finisher' = "drop"
    /\ UNCHANGED <<goro, killer, mu, blocked, blockedBytes, promises, broadcasts, flushes>>

(* The next record, or the end of finishPromises; its broadcast comes      *)
(* last, when another run of it may have begun.                            *)
dropPeek ==
    /\ finisher = "drop"
    /\ promises' = Tail(promises)
    /\ IF promises' # <<>>
       THEN finisher' = "call" /\ UNCHANGED <<broadcast, broadcasts>>
       ELSE /\ finisher' = "idle"
            /\ broadcast' = FALSE
            /\ broadcasts' = IF broadcast THEN broadcasts + 1 ELSE broadcasts
    /\ UNCHANGED <<producing, counters, flushes>>

FinishedBroadcasts ==
    /\ broadcasts > 0
    /\ broadcasts' = broadcasts - 1
    /\ Broadcast
    /\ UNCHANGED <<st, killer, mu, counters, promises, finisher, broadcast, flushing, fl, snap>>

-----------------------------------------------------------------------------
(* Flush                                                                   *)

(* The records that bufferedRecords counts, and those that blocked counts. *)
Counted == {r \in Records : st[r] \in {"counted", "lingering", "draining", "promised", "called"}}
Blocked == {r \in Records : st[r] \in {"blocking", "blocked", "quitting"} /\ goro[r] # "held"}

Flush(f) ==
    /\ fl[f] = "idle"
    /\ fl' = [fl EXCEPT ![f] = "unlingering"]
    /\ flushing' = flushing + 1
    /\ snap' = [snap EXCEPT ![f] = Counted \cup Blocked]
    /\ UNCHANGED <<producing, counters, finishing, fgoro>>

FlushUnlingers(f) ==
    /\ fl[f] = "unlingering"
    /\ fl' = [fl EXCEPT ![f] = "waiting"]
    /\ fgoro' = [fgoro EXCEPT ![f] = "lock"]
    /\ st' = Unlingered(st)
    /\ UNCHANGED <<goro, killer, mu, counters, finishing, flushing, snap>>

fquit(f) == fl[f] \in {"canceled", "failed"}

(* Mutant of Waiting: who is blocked does not count.                       *)
WaitingForBuffered == bufferedRecords > 0

Waiting == bufferedRecords + blocked > 0

FlushChecks(f) ==
    /\ fgoro[f] = "lock"
    /\ mu = None
    /\ fgoro' = [fgoro EXCEPT ![f] = IF ~fquit(f) /\ Waiting THEN "wait" ELSE "done"]
    /\ UNCHANGED <<producing, counters, finishing, flushing, fl, snap>>

FlushReturnsNil(f) ==
    /\ fl[f] = "waiting"
    /\ fgoro[f] = "done"
    /\ fl' = [fl EXCEPT ![f] = "returned"]
    /\ flushing' = flushing - 1
    /\ UNCHANGED <<producing, counters, finishing, fgoro, snap>>

FlushQuits(f) ==
    /\ fl[f] = "waiting"
    /\ f \in FlushCancelable
    /\ mu = None
    /\ fl' = [fl EXCEPT ![f] = "canceled"]
    /\ UNCHANGED <<producing, counters, finishing, flushing, fgoro, snap>>

FlushFails(f) ==
    /\ fl[f] = "canceled"
    /\ fl' = [fl EXCEPT ![f] = "failed"]
    /\ flushing' = flushing - 1
    /\ Broadcast
    /\ UNCHANGED <<st, killer, mu, counters, finishing, snap>>

-----------------------------------------------------------------------------
(* What Produce and its two goroutines do about a blocked record.          *)
BlockedStep(r) ==
    \/ unlingerDueToMaxRecsBuffered(r) \/ GoroWaits(r) \/ GoroReturns(r)
    \/ ProduceResumes(r) \/ KillerQuits(r) \/ KillerBroadcasts(r) \/ ProduceFails(r)

finishPromises == CallPromise \/ finishRecordPromise \/ dropPeek

FlushStep(f) == FlushUnlingers(f) \/ FlushChecks(f) \/ FlushReturnsNil(f) \/ FlushFails(f)

Next ==
    \/ \E r \in Records :
          \/ ProduceRejects(r) \/ ProduceCounts(r) \/ ProduceBlocks(r)
          \/ BlockedStep(r) \/ ProduceQuits(r)
          \/ bufferRecord(r) \/ tryStopLingerForDraining(r)
          \/ finishBatch(r) \/ failBufferedRecords(r)
    \/ finishPromises
    \/ FinishedBroadcasts
    \/ \E f \in Flushers : Flush(f) \/ FlushStep(f) \/ FlushQuits(f)

(* Goroutines run and get the mutex, records reach their partitions, and   *)
(* what is drained is finished; no timer fires, nobody calls or cancels    *)
(* anything that they need not.                                            *)
Fairness ==
    /\ \A r \in Records :
          /\ WF_vars(unlingerDueToMaxRecsBuffered(r))
          /\ WF_vars(GoroWaits(r) \/ GoroReturns(r))
          /\ WF_vars(ProduceResumes(r) \/ ProduceFails(r))
          /\ WF_vars(KillerQuits(r) \/ KillerBroadcasts(r))
          /\ WF_vars(bufferRecord(r))
          /\ WF_vars(finishBatch(r))
    /\ WF_vars(finishPromises)
    /\ WF_vars(FinishedBroadcasts)
    /\ \A f \in Flushers : WF_vars(FlushStep(f))

Spec == Init /\ [][Next]_vars /\ Fairness

-----------------------------------------------------------------------------
(* Properties                                                              *)

(* Every variable has its type.                                            *)
TypeOK ==
    /\ st \in [Records -> {"new", "rejected", "blocking", "blocked", "quitting", "counted",
                           "lingering", "draining", "promised", "called", "done"}]
    /\ goro \in [Records -> {"none", "lock", "wait", "held", "done"}]
    /\ killer \in [Records -> {"none", "lock", "broadcast", "done"}]
    /\ mu \in Records \cup {None}
    /\ bufferedRecords \in Nat /\ bufferedBytes \in Int
    /\ blocked \in Nat /\ blockedBytes \in Int
    /\ promises \in Seq(Records)
    /\ finisher \in {"idle", "call", "count", "drop"}
    /\ broadcast \in BOOLEAN
    /\ broadcasts \in Nat
    /\ flushing \in Nat
    /\ fl \in [Flushers -> {"idle", "unlingering", "waiting", "canceled", "returned", "failed"}]
    /\ fgoro \in [Flushers -> {"none", "lock", "wait", "done"}]
    /\ snap \in [Flushers -> SUBSET Records]

(* No more is ever buffered than the limits allow, whoever is let in by    *)
(* whose goroutine after what was finished or canceled.                    *)
LimitHeld ==
    /\ bufferedRecords <= MaxRecords
    /\ MaxBytes > 0 => bufferedBytes <= MaxBytes

InFlush == {f \in Flushers : fl[f] \in {"unlingering", "waiting", "canceled"}}

(* The counters are what they count: no record is uncounted twice or       *)
(* never, and none is counted as blocked and as buffered.                  *)
CountersExact ==
    /\ bufferedRecords = Cardinality(Counted)
    /\ blocked = Cardinality(Blocked)
    /\ flushing = Cardinality(InFlush)

(* Somebody is about to broadcast.                                         *)
BroadcastComing ==
    \/ broadcast
    \/ broadcasts > 0
    \/ \E r \in Records : killer[r] = "broadcast"
    \/ \E f \in Flushers : fl[f] = "canceled"

(* No blocked Produce sleeps through its wakeup: while there is room for   *)
(* it, or its context is canceled, a broadcast is coming.                  *)
ProducersWoken ==
    \A r \in Records :
        goro[r] = "wait" /\ (~Over(r) \/ quit(r)) => BroadcastComing

(* When Flush returns without an error, the promises of all records that   *)
(* were buffered or blocked when it began have been called, but for those  *)
(* whose Produce was canceled.                                             *)
FlushMeansFlushed ==
    \A f \in Flushers :
        fl[f] = "returned" => \A r \in snap[f] : st[r] \in {"done", "rejected"}

(* A blocked Produce returns, however long records could linger.           *)
ProduceReturns ==
    \A r \in Records :
        (st[r] = "blocking") ~> (st[r] \notin {"blocking", "blocked", "quitting"})

(* Flush returns, however long records could linger.                       *)
FlushReturns ==
    \A f \in Flushers : (fl[f] = "unlingering") ~> (fl[f] \in {"returned", "failed"})

(* Flush returns unless a blocked Produce is canceled.                     *)
FlushReturnsOrCanceled ==
    \A f \in Flushers :
        (fl[f] = "unlingering") ~> \/ fl[f] \in {"returned", "failed"}
                                  \/ \E r \in Records : killer[r] # "none"

(* No call hangs for good: neither a Produce that found no room nor, but   *)
(* for the case FlushReturns shows, a Flush.                               *)
CallsReturn == ProduceReturns /\ FlushReturnsOrCanceled
=============================================================================
