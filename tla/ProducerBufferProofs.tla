------------------------ MODULE ProducerBufferProofs ------------------------
(***************************************************************************)
(* The limits, the counters, the wakeups of blocked Produces and the       *)
(* meaning of Flush, for any records, sizes, limits and flushes.           *)
(***************************************************************************)
EXTENDS ProducerBuffer, FiniteSetTheorems, TLAPS

(* The types of the variables.  A counter is an integer here; that it is   *)
(* never negative follows from what it counts.                             *)
Types ==
    /\ st \in [Records -> {"new", "rejected", "blocking", "blocked", "quitting", "counted",
                           "lingering", "draining", "promised", "called", "done"}]
    /\ goro \in [Records -> {"none", "lock", "wait", "held", "done"}]
    /\ killer \in [Records -> {"none", "lock", "broadcast", "done"}]
    /\ mu \in Records \cup {None}
    /\ bufferedRecords \in Int /\ bufferedBytes \in Int
    /\ blocked \in Int /\ blockedBytes \in Int
    /\ promises \in Seq(Records)
    /\ finisher \in {"idle", "call", "count", "drop"}
    /\ broadcasts \in Nat
    /\ fl \in [Flushers -> {"idle", "unlingering", "waiting", "canceled", "returned", "failed"}]
    /\ fgoro \in [Flushers -> {"none", "lock", "wait", "done"}]
    /\ snap \in [Flushers -> SUBSET Records]

(* The states of a record whose promise is to be called, or was.           *)
Promised == {"promised", "rejected", "called", "done"}

(* finishPromises runs exactly while the ring is not empty, works on the   *)
(* head of it, and no record is pushed twice.                              *)
RingInv ==
    /\ finisher = "idle" <=> promises = <<>>
    /\ finisher = "idle" => ~broadcast
    /\ \A i, j \in 1 .. Len(promises) : promises[i] = promises[j] => i = j
    /\ \A i \in 2 .. Len(promises) : st[promises[i]] \in {"promised", "rejected"}
    /\ finisher = "call" => st[promises[1]] \in {"promised", "rejected"}
    /\ finisher = "count" => st[promises[1]] = "called"
    /\ finisher = "drop" => st[promises[1]] = "done"

(* Who waits in Produce has one goroutine, and the goroutine that returned *)
(* is the one that has the mutex.  That the record that is let in still    *)
(* fits is what the mutex being handed over, locked, is for.               *)
GoroInv ==
    \A r \in Records :
       /\ st[r] \in {"new", "blocking"} => goro[r] = "none"
       /\ st[r] \in {"blocked", "quitting"} <=> goro[r] \in {"lock", "wait", "held"}
       /\ goro[r] = "held" <=> mu = r
       /\ killer[r] # "none" => st[r] \in {"quitting", "rejected", "done"}
       /\ st[r] = "blocked" /\ goro[r] = "held" => ~Over(r)

(* The goroutine of a Flush ends without having been told to quit only     *)
(* when all that was buffered or blocked at the beginning is done.         *)
FlushInv ==
    \A f \in Flushers :
       /\ \A r \in snap[f] : st[r] # "new"
       /\ fl[f] \in {"idle", "unlingering"} => fgoro[f] = "none"
       /\ fl[f] = "returned" => fgoro[f] = "done"
       /\ fgoro[f] = "done" /\ fl[f] \in {"waiting", "returned"}
             => \A r \in snap[f] : st[r] \in {"done", "rejected"}

(* The inductive invariant.                                                *)
IInv ==
    /\ Types /\ RingInv /\ GoroInv /\ FlushInv
    /\ CountersExact /\ LimitHeld /\ ProducersWoken

-----------------------------------------------------------------------------
(* The ring of promises                                                    *)

(* What is in the ring batchPromises was promised or rejected.             *)
LEMMA RingMembers ==
  ASSUME Types, RingInv
  PROVE  /\ \A i \in 1 .. Len(promises) : promises[i] \in Records /\ st[promises[i]] \in Promised
         /\ promises # <<>> => Len(promises) >= 1
<1>1. Len(promises) \in Nat /\ \A i \in 1 .. Len(promises) : promises[i] \in Records
  BY DEF Types
<1>2. promises # <<>> => Len(promises) >= 1
  BY <1>1 DEF Types
<1>3. ASSUME NEW i \in 1 .. Len(promises) PROVE st[promises[i]] \in Promised
  <2>1. CASE i = 1
    <3>1. promises # <<>>
      BY <2>1, <1>1 DEF Types
    <3> QED BY <3>1, <2>1 DEF RingInv, Types, Promised
  <2>2. CASE i # 1
    <3>1. i \in 2 .. Len(promises)
      BY <2>2, <1>1
    <3> QED BY <3>1 DEF RingInv, Promised
  <2> QED BY <2>1, <2>2
<1> QED BY <1>1, <1>2, <1>3

(* While finishPromises runs there is a head, and it is in the state that  *)
(* the place of finishPromises says.                                       *)
LEMMA RingHead ==
  ASSUME Types, RingInv, finisher # "idle"
  PROVE  /\ Head(promises) = promises[1] /\ Head(promises) \in Records /\ promises # <<>>
         /\ finisher = "call" => st[Head(promises)] \in {"promised", "rejected"}
         /\ finisher = "count" => st[Head(promises)] = "called"
<1>1. promises # <<>>
  BY DEF RingInv
<1>2. Head(promises) = promises[1] /\ promises[1] \in Records
  BY <1>1, RingMembers DEF Types
<1> QED BY <1>1, <1>2 DEF RingInv

(* A step that leaves the ring alone, and the records that are or were in  *)
(* it, keeps the invariant of the ring.                                    *)
LEMMA RingStable ==
  ASSUME Types, RingInv, UNCHANGED <<promises, finisher, broadcast>>,
         \A r \in Records : st[r] \in Promised => st'[r] = st[r]
  PROVE  RingInv'
<1>1. \A i \in 1 .. Len(promises) : st'[promises[i]] = st[promises[i]]
  BY RingMembers
<1>2. Len(promises) \in Nat
  BY DEF Types
<1>3. \A i \in 2 .. Len(promises) : st'[promises[i]] = st[promises[i]]
  BY <1>1, <1>2
<1>4. promises # <<>> => st'[promises[1]] = st[promises[1]]
  BY <1>1, <1>2, RingMembers
<1> QED BY <1>3, <1>4 DEF RingInv

(* promiseBatch keeps the invariant of the ring when the record it pushes  *)
(* was not promised before.                                                *)
LEMMA RingAppend ==
  ASSUME Types, RingInv, NEW r \in Records, promiseRecord(r), st[r] \notin Promised,
         st' = [st EXCEPT ![r] = "promised"] \/ st' = [st EXCEPT ![r] = "rejected"]
  PROVE  RingInv'
<1> DEFINE n == Len(promises)
<1>1. n \in Nat /\ promises' = Append(promises, r) /\ Len(promises') = n + 1
  BY DEF Types, promiseRecord
<1>2. /\ \A i \in 1 .. n : promises'[i] = promises[i] /\ promises[i] # r /\ promises[i] \in Records
      /\ promises'[n + 1] = r
  BY <1>1, RingMembers DEF Types
<1>3. \A i \in 1 .. n : st'[promises'[i]] = st[promises[i]]
  BY <1>2 DEF Types
<1>4. st'[promises'[n + 1]] \in {"promised", "rejected"}
  BY <1>2 DEF Types
<1>5. promises' # <<>>
  BY <1>1
<1>6. \A i, j \in 1 .. Len(promises') : promises'[i] = promises'[j] => i = j
  <2> SUFFICES ASSUME NEW i \in 1 .. n + 1, NEW j \in 1 .. n + 1,
      promises'[i] = promises'[j] PROVE i = j
    BY <1>1
  <2>1. i \in 1 .. n \/ i = n + 1
    BY <1>1
  <2>2. j \in 1 .. n \/ j = n + 1
    BY <1>1
  <2> QED BY <2>1, <2>2, <1>2 DEF RingInv
<1>7. CASE promises = <<>>
  <2>1. n = 0
    BY <1>7
  <2>2. finisher' = "call" /\ broadcast' = FALSE
    BY <1>7 DEF promiseRecord
  <2>3. \A i \in 2 .. Len(promises') : FALSE
    BY <2>1, <1>1
  <2>4. st'[promises'[1]] \in {"promised", "rejected"}
    BY <2>1, <1>4
  <2> QED BY <2>2, <2>3, <2>4, <1>5, <1>6 DEF RingInv
<1>8. CASE promises # <<>>
  <2>1. n >= 1 /\ 1 \in 1 .. n
    BY <1>8, <1>1, RingMembers
  <2>2. finisher' = finisher /\ broadcast' = broadcast /\ finisher # "idle"
    BY <1>8 DEF promiseRecord, RingInv
  <2>3. st'[promises'[1]] = st[promises[1]]
    BY <2>1, <1>3
  <2>4. ASSUME NEW i \in 2 .. Len(promises') PROVE st'[promises'[i]] \in {"promised",
      "rejected"}
    <3>1. i = n + 1 \/ (i \in 1 .. n /\ i \in 2 .. n)
      BY <1>1
    <3> QED BY <3>1, <1>3, <1>4 DEF RingInv
  <2> QED BY <2>2, <2>3, <2>4, <1>5, <1>6 DEF RingInv
<1> QED BY <1>7, <1>8

-----------------------------------------------------------------------------
(* The counters                                                            *)

(* What the counters count is finite.                                      *)
LEMMA SetsFinite == IsFiniteSet(Counted) /\ IsFiniteSet(Blocked) /\ IsFiniteSet(InFlush)
BY BufferAssumption, FS_Subset DEF Counted, Blocked, InFlush

(* Counters that are exact are natural numbers.                            *)
LEMMA CountersNat == CountersExact => bufferedRecords \in Nat /\ blocked \in Nat /\ flushing \in Nat
BY SetsFinite, FS_CardinalityType DEF CountersExact

(* While a Produce waits for room, p.blocked is positive, so that          *)
(* finishRecordPromise asks for a broadcast.                               *)
LEMMA BlockedCounts ==
  ASSUME Types, GoroInv, CountersExact, NEW r \in Records, goro[r] = "wait"
  PROVE  blocked > 0
<1>1. r \in Blocked
  BY DEF Blocked, GoroInv, Types
<1> QED BY <1>1, SetsFinite, FS_EmptySet, FS_CardinalityType DEF CountersExact

-----------------------------------------------------------------------------
(* Every step keeps the invariant                                          *)

(* Every step keeps the types.                                             *)
LEMMA TypesStep == Types /\ RingInv /\ [Next]_vars => Types'
<1> SUFFICES ASSUME Types, RingInv, [Next]_vars PROVE Types'
  OBVIOUS
<1> USE BufferAssumption
<1>1. ASSUME NEW r \in Records, ProduceRejects(r) PROVE Types'
  BY <1>1 DEF Types, ProduceRejects, promiseRecord, counters, flushes
<1>2. ASSUME NEW r \in Records, ProduceCounts(r) PROVE Types'
  BY <1>2 DEF Types, ProduceCounts, finishing, flushes
<1>3. ASSUME NEW r \in Records, ProduceBlocks(r) PROVE Types'
  BY <1>3 DEF Types, ProduceBlocks, finishing, flushes
<1>4. ASSUME NEW r \in Records, unlingerDueToMaxRecsBuffered(r) PROVE Types'
  BY <1>4 DEF Types, unlingerDueToMaxRecsBuffered, Unlingered, counters, finishing, flushes
<1>5. ASSUME NEW r \in Records, GoroWaits(r) PROVE Types'
  BY <1>5 DEF Types, GoroWaits, counters, finishing, flushes
<1>6. ASSUME NEW r \in Records, GoroReturns(r) PROVE Types'
  BY <1>6 DEF Types, GoroReturns, finishing, flushes
<1>7. ASSUME NEW r \in Records, ProduceResumes(r) PROVE Types'
  BY <1>7 DEF Types, ProduceResumes, finishing, flushes
<1>8. ASSUME NEW r \in Records, KillerQuits(r) PROVE Types'
  BY <1>8 DEF Types, KillerQuits, counters, finishing, flushes
<1>9. ASSUME NEW r \in Records, KillerBroadcasts(r) PROVE Types'
  BY <1>9 DEF Types, KillerBroadcasts, Broadcast, Woken, counters, finishing
<1>10. ASSUME NEW r \in Records, ProduceFails(r) PROVE Types'
  BY <1>10 DEF Types, ProduceFails, promiseRecord, counters, flushes
<1>11. ASSUME NEW r \in Records, ProduceQuits(r) PROVE Types'
  BY <1>11 DEF Types, ProduceQuits, counters, finishing, flushes
<1>12. ASSUME NEW r \in Records, bufferRecord(r) PROVE Types'
  BY <1>12 DEF Types, bufferRecord, counters, finishing, flushes
<1>13. ASSUME NEW r \in Records, tryStopLingerForDraining(r) PROVE Types'
  <2>1. CASE st[r] = "draining" /\ st' = [st EXCEPT ![r] = "lingering"]
    BY <1>13, <2>1 DEF Types, tryStopLingerForDraining, counters, finishing, flushes
  <2>2. CASE st[r] = "lingering" /\ st' = [st EXCEPT ![r] = "draining"]
    BY <1>13, <2>2 DEF Types, tryStopLingerForDraining, counters, finishing, flushes
  <2> QED BY <1>13, <2>1, <2>2 DEF tryStopLingerForDraining
<1>14. ASSUME NEW r \in Records, finishBatch(r) PROVE Types'
  BY <1>14 DEF Types, finishBatch, Finish, promiseRecord, counters, flushes
<1>15. ASSUME NEW r \in Records, failBufferedRecords(r) PROVE Types'
  BY <1>15 DEF Types, failBufferedRecords, Finish, promiseRecord, counters, flushes
<1>16. CASE CallPromise
  <2>1. Head(promises) \in Records
    BY <1>16, RingHead DEF CallPromise
  <2> QED BY <1>16, <2>1 DEF Types, CallPromise, counters, flushes
<1>17. CASE finishRecordPromise
  <2>1. Head(promises) \in Records /\ Size[Head(promises)] \in Nat
    BY <1>17, RingHead DEF finishRecordPromise
  <2> QED BY <1>17, <2>1 DEF Types, finishRecordPromise, flushes
<1>18. CASE dropPeek
  <2>1. promises # <<>>
    BY <1>18, RingHead DEF dropPeek
  <2>2. Tail(promises) \in Seq(Records)
    BY <2>1 DEF Types
  <2> QED BY <1>18, <2>2, SMTT(40) DEF Types, dropPeek, producing, counters, flushes
<1>19. CASE FinishedBroadcasts
  BY <1>19 DEF Types, FinishedBroadcasts, Broadcast, Woken, counters
<1>20. ASSUME NEW f \in Flushers, Flush(f) PROVE Types'
  <2>1. Counted \cup Blocked \in SUBSET Records
    BY DEF Counted, Blocked
  <2> QED BY <1>20, <2>1 DEF Types, Flush, producing, counters, finishing
<1>21. ASSUME NEW f \in Flushers, FlushUnlingers(f) PROVE Types'
  BY <1>21 DEF Types, FlushUnlingers, Unlingered, counters, finishing
<1>22. ASSUME NEW f \in Flushers, FlushChecks(f) PROVE Types'
  BY <1>22 DEF Types, FlushChecks, producing, counters, finishing
<1>23. ASSUME NEW f \in Flushers, FlushReturnsNil(f) PROVE Types'
  BY <1>23 DEF Types, FlushReturnsNil, producing, counters, finishing
<1>24. ASSUME NEW f \in Flushers, FlushQuits(f) PROVE Types'
  BY <1>24 DEF Types, FlushQuits, producing, counters, finishing
<1>25. ASSUME NEW f \in Flushers, FlushFails(f) PROVE Types'
  BY <1>25 DEF Types, FlushFails, Broadcast, Woken, counters, finishing
<1>26. CASE UNCHANGED vars
  BY <1>26 DEF Types, vars, producing, counters, finishing, flushes
<1> QED BY <1>1, <1>2, <1>3, <1>4, <1>5, <1>6, <1>7, <1>8, <1>9, <1>10, <1>11, <1>12, <1>13,
    <1>14, <1>15, <1>16, <1>17, <1>18, <1>19, <1>20, <1>21, <1>22, <1>23, <1>24, <1>25,
    <1>26, SMTT(40) DEF Next, BlockedStep, finishPromises, FlushStep

(* Every step keeps the invariant of the ring: a push finds a record that  *)
(* was not pushed before, and only finishPromises touches what is in it.   *)
LEMMA RingStep == Types /\ RingInv /\ [Next]_vars => RingInv'
<1> SUFFICES ASSUME Types, RingInv, [Next]_vars PROVE RingInv'
  OBVIOUS
<1> USE BufferAssumption
<1>1. ASSUME NEW r \in Records, ProduceRejects(r) PROVE RingInv'
  BY <1>1, RingAppend, ZenonT(40) DEF ProduceRejects, Types, Promised
<1>2. ASSUME NEW r \in Records, ProduceCounts(r) PROVE RingInv'
  <2>1. \A q \in Records : st[q] \in Promised => st'[q] = st[q]
    BY <1>2 DEF ProduceCounts, Types, Promised
  <2>2. UNCHANGED <<promises, finisher, broadcast>>
    BY <1>2 DEF ProduceCounts, finishing
  <2> QED BY <2>1, <2>2, RingStable
<1>3. ASSUME NEW r \in Records, ProduceBlocks(r) PROVE RingInv'
  <2>1. \A q \in Records : st[q] \in Promised => st'[q] = st[q]
    BY <1>3 DEF ProduceBlocks, Types, Promised
  <2>2. UNCHANGED <<promises, finisher, broadcast>>
    BY <1>3 DEF ProduceBlocks, finishing
  <2> QED BY <2>1, <2>2, RingStable
<1>4. ASSUME NEW r \in Records, unlingerDueToMaxRecsBuffered(r) PROVE RingInv'
  <2>1. \A q \in Records : st[q] \in Promised => st'[q] = st[q]
    BY <1>4 DEF unlingerDueToMaxRecsBuffered, Types, Promised, Unlingered
  <2>2. UNCHANGED <<promises, finisher, broadcast>>
    BY <1>4 DEF unlingerDueToMaxRecsBuffered, finishing
  <2> QED BY <2>1, <2>2, RingStable
<1>5. ASSUME NEW r \in Records, GoroWaits(r) PROVE RingInv'
  <2>1. \A q \in Records : st[q] \in Promised => st'[q] = st[q]
    BY <1>5 DEF GoroWaits, Types, Promised
  <2>2. UNCHANGED <<promises, finisher, broadcast>>
    BY <1>5 DEF GoroWaits, finishing
  <2> QED BY <2>1, <2>2, RingStable
<1>6. ASSUME NEW r \in Records, GoroReturns(r) PROVE RingInv'
  <2>1. \A q \in Records : st[q] \in Promised => st'[q] = st[q]
    BY <1>6 DEF GoroReturns, Types, Promised
  <2>2. UNCHANGED <<promises, finisher, broadcast>>
    BY <1>6 DEF GoroReturns, finishing
  <2> QED BY <2>1, <2>2, RingStable
<1>7. ASSUME NEW r \in Records, ProduceResumes(r) PROVE RingInv'
  <2>1. \A q \in Records : st[q] \in Promised => st'[q] = st[q]
    BY <1>7 DEF ProduceResumes, Types, Promised
  <2>2. UNCHANGED <<promises, finisher, broadcast>>
    BY <1>7 DEF ProduceResumes, finishing
  <2> QED BY <2>1, <2>2, RingStable
<1>8. ASSUME NEW r \in Records, KillerQuits(r) PROVE RingInv'
  <2>1. \A q \in Records : st[q] \in Promised => st'[q] = st[q]
    BY <1>8 DEF KillerQuits, Types, Promised
  <2>2. UNCHANGED <<promises, finisher, broadcast>>
    BY <1>8 DEF KillerQuits, finishing
  <2> QED BY <2>1, <2>2, RingStable
<1>9. ASSUME NEW r \in Records, KillerBroadcasts(r) PROVE RingInv'
  BY <1>9, RingStable DEF KillerBroadcasts, finishing
<1>10. ASSUME NEW r \in Records, ProduceFails(r) PROVE RingInv'
  BY <1>10, RingAppend, ZenonT(40) DEF ProduceFails, Types, Promised
<1>11. ASSUME NEW r \in Records, ProduceQuits(r) PROVE RingInv'
  <2>1. \A q \in Records : st[q] \in Promised => st'[q] = st[q]
    BY <1>11 DEF ProduceQuits, Types, Promised
  <2>2. UNCHANGED <<promises, finisher, broadcast>>
    BY <1>11 DEF ProduceQuits, finishing
  <2> QED BY <2>1, <2>2, RingStable
<1>12. ASSUME NEW r \in Records, bufferRecord(r) PROVE RingInv'
  <2>1. \A q \in Records : st[q] \in Promised => st'[q] = st[q]
    BY <1>12 DEF bufferRecord, Types, Promised
  <2>2. UNCHANGED <<promises, finisher, broadcast>>
    BY <1>12 DEF bufferRecord, finishing
  <2> QED BY <2>1, <2>2, RingStable
<1>13. ASSUME NEW r \in Records, tryStopLingerForDraining(r) PROVE RingInv'
  <2>1. \A q \in Records : st[q] \in Promised => st'[q] = st[q]
    BY <1>13 DEF tryStopLingerForDraining, Types, Promised
  <2>2. UNCHANGED <<promises, finisher, broadcast>>
    BY <1>13 DEF tryStopLingerForDraining, finishing
  <2> QED BY <2>1, <2>2, RingStable
<1>14. ASSUME NEW r \in Records, finishBatch(r) PROVE RingInv'
  BY <1>14, RingAppend, ZenonT(40) DEF finishBatch, Finish, Promised
<1>15. ASSUME NEW r \in Records, failBufferedRecords(r) PROVE RingInv'
  BY <1>15, RingAppend, ZenonT(40) DEF failBufferedRecords, Finish, Promised
<1>16. CASE CallPromise
  <2>1. Head(promises) = promises[1] /\ Head(promises) \in Records
    BY <1>16, RingHead DEF CallPromise
  <2>2. \A i \in 2 .. Len(promises) : promises[i] # promises[1] /\ promises[i] \in Records
    BY RingMembers DEF RingInv, Types
  <2> QED BY <1>16, <2>1, <2>2, RingHead DEF CallPromise, RingInv, Types
<1>17. CASE finishRecordPromise
  <2>1. Head(promises) = promises[1] /\ Head(promises) \in Records
    BY <1>17, RingHead DEF finishRecordPromise
  <2>2. \A i \in 2 .. Len(promises) : promises[i] # promises[1] /\ promises[i] \in Records
    BY RingMembers DEF RingInv, Types
  <2> QED BY <1>17, <2>1, <2>2, RingHead DEF finishRecordPromise, RingInv, Types
<1>18. CASE dropPeek
  <2> DEFINE n == Len(promises)
  <2>1. promises # <<>> /\ n \in Nat /\ n >= 1
    BY <1>18, RingHead, RingMembers DEF dropPeek, Types
  <2>2. /\ promises' = Tail(promises) /\ Len(promises') = n - 1
        /\ \A i \in 1 .. n - 1 : promises'[i] = promises[i + 1]
    BY <1>18, <2>1 DEF dropPeek, Types
  <2>3. st' = st
    BY <1>18 DEF dropPeek, producing
  <2>4. \A i, j \in 1 .. Len(promises') : promises'[i] = promises'[j] => i = j
    BY <2>1, <2>2 DEF RingInv
  <2>5. \A i \in 1 .. Len(promises') : st'[promises'[i]] \in {"promised", "rejected"}
    BY <2>1, <2>2, <2>3 DEF RingInv
  <2>6. CASE promises' = <<>>
    BY <1>18, <2>6, <2>4, <2>2, SMTT(40) DEF dropPeek, RingInv
  <2>7. CASE promises' # <<>>
    <3>1. finisher' = "call"
      BY <1>18, <2>7 DEF dropPeek
    <3>2. 1 \in 1 .. Len(promises')
      BY <2>1, <2>2, <2>7 DEF Types
    <3>3. \A i \in 2 .. Len(promises') : i \in 1 .. Len(promises')
      BY <2>1, <2>2
    <3> QED BY <3>1, <3>2, <3>3, <2>4, <2>5, <2>7 DEF RingInv
  <2> QED BY <2>6, <2>7
<1>19. CASE FinishedBroadcasts
  BY <1>19, RingStable DEF FinishedBroadcasts
<1>20. ASSUME NEW f \in Flushers, Flush(f) PROVE RingInv'
  <2>1. \A q \in Records : st[q] \in Promised => st'[q] = st[q]
    BY <1>20 DEF Flush, Types, Promised, producing
  <2>2. UNCHANGED <<promises, finisher, broadcast>>
    BY <1>20 DEF Flush, finishing
  <2> QED BY <2>1, <2>2, RingStable
<1>21. ASSUME NEW f \in Flushers, FlushUnlingers(f) PROVE RingInv'
  <2>1. \A q \in Records : st[q] \in Promised => st'[q] = st[q]
    BY <1>21 DEF FlushUnlingers, Types, Promised, Unlingered
  <2>2. UNCHANGED <<promises, finisher, broadcast>>
    BY <1>21 DEF FlushUnlingers, finishing
  <2> QED BY <2>1, <2>2, RingStable
<1>22. ASSUME NEW f \in Flushers, FlushChecks(f) PROVE RingInv'
  <2>1. \A q \in Records : st[q] \in Promised => st'[q] = st[q]
    BY <1>22 DEF FlushChecks, Types, Promised, producing
  <2>2. UNCHANGED <<promises, finisher, broadcast>>
    BY <1>22 DEF FlushChecks, finishing
  <2> QED BY <2>1, <2>2, RingStable
<1>23. ASSUME NEW f \in Flushers, FlushReturnsNil(f) PROVE RingInv'
  <2>1. \A q \in Records : st[q] \in Promised => st'[q] = st[q]
    BY <1>23 DEF FlushReturnsNil, Types, Promised, producing
  <2>2. UNCHANGED <<promises, finisher, broadcast>>
    BY <1>23 DEF FlushReturnsNil, finishing
  <2> QED BY <2>1, <2>2, RingStable
<1>24. ASSUME NEW f \in Flushers, FlushQuits(f) PROVE RingInv'
  <2>1. \A q \in Records : st[q] \in Promised => st'[q] = st[q]
    BY <1>24 DEF FlushQuits, Types, Promised, producing
  <2>2. UNCHANGED <<promises, finisher, broadcast>>
    BY <1>24 DEF FlushQuits, finishing
  <2> QED BY <2>1, <2>2, RingStable
<1>25. ASSUME NEW f \in Flushers, FlushFails(f) PROVE RingInv'
  BY <1>25, RingStable DEF FlushFails, finishing
<1>26. CASE UNCHANGED vars
  BY <1>26 DEF RingInv, Types, vars, producing, counters, finishing, flushes
<1> QED BY <1>1, <1>2, <1>3, <1>4, <1>5, <1>6, <1>7, <1>8, <1>9, <1>10, <1>11, <1>12, <1>13,
    <1>14, <1>15, <1>16, <1>17, <1>18, <1>19, <1>20, <1>21, <1>22, <1>23, <1>24, <1>25,
    <1>26, SMTT(40) DEF Next, BlockedStep, finishPromises, FlushStep

(* Every step keeps the invariant of the goroutines: while one has left    *)
(* the mutex locked, nobody takes it and the counters stay.                *)
LEMMA GoroStep == Types /\ RingInv /\ GoroInv /\ [Next]_vars => GoroInv'
<1> SUFFICES ASSUME Types, RingInv, GoroInv, [Next]_vars PROVE GoroInv'
  OBVIOUS
<1> USE BufferAssumption
<1>1. ASSUME NEW r \in Records, ProduceRejects(r) PROVE GoroInv'
  BY <1>1 DEF Types, GoroInv, Over, quit, ProduceRejects, promiseRecord, counters, flushes
<1>2. ASSUME NEW r \in Records, ProduceCounts(r) PROVE GoroInv'
  BY <1>2 DEF Types, GoroInv, Over, quit, ProduceCounts, finishing, flushes
<1>3. ASSUME NEW r \in Records, ProduceBlocks(r) PROVE GoroInv'
  BY <1>3 DEF Types, GoroInv, Over, quit, ProduceBlocks, finishing, flushes
<1>4. ASSUME NEW r \in Records, unlingerDueToMaxRecsBuffered(r) PROVE GoroInv'
  BY <1>4, ZenonT(40) DEF Types, GoroInv, Over, quit, unlingerDueToMaxRecsBuffered, Unlingered,
      counters, finishing, flushes
<1>5. ASSUME NEW r \in Records, GoroWaits(r) PROVE GoroInv'
  BY <1>5 DEF Types, GoroInv, Over, quit, GoroWaits, counters, finishing, flushes
<1>6. ASSUME NEW r \in Records, GoroReturns(r) PROVE GoroInv'
  BY <1>6 DEF Types, GoroInv, Over, quit, GoroReturns, finishing, flushes
<1>7. ASSUME NEW r \in Records, ProduceResumes(r) PROVE GoroInv'
  BY <1>7 DEF Types, GoroInv, Over, quit, ProduceResumes, finishing, flushes
<1>8. ASSUME NEW r \in Records, KillerQuits(r) PROVE GoroInv'
  BY <1>8 DEF Types, GoroInv, Over, quit, KillerQuits, counters, finishing, flushes
<1>9. ASSUME NEW r \in Records, KillerBroadcasts(r) PROVE GoroInv'
  BY <1>9 DEF Types, GoroInv, Over, quit, KillerBroadcasts, Broadcast, Woken, counters,
      finishing
<1>10. ASSUME NEW r \in Records, ProduceFails(r) PROVE GoroInv'
  BY <1>10 DEF Types, GoroInv, Over, quit, ProduceFails, promiseRecord, counters, flushes
<1>11. ASSUME NEW r \in Records, ProduceQuits(r) PROVE GoroInv'
  BY <1>11 DEF Types, GoroInv, Over, quit, ProduceQuits, counters, finishing, flushes
<1>12. ASSUME NEW r \in Records, bufferRecord(r) PROVE GoroInv'
  BY <1>12 DEF Types, GoroInv, Over, quit, bufferRecord, counters, finishing, flushes
<1>13. ASSUME NEW r \in Records, tryStopLingerForDraining(r) PROVE GoroInv'
  <2>1. CASE st[r] = "draining" /\ st' = [st EXCEPT ![r] = "lingering"]
    BY <1>13, <2>1 DEF Types, GoroInv, Over, tryStopLingerForDraining, counters, finishing,
        flushes
  <2>2. CASE st[r] = "lingering" /\ st' = [st EXCEPT ![r] = "draining"]
    BY <1>13, <2>2 DEF Types, GoroInv, Over, tryStopLingerForDraining, counters, finishing,
        flushes
  <2> QED BY <1>13, <2>1, <2>2 DEF tryStopLingerForDraining
<1>14. ASSUME NEW r \in Records, finishBatch(r) PROVE GoroInv'
  BY <1>14 DEF Types, GoroInv, Over, quit, finishBatch, Finish, promiseRecord, counters,
      flushes
<1>15. ASSUME NEW r \in Records, failBufferedRecords(r) PROVE GoroInv'
  BY <1>15 DEF Types, GoroInv, Over, quit, failBufferedRecords, Finish, promiseRecord,
      counters, flushes
<1>16. CASE CallPromise
  <2>1. Head(promises) \in Records /\ st[Head(promises)] \in {"promised", "rejected"}
    BY <1>16, RingHead DEF CallPromise
  <2>2. /\ st' = [st EXCEPT ![Head(promises)] = "called"] \/ st' = [st EXCEPT ![Head(promises)] = "done"]
        /\ st[Head(promises)] = "rejected" => st'[Head(promises)] = "done"
        /\ UNCHANGED <<goro, killer, mu, counters>>
    BY <1>16, <2>1, ZenonT(40) DEF CallPromise, Types
  <2> QED BY <2>1, <2>2 DEF Types, GoroInv, Over, counters
<1>17. CASE finishRecordPromise
  <2>1. Head(promises) \in Records /\ st[Head(promises)] = "called"
    BY <1>17, RingHead DEF finishRecordPromise
  <2> QED BY <1>17, <2>1 DEF Types, GoroInv, Over, finishRecordPromise
<1>18. CASE dropPeek
  BY <1>18 DEF Types, GoroInv, Over, quit, dropPeek, producing, counters, flushes
<1>19. CASE FinishedBroadcasts
  BY <1>19 DEF Types, GoroInv, Over, quit, FinishedBroadcasts, Broadcast, Woken, counters
<1>20. ASSUME NEW f \in Flushers, Flush(f) PROVE GoroInv'
  BY <1>20 DEF Types, GoroInv, Over, quit, Flush, producing, counters, finishing
<1>21. ASSUME NEW f \in Flushers, FlushUnlingers(f) PROVE GoroInv'
  BY <1>21 DEF Types, GoroInv, Over, quit, FlushUnlingers, Unlingered, counters, finishing
<1>22. ASSUME NEW f \in Flushers, FlushChecks(f) PROVE GoroInv'
  BY <1>22 DEF Types, GoroInv, Over, quit, FlushChecks, producing, counters, finishing
<1>23. ASSUME NEW f \in Flushers, FlushReturnsNil(f) PROVE GoroInv'
  BY <1>23 DEF Types, GoroInv, Over, quit, FlushReturnsNil, producing, counters, finishing
<1>24. ASSUME NEW f \in Flushers, FlushQuits(f) PROVE GoroInv'
  BY <1>24 DEF Types, GoroInv, Over, quit, FlushQuits, producing, counters, finishing
<1>25. ASSUME NEW f \in Flushers, FlushFails(f) PROVE GoroInv'
  BY <1>25 DEF Types, GoroInv, Over, quit, FlushFails, Broadcast, Woken, counters, finishing
<1>26. CASE UNCHANGED vars
  BY <1>26 DEF Types, GoroInv, Over, quit, vars, producing, counters, finishing, flushes
<1> QED BY <1>1, <1>2, <1>3, <1>4, <1>5, <1>6, <1>7, <1>8, <1>9, <1>10, <1>11, <1>12, <1>13,
    <1>14, <1>15, <1>16, <1>17, <1>18, <1>19, <1>20, <1>21, <1>22, <1>23, <1>24, <1>25,
    <1>26, SMTT(40) DEF Next, BlockedStep, finishPromises, FlushStep

(* Every step keeps the counters exact: each action adds to a counter, or  *)
(* subtracts from it, what enters or leaves the set it counts.             *)
LEMMA CountersStep == Types /\ RingInv /\ GoroInv /\ CountersExact
    /\ [Next]_vars => CountersExact'
<1> SUFFICES ASSUME Types, RingInv, GoroInv, CountersExact, [Next]_vars PROVE CountersExact'
  OBVIOUS
<1> USE BufferAssumption
<1>1. ASSUME NEW r \in Records, ProduceRejects(r) PROVE CountersExact'
  <2>1. UNCHANGED <<Counted, Blocked, InFlush>>
    BY <1>1 DEF Counted, Blocked, InFlush, Types, GoroInv, ProduceRejects, promiseRecord,
        counters, flushes
  <2> QED BY <1>1, <2>1 DEF CountersExact, ProduceRejects, promiseRecord, counters, flushes
<1>2. ASSUME NEW r \in Records, ProduceCounts(r) PROVE CountersExact'
  <2>1. Counted' = Counted \cup {r} /\ r \notin Counted
    BY <1>2 DEF Counted, Types, GoroInv, ProduceCounts, finishing, flushes
  <2>2. Blocked' = Blocked /\ InFlush' = InFlush
    BY <1>2 DEF Blocked, InFlush, Types, GoroInv, ProduceCounts, finishing, flushes
  <2>3. Cardinality(Counted') = Cardinality(Counted) + 1
    BY <2>1, SetsFinite, FS_AddElement, ZenonT(40)
  <2> QED BY <1>2, <2>2, <2>3 DEF CountersExact, ProduceCounts, finishing, flushes
<1>3. ASSUME NEW r \in Records, ProduceBlocks(r) PROVE CountersExact'
  <2>1. Blocked' = Blocked \cup {r} /\ r \notin Blocked
    BY <1>3 DEF Blocked, Types, GoroInv, ProduceBlocks, finishing, flushes
  <2>2. Counted' = Counted /\ InFlush' = InFlush
    BY <1>3 DEF Counted, InFlush, Types, GoroInv, ProduceBlocks, finishing, flushes
  <2>3. Cardinality(Blocked') = Cardinality(Blocked) + 1
    BY <2>1, SetsFinite, FS_AddElement, ZenonT(40)
  <2> QED BY <1>3, <2>2, <2>3 DEF CountersExact, ProduceBlocks, finishing, flushes
<1>4. ASSUME NEW r \in Records, unlingerDueToMaxRecsBuffered(r) PROVE CountersExact'
  <2>1. UNCHANGED <<Counted, Blocked, InFlush>>
    BY <1>4 DEF Counted, Blocked, InFlush, Types, GoroInv, unlingerDueToMaxRecsBuffered,
        Unlingered, counters, finishing, flushes
  <2> QED BY <1>4, <2>1 DEF CountersExact, unlingerDueToMaxRecsBuffered, Unlingered,
      counters, finishing, flushes
<1>5. ASSUME NEW r \in Records, GoroWaits(r) PROVE CountersExact'
  <2>1. UNCHANGED <<Counted, Blocked, InFlush>>
    BY <1>5 DEF Counted, Blocked, InFlush, Types, GoroInv, GoroWaits, counters, finishing,
        flushes
  <2> QED BY <1>5, <2>1 DEF CountersExact, GoroWaits, counters, finishing, flushes
<1>6. ASSUME NEW r \in Records, GoroReturns(r) PROVE CountersExact'
  <2>1. Blocked' = Blocked \ {r} /\ r \in Blocked
    BY <1>6 DEF Blocked, Types, GoroInv, GoroReturns, finishing, flushes
  <2>2. Counted' = Counted /\ InFlush' = InFlush
    BY <1>6 DEF Counted, InFlush, Types, GoroInv, GoroReturns, finishing, flushes
  <2>3. Cardinality(Blocked') = Cardinality(Blocked) - 1
    BY <2>1, SetsFinite, FS_RemoveElement, ZenonT(40)
  <2> QED BY <1>6, <2>2, <2>3 DEF CountersExact, GoroReturns, finishing, flushes
<1>7. ASSUME NEW r \in Records, ProduceResumes(r) PROVE CountersExact'
  <2>1. Counted' = Counted \cup {r} /\ r \notin Counted
    BY <1>7 DEF Counted, Types, GoroInv, ProduceResumes, finishing, flushes
  <2>2. Blocked' = Blocked /\ InFlush' = InFlush
    BY <1>7 DEF Blocked, InFlush, Types, GoroInv, ProduceResumes, finishing, flushes
  <2>3. Cardinality(Counted') = Cardinality(Counted) + 1
    BY <2>1, SetsFinite, FS_AddElement, ZenonT(40)
  <2> QED BY <1>7, <2>2, <2>3 DEF CountersExact, ProduceResumes, finishing, flushes
<1>8. ASSUME NEW r \in Records, KillerQuits(r) PROVE CountersExact'
  <2>1. UNCHANGED <<Counted, Blocked, InFlush>>
    BY <1>8 DEF Counted, Blocked, InFlush, Types, GoroInv, KillerQuits, counters, finishing,
        flushes
  <2> QED BY <1>8, <2>1 DEF CountersExact, KillerQuits, counters, finishing, flushes
<1>9. ASSUME NEW r \in Records, KillerBroadcasts(r) PROVE CountersExact'
  <2>1. UNCHANGED <<Counted, Blocked, InFlush>>
    BY <1>9 DEF Counted, Blocked, InFlush, Types, GoroInv, KillerBroadcasts, Broadcast,
        Woken, counters, finishing
  <2> QED BY <1>9, <2>1 DEF CountersExact, KillerBroadcasts, Broadcast, Woken, counters,
      finishing
<1>10. ASSUME NEW r \in Records, ProduceFails(r) PROVE CountersExact'
  <2>1. UNCHANGED <<Counted, Blocked, InFlush>>
    BY <1>10 DEF Counted, Blocked, InFlush, Types, GoroInv, ProduceFails, promiseRecord,
        counters, flushes
  <2> QED BY <1>10, <2>1 DEF CountersExact, ProduceFails, promiseRecord, counters, flushes
<1>11. ASSUME NEW r \in Records, ProduceQuits(r) PROVE CountersExact'
  <2>1. UNCHANGED <<Counted, Blocked, InFlush>>
    BY <1>11 DEF Counted, Blocked, InFlush, Types, GoroInv, ProduceQuits, counters,
        finishing, flushes
  <2> QED BY <1>11, <2>1 DEF CountersExact, ProduceQuits, counters, finishing, flushes
<1>12. ASSUME NEW r \in Records, bufferRecord(r) PROVE CountersExact'
  <2>1. UNCHANGED <<Counted, Blocked, InFlush>>
    BY <1>12 DEF Counted, Blocked, InFlush, Types, GoroInv, bufferRecord, counters,
        finishing, flushes
  <2> QED BY <1>12, <2>1 DEF CountersExact, bufferRecord, counters, finishing, flushes
<1>13. ASSUME NEW r \in Records, tryStopLingerForDraining(r) PROVE CountersExact'
  <2>1. UNCHANGED <<Counted, Blocked, InFlush>>
    BY <1>13 DEF Counted, Blocked, InFlush, Types, GoroInv, tryStopLingerForDraining,
        counters, finishing, flushes
  <2> QED BY <1>13, <2>1 DEF CountersExact, tryStopLingerForDraining, counters, finishing,
      flushes
<1>14. ASSUME NEW r \in Records, finishBatch(r) PROVE CountersExact'
  <2>1. UNCHANGED <<Counted, Blocked, InFlush>>
    BY <1>14 DEF Counted, Blocked, InFlush, Types, GoroInv, finishBatch, Finish,
        promiseRecord, counters, flushes
  <2> QED BY <1>14, <2>1 DEF CountersExact, finishBatch, Finish, promiseRecord, counters,
      flushes
<1>15. ASSUME NEW r \in Records, failBufferedRecords(r) PROVE CountersExact'
  <2>1. UNCHANGED <<Counted, Blocked, InFlush>>
    BY <1>15 DEF Counted, Blocked, InFlush, Types, GoroInv, failBufferedRecords, Finish,
        promiseRecord, counters, flushes
  <2> QED BY <1>15, <2>1 DEF CountersExact, failBufferedRecords, Finish, promiseRecord,
      counters, flushes
<1>16. CASE CallPromise
  <2>1. UNCHANGED <<Counted, Blocked, InFlush>>
    BY <1>16, RingHead DEF Counted, Blocked, InFlush, Types, GoroInv, CallPromise, counters,
        flushes
  <2> QED BY <1>16, <2>1 DEF CountersExact, CallPromise, counters, flushes
<1>17. CASE finishRecordPromise
  <2>1. Counted' = Counted \ {Head(promises)} /\ Head(promises) \in Counted
    BY <1>17, RingHead DEF Counted, Types, GoroInv, finishRecordPromise, flushes
  <2>2. Blocked' = Blocked /\ InFlush' = InFlush
    BY <1>17, RingHead DEF Blocked, InFlush, Types, GoroInv, finishRecordPromise, flushes
  <2>3. Cardinality(Counted') = Cardinality(Counted) - 1
    BY <2>1, SetsFinite, FS_RemoveElement, ZenonT(40)
  <2> QED BY <1>17, <2>2, <2>3 DEF CountersExact, finishRecordPromise, flushes
<1>18. CASE dropPeek
  <2>1. UNCHANGED <<Counted, Blocked, InFlush>>
    BY <1>18 DEF Counted, Blocked, InFlush, Types, GoroInv, dropPeek, producing, counters,
        flushes
  <2> QED BY <1>18, <2>1 DEF CountersExact, dropPeek, producing, counters, flushes
<1>19. CASE FinishedBroadcasts
  <2>1. UNCHANGED <<Counted, Blocked, InFlush>>
    BY <1>19 DEF Counted, Blocked, InFlush, Types, GoroInv, FinishedBroadcasts, Broadcast,
        Woken, counters
  <2> QED BY <1>19, <2>1 DEF CountersExact, FinishedBroadcasts, Broadcast, Woken, counters
<1>20. ASSUME NEW f \in Flushers, Flush(f) PROVE CountersExact'
  <2>1. InFlush' = InFlush \cup {f} /\ f \notin InFlush
    BY <1>20 DEF InFlush, Types, GoroInv, Flush, producing, counters, finishing
  <2>2. Counted' = Counted /\ Blocked' = Blocked
    BY <1>20 DEF Counted, Blocked, Types, GoroInv, Flush, producing, counters, finishing
  <2>3. Cardinality(InFlush') = Cardinality(InFlush) + 1
    BY <2>1, SetsFinite, FS_AddElement, ZenonT(40)
  <2> QED BY <1>20, <2>2, <2>3 DEF CountersExact, Flush, producing, counters, finishing
<1>21. ASSUME NEW f \in Flushers, FlushUnlingers(f) PROVE CountersExact'
  <2>1. UNCHANGED <<Counted, Blocked, InFlush>>
    BY <1>21 DEF Counted, Blocked, InFlush, Types, GoroInv, FlushUnlingers, Unlingered,
        counters, finishing
  <2> QED BY <1>21, <2>1 DEF CountersExact, FlushUnlingers, Unlingered, counters, finishing
<1>22. ASSUME NEW f \in Flushers, FlushChecks(f) PROVE CountersExact'
  <2>1. UNCHANGED <<Counted, Blocked, InFlush>>
    BY <1>22, SMTT(40) DEF Counted, Blocked, InFlush, Types, GoroInv, FlushChecks, producing,
        counters, finishing
  <2> QED BY <1>22, <2>1 DEF CountersExact, FlushChecks, producing, counters, finishing
<1>23. ASSUME NEW f \in Flushers, FlushReturnsNil(f) PROVE CountersExact'
  <2>1. InFlush' = InFlush \ {f} /\ f \in InFlush
    BY <1>23 DEF InFlush, Types, GoroInv, FlushReturnsNil, producing, counters, finishing
  <2>2. Counted' = Counted /\ Blocked' = Blocked
    BY <1>23 DEF Counted, Blocked, Types, GoroInv, FlushReturnsNil, producing, counters,
        finishing
  <2>3. Cardinality(InFlush') = Cardinality(InFlush) - 1
    BY <2>1, SetsFinite, FS_RemoveElement, ZenonT(40)
  <2> QED BY <1>23, <2>2, <2>3 DEF CountersExact, FlushReturnsNil, producing, counters,
      finishing
<1>24. ASSUME NEW f \in Flushers, FlushQuits(f) PROVE CountersExact'
  <2>1. UNCHANGED <<Counted, Blocked, InFlush>>
    BY <1>24 DEF Counted, Blocked, InFlush, Types, GoroInv, FlushQuits, producing, counters,
        finishing
  <2> QED BY <1>24, <2>1 DEF CountersExact, FlushQuits, producing, counters, finishing
<1>25. ASSUME NEW f \in Flushers, FlushFails(f) PROVE CountersExact'
  <2>1. InFlush' = InFlush \ {f} /\ f \in InFlush
    BY <1>25 DEF InFlush, Types, GoroInv, FlushFails, Broadcast, Woken, counters, finishing
  <2>2. Counted' = Counted /\ Blocked' = Blocked
    BY <1>25, SMTT(40) DEF Counted, Blocked, Types, GoroInv, FlushFails, Broadcast, Woken, counters,
        finishing
  <2>3. Cardinality(InFlush') = Cardinality(InFlush) - 1
    BY <2>1, SetsFinite, FS_RemoveElement, ZenonT(40)
  <2> QED BY <1>25, <2>2, <2>3 DEF CountersExact, FlushFails, Broadcast, Woken, counters,
      finishing
<1>26. CASE UNCHANGED vars
  BY <1>26, SMTT(40) DEF CountersExact, Counted, Blocked, InFlush, vars, producing, counters,
      finishing, flushes
<1> QED BY <1>1, <1>2, <1>3, <1>4, <1>5, <1>6, <1>7, <1>8, <1>9, <1>10, <1>11, <1>12, <1>13,
    <1>14, <1>15, <1>16, <1>17, <1>18, <1>19, <1>20, <1>21, <1>22, <1>23, <1>24, <1>25,
    <1>26, SMTT(40) DEF Next, BlockedStep, finishPromises, FlushStep

(* Every step keeps the limits: a record is only counted when calcNums     *)
(* found room for it and the mutex was not released since.                 *)
LEMMA LimitStep == Types /\ RingInv /\ GoroInv /\ LimitHeld /\ [Next]_vars => LimitHeld'
<1> SUFFICES ASSUME Types, RingInv, GoroInv, LimitHeld, [Next]_vars PROVE LimitHeld'
  OBVIOUS
<1> USE BufferAssumption
<1>1. ASSUME NEW r \in Records, ProduceRejects(r) PROVE LimitHeld'
  BY <1>1 DEF Types, LimitHeld, GoroInv, Over, ProduceRejects, promiseRecord, counters,
      flushes
<1>2. ASSUME NEW r \in Records, ProduceCounts(r) PROVE LimitHeld'
  BY <1>2 DEF Types, LimitHeld, GoroInv, Over, ProduceCounts, finishing, flushes
<1>3. ASSUME NEW r \in Records, ProduceBlocks(r) PROVE LimitHeld'
  BY <1>3 DEF Types, LimitHeld, GoroInv, Over, ProduceBlocks, finishing, flushes
<1>4. ASSUME NEW r \in Records, unlingerDueToMaxRecsBuffered(r) PROVE LimitHeld'
  BY <1>4 DEF Types, LimitHeld, GoroInv, Over, unlingerDueToMaxRecsBuffered, Unlingered,
      counters, finishing, flushes
<1>5. ASSUME NEW r \in Records, GoroWaits(r) PROVE LimitHeld'
  BY <1>5 DEF Types, LimitHeld, GoroInv, Over, GoroWaits, counters, finishing, flushes
<1>6. ASSUME NEW r \in Records, GoroReturns(r) PROVE LimitHeld'
  BY <1>6 DEF Types, LimitHeld, GoroInv, Over, GoroReturns, finishing, flushes
<1>7. ASSUME NEW r \in Records, ProduceResumes(r) PROVE LimitHeld'
  BY <1>7 DEF Types, LimitHeld, GoroInv, Over, ProduceResumes, finishing, flushes
<1>8. ASSUME NEW r \in Records, KillerQuits(r) PROVE LimitHeld'
  BY <1>8 DEF Types, LimitHeld, GoroInv, Over, KillerQuits, counters, finishing, flushes
<1>9. ASSUME NEW r \in Records, KillerBroadcasts(r) PROVE LimitHeld'
  BY <1>9 DEF Types, LimitHeld, GoroInv, Over, KillerBroadcasts, Broadcast, Woken, counters,
      finishing
<1>10. ASSUME NEW r \in Records, ProduceFails(r) PROVE LimitHeld'
  BY <1>10 DEF Types, LimitHeld, GoroInv, Over, ProduceFails, promiseRecord, counters,
      flushes
<1>11. ASSUME NEW r \in Records, ProduceQuits(r) PROVE LimitHeld'
  BY <1>11 DEF Types, LimitHeld, GoroInv, Over, ProduceQuits, counters, finishing, flushes
<1>12. ASSUME NEW r \in Records, bufferRecord(r) PROVE LimitHeld'
  BY <1>12 DEF Types, LimitHeld, GoroInv, Over, bufferRecord, counters, finishing, flushes
<1>13. ASSUME NEW r \in Records, tryStopLingerForDraining(r) PROVE LimitHeld'
  BY <1>13 DEF Types, LimitHeld, GoroInv, Over, tryStopLingerForDraining, counters,
      finishing, flushes
<1>14. ASSUME NEW r \in Records, finishBatch(r) PROVE LimitHeld'
  BY <1>14 DEF Types, LimitHeld, GoroInv, Over, finishBatch, Finish, promiseRecord,
      counters, flushes
<1>15. ASSUME NEW r \in Records, failBufferedRecords(r) PROVE LimitHeld'
  BY <1>15 DEF Types, LimitHeld, GoroInv, Over, failBufferedRecords, Finish, promiseRecord,
      counters, flushes
<1>16. CASE CallPromise
  BY <1>16 DEF Types, LimitHeld, GoroInv, Over, CallPromise, counters, flushes
<1>17. CASE finishRecordPromise
  <2>1. Head(promises) \in Records /\ Size[Head(promises)] \in Nat
    BY <1>17, RingHead DEF finishRecordPromise
  <2> QED BY <1>17, <2>1 DEF Types, LimitHeld, finishRecordPromise
<1>18. CASE dropPeek
  BY <1>18 DEF Types, LimitHeld, GoroInv, Over, dropPeek, producing, counters, flushes
<1>19. CASE FinishedBroadcasts
  BY <1>19 DEF Types, LimitHeld, GoroInv, Over, FinishedBroadcasts, Broadcast, Woken,
      counters
<1>20. ASSUME NEW f \in Flushers, Flush(f) PROVE LimitHeld'
  BY <1>20 DEF Types, LimitHeld, GoroInv, Over, Flush, producing, counters, finishing
<1>21. ASSUME NEW f \in Flushers, FlushUnlingers(f) PROVE LimitHeld'
  BY <1>21 DEF Types, LimitHeld, GoroInv, Over, FlushUnlingers, Unlingered, counters,
      finishing
<1>22. ASSUME NEW f \in Flushers, FlushChecks(f) PROVE LimitHeld'
  BY <1>22 DEF Types, LimitHeld, GoroInv, Over, FlushChecks, producing, counters, finishing
<1>23. ASSUME NEW f \in Flushers, FlushReturnsNil(f) PROVE LimitHeld'
  BY <1>23 DEF Types, LimitHeld, GoroInv, Over, FlushReturnsNil, producing, counters,
      finishing
<1>24. ASSUME NEW f \in Flushers, FlushQuits(f) PROVE LimitHeld'
  BY <1>24 DEF Types, LimitHeld, GoroInv, Over, FlushQuits, producing, counters, finishing
<1>25. ASSUME NEW f \in Flushers, FlushFails(f) PROVE LimitHeld'
  BY <1>25 DEF Types, LimitHeld, GoroInv, Over, FlushFails, Broadcast, Woken, counters,
      finishing
<1>26. CASE UNCHANGED vars
  BY <1>26, SMTT(40) DEF Types, LimitHeld, GoroInv, Over, vars, producing, counters, finishing,
      flushes
<1> QED BY <1>1, <1>2, <1>3, <1>4, <1>5, <1>6, <1>7, <1>8, <1>9, <1>10, <1>11, <1>12, <1>13,
    <1>14, <1>15, <1>16, <1>17, <1>18, <1>19, <1>20, <1>21, <1>22, <1>23, <1>24, <1>25,
    <1>26 DEF Next, BlockedStep, finishPromises, FlushStep

(* Every step keeps the promise of a wakeup: a record that is uncounted    *)
(* while another waits sets broadcast, which becomes a broadcast.          *)
LEMMA WokenStep == Types /\ RingInv /\ GoroInv /\ CountersExact /\ ProducersWoken
    /\ [Next]_vars => ProducersWoken'
<1> SUFFICES ASSUME Types, RingInv, GoroInv, CountersExact, ProducersWoken, [Next]_vars
    PROVE ProducersWoken'
  OBVIOUS
<1> USE BufferAssumption
<1>1. ASSUME NEW r \in Records, ProduceRejects(r) PROVE ProducersWoken'
  <2>1. broadcast => broadcast'
    BY <1>1, ZenonT(40) DEF ProduceRejects, promiseRecord, RingInv
  <2> QED BY <1>1, <2>1 DEF ProducersWoken, BroadcastComing, Over, quit, Types,
      ProduceRejects, promiseRecord, counters, flushes
<1>2. ASSUME NEW r \in Records, ProduceCounts(r) PROVE ProducersWoken'
  BY <1>2 DEF ProducersWoken, BroadcastComing, Over, quit, Types, ProduceCounts, finishing,
      flushes
<1>3. ASSUME NEW r \in Records, ProduceBlocks(r) PROVE ProducersWoken'
  BY <1>3 DEF ProducersWoken, BroadcastComing, Over, quit, Types, ProduceBlocks, finishing,
      flushes
<1>4. ASSUME NEW r \in Records, unlingerDueToMaxRecsBuffered(r) PROVE ProducersWoken'
  BY <1>4 DEF ProducersWoken, BroadcastComing, Over, quit, Types,
      unlingerDueToMaxRecsBuffered, Unlingered, counters, finishing, flushes
<1>5. ASSUME NEW r \in Records, GoroWaits(r) PROVE ProducersWoken'
  BY <1>5 DEF ProducersWoken, BroadcastComing, Over, quit, Types, GoroWaits, counters,
      finishing, flushes
<1>6. ASSUME NEW r \in Records, GoroReturns(r) PROVE ProducersWoken'
  BY <1>6 DEF ProducersWoken, BroadcastComing, Over, quit, Types, GoroReturns, finishing,
      flushes
<1>7. ASSUME NEW r \in Records, ProduceResumes(r) PROVE ProducersWoken'
  BY <1>7 DEF ProducersWoken, BroadcastComing, Over, quit, Types, ProduceResumes, finishing,
      flushes
<1>8. ASSUME NEW r \in Records, KillerQuits(r) PROVE ProducersWoken'
  BY <1>8 DEF ProducersWoken, BroadcastComing, Over, quit, Types, KillerQuits, counters,
      finishing, flushes
<1>9. ASSUME NEW r \in Records, KillerBroadcasts(r) PROVE ProducersWoken'
  <2>1. \A q \in Records : goro'[q] # "wait"
    BY <1>9 DEF KillerBroadcasts, Broadcast, Woken, Types
  <2> QED BY <2>1 DEF ProducersWoken
<1>10. ASSUME NEW r \in Records, ProduceFails(r) PROVE ProducersWoken'
  <2>1. broadcast => broadcast'
    BY <1>10, ZenonT(40) DEF ProduceFails, promiseRecord, RingInv
  <2> QED BY <1>10, <2>1 DEF ProducersWoken, BroadcastComing, Over, quit, Types,
      ProduceFails, promiseRecord, counters, flushes
<1>11. ASSUME NEW r \in Records, ProduceQuits(r) PROVE ProducersWoken'
  BY <1>11, ZenonT(40) DEF ProducersWoken, BroadcastComing, Over, quit, Types, GoroInv, ProduceQuits,
      counters, finishing, flushes
<1>12. ASSUME NEW r \in Records, bufferRecord(r) PROVE ProducersWoken'
  BY <1>12 DEF ProducersWoken, BroadcastComing, Over, quit, Types, bufferRecord, counters,
      finishing, flushes
<1>13. ASSUME NEW r \in Records, tryStopLingerForDraining(r) PROVE ProducersWoken'
  BY <1>13 DEF ProducersWoken, BroadcastComing, Over, quit, Types, tryStopLingerForDraining,
      counters, finishing, flushes
<1>14. ASSUME NEW r \in Records, finishBatch(r) PROVE ProducersWoken'
  <2>1. broadcast => broadcast'
    BY <1>14, ZenonT(40) DEF finishBatch, Finish, promiseRecord, RingInv
  <2> QED BY <1>14, <2>1 DEF ProducersWoken, BroadcastComing, Over, quit, Types,
      finishBatch, Finish, promiseRecord, counters, flushes
<1>15. ASSUME NEW r \in Records, failBufferedRecords(r) PROVE ProducersWoken'
  <2>1. broadcast => broadcast'
    BY <1>15, ZenonT(40) DEF failBufferedRecords, Finish, promiseRecord, RingInv
  <2> QED BY <1>15, <2>1 DEF ProducersWoken, BroadcastComing, Over, quit, Types,
      failBufferedRecords, Finish, promiseRecord, counters, flushes
<1>16. CASE CallPromise
  BY <1>16 DEF ProducersWoken, BroadcastComing, Over, quit, Types, CallPromise, counters,
      flushes
<1>17. CASE finishRecordPromise
  <2>1. ASSUME NEW r \in Records, goro[r] = "wait" PROVE broadcast'
    BY <1>17, <2>1, BlockedCounts, ZenonT(40) DEF finishRecordPromise, NeedsBroadcast
  <2> QED BY <1>17, <2>1 DEF ProducersWoken, BroadcastComing, Over, quit, Types,
      finishRecordPromise
<1>18. CASE dropPeek
  <2>1. CASE promises' # <<>>
    BY <1>18, <2>1 DEF ProducersWoken, BroadcastComing, Over, quit, Types, dropPeek,
        producing, counters, flushes
  <2>2. CASE promises' = <<>> /\ broadcast
    <3>1. broadcasts' = broadcasts + 1
      BY <1>18, <2>2, ZenonT(40) DEF dropPeek
    <3>2. broadcasts' > 0
      BY <3>1 DEF Types
    <3>3. BroadcastComing'
      BY <3>2, Zenon DEF BroadcastComing
    <3> QED BY <3>3 DEF ProducersWoken
  <2>3. CASE promises' = <<>> /\ ~broadcast
    BY <1>18, <2>3 DEF ProducersWoken, BroadcastComing, Over, quit, Types, dropPeek,
        producing, counters, flushes
  <2> QED BY <2>1, <2>2, <2>3
<1>19. CASE FinishedBroadcasts
  <2>1. \A q \in Records : goro'[q] # "wait"
    BY <1>19 DEF FinishedBroadcasts, Broadcast, Woken, Types
  <2> QED BY <2>1 DEF ProducersWoken
<1>20. ASSUME NEW f \in Flushers, Flush(f) PROVE ProducersWoken'
  BY <1>20, SMTT(40) DEF ProducersWoken, BroadcastComing, Over, quit, Types, Flush, producing,
      counters, finishing
<1>21. ASSUME NEW f \in Flushers, FlushUnlingers(f) PROVE ProducersWoken'
  BY <1>21, ZenonT(40) DEF ProducersWoken, BroadcastComing, Over, quit, Types, FlushUnlingers,
      Unlingered, counters, finishing
<1>22. ASSUME NEW f \in Flushers, FlushChecks(f) PROVE ProducersWoken'
  BY <1>22, SMTT(40) DEF ProducersWoken, BroadcastComing, Over, quit, Types, FlushChecks, producing,
      counters, finishing
<1>23. ASSUME NEW f \in Flushers, FlushReturnsNil(f) PROVE ProducersWoken'
  BY <1>23, ZenonT(40) DEF ProducersWoken, BroadcastComing, Over, quit, Types, FlushReturnsNil,
      producing, counters, finishing
<1>24. ASSUME NEW f \in Flushers, FlushQuits(f) PROVE ProducersWoken'
  BY <1>24 DEF ProducersWoken, BroadcastComing, Over, quit, Types, FlushQuits, producing,
      counters, finishing
<1>25. ASSUME NEW f \in Flushers, FlushFails(f) PROVE ProducersWoken'
  <2>1. \A q \in Records : goro'[q] # "wait"
    BY <1>25 DEF FlushFails, Broadcast, Woken, Types
  <2> QED BY <2>1 DEF ProducersWoken
<1>26. CASE UNCHANGED vars
  BY <1>26 DEF ProducersWoken, BroadcastComing, Over, quit, Types, vars, producing,
      counters, finishing, flushes
<1> QED BY <1>1, <1>2, <1>3, <1>4, <1>5, <1>6, <1>7, <1>8, <1>9, <1>10, <1>11, <1>12, <1>13,
    <1>14, <1>15, <1>16, <1>17, <1>18, <1>19, <1>20, <1>21, <1>22, <1>23, <1>24, <1>25,
    <1>26, SMTT(40) DEF Next, BlockedStep, finishPromises, FlushStep

(* Every step keeps what the goroutine of Flush has seen: when both        *)
(* counters are zero and nobody holds the mutex, no record is on its way.  *)
LEMMA FlushInvStep == Types /\ RingInv /\ GoroInv /\ CountersExact /\ FlushInv
    /\ [Next]_vars => FlushInv'
<1> SUFFICES ASSUME Types, RingInv, GoroInv, CountersExact, FlushInv, [Next]_vars
    PROVE FlushInv'
  OBVIOUS
<1> USE BufferAssumption
<1>1. ASSUME NEW r \in Records, ProduceRejects(r) PROVE FlushInv'
  BY <1>1 DEF Types, FlushInv, ProduceRejects, promiseRecord, counters, flushes
<1>2. ASSUME NEW r \in Records, ProduceCounts(r) PROVE FlushInv'
  BY <1>2 DEF Types, FlushInv, ProduceCounts, finishing, flushes
<1>3. ASSUME NEW r \in Records, ProduceBlocks(r) PROVE FlushInv'
  BY <1>3 DEF Types, FlushInv, ProduceBlocks, finishing, flushes
<1>4. ASSUME NEW r \in Records, unlingerDueToMaxRecsBuffered(r) PROVE FlushInv'
  BY <1>4, ZenonT(40) DEF Types, FlushInv, unlingerDueToMaxRecsBuffered, Unlingered, counters,
      finishing, flushes
<1>5. ASSUME NEW r \in Records, GoroWaits(r) PROVE FlushInv'
  BY <1>5 DEF Types, FlushInv, GoroWaits, counters, finishing, flushes
<1>6. ASSUME NEW r \in Records, GoroReturns(r) PROVE FlushInv'
  BY <1>6 DEF Types, FlushInv, GoroReturns, finishing, flushes
<1>7. ASSUME NEW r \in Records, ProduceResumes(r) PROVE FlushInv'
  BY <1>7 DEF Types, FlushInv, ProduceResumes, finishing, flushes
<1>8. ASSUME NEW r \in Records, KillerQuits(r) PROVE FlushInv'
  BY <1>8 DEF Types, FlushInv, KillerQuits, counters, finishing, flushes
<1>9. ASSUME NEW r \in Records, KillerBroadcasts(r) PROVE FlushInv'
  BY <1>9 DEF Types, FlushInv, KillerBroadcasts, Broadcast, Woken, counters, finishing
<1>10. ASSUME NEW r \in Records, ProduceFails(r) PROVE FlushInv'
  BY <1>10 DEF Types, FlushInv, ProduceFails, promiseRecord, counters, flushes
<1>11. ASSUME NEW r \in Records, ProduceQuits(r) PROVE FlushInv'
  BY <1>11 DEF Types, FlushInv, ProduceQuits, counters, finishing, flushes
<1>12. ASSUME NEW r \in Records, bufferRecord(r) PROVE FlushInv'
  BY <1>12 DEF Types, FlushInv, bufferRecord, counters, finishing, flushes
<1>13. ASSUME NEW r \in Records, tryStopLingerForDraining(r) PROVE FlushInv'
  <2>1. CASE st[r] = "draining" /\ st' = [st EXCEPT ![r] = "lingering"]
    BY <1>13, <2>1 DEF Types, FlushInv, tryStopLingerForDraining, counters, finishing,
        flushes
  <2>2. CASE st[r] = "lingering" /\ st' = [st EXCEPT ![r] = "draining"]
    BY <1>13, <2>2 DEF Types, FlushInv, tryStopLingerForDraining, counters, finishing,
        flushes
  <2> QED BY <1>13, <2>1, <2>2 DEF tryStopLingerForDraining
<1>14. ASSUME NEW r \in Records, finishBatch(r) PROVE FlushInv'
  BY <1>14 DEF Types, FlushInv, finishBatch, Finish, promiseRecord, counters, flushes
<1>15. ASSUME NEW r \in Records, failBufferedRecords(r) PROVE FlushInv'
  BY <1>15 DEF Types, FlushInv, failBufferedRecords, Finish, promiseRecord, counters,
      flushes
<1>16. CASE CallPromise
  <2> DEFINE h == Head(promises)
  <2>1. h \in Records /\ st[h] \in {"promised", "rejected"}
    BY <1>16, RingHead DEF CallPromise
  <2>2. UNCHANGED <<fl, fgoro, snap>>
    BY <1>16 DEF CallPromise, flushes
  <2>3. CASE st[h] = "promised"
    <3>1. st' = [st EXCEPT ![h] = "called"]
      BY <1>16, <2>3 DEF CallPromise
    <3> QED BY <2>1, <2>2, <2>3, <3>1 DEF Types, FlushInv
  <2>4. CASE st[h] = "rejected"
    <3>1. st' = [st EXCEPT ![h] = "done"]
      BY <1>16, <2>4 DEF CallPromise
    <3> QED BY <2>1, <2>2, <2>4, <3>1 DEF Types, FlushInv
  <2> QED BY <2>1, <2>3, <2>4
<1>17. CASE finishRecordPromise
  <2>1. Head(promises) \in Records
    BY <1>17, RingHead, SMTT(40) DEF finishRecordPromise
  <2> QED BY <1>17, <2>1 DEF Types, FlushInv, finishRecordPromise, flushes
<1>18. CASE dropPeek
  BY <1>18 DEF Types, FlushInv, dropPeek, producing, counters, flushes
<1>19. CASE FinishedBroadcasts
  BY <1>19 DEF Types, FlushInv, FinishedBroadcasts, Broadcast, Woken, counters
<1>20. ASSUME NEW f \in Flushers, Flush(f) PROVE FlushInv'
  <2>1. \A r \in Counted \cup Blocked : r \in Records /\ st[r] # "new"
    BY DEF Counted, Blocked
  <2> QED BY <1>20, <2>1 DEF Types, FlushInv, Flush, producing
<1>21. ASSUME NEW f \in Flushers, FlushUnlingers(f) PROVE FlushInv'
  BY <1>21 DEF Types, FlushInv, FlushUnlingers, Unlingered, counters, finishing
<1>22. ASSUME NEW f \in Flushers, FlushChecks(f) PROVE FlushInv'
  <2>1. CASE fquit(f)
    BY <1>22, <2>1 DEF Types, FlushInv, FlushChecks, fquit, producing
  <2>2. CASE ~fquit(f) /\ Waiting
    BY <1>22, <2>2 DEF Types, FlushInv, FlushChecks, producing
  <2>3. CASE ~fquit(f) /\ ~Waiting
    <3>1. bufferedRecords = 0 /\ blocked = 0
      BY <2>3, CountersNat DEF Waiting
    <3>2. Counted = {} /\ Blocked = {}
      BY <3>1, SetsFinite, FS_EmptySet, ZenonT(40) DEF CountersExact
    <3>3. \A r \in Records : goro[r] # "held"
      BY <1>22 DEF FlushChecks, GoroInv
    <3>4. \A r \in Records : st[r] \in {"new", "done", "rejected"}
      BY <3>2, <3>3 DEF Counted, Blocked, Types
    <3> QED BY <1>22, <3>4 DEF Types, FlushInv, FlushChecks, producing
  <2> QED BY <2>1, <2>2, <2>3
<1>23. ASSUME NEW f \in Flushers, FlushReturnsNil(f) PROVE FlushInv'
  BY <1>23 DEF Types, FlushInv, FlushReturnsNil, producing, counters, finishing
<1>24. ASSUME NEW f \in Flushers, FlushQuits(f) PROVE FlushInv'
  BY <1>24 DEF Types, FlushInv, FlushQuits, producing, counters, finishing
<1>25. ASSUME NEW f \in Flushers, FlushFails(f) PROVE FlushInv'
  BY <1>25 DEF Types, FlushInv, FlushFails, Broadcast, Woken, counters, finishing
<1>26. CASE UNCHANGED vars
  BY <1>26 DEF Types, FlushInv, vars, producing, counters, finishing, flushes
<1> QED BY <1>1, <1>2, <1>3, <1>4, <1>5, <1>6, <1>7, <1>8, <1>9, <1>10, <1>11, <1>12, <1>13,
    <1>14, <1>15, <1>16, <1>17, <1>18, <1>19, <1>20, <1>21, <1>22, <1>23, <1>24, <1>25,
    <1>26, SMTT(40) DEF Next, BlockedStep, finishPromises, FlushStep

(* The invariant holds of the producer that NewClient makes.               *)
LEMMA InitIInv == Init => IInv
<1> SUFFICES ASSUME Init PROVE IInv
  OBVIOUS
<1> USE BufferAssumption
<1>1. Types
  BY DEF Init, Types
<1>2. RingInv
  BY DEF Init, RingInv
<1>3. GoroInv
  BY DEF Init, GoroInv
<1>4. FlushInv
  BY DEF Init, FlushInv
<1>5. Counted = {} /\ Blocked = {} /\ InFlush = {}
  BY DEF Init, Counted, Blocked, InFlush
<1>6. CountersExact
  BY <1>5, FS_EmptySet DEF Init, CountersExact
<1>7. LimitHeld
  BY DEF Init, LimitHeld
<1>8. ProducersWoken
  BY DEF Init, ProducersWoken
<1> QED BY <1>1, <1>2, <1>3, <1>4, <1>6, <1>7, <1>8 DEF IInv

(* The invariant is inductive.                                             *)
LEMMA IInvAlways == Spec => []IInv
<1>1. IInv /\ [Next]_vars => IInv'
  BY TypesStep, RingStep, GoroStep, CountersStep, LimitStep, WokenStep, FlushInvStep DEF IInv
<1> QED BY <1>1, InitIInv, PTL DEF Spec

(* produce never lets the buffer grow beyond MaxBufferedRecords or         *)
(* MaxBufferedBytes, whatever is finished, canceled or woken meanwhile.    *)
THEOREM LimitHeldAlways == Spec => []LimitHeld
<1>1. IInv => LimitHeld
  BY DEF IInv
<1> QED BY <1>1, IInvAlways, PTL

(* bufferedRecords, blocked and flushing always are the numbers of the     *)
(* calls they count; in particular none of them is ever negative.          *)
THEOREM CountersExactAlways == Spec => []CountersExact
<1>1. IInv => CountersExact
  BY DEF IInv
<1> QED BY <1>1, IInvAlways, PTL

(* No Produce that waits for room sleeps through its wakeup: finishing a   *)
(* record, or canceling the context, leads to a broadcast.                 *)
THEOREM ProducersWokenAlways == Spec => []ProducersWoken
<1>1. IInv => ProducersWoken
  BY DEF IInv
<1> QED BY <1>1, IInvAlways, PTL

(* When Flush returns nil, what was buffered or blocked when it was called *)
(* has had its promise called, or was never counted.                       *)
THEOREM FlushMeansFlushedAlways == Spec => []FlushMeansFlushed
<1>1. IInv => FlushMeansFlushed
  BY DEF IInv, FlushInv, FlushMeansFlushed
<1> QED BY <1>1, IInvAlways, PTL

=============================================================================
