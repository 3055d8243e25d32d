----------------------------- MODULE SinkProofs -----------------------------
(***************************************************************************)
(* What is in flight is counted right and is on one sink, and every record *)
(* is promised once and in order, for any partitions, sinks, batches,      *)
(* scenarios and any sizes of the semaphores.                              *)
(***************************************************************************)
EXTENDS Sink, RecBufProofs

(* The slots m in use of the semaphores of a sink: one for each of its     *)
(* requests q, and one for a drain loop c that will make one more.         *)
Slots(q, c, m) ==
    /\ m \in [{0, 1} -> Int] /\ m[0] <= 1 /\ m[1] <= MaxInflight
    /\ m[0] + m[1] = Len(q) + (IF c.at = "create" THEN 1 ELSE 0)

(* The inductive invariant.                                                *)
IInv ==
    /\ DOMAIN rb = Partitions /\ DOMAIN reqs = Sinks
    /\ DOMAIN next = Partitions /\ DOMAIN done = Partitions
    /\ gen \in [Sinks -> {0, 1}]
    /\ DOMAIN pc = Sinks /\ DOMAIN sem = Sinks
    /\ \A s \in Sinks : DOMAIN pc[s] = {"at", "gen", "epoch"} /\ pc[s].gen \in {0, 1}
    /\ \A p \in Partitions : BufOK(rb[p], done[p], next[p])
    /\ \A s \in Sinks : Queue(reqs[s]) /\ Slots(reqs[s], pc[s], sem[s])
    /\ \A s \in Sinks, p \in Partitions : Pair(reqs[s], s, p, rb[p], next[p])

-----------------------------------------------------------------------------
(* Slots: a queue that is similar occupies the same.                       *)
LEMMA SimilarSlots ==
    ASSUME NEW q, NEW x, NEW c, NEW m, Similar(x, q), Slots(q, c, m)
    PROVE  Slots(x, c, m)
  BY DEF Slots, Similar

(* It uses the slot its drain loop had.                                    *)
LEMMA AppendSlots ==
    ASSUME NEW q, NEW e, NEW c, NEW x, NEW m, Queue(q), Slots(q, c, m), c.at = "create", x.at = "idle"
    PROVE  Slots(Append(q, e), x, m)
<1>1. Len(Append(q, e)) = Len(q) + 1 /\ Len(q) \in Nat
  BY SeqAppend, SeqBasics DEF Queue
<1> QED BY <1>1 DEF Slots

(* A slot is given back.                                                   *)
LEMMA SlotFreed ==
    ASSUME NEW m \in [{0, 1} -> Int], NEW g, g \in {0, 1}, m[0] <= 1, m[1] <= MaxInflight,
           MaxInflight \in Nat
    PROVE  LET k == [m EXCEPT ![g] = @ - 1]
           IN k \in [{0, 1} -> Int] /\ k[0] <= 1 /\ k[1] <= MaxInflight /\ k[0] + k[1] = m[0] + m[1] - 1
  OBVIOUS

(* One has a slot less in use, of whichever semaphore.                     *)
LEMMA LeftSlots ==
    ASSUME NEW y, NEW t, NEW c, NEW m, NEW g, g \in {0, 1}, Slots(y, c, m), Len(y) \in Nat,
           Len(t) = Len(y) - 1
    PROVE  Slots(t, c, [m EXCEPT ![g] = @ - 1])
  BY SlotFreed, SinkAssumption DEF Slots

(* A drain loop gets its slot: one more request is within the capacity of  *)
(* the semaphore it has loaded.                                            *)
LEMMA SlotTaken ==
    ASSUME NEW q, NEW c, NEW x, NEW m, NEW g, Queue(q), Slots(q, c, m), g \in {0, 1}, c.at # "create",
           x.at = "create", m[g] < IF g = 0 THEN 1 ELSE MaxInflight
    PROVE  Slots(q, x, [m EXCEPT ![g] = @ + 1])
<1> DEFINE k == [m EXCEPT ![g] = @ + 1]
<1>1. m \in [{0, 1} -> Int] /\ m[0] <= 1 /\ m[1] <= MaxInflight /\ m[0] + m[1] = Len(q) /\ Len(q) \in Nat
  BY SeqBasics DEF Slots, Queue
<1>2. k \in [{0, 1} -> Int] /\ k[0] <= 1 /\ k[1] <= MaxInflight /\ k[0] + k[1] = m[0] + m[1] + 1
  <2>1. CASE g = 0
    BY <1>1, <2>1, SinkAssumption
  <2>2. CASE g = 1
    BY <1>1, <2>2, SinkAssumption
  <2> QED BY <2>1, <2>2
<1> HIDE DEF k
<1>3. Slots(q, x, k)
  BY <1>1, <1>2 DEF Slots
<1> QED BY <1>3 DEF k

-----------------------------------------------------------------------------
(* The shapes of steps.  No request moves on:                              *)
LEMMA BufStep ==
    ASSUME IInv, reqs' = reqs, gen' = gen,
           DOMAIN rb' = Partitions, DOMAIN done' = Partitions, DOMAIN next' = Partitions, DOMAIN pc' = Sinks, DOMAIN sem' = Sinks,
           \A s \in Sinks : DOMAIN pc'[s] = {"at", "gen", "epoch"} /\ pc'[s].gen \in {0, 1},
           \A s \in Sinks : Slots(reqs[s], pc'[s], sem'[s]),
           \A p \in Partitions : BufOK(rb'[p], done'[p], next'[p]),
           \A s \in Sinks, p \in Partitions : Pair(reqs[s], s, p, rb'[p], next'[p])
    PROVE  IInv'
  BY DEF IInv

(* The requests of one sink do.                                            *)
LEMMA QueueStep ==
    ASSUME IInv, NEW s \in Sinks, NEW y, reqs' = [reqs EXCEPT ![s] = y], gen' \in [Sinks -> {0, 1}],
           DOMAIN rb' = Partitions, DOMAIN done' = Partitions, next' = next, DOMAIN pc' = Sinks, DOMAIN sem' = Sinks,
           \A t \in Sinks : DOMAIN pc'[t] = {"at", "gen", "epoch"} /\ pc'[t].gen \in {0, 1},
           Queue(y), Slots(y, pc'[s], sem'[s]), \A t \in Sinks \ {s} : pc'[t] = pc[t] /\ sem'[t] = sem[t],
           \A p \in Partitions : BufOK(rb'[p], done'[p], next[p]),
           \A p \in Partitions : Pair(y, s, p, rb'[p], next[p]),
           \A t \in Sinks \ {s}, p \in Partitions : Pair(reqs[t], t, p, rb'[p], next[p])
    PROVE  IInv'
<1>1. DOMAIN reqs' = Sinks /\ reqs'[s] = y /\ \A t \in Sinks \ {s} : reqs'[t] = reqs[t]
  BY DEF IInv
<1>2. DOMAIN next' = Partitions
  BY DEF IInv
<1>3. \A t \in Sinks : Queue(reqs'[t]) /\ Slots(reqs'[t], pc'[t], sem'[t])
  BY <1>1 DEF IInv
<1>4. \A t \in Sinks, p \in Partitions : Pair(reqs'[t], t, p, rb'[p], next'[p])
  BY <1>1
<1>5. \A p \in Partitions : BufOK(rb'[p], done'[p], next'[p])
  OBVIOUS
<1> QED BY <1>1, <1>2, <1>3, <1>4, <1>5 DEF IInv

(* They do, and no recBuf gains or loses a batch.                          *)
LEMMA SimilarStep ==
    ASSUME IInv, NEW s \in Sinks, NEW y, reqs' = [reqs EXCEPT ![s] = y], gen' \in [Sinks -> {0, 1}],
           next' = next, done' = done, pc' = pc, sem' = sem, DOMAIN rb' = Partitions,
           \A p \in Partitions : SameBuf(rb'[p], rb[p]), Similar(y, reqs[s]), Queue(y)
    PROVE  IInv'
<1>1. \A p \in Partitions : BufOK(rb[p], done[p], next[p]) /\ BufShape(rb[p])
  BY DEF IInv, BufOK
<1>2. \A p \in Partitions : BufOK(rb'[p], done'[p], next[p])
  BY <1>1, SameBufOK
<1>3. \A t \in Sinks, p \in Partitions : Pair(reqs[t], t, p, rb'[p], next[p])
  BY <1>1, SameBufPair DEF IInv
<1>4. \A p \in Partitions : Pair(y, s, p, rb'[p], next[p])
  BY <1>3, SimilarPair DEF IInv
<1>5. Slots(y, pc'[s], sem'[s])
  BY SimilarSlots DEF IInv
<1>6. /\ DOMAIN done' = Partitions /\ DOMAIN pc' = Sinks /\ DOMAIN sem' = Sinks
      /\ \A t \in Sinks : DOMAIN pc'[t] = {"at", "gen", "epoch"} /\ pc'[t].gen \in {0, 1}
      /\ \A t \in Sinks \ {s} : pc'[t] = pc[t] /\ sem'[t] = sem[t]
  BY DEF IInv
<1> QED BY <1>2, <1>3, <1>4, <1>5, <1>6, QueueStep, Zenon

(* They do, and one recBuf changes.                                        *)
LEMMA OneBufStep ==
    ASSUME IInv, NEW s \in Sinks, NEW y, reqs' = [reqs EXCEPT ![s] = y], gen' = gen,
           next' = next, pc' = pc, sem' = sem, NEW p \in Partitions, NEW x, NEW d,
           rb' = [rb EXCEPT ![p] = x], done' = [done EXCEPT ![p] = d],
           BufOK(x, d, next[p]), Similar(y, reqs[s]), Queue(y), Pair(y, s, p, x, next[p]),
           \A t \in Sinks \ {s} : Pair(reqs[t], t, p, x, next[p])
    PROVE  IInv'
<1>1. /\ DOMAIN rb' = Partitions /\ DOMAIN done' = Partitions /\ rb'[p] = x /\ done'[p] = d
      /\ \A m \in Partitions \ {p} : rb'[m] = rb[m] /\ done'[m] = done[m]
  BY DEF IInv
<1>2. \A m \in Partitions : BufOK(rb'[m], done'[m], next[m])
  BY <1>1 DEF IInv
<1>3. \A m \in Partitions : Pair(y, s, m, rb'[m], next[m])
  <2>1. \A m \in Partitions \ {p} : Pair(y, s, m, rb[m], next[m])
    BY SimilarPair DEF IInv
  <2> QED BY <1>1, <2>1
<1>4. \A t \in Sinks \ {s}, m \in Partitions : Pair(reqs[t], t, m, rb'[m], next[m])
  BY <1>1 DEF IInv
<1>5. Slots(y, pc'[s], sem'[s])
  BY SimilarSlots DEF IInv
<1>6. /\ DOMAIN pc' = Sinks /\ DOMAIN sem' = Sinks /\ gen' \in [Sinks -> {0, 1}]
      /\ \A t \in Sinks : DOMAIN pc'[t] = {"at", "gen", "epoch"} /\ pc'[t].gen \in {0, 1}
      /\ \A t \in Sinks \ {s} : pc'[t] = pc[t] /\ sem'[t] = sem[t]
  BY DEF IInv
<1> QED BY <1>1, <1>2, <1>3, <1>4, <1>5, <1>6, QueueStep, Zenon

(* drain and produce: only one sink's drain loop moves on.                 *)
LEMMA LoopStep ==
    ASSUME IInv, NEW s \in Sinks, NEW c, pc' = [pc EXCEPT ![s] = c], DOMAIN c = {"at", "gen", "epoch"},
           c.gen \in {0, 1}, NEW m, sem' = [sem EXCEPT ![s] = m], Slots(reqs[s], c, m)
    PROVE  /\ DOMAIN pc' = Sinks /\ DOMAIN sem' = Sinks
           /\ \A t \in Sinks : DOMAIN pc'[t] = {"at", "gen", "epoch"} /\ pc'[t].gen \in {0, 1}
           /\ \A t \in Sinks : Slots(reqs[t], pc'[t], sem'[t])
<1>1. /\ DOMAIN pc' = Sinks /\ pc'[s] = c /\ DOMAIN sem' = Sinks /\ sem'[s] = m
      /\ \A t \in Sinks \ {s} : pc'[t] = pc[t] /\ sem'[t] = sem[t]
  BY DEF IInv
<1> QED BY <1>1 DEF IInv

(* It has no slot, or has none any more.                                   *)
Idles(s) ==
    \/ pc[s].at # "create" /\ sem' = sem
    \/ pc[s].at = "create" /\ FreeSlot(s, pc[s].gen)

LEMMA IdleStep ==
    ASSUME IInv, NEW s \in Sinks, NEW c, pc' = [pc EXCEPT ![s] = c], DOMAIN c = {"at", "gen", "epoch"},
           c.gen \in {0, 1}, c.at # "create", Idles(s)
    PROVE  /\ DOMAIN pc' = Sinks /\ DOMAIN sem' = Sinks
           /\ \A t \in Sinks : DOMAIN pc'[t] = {"at", "gen", "epoch"} /\ pc'[t].gen \in {0, 1}
           /\ \A t \in Sinks : Slots(reqs[t], pc'[t], sem'[t])
<1> DEFINE g == pc[s].gen
           m == sem[s]
           k == [m EXCEPT ![g] = @ - 1]
<1>1. Slots(reqs[s], pc[s], m) /\ g \in {0, 1} /\ Len(reqs[s]) \in Nat /\ DOMAIN sem = Sinks
  BY SeqBasics DEF IInv, Queue
<1>2. CASE pc[s].at # "create" /\ sem' = sem
  <2>1. Slots(reqs[s], c, m)
    BY <1>1, <1>2 DEF Slots
  <2>2. DOMAIN pc' = Sinks /\ pc'[s] = c /\ \A t \in Sinks \ {s} : pc'[t] = pc[t]
    BY DEF IInv
  <2> QED BY <1>2, <2>1, <2>2 DEF IInv
<1>3. CASE pc[s].at = "create" /\ FreeSlot(s, g)
  <2>1. sem' = [sem EXCEPT ![s] = k]
    BY <1>3 DEF FreeSlot
  <2> HIDE DEF m, g
  <2>2. Slots(reqs[s], c, k)
    BY <1>1, <1>3, SlotFreed, SinkAssumption DEF Slots, m
  <2> HIDE DEF k
  <2> QED BY <2>1, <2>2, LoopStep, Zenon
<1> QED BY <1>2, <1>3 DEF Idles

-----------------------------------------------------------------------------
(* bufferRecord: the record is the next one of the last batch, or the      *)
(* first of a new one.                                                     *)
LEMMA bufferRecordIInv ==
    ASSUME IInv, NEW p \in Partitions, bufferRecord(p)
    PROVE  IInv'
<1> DEFINE r == rb[p]
           b == r.batches
           len == Len(b)
           appended == ~(r.idx = len) /\ ~b[len].frozen /\ b[len].n < BatchMax
           x == rb'[p]
           n == next[p]
<1>1. BufOK(r, done[p], n) /\ BufShape(r)
  BY DEF IInv, BufOK
<1>2. b \in Seq(AnyBatch) /\ len \in Nat /\ (b = <<>> <=> len = 0) /\ n \in Nat \ {0} /\ r.idx \in 0 .. len
  BY <1>1, EmptyBatches DEF BufOK, BufShape, Runs
<1>3. /\ DOMAIN x = RecBufFields /\ x.idx = r.idx /\ x.inflight = r.inflight /\ x.on = r.on
      /\ x.batches = IF appended THEN [b EXCEPT ![len].n = @ + 1] ELSE Append(b, newRecordBatch(n))
  <2> DEFINE w == IF appended THEN [b EXCEPT ![len].n = @ + 1] ELSE Append(b, newRecordBatch(n))
  <2>1. rb' = [rb EXCEPT ![p] = [r EXCEPT !.batches = w]]
    BY DEF bufferRecord
  <2> HIDE DEF w
  <2>2. x = [r EXCEPT !.batches = w]
    BY <2>1 DEF IInv
  <2>3. /\ DOMAIN x = RecBufFields /\ x.idx = r.idx /\ x.inflight = r.inflight /\ x.on = r.on
        /\ x.batches = w
    BY <1>1, <2>2 DEF BufShape, RecBufFields
  <2> QED BY <2>3 DEF w
<1>4. /\ DOMAIN rb' = Partitions /\ \A m \in Partitions \ {p} : rb'[m] = rb[m]
      /\ DOMAIN next' = Partitions /\ next'[p] = n + 1 /\ \A m \in Partitions \ {p} : next'[m] = next[m]
      /\ reqs' = reqs /\ gen' = gen /\ done' = done /\ pc' = pc /\ sem' = sem
  BY DEF bufferRecord, IInv
<1> HIDE DEF x
<1>5. BufOK(x, done[p], n + 1) /\ (\A k \in 1 .. len : x.batches[k].first = b[k].first)
      /\ (b = <<>> => x.batches[1].first = n)
  <2>1. CASE appended
    <3>1. b # <<>> /\ len \in 1 .. len
      BY <1>2, <2>1
    <3>2. BufOK(x, done[p], n + 1)
      BY <1>1, <1>3, <2>1, <3>1, GrownBatchOK, Zenon
    <3>3. \A k \in 1 .. len : b[k] \in AnyBatch
      BY <1>2, ElementOfSeq
    <3>4. \A k \in 1 .. len : x.batches[k] = IF k = len THEN [b[k] EXCEPT !.n = @ + 1] ELSE b[k]
      BY <1>2, <1>3, <2>1, ExceptSeq
    <3>5. \A k \in 1 .. len : x.batches[k].first = b[k].first
      BY <3>3, <3>4, Zenon DEF AnyBatch
    <3> QED BY <3>1, <3>2, <3>5
  <2>2. CASE ~appended
    <3>1. x.batches = Append(b, newRecordBatch(n))
      BY <1>3, <2>2
    <3>2. BufOK(x, done[p], n + 1)
      BY <1>1, <1>3, <3>1, NewBatchOK
    <3>3. newRecordBatch(n) \in AnyBatch /\ newRecordBatch(n).first = n
      BY <1>2 DEF newRecordBatch, AnyBatch
    <3>4. (\A k \in 1 .. len : x.batches[k] = b[k]) /\ x.batches[len + 1] = newRecordBatch(n)
      BY <1>2, <3>1, <3>3, AppendProperties
    <3>5. b = <<>> => len + 1 = 1
      BY <1>2
    <3> QED BY <3>2, <3>3, <3>4, <3>5
  <2> QED BY <2>1, <2>2
<1>6. \A m \in Partitions : BufOK(rb'[m], done'[m], next'[m])
  BY <1>4, <1>5 DEF x, IInv
<1>7. ASSUME NEW s \in Sinks, NEW m \in Partitions
      PROVE  Pair(reqs[s], s, m, rb'[m], next'[m])
  <2>1. CASE m = p
    <3>1. Queue(reqs[s]) /\ Pair(reqs[s], s, p, r, n)
      BY DEF IInv
    <3>2. Pair(reqs[s], s, p, x, n + 1)
      BY <1>1, <1>2, <1>3, <1>5, <3>1, BufferedPair, Zenon
    <3> QED BY <1>4, <2>1, <3>2 DEF x
  <2>2. CASE m # p
    BY <1>4, <2>2 DEF IInv
  <2> QED BY <2>1, <2>2
<1>8. /\ DOMAIN done' = Partitions /\ DOMAIN pc' = Sinks /\ DOMAIN sem' = Sinks
      /\ \A s \in Sinks : DOMAIN pc'[s] = {"at", "gen", "epoch"} /\ pc'[s].gen \in {0, 1}
      /\ \A s \in Sinks : Slots(reqs[s], pc'[s], sem'[s])
  BY <1>4 DEF IInv
<1> QED BY <1>4, <1>6, <1>7, <1>8, BufStep

(* drainBegin and ProduceNothing: only the drain loop moves on.            *)
LEMMA drainIInv ==
    ASSUME IInv, NEW s \in Sinks, drainBegin(s) \/ ProduceNothing(s)
    PROVE  IInv'
<1>1. DOMAIN pc[s] = {"at", "gen", "epoch"} /\ pc[s].gen \in {0, 1} /\ gen[s] \in {0, 1}
  BY DEF IInv
<1>2. \E c : /\ pc' = [pc EXCEPT ![s] = c] /\ DOMAIN c = {"at", "gen", "epoch"}
             /\ c.gen \in {0, 1} /\ c.at # "create"
  <2>1. CASE drainBegin(s)
    <3> DEFINE c == [pc[s] EXCEPT !.at = "sem", !.gen = gen[s]]
    <3>1. DOMAIN c = {"at", "gen", "epoch"} /\ c.gen = gen[s] /\ c.at = "sem"
      BY <1>1
    <3>2. pc' = [pc EXCEPT ![s] = c]
      BY <2>1 DEF drainBegin
    <3> HIDE DEF c
    <3> QED BY <1>1, <3>1, <3>2, Zenon
  <2>2. CASE ProduceNothing(s)
    <3> DEFINE c == [pc[s] EXCEPT !.at = "idle"]
    <3>1. DOMAIN c = {"at", "gen", "epoch"} /\ c.gen = pc[s].gen /\ c.at = "idle"
      BY <1>1
    <3>2. pc' = [pc EXCEPT ![s] = c]
      BY <2>2 DEF ProduceNothing, ProduceEnds
    <3> HIDE DEF c
    <3> QED BY <1>1, <3>1, <3>2, Zenon
  <2> QED BY <2>1, <2>2
<1>3. PICK c : /\ pc' = [pc EXCEPT ![s] = c] /\ DOMAIN c = {"at", "gen", "epoch"}
               /\ c.gen \in {0, 1} /\ c.at # "create"
  BY <1>2, Zenon
<1>4. Idles(s)
  BY Zenon DEF Idles, drainBegin, ProduceNothing, HasSlot
<1>5. /\ DOMAIN pc' = Sinks /\ DOMAIN sem' = Sinks
      /\ \A t \in Sinks : DOMAIN pc'[t] = {"at", "gen", "epoch"} /\ pc'[t].gen \in {0, 1}
      /\ \A t \in Sinks : Slots(reqs[t], pc'[t], sem'[t])
  BY <1>3, <1>4, IdleStep, Zenon
<1>6. reqs' = reqs /\ gen' = gen /\ rb' = rb /\ next' = next /\ done' = done
  BY Zenon DEF drainBegin, ProduceNothing
<1> QED BY <1>5, <1>6 DEF IInv

-----------------------------------------------------------------------------
(* No request moves on, and no recBuf gains or loses a batch.              *)
LEMMA SameBufStep ==
    ASSUME IInv, reqs' = reqs, gen' = gen, done' = done, next' = next,
           DOMAIN rb' = Partitions, \A p \in Partitions : SameBuf(rb'[p], rb[p]), DOMAIN pc' = Sinks, DOMAIN sem' = Sinks,
           \A s \in Sinks : DOMAIN pc'[s] = {"at", "gen", "epoch"} /\ pc'[s].gen \in {0, 1},
           \A s \in Sinks : Slots(reqs[s], pc'[s], sem'[s])
    PROVE  IInv'
<1>1. \A p \in Partitions : BufOK(rb[p], done[p], next[p]) /\ BufShape(rb[p])
  BY DEF IInv, BufOK
<1>2. \A p \in Partitions : BufOK(rb'[p], done'[p], next'[p])
  BY <1>1, SameBufOK
<1>3. \A t \in Sinks, p \in Partitions : Pair(reqs[t], t, p, rb'[p], next'[p])
  BY <1>1, SameBufPair DEF IInv
<1>4. DOMAIN done' = Partitions /\ DOMAIN next' = Partitions
  BY DEF IInv
<1> QED BY <1>2, <1>3, <1>4, BufStep

(* producerID: the drain loop has its slot; resets are only flagged.       *)
LEMMA producerIDIInv ==
    ASSUME IInv, NEW s \in Sinks, producerID(s)
    PROVE  IInv'
<1> DEFINE c == [pc[s] EXCEPT !.at = "create", !.epoch = pid'.epoch]
           g == pc[s].gen
           m == [sem[s] EXCEPT ![g] = @ + 1]
<1>1. /\ DOMAIN pc[s] = {"at", "gen", "epoch"} /\ g \in {0, 1} /\ Queue(reqs[s])
      /\ Slots(reqs[s], pc[s], sem[s])
  BY DEF IInv
<1>2. DOMAIN c = {"at", "gen", "epoch"} /\ c.gen = g /\ c.at = "create"
  BY <1>1
<1>3. pc' = [pc EXCEPT ![s] = c] /\ sem' = [sem EXCEPT ![s] = m]
  BY DEF producerID, TakeSlot
<1> HIDE DEF c
<1>4. pc[s].at # "create" /\ sem[s][g] < IF g = 0 THEN 1 ELSE MaxInflight
  BY DEF producerID, HasSlot
<1>5. Slots(reqs[s], c, m)
  <2> HIDE DEF g
  <2> QED BY <1>1, <1>2, <1>4, SlotTaken
<1> HIDE DEF m
<1>7. /\ DOMAIN pc' = Sinks /\ DOMAIN sem' = Sinks
      /\ \A t \in Sinks : DOMAIN pc'[t] = {"at", "gen", "epoch"} /\ pc'[t].gen \in {0, 1}
      /\ \A t \in Sinks : Slots(reqs[t], pc'[t], sem'[t])
  BY <1>1, <1>2, <1>3, <1>5, LoopStep, Zenon
<1>8. DOMAIN rb' = Partitions
  BY DEF producerID, resetAllProducerSequences, IInv
<1>9. ASSUME NEW p \in Partitions PROVE SameBuf(rb'[p], rb[p])
  <2>1. BufShape(rb[p])
    BY DEF IInv, BufOK
  <2>2. rb'[p] = rb[p] \/ rb'[p] = [rb[p] EXCEPT !.reset = TRUE]
    BY Zenon DEF producerID, resetAllProducerSequences
  <2>3. /\ DOMAIN rb'[p] = RecBufFields /\ rb'[p].batches = rb[p].batches /\ rb'[p].idx = rb[p].idx
        /\ rb'[p].inflight = rb[p].inflight /\ rb'[p].on = rb[p].on
    BY <2>1, <2>2 DEF BufShape, RecBufFields
  <2> QED BY <2>1, <2>3, SameBatches
<1>10. reqs' = reqs /\ gen' = gen /\ done' = done /\ next' = next
  BY DEF producerID
<1> QED BY <1>7, <1>8, <1>9, <1>10, SameBufStep

(* producerIDLoadFail and producerIDFatal: what is buffered fails.         *)
LEMMA FailPartitionsIInv ==
    ASSUME IInv, NEW s \in Sinks, NEW F, FailPartitions(F), pc' = [pc EXCEPT ![s].at = "idle"],
           reqs' = reqs, gen' = gen, next' = next, Idles(s)
    PROVE  IInv'
<1> DEFINE c == [pc[s] EXCEPT !.at = "idle"]
<1>1. DOMAIN pc[s] = {"at", "gen", "epoch"} /\ pc[s].gen \in {0, 1}
  BY DEF IInv
<1>2. DOMAIN c = {"at", "gen", "epoch"} /\ c.gen = pc[s].gen /\ c.at = "idle"
  BY <1>1
<1>3. pc' = [pc EXCEPT ![s] = c]
  OBVIOUS
<1> HIDE DEF c
<1>4. /\ DOMAIN pc' = Sinks /\ DOMAIN sem' = Sinks
      /\ \A t \in Sinks : DOMAIN pc'[t] = {"at", "gen", "epoch"} /\ pc'[t].gen \in {0, 1}
      /\ \A t \in Sinks : Slots(reqs[t], pc'[t], sem'[t])
  BY <1>1, <1>2, <1>3, IdleStep, Zenon
<1>5. ASSUME NEW p \in Partitions
      PROVE  /\ BufOK(rb'[p], done'[p], next'[p])
             /\ \A t \in Sinks : Pair(reqs[t], t, p, rb'[p], next'[p])
  <2>1. BufOK(rb[p], done[p], next[p]) /\ BufShape(rb[p])
    BY DEF IInv, BufOK
  <2>2. \A t \in Sinks : Queue(reqs[t]) /\ Pair(reqs[t], t, p, rb[p], next[p])
    BY DEF IInv
  <2>3. CASE p \in F
    <3>1. rb'[p] = failAllRecords(rb[p]) /\ done'[p] = done[p] \o FailedPromises(rb[p])
      BY <2>3, Zenon DEF FailPartitions
    <3>2. BufOK(rb'[p], done'[p], next[p])
      BY <2>1, <3>1, FailedOK
    <3>3. \A t \in Sinks : Pair(reqs[t], t, p, rb'[p], next[p])
      BY <2>1, <2>2, <3>1, FailedPair
    <3> QED BY <3>2, <3>3
  <2>4. CASE p \notin F
    <3>1. rb'[p] = rb[p] /\ done'[p] = done[p]
      BY <2>4 DEF FailPartitions
    <3> QED BY <2>1, <2>2, <3>1
  <2> QED BY <2>3, <2>4
<1>6. DOMAIN rb' = Partitions /\ DOMAIN done' = Partitions /\ DOMAIN next' = Partitions
  BY DEF FailPartitions, IInv
<1> QED BY <1>4, <1>5, <1>6, BufStep

-----------------------------------------------------------------------------
(* The new request holds what was added.                                   *)
LEMMA newRequestOK ==
    ASSUME IInv, NEW s \in Sinks, NEW add, add \subseteq Partitions, \A p \in add : Pending(rb[p])
    PROVE  LET e == newRequest(s, add)
           IN /\ RequestOK(e) /\ e.gen = pc[s].gen /\ e.st # "handling" /\ e.dec = add
              /\ DOMAIN e.bs = add /\ \A p \in add : e.bs[p].first = rb[p].batches[rb[p].idx + 1].first
<1> DEFINE e == newRequest(s, add)
<1>1. /\ DOMAIN e = RequestFields /\ e.gen = pc[s].gen /\ e.st = "made" /\ e.dec = add
      /\ e.bs = [p \in add |-> seqRecBatch(rb[p])]
      /\ e.todo = {} /\ e.miss = {} /\ e.retry = {}
  BY Zenon DEF newRequest, RequestFields
<1> HIDE DEF e
<1>2. /\ DOMAIN e.bs = add
      /\ \A p \in add : "first" \in DOMAIN e.bs[p] /\ e.bs[p].first = rb[p].batches[rb[p].idx + 1].first
  BY <1>1 DEF seqRecBatch
<1>3. ASSUME NEW p \in add PROVE rb[p].batches[rb[p].idx + 1].first \in Nat
  <2> DEFINE b == rb[p].batches
             i == rb[p].idx + 1
  <2>1. b \in Seq(AnyBatch) /\ Len(b) \in Nat /\ rb[p].idx \in 0 .. Len(b) /\ rb[p].idx # Len(b)
    BY LenProperties DEF IInv, BufOK, BufShape, Pending
  <2>2. i \in 1 .. Len(b)
    BY <2>1
  <2>3. b[i] \in AnyBatch
    BY <2>1, <2>2, ElementOfSeq
  <2> QED BY <2>3 DEF AnyBatch
<1>4. Unhandled(e) = add
  BY <1>1, <1>2 DEF Unhandled
<1>5. pc[s].gen \in {0, 1}
  BY DEF IInv
<1>6. RequestOK(e)
  BY <1>1, <1>2, <1>3, <1>4, <1>5 DEF RequestOK
<1> QED BY <1>1, <1>2, <1>6 DEF e

(* createReq: some batches are added, which begins a request, and some of  *)
(* what is buffered fails.                                                 *)
LEMMA createReqIInv ==
    ASSUME IInv, NEW s \in Sinks, createReq(s)
    PROVE  IInv'
<1> DEFINE drainable == {p \in Partitions : Drainable(s, rb[p])}
           Step(add, fail) ==
         /\ rb' = [p \in Partitions |->
                     IF p \in add THEN tryAddBatch(s, rb[p])
                     ELSE IF p \in fail THEN failAllRecords(rb[p]) ELSE rb[p]]
         /\ done' = [p \in Partitions |->
                       IF p \in fail THEN done[p] \o FailedPromises(rb[p]) ELSE done[p]]
         /\ reqs' = IF add = {} THEN reqs
                    ELSE [reqs EXCEPT ![s] = Append(@, newRequest(s, add))]
         /\ IF add = {} THEN FreeSlot(s, pc[s].gen) ELSE UNCHANGED sem
         /\ pc' = [pc EXCEPT ![s].at = "idle"]
<1>a. PICK add \in SUBSET drainable :
         \E fail \in SUBSET {p \in drainable \ add : rb[p].idx = 0 /\ p \in CanFail} : Step(add, fail)
  BY Zenon DEF createReq, ProduceEnds
<1>1. PICK fail \in SUBSET {p \in drainable \ add : rb[p].idx = 0 /\ p \in CanFail} : Step(add, fail)
  BY <1>a, Zenon
<1>2. gen' = gen /\ next' = next /\ pc[s].at = "create"
  BY DEF createReq
<1>3. CASE add = {}
  <2>1. FailPartitions(fail) /\ reqs' = reqs /\ Idles(s)
    BY <1>1, <1>2, <1>3 DEF FailPartitions, Idles
  <2> QED BY <1>1, <1>2, <2>1, FailPartitionsIInv, Zenon
<1>4. CASE add # {}
  <2> DEFINE e == newRequest(s, add)
             q == reqs[s]
             y == Append(q, e)
             c == [pc[s] EXCEPT !.at = "idle"]
  <2>1. add \subseteq Partitions /\ fail \subseteq Partitions /\ add \cap fail = {}
    OBVIOUS
  <2>2. \A p \in add : Pending(rb[p]) /\ rb[p].on \in {None, s}
    BY DEF Drainable
  <2>3. /\ RequestOK(e) /\ e.gen = pc[s].gen /\ e.st # "handling" /\ e.dec = add
        /\ DOMAIN e.bs = add /\ \A p \in add : e.bs[p].first = rb[p].batches[rb[p].idx + 1].first
    BY <2>1, <2>2, newRequestOK
  <2>4. /\ Queue(q) /\ Slots(q, pc[s], sem[s]) /\ DOMAIN pc[s] = {"at", "gen", "epoch"} /\ pc[s].gen \in {0, 1}
    BY DEF IInv
  <2>5. DOMAIN c = {"at", "gen", "epoch"} /\ c.gen = pc[s].gen /\ c.at = "idle"
    BY <2>4
  <2>6. reqs' = [reqs EXCEPT ![s] = y] /\ pc' = [pc EXCEPT ![s] = c] /\ sem' = sem
    BY <1>1, <1>4
  <2> HIDE DEF c, e
  <2>7. Queue(y) /\ Slots(y, c, sem[s])
    BY <1>2, <2>3, <2>4, <2>5, AppendQueue, AppendSlots
  <2>8. DOMAIN pc' = Sinks /\ DOMAIN sem' = Sinks /\ pc'[s] = c /\ \A t \in Sinks \ {s} : pc'[t] = pc[t] /\ sem'[t] = sem[t]
    BY <2>6 DEF IInv
  <2>9. \A t \in Sinks : DOMAIN pc'[t] = {"at", "gen", "epoch"} /\ pc'[t].gen \in {0, 1}
    BY <2>4, <2>5, <2>8 DEF IInv
  <2>10. DOMAIN rb' = Partitions /\ DOMAIN done' = Partitions /\ gen' \in [Sinks -> {0, 1}]
    BY <1>1, <1>2 DEF IInv
  <2>11. ASSUME NEW p \in Partitions
         PROVE  /\ BufOK(rb'[p], done'[p], next[p])
                /\ Pair(y, s, p, rb'[p], next[p])
                /\ \A t \in Sinks \ {s} : Pair(reqs[t], t, p, rb'[p], next[p])
    <3>1. BufOK(rb[p], done[p], next[p]) /\ BufShape(rb[p])
      BY DEF IInv, BufOK
    <3>2. \A t \in Sinks : Queue(reqs[t]) /\ Pair(reqs[t], t, p, rb[p], next[p])
      BY DEF IInv
    <3>3. CASE p \in add
      <4> DEFINE x == tryAddBatch(s, rb[p])
      <4>1. rb'[p] = x /\ done'[p] = done[p]
        BY <1>1, <2>1, <3>3
      <4>2. BufOK(x, done[p], next[p]) /\ Drained(x, rb[p], s)
        BY <2>2, <3>1, <3>3, tryAddBatchOK, RecBufAssumption
      <4> HIDE DEF x
      <4>3. rb[p].on \in {None, s} /\ p \in e.dec /\ e.bs[p].first = rb[p].batches[rb[p].idx + 1].first
        BY <2>2, <2>3, <3>3
      <4>4. Pair(q, s, p, rb[p], next[p])
        BY <3>2
      <4>5. Pair(y, s, p, x, next[p])
        BY <2>3, <2>4, <3>1, <4>2, <4>3, <4>4, AddedPair, Zenon DEF Drained
      <4>6. ASSUME NEW t \in Sinks \ {s} PROVE Pair(reqs[t], t, p, x, next[p])
        <5>1. rb[p].on # t
          BY <4>3, RecBufAssumption
        <5>2. Queue(reqs[t]) /\ Holds(reqs[t], p) = {} /\ Older(reqs[t], p, next[p])
          BY <3>2, <5>1 DEF Pair, Counted
        <5>3. x.on # t
          BY <4>2 DEF Drained
        <5> QED BY <5>2, <5>3, IdlePair
      <4> QED BY <4>1, <4>2, <4>5, <4>6
    <3>4. CASE p \notin add
      <4>1. p \notin DOMAIN e.bs
        BY <2>3, <3>4
      <4>2. /\ BufOK(rb'[p], done'[p], next[p])
            /\ \A t \in Sinks : Pair(reqs[t], t, p, rb'[p], next[p])
        <5>1. CASE p \in fail
          <6>1. rb'[p] = failAllRecords(rb[p]) /\ done'[p] = done[p] \o FailedPromises(rb[p])
            BY <1>1, <3>4, <5>1, Zenon
          <6>2. BufOK(rb'[p], done'[p], next[p])
            BY <3>1, <6>1, FailedOK
          <6>3. \A t \in Sinks : Pair(reqs[t], t, p, rb'[p], next[p])
            BY <3>1, <3>2, <6>1, FailedPair
          <6> QED BY <6>2, <6>3
        <5>2. CASE p \notin fail
          <6>1. rb'[p] = rb[p] /\ done'[p] = done[p]
            BY <1>1, <3>4, <5>2
          <6> QED BY <3>1, <3>2, <6>1
        <5> QED BY <5>1, <5>2
      <4>3. Pair(y, s, p, rb'[p], next[p])
        BY <2>3, <2>4, <4>1, <4>2, OtherAppendPair
      <4> QED BY <4>2, <4>3
    <3> QED BY <3>3, <3>4
  <2> HIDE DEF y
  <2> QED BY <1>2, <2>6, <2>7, <2>8, <2>9, <2>10, <2>11, QueueStep, Zenon
<1> QED BY <1>3, <1>4 DEF Replaced

(* A recBuf that does not change.                                          *)
LEMMA SameBufSelf ==
    ASSUME IInv
    PROVE  DOMAIN rb = Partitions /\ \A p \in Partitions : SameBuf(rb[p], rb[p])
  BY DEF IInv, BufOK, BufShape, SameBuf

-----------------------------------------------------------------------------
(* One request of sink s gets further; recBufs keep their batches.         *)
LEMMA FurtherStep ==
    ASSUME IInv, NEW s \in Sinks, NEW i \in 1 .. Len(reqs[s]), NEW e, Further(e, reqs[s][i]),
           reqs' = [reqs EXCEPT ![s][i] = e], gen' \in [Sinks -> {0, 1}],
           next' = next, done' = done, pc' = pc, sem' = sem, DOMAIN rb' = Partitions,
           \A p \in Partitions : SameBuf(rb'[p], rb[p])
    PROVE  IInv'
<1> DEFINE y == [reqs[s] EXCEPT ![i] = e]
<1>1. reqs' = [reqs EXCEPT ![s] = y]
  OBVIOUS
<1>2. y = [reqs[s] EXCEPT ![i] = e] /\ Queue(reqs[s])
  BY DEF IInv
<1> HIDE DEF y
<1>3. Advanced(y, reqs[s], i, e)
  BY <1>2, FurtherQueue
<1>4. Similar(y, reqs[s]) /\ Queue(y)
  BY <1>3 DEF Advanced
<1> QED BY <1>1, <1>4, SimilarStep, Zenon

(* AppendTo: a request is written.                                         *)
LEMMA AppendToIInv ==
    ASSUME IInv, NEW s \in Sinks, AppendTo(s)
    PROVE  IInv'
<1> DEFINE sent(bs, p) == IF p \in DOMAIN bs THEN Places(p, bs[p]) ELSE {}
           null(bs) == [p \in DOMAIN bs |-> [bs[p] EXCEPT !.null = sent(bs, p) = {}]]
<1>1. PICK i \in 1 .. Len(reqs[s]) :
         /\ reqs[s][i].st = "made"
         /\ rb' = [p \in Partitions |-> cannotFail(rb[p], sent(reqs[s][i].bs, p))]
         /\ reqs' = [reqs EXCEPT ![s][i] = [@ EXCEPT !.st = "sent", !.bs = null(reqs[s][i].bs)]]
  BY Zenon DEF AppendTo, IsFirst
<1> DEFINE f == reqs[s][i]
           n == null(f.bs)
           e == [f EXCEPT !.st = "sent", !.bs = n]
<1>2. RequestOK(f)
  BY DEF IInv, Queue
<1>3. /\ DOMAIN n = DOMAIN f.bs
      /\ \A p \in DOMAIN f.bs : "first" \in DOMAIN n[p] /\ n[p].first = f.bs[p].first
  BY <1>2 DEF RequestOK
<1>4. reqs' = [reqs EXCEPT ![s][i] = e]
  BY <1>1
<1> HIDE DEF n
<1>5. /\ DOMAIN e = RequestFields /\ e.gen = f.gen /\ e.st = "sent" /\ e.bs = n /\ e.dec = f.dec
      /\ e.todo = f.todo /\ e.miss = f.miss /\ e.retry = f.retry
  BY <1>2 DEF RequestOK, RequestFields
<1> HIDE DEF e
<1>6. Further(e, f)
  <2>1. f.st # "handling" /\ Unhandled(e) = DOMAIN f.bs /\ Unhandled(f) = DOMAIN f.bs
    BY <1>1, <1>3, <1>5 DEF Unhandled
  <2>2. RequestOK(e)
    BY <1>2, <1>3, <1>5, <2>1 DEF RequestOK
  <2> QED BY <1>3, <1>5, <2>1, <2>2 DEF Further
<1>7. \A p \in Partitions : SameBuf(rb'[p], rb[p])
  BY <1>1, cannotFailOK DEF IInv, BufOK
<1>8. /\ gen' \in [Sinks -> {0, 1}] /\ next' = next /\ done' = done /\ pc' = pc /\ sem' = sem /\ DOMAIN rb' = Partitions
  BY <1>1 DEF AppendTo, IInv
<1> QED BY <1>4, <1>6, <1>7, <1>8, FurtherStep, Zenon

(* DialFails: the request has an error.                                    *)
LEMMA DialFailsIInv ==
    ASSUME IInv, NEW s \in Sinks, DialFails(s)
    PROVE  IInv'
<1>1. PICK i \in 1 .. Len(reqs[s]) :
         reqs[s][i].st = "made" /\ reqs' = [reqs EXCEPT ![s][i].st = "dialErr"]
  BY Zenon DEF DialFails, IsFirst
<1> DEFINE f == reqs[s][i]
           e == [f EXCEPT !.st = "dialErr"]
<1>2. RequestOK(f) /\ f.st = "made"
  BY <1>1 DEF IInv, Queue
<1>3. reqs' = [reqs EXCEPT ![s][i] = e]
  BY <1>1
<1>4. /\ DOMAIN e = RequestFields /\ e.gen = f.gen /\ e.st = "dialErr" /\ e.bs = f.bs /\ e.dec = f.dec
      /\ e.todo = f.todo /\ e.miss = f.miss /\ e.retry = f.retry
  BY <1>2 DEF RequestOK, RequestFields
<1> HIDE DEF e
<1>5. Further(e, f)
  BY <1>2, <1>4, FurtherUnhandled
<1>6. gen' \in [Sinks -> {0, 1}] /\ next' = next /\ done' = done /\ pc' = pc /\ sem' = sem /\ rb' = rb
  BY DEF DialFails, IInv
<1> QED BY <1>3, <1>5, <1>6, SameBufSelf, FurtherStep, Zenon

(* BrokerHandle: the request has a response, to no more than it asked.     *)
LEMMA BrokerHandleIInv ==
    ASSUME IInv, NEW s \in Sinks, BrokerHandle(s)
    PROVE  IInv'
<1>1. PICK i \in 1 .. Len(reqs[s]) :
         /\ reqs[s][i].st = "sent"
         /\ \E w : /\ DOMAIN w \subseteq DOMAIN reqs[s][i].bs
                   /\ reqs' = [reqs EXCEPT ![s][i] = [@ EXCEPT !.st = "replied", !.resp = w]]
  <2>1. PICK i \in 1 .. Len(reqs[s]) :
           /\ IsFirst(s, i, "sent")
           /\ \E f, hint, F : reqs' = [reqs EXCEPT ![s][i] =
                 [@ EXCEPT !.st = "replied", !.resp = Responses(s, reqs[s][i], f, F, hint)]]
    BY Zenon DEF BrokerHandle
  <2>2. \A f, hint, F : DOMAIN Responses(s, reqs[s][i], f, F, hint) \subseteq DOMAIN reqs[s][i].bs
    BY DEF Responses
  <2> QED BY <2>1, <2>2, Zenon DEF IsFirst
<1>2. PICK w : /\ DOMAIN w \subseteq DOMAIN reqs[s][i].bs
               /\ reqs' = [reqs EXCEPT ![s][i] = [@ EXCEPT !.st = "replied", !.resp = w]]
  BY <1>1, Zenon
<1> DEFINE f == reqs[s][i]
           e == [f EXCEPT !.st = "replied", !.resp = w]
<1>3. RequestOK(f) /\ f.st = "sent"
  BY <1>1 DEF IInv, Queue
<1>4. reqs' = [reqs EXCEPT ![s][i] = e]
  BY <1>2
<1>5. /\ DOMAIN e = RequestFields /\ e.gen = f.gen /\ e.st = "replied" /\ e.bs = f.bs /\ e.dec = f.dec
      /\ e.todo = f.todo /\ e.miss = f.miss /\ e.retry = f.retry /\ e.resp = w
  BY <1>3 DEF RequestOK, RequestFields
<1> HIDE DEF e
<1>6. Further(e, f)
  BY <1>2, <1>3, <1>5, FurtherUnhandled
<1>7. gen' \in [Sinks -> {0, 1}] /\ next' = next /\ done' = done /\ pc' = pc /\ sem' = sem /\ rb' = rb
  BY DEF BrokerHandle, IInv
<1> QED BY <1>4, <1>6, <1>7, SameBufSelf, FurtherStep, Zenon

(* ConnDies: some requests have an error.                                  *)
LEMMA ConnDiesIInv ==
    ASSUME IInv, NEW s \in Sinks, ConnDies(s)
    PROVE  IInv'
<1> DEFINE q == reqs[s]
           lost1(hit) == [i \in 1 .. Len(q) |-> IF i \in hit THEN [q[i] EXCEPT !.st = "connErr"] ELSE q[i]]
<1>1. PICK hit : hit \subseteq {i \in 1 .. Len(q) : q[i].st \in {"sent", "replied"}}
                 /\ reqs' = [reqs EXCEPT ![s] = lost1(hit)]
  <2>1. PICK k \in 0 .. Len(reqs[s]) - 1 :
           LET hit == {i \in k + 1 .. Len(reqs[s]) : reqs[s][i].st \in {"sent", "replied"}}
           IN reqs' = [reqs EXCEPT ![s] = [i \in 1 .. Len(@) |->
                         IF i \in hit THEN [@[i] EXCEPT !.st = "connErr"] ELSE @[i]]]
    BY Zenon DEF ConnDies
  <2>2. Len(q) \in Nat
    BY SeqBasics DEF IInv, Queue
  <2>3. {i \in k + 1 .. Len(q) : q[i].st \in {"sent", "replied"}}
           \subseteq {i \in 1 .. Len(q) : q[i].st \in {"sent", "replied"}}
    BY <2>2
  <2>4. reqs' = [reqs EXCEPT ![s] = lost1({i \in k + 1 .. Len(q) : q[i].st \in {"sent", "replied"}})]
    BY <2>1
  <2> HIDE DEF lost1
  <2> QED BY <2>3, <2>4, Zenon
<1> DEFINE y == lost1(hit)
<1>2. Queue(q) /\ Len(q) \in Nat
  BY SeqBasics DEF IInv, Queue
<1>3. ASSUME NEW i \in 1 .. Len(q) PROVE (y[i] = q[i] /\ RequestOK(q[i])) \/ Further(y[i], q[i])
  <2> DEFINE f == q[i]
             e == [f EXCEPT !.st = "connErr"]
  <2>1. RequestOK(f)
    BY <1>2 DEF Queue
  <2>2. CASE i \notin hit
    BY <2>1, <2>2
  <2>3. CASE i \in hit
    <3>1. y[i] = e /\ f.st # "handling"
      BY <1>1, <2>3
    <3>2. /\ DOMAIN e = RequestFields /\ e.gen = f.gen /\ e.st = "connErr" /\ e.bs = f.bs /\ e.dec = f.dec
          /\ e.todo = f.todo /\ e.miss = f.miss /\ e.retry = f.retry
      BY <2>1 DEF RequestOK, RequestFields
    <3> HIDE DEF e
    <3>3. Further(e, f)
      BY <2>1, <3>1, <3>2, FurtherUnhandled
    <3> QED BY <3>1, <3>3
  <2> QED BY <2>2, <2>3
<1>4. DOMAIN y = 1 .. Len(q) /\ y = [i \in 1 .. Len(q) |-> y[i]]
  OBVIOUS
<1> HIDE DEF y
<1>5. IsSeq(y) /\ Len(y) = Len(q)
  BY <1>2, <1>4, SeqMade, Zenon
<1>6. ASSUME NEW i \in 1 .. Len(q)
      PROVE  /\ y[i].dec = q[i].dec /\ y[i].gen = q[i].gen /\ DOMAIN y[i].bs = DOMAIN q[i].bs
             /\ \A p \in DOMAIN q[i].bs : y[i].bs[p].first = q[i].bs[p].first
             /\ Unhandled(y[i]) \subseteq Unhandled(q[i])
             /\ RequestOK(y[i])
  BY <1>3, Zenon DEF Further
<1>7. Similar(y, q) /\ Queue(y)
  BY <1>5, <1>6, Zenon DEF Similar, Queue
<1>8. /\ gen' \in [Sinks -> {0, 1}] /\ next' = next /\ done' = done /\ pc' = pc /\ sem' = sem /\ rb' = rb
  BY DEF ConnDies, IInv
<1>9. reqs' = [reqs EXCEPT ![s] = y]
  BY <1>1 DEF y
<1> QED BY <1>7, <1>8, <1>9, SameBufSelf, SimilarStep, Zenon

(* handleSeqResps: all of the first request is to be handled.              *)
LEMMA handleSeqRespsIInv ==
    ASSUME IInv, NEW s \in Sinks, handleSeqResps(s)
    PROVE  IInv'
<1> DEFINE f == reqs[s][1]
           todo == IF f.st = "replied" THEN DOMAIN f.resp ELSE {}
           miss == IF f.st = "replied" THEN DOMAIN f.bs \ DOMAIN f.resp ELSE DOMAIN f.bs
           e == [f EXCEPT !.st = "handling", !.todo = todo, !.miss = miss, !.updateMeta = f.st # "connErr"]
<1>1. 1 \in 1 .. Len(reqs[s]) /\ RequestOK(f)
  <2>1. Queue(reqs[s]) /\ reqs[s] # <<>>
    BY DEF IInv, handleSeqResps
  <2>2. Len(reqs[s]) \in Nat /\ Len(reqs[s]) >= 1
    BY <2>1, SeqBasics, SeqTail DEF Queue
  <2> QED BY <2>1, <2>2 DEF Queue
<1>2. f.st # "handling"
  BY DEF handleSeqResps
<1>3. todo \cup miss = DOMAIN f.bs /\ todo \cap miss = {} /\ f.retry = {}
  BY <1>1, <1>2 DEF RequestOK
<1>4. reqs' = [reqs EXCEPT ![s][1] = e]
  BY DEF handleSeqResps
<1> HIDE DEF todo, miss
<1>5. /\ DOMAIN e = RequestFields /\ e.gen = f.gen /\ e.st = "handling" /\ e.bs = f.bs /\ e.dec = f.dec
      /\ e.todo = todo /\ e.miss = miss /\ e.retry = f.retry
  BY <1>1 DEF RequestOK, RequestFields
<1> HIDE DEF e
<1>6. Unhandled(e) = DOMAIN f.bs /\ Unhandled(f) = DOMAIN f.bs
  BY <1>2, <1>3, <1>5 DEF Unhandled
<1>7. Further(e, f)
  BY <1>1, <1>3, <1>5, <1>6 DEF Further, RequestOK
<1>8. gen' \in [Sinks -> {0, 1}] /\ next' = next /\ done' = done /\ pc' = pc /\ sem' = sem /\ rb' = rb
  BY DEF handleSeqResps, IInv, firstRespCheck
<1> QED BY <1>1, <1>4, <1>7, <1>8, SameBufSelf, FurtherStep, Zenon

-----------------------------------------------------------------------------
(* Handling a request: it is the first.                                    *)
LEMMA HandlingFirst ==
    ASSUME IInv, NEW s \in Sinks, Handling(s)
    PROVE  /\ Queue(reqs[s]) /\ reqs[s] # <<>> /\ 1 \in 1 .. Len(reqs[s])
           /\ RequestOK(reqs[s][1]) /\ reqs[s][1].st = "handling"
<1>1. Queue(reqs[s]) /\ reqs[s] # <<>>
  BY DEF IInv, Handling
<1>2. Len(reqs[s]) \in Nat /\ Len(reqs[s]) >= 1
  BY <1>1, SeqBasics, SeqTail DEF Queue
<1> QED BY <1>1, <1>2 DEF Queue, Handling

(* A partition of it is handled, or is left to be retried.                 *)
LEMMA HandledFurther ==
    ASSUME NEW f, NEW e, NEW p, RequestOK(f), f.st = "handling", DOMAIN e = RequestFields,
           e.st = "handling", e.gen = f.gen, e.bs = f.bs, e.dec = f.dec,
           \/ p \in f.todo /\ e.todo = f.todo \ {p} /\ e.miss = f.miss /\ e.retry \in {f.retry, f.retry \cup {p}}
           \/ e.todo = f.todo /\ e.miss = f.miss \ {p} /\ e.retry \in {f.retry, f.retry \ {p}}
    PROVE  Further(e, f)
<1>1. Unhandled(f) = f.todo \cup f.miss \cup f.retry /\ Unhandled(e) = e.todo \cup e.miss \cup e.retry
  BY DEF Unhandled
<1>2. /\ f.todo \cap f.miss = {} /\ f.todo \cap f.retry = {} /\ f.miss \cap f.retry = {}
  BY DEF RequestOK
<1>3. Unhandled(e) \subseteq Unhandled(f)
  BY <1>1
<1>4. /\ e.todo \cap e.miss = {} /\ e.todo \cap e.retry = {} /\ e.miss \cap e.retry = {}
  BY <1>2
<1>5. RequestOK(e)
  BY <1>3, <1>4 DEF RequestOK
<1> QED BY <1>3, <1>5 DEF Further

(* A partition whose response is to be handled is in flight on this sink.  *)
LEMMA HandlingOn ==
    ASSUME IInv, NEW s \in Sinks, Handling(s), NEW p \in Partitions, p \in Unhandled(reqs[s][1])
    PROVE  /\ rb[p].on = s
           /\ \A t \in Sinks \ {s} : \A x : x.on = s => Pair(reqs[t], t, p, x, next[p])
<1>1. /\ Queue(reqs[s]) /\ reqs[s] # <<>> /\ 1 \in 1 .. Len(reqs[s]) /\ RequestOK(reqs[s][1])
  BY HandlingFirst
<1>2. 1 \in Holds(reqs[s], p)
  BY <1>1 DEF Holds, RequestOK
<1>3. \A t \in Sinks : Queue(reqs[t]) /\ Pair(reqs[t], t, p, rb[p], next[p])
  BY DEF IInv
<1>4. rb[p].on = s
  BY <1>2, <1>3 DEF Pair, Counted
<1>5. ASSUME NEW t \in Sinks \ {s}, NEW x, x.on = s PROVE Pair(reqs[t], t, p, x, next[p])
  <2>1. Queue(reqs[t]) /\ Holds(reqs[t], p) = {} /\ Older(reqs[t], p, next[p]) /\ x.on # t
    BY <1>3, <1>4, <1>5 DEF Pair, Counted
  <2> QED BY <2>1, IdlePair
<1> QED BY <1>4, <1>5

(* What happens to the batches of partition p while request e of s is      *)
(* handled further: nothing;                                               *)
LEMMA HandledSame ==
    ASSUME IInv, NEW s \in Sinks, Handling(s), NEW e, Further(e, reqs[s][1]),
           reqs' = [reqs EXCEPT ![s][1] = e], gen' = gen, next' = next, done' = done, pc' = pc, sem' = sem,
           NEW p \in Partitions, NEW x, rb' = [rb EXCEPT ![p] = x], SameBuf(x, rb[p])
    PROVE  IInv'
<1>1. DOMAIN rb' = Partitions /\ gen' \in [Sinks -> {0, 1}] /\ 1 \in 1 .. Len(reqs[s])
  BY HandlingFirst DEF IInv
<1>2. \A m \in Partitions : SameBuf(rb'[m], rb[m])
  BY SameBufSelf DEF IInv
<1> QED BY <1>1, <1>2, FurtherStep, Zenon

(* they fail;                                                              *)
LEMMA HandledFails ==
    ASSUME IInv, NEW s \in Sinks, Handling(s), NEW e, Further(e, reqs[s][1]),
           reqs' = [reqs EXCEPT ![s][1] = e], gen' = gen, next' = next, pc' = pc, sem' = sem,
           NEW p \in Partitions, NEW r, SameBuf(r, rb[p]),
           rb' = [rb EXCEPT ![p] = failAllRecords(r)],
           done' = [done EXCEPT ![p] = @ \o FailedPromises(r)]
    PROVE  IInv'
<1> DEFINE q == reqs[s]
           y == [q EXCEPT ![1] = e]
           x == failAllRecords(r)
           d == done[p] \o FailedPromises(r)
           n == next[p]
<1>1. /\ reqs' = [reqs EXCEPT ![s] = y] /\ rb' = [rb EXCEPT ![p] = x] /\ done' = [done EXCEPT ![p] = d]
  OBVIOUS
<1>2. Queue(q) /\ 1 \in 1 .. Len(q) /\ y = [q EXCEPT ![1] = e]
  BY HandlingFirst
<1> HIDE DEF y
<1>3. Similar(y, q) /\ Queue(y)
  <2>1. Advanced(y, q, 1, e)
    BY <1>2, FurtherQueue
  <2> QED BY <2>1 DEF Advanced
<1>4. BufOK(rb[p], done[p], n) /\ BufShape(rb[p])
  BY DEF IInv, BufOK
<1>5. BufOK(r, done[p], n)
  BY <1>4, SameBufOK
<1>6. BufShape(r)
  BY <1>5 DEF BufOK
<1>7. \A t \in Sinks : Queue(reqs[t]) /\ Pair(reqs[t], t, p, r, n)
  BY <1>4, SameBufPair DEF IInv
<1>8. \A t \in Sinks : Pair(reqs[t], t, p, x, n)
  BY <1>6, <1>7, FailedPair
<1>9. BufOK(x, d, n)
  BY <1>5, FailedOK
<1> HIDE DEF x, d
<1>10. Pair(y, s, p, x, n)
  BY <1>2, <1>3, <1>8, SimilarPair
<1> QED BY <1>1, <1>3, <1>8, <1>9, <1>10, OneBufStep, Zenon

(* the first one is finished;                                              *)
LEMMA HandledFinishes ==
    ASSUME IInv, NEW s \in Sinks, Handling(s), NEW e, Further(e, reqs[s][1]),
           reqs' = [reqs EXCEPT ![s][1] = e], gen' = gen, next' = next, pc' = pc, sem' = sem,
           NEW p \in Partitions, p \in Unhandled(reqs[s][1]), p \notin Unhandled(e),
           isOwnersFirstBatch(rb[p], reqs[s][1].bs[p]), NEW r, SameBuf(r, rb[p]),
           NEW x, rb' = [rb EXCEPT ![p] = x], DOMAIN x = RecBufFields, x.batches = Tail(r.batches),
           x.idx = r.idx - 1, x.inflight = r.inflight, x.on = r.on,
           done' = [done EXCEPT ![p] = Append(@, Promise(r.batches[1], TRUE))]
    PROVE  IInv'
<1> DEFINE q == reqs[s]
           y == [q EXCEPT ![1] = e]
           a == Promise(r.batches[1], TRUE)
           d == Append(done[p], a)
           n == next[p]
<1>1. reqs' = [reqs EXCEPT ![s] = y] /\ done' = [done EXCEPT ![p] = d]
  OBVIOUS
<1>2. Queue(q) /\ q # <<>> /\ 1 \in 1 .. Len(q) /\ y = [q EXCEPT ![1] = e]
  BY HandlingFirst
<1> HIDE DEF y
<1>3. Similar(y, q) /\ Queue(y) /\ y[1] = e
  <2>1. Advanced(y, q, 1, e)
    BY <1>2, FurtherQueue, Zenon
  <2> QED BY <2>1 DEF Advanced
<1>4. BufOK(rb[p], done[p], n) /\ BufShape(rb[p]) /\ Pair(q, s, p, rb[p], n)
  BY DEF IInv, BufOK
<1>5. BufOK(r, done[p], n) /\ BufShape(r) /\ Pair(q, s, p, r, n)
  BY <1>4, SameBufOK, SameBufPair, Zenon DEF BufOK
<1>6. Len(r.batches) \in Nat \ {0} /\ r.batches # <<>> /\ r.batches[1].first = rb[p].batches[1].first
  <2>1. /\ Len(rb[p].batches) \in Nat /\ (rb[p].batches = <<>> <=> Len(rb[p].batches) = 0)
        /\ (r.batches = <<>> <=> Len(r.batches) = 0)
    BY <1>4, <1>5, EmptyBatches DEF BufShape
  <2>2. Len(rb[p].batches) \in Nat \ {0} /\ 1 \in 1 .. Len(rb[p].batches)
    BY <2>1 DEF isOwnersFirstBatch
  <2> QED BY <2>1, <2>2 DEF SameBuf
<1>7. isOwnersFirstBatch(r, q[1].bs[p])
  BY <1>6 DEF isOwnersFirstBatch
<1>8. r.idx \in 1 .. Len(r.batches)
  BY <1>2, <1>5, <1>7, FirstIsChained DEF Pair
<1>9. r.idx >= 1
  BY <1>6, <1>8
<1>10. a \in AnyPromise /\ a.first = r.batches[1].first /\ a.n = r.batches[1].n
  <2>1. r.batches \in Seq(AnyBatch) /\ 1 \in 1 .. Len(r.batches)
    BY <1>5, <1>6 DEF BufShape
  <2>2. r.batches[1] \in AnyBatch
    BY <2>1, ElementOfSeq
  <2> QED BY <2>2 DEF Promise, AnyPromise, AnyBatch
<1> HIDE DEF a
<1>11. BufOK(x, d, n)
  BY <1>5, <1>6, <1>9, <1>10, FinishedOK
<1>12. Pair(y, s, p, x, n)
  BY <1>2, <1>3, <1>5, <1>7, FinishedPair, Zenon
<1>13. x.on = s
  BY HandlingOn DEF SameBuf
<1>14. \A t \in Sinks \ {s} : Pair(reqs[t], t, p, x, n)
  BY <1>13, HandlingOn
<1> HIDE DEF d
<1> QED BY <1>1, <1>3, <1>11, <1>12, <1>14, OneBufStep, Zenon

(* they are drained again.                                                 *)
LEMMA HandledResets ==
    ASSUME IInv, NEW s \in Sinks, Handling(s), NEW e, Further(e, reqs[s][1]),
           reqs' = [reqs EXCEPT ![s][1] = e], gen' = gen, next' = next, pc' = pc, sem' = sem, done' = done,
           NEW p \in Partitions, p \in Unhandled(reqs[s][1]), p \notin Unhandled(e),
           isOwnersFirstBatch(rb[p], reqs[s][1].bs[p]),
           NEW x, rb' = [rb EXCEPT ![p] = x], DOMAIN x = RecBufFields, x.batches = rb[p].batches,
           x.idx = 0, x.inflight = rb[p].inflight, x.on = rb[p].on
    PROVE  IInv'
<1> DEFINE q == reqs[s]
           y == [q EXCEPT ![1] = e]
           n == next[p]
<1>1. reqs' = [reqs EXCEPT ![s] = y]
  OBVIOUS
<1>2. Queue(q) /\ q # <<>> /\ 1 \in 1 .. Len(q) /\ y = [q EXCEPT ![1] = e]
  BY HandlingFirst
<1> HIDE DEF y
<1>3. Similar(y, q) /\ Queue(y) /\ y[1] = e
  <2>1. Advanced(y, q, 1, e)
    BY <1>2, FurtherQueue
  <2> QED BY <2>1 DEF Advanced
<1>4. BufOK(rb[p], done[p], n) /\ BufShape(rb[p]) /\ Pair(q, s, p, rb[p], n)
  BY DEF IInv, BufOK
<1>5. BufOK(x, done[p], n)
  <2>1. 0 \in 0 .. Len(rb[p].batches)
    BY <1>4, LenProperties DEF BufShape
  <2> QED BY <1>4, <2>1 DEF BufOK, BufShape
<1>6. Pair(y, s, p, x, n)
  BY <1>2, <1>3, <1>4, ResetPair, Zenon
<1>7. x.on = s
  BY HandlingOn
<1>8. /\ DOMAIN rb' = Partitions /\ rb'[p] = x /\ \A m \in Partitions \ {p} : rb'[m] = rb[m]
      /\ DOMAIN done' = Partitions /\ gen' \in [Sinks -> {0, 1}] /\ DOMAIN pc' = Sinks /\ DOMAIN sem' = Sinks
      /\ \A t \in Sinks : DOMAIN pc'[t] = {"at", "gen", "epoch"} /\ pc'[t].gen \in {0, 1}
      /\ \A t \in Sinks \ {s} : pc'[t] = pc[t] /\ sem'[t] = sem[t]
  BY DEF IInv
<1>9. \A m \in Partitions : BufOK(rb'[m], done'[m], next[m])
  BY <1>5, <1>8 DEF IInv
<1>10. \A m \in Partitions : Pair(y, s, m, rb'[m], next[m])
  <2>1. \A m \in Partitions \ {p} : Pair(y, s, m, rb[m], next[m])
    BY <1>2, <1>3, SimilarPair DEF IInv
  <2> QED BY <1>6, <1>8, <2>1
<1>11. \A t \in Sinks \ {s}, m \in Partitions : Pair(reqs[t], t, m, rb'[m], next[m])
  <2>1. \A t \in Sinks \ {s} : Pair(reqs[t], t, p, x, n)
    BY <1>7, HandlingOn
  <2> QED BY <1>8, <2>1 DEF IInv
<1>12. Slots(y, pc'[s], sem'[s])
  BY <1>3, SimilarSlots DEF IInv
<1> QED BY <1>1, <1>3, <1>8, <1>9, <1>10, <1>11, <1>12, QueueStep, Zenon

-----------------------------------------------------------------------------
(* handleReqRespBatch: a response about a batch that is not the first is   *)
(* skipped; what is about the first finishes it, fails everything, or      *)
(* leaves it to be retried.                                                *)
LEMMA handleReqRespBatchIInv ==
    ASSUME IInv, NEW s \in Sinks, NEW p \in Partitions, handleReqRespBatch(s, p)
    PROVE  IInv'
<1> DEFINE f == reqs[s][1]
           e == [f EXCEPT !.todo = @ \ {p}]
           g == [f EXCEPT !.todo = @ \ {p}, !.retry = @ \cup {p}]
           h == [f EXCEPT !.todo = @ \ {p}, !.retry = @ \cup {p}, !.moving = @ \cup {p}]
           code == f.resp[p].code
           r == checkUnknownFailLimit(responded(rb[p]), code)
<1>1. Handling(s) /\ p \in f.todo /\ gen' = gen /\ next' = next /\ pc' = pc /\ sem' = sem
  BY Zenon DEF handleReqRespBatch
<1>2. RequestOK(f) /\ f.st = "handling" /\ 1 \in 1 .. Len(reqs[s])
  BY <1>1, HandlingFirst
<1>3. p \in Unhandled(f)
  BY <1>1, <1>2 DEF Unhandled
<1>4. /\ DOMAIN e = RequestFields /\ e.st = "handling" /\ e.gen = f.gen /\ e.bs = f.bs /\ e.dec = f.dec
      /\ e.todo = f.todo \ {p} /\ e.miss = f.miss /\ e.retry = f.retry
  BY <1>2 DEF RequestOK, RequestFields
<1>5. /\ DOMAIN g = RequestFields /\ g.st = "handling" /\ g.gen = f.gen /\ g.bs = f.bs /\ g.dec = f.dec
      /\ g.todo = f.todo \ {p} /\ g.miss = f.miss /\ g.retry = f.retry \cup {p}
  BY <1>2 DEF RequestOK, RequestFields
<1>6. /\ DOMAIN h = RequestFields /\ h.st = "handling" /\ h.gen = f.gen /\ h.bs = f.bs /\ h.dec = f.dec
      /\ h.todo = f.todo \ {p} /\ h.miss = f.miss /\ h.retry = f.retry \cup {p}
  BY <1>2 DEF RequestOK, RequestFields
<1>7. Further(e, f) /\ Further(g, f) /\ Further(h, f)
  <2> HIDE DEF e, g, h
  <2> QED BY <1>1, <1>2, <1>4, <1>5, <1>6, HandledFurther, Zenon
<1>8. p \notin Unhandled(e)
  <2> HIDE DEF e
  <2> QED BY <1>1, <1>2, <1>4 DEF Unhandled, RequestOK
<1>9. BufShape(rb[p])
  BY DEF IInv, BufOK
<1>10. isOwnersFirstBatch(rb[p], f.bs[p]) => SameBuf(r, rb[p]) /\ SameBuf(responded(rb[p]), rb[p])
  BY <1>9, decidedOK, respondedOK DEF isOwnersFirstBatch
<1>11. CASE RespSkipped(s, p)
  <2>1. reqs' = [reqs EXCEPT ![s][1] = e] /\ rb' = rb /\ done' = done /\ gen' \in [Sinks -> {0, 1}]
    BY <1>1, <1>11 DEF RespSkipped, IInv
  <2> HIDE DEF e
  <2> QED BY <1>1, <1>2, <1>7, <2>1, SameBufSelf, FurtherStep, Zenon
<1>12. CASE RespMoving(s, p)
  <2> DEFINE z == responded(rb[p])
             x == [z EXCEPT !.failing = TRUE]
  <2>1. isOwnersFirstBatch(rb[p], f.bs[p])
    BY <1>12 DEF RespMoving
  <2>2. reqs' = [reqs EXCEPT ![s][1] = h] /\ rb' = [rb EXCEPT ![p] = x] /\ done' = done
    BY <1>12 DEF RespMoving
  <2>3. SameBuf(z, rb[p])
    BY <1>10, <2>1
  <2> HIDE DEF z
  <2>4. DOMAIN x = RecBufFields /\ x.batches = z.batches /\ x.idx = z.idx /\ x.inflight = z.inflight /\ x.on = z.on
    BY <2>3 DEF SameBuf, RecBufFields
  <2> HIDE DEF x, h
  <2>5. SameBuf(x, rb[p])
    BY <2>3, <2>4, SameBufTrans
  <2> QED BY <1>1, <1>7, <2>2, <2>5, HandledSame, Zenon
<1>13. CASE RespRetry(s, p) \/ RespReset(s, p)
  <2>1. isOwnersFirstBatch(rb[p], f.bs[p])
    BY <1>13, Zenon DEF RespRetry, RespReset, RespDecides
  <2>2. reqs' = [reqs EXCEPT ![s][1] = g] /\ rb' = [rb EXCEPT ![p] = r] /\ done' = done
    BY <1>13 DEF RespRetry, RespReset
  <2>3. SameBuf(r, rb[p])
    BY <1>10, <2>1
  <2> HIDE DEF r, g
  <2> QED BY <1>1, <1>7, <2>2, <2>3, HandledSame, Zenon
<1>14. CASE RespFatal(s, p) \/ RespFails(s, p)
  <2>1. isOwnersFirstBatch(rb[p], f.bs[p])
    BY <1>14, Zenon DEF RespFatal, RespFails, RespDecides
  <2>2. /\ reqs' = [reqs EXCEPT ![s][1] = e] /\ rb' = [rb EXCEPT ![p] = failAllRecords(r)]
        /\ done' = [done EXCEPT ![p] = @ \o FailedPromises(r)]
    BY <1>14, Zenon DEF RespFatal, RespFails
  <2>3. SameBuf(r, rb[p])
    BY <1>10, <2>1
  <2> HIDE DEF r, e
  <2> QED BY <1>1, <1>7, <2>2, <2>3, HandledFails, Zenon
<1>15. CASE RespOk(s, p)
  <2> DEFINE x == [finishBatch(r) EXCEPT !.ok = TRUE, !.acked = f.resp[p].off]
  <2>1. isOwnersFirstBatch(rb[p], f.bs[p])
    BY <1>15 DEF RespOk, RespDecides
  <2>2. /\ reqs' = [reqs EXCEPT ![s][1] = e] /\ rb' = [rb EXCEPT ![p] = x]
        /\ done' = [done EXCEPT ![p] = Append(@, Promise(r.batches[1], TRUE))]
    BY <1>15 DEF RespOk
  <2>3. SameBuf(r, rb[p])
    BY <1>10, <2>1
  <2> HIDE DEF r, e
  <2>4. /\ DOMAIN x = RecBufFields /\ x.batches = Tail(r.batches) /\ x.idx = r.idx - 1
        /\ x.inflight = r.inflight /\ x.on = r.on
    BY <2>3 DEF SameBuf, RecBufFields, finishBatch
  <2> HIDE DEF x
  <2> QED BY <1>1, <1>3, <1>7, <1>8, <2>1, <2>2, <2>3, <2>4, HandledFinishes, Zenon
<1> QED BY <1>11, <1>12, <1>13, <1>14, <1>15 DEF handleReqRespBatch

(* handleRetryBatches: the same, for what is to be retried.                *)
LEMMA handleRetryBatchesIInv ==
    ASSUME IInv, NEW s \in Sinks, NEW p \in Partitions, handleRetryBatches(s, p)
    PROVE  IInv'
<1> DEFINE f == reqs[s][1]
           Ended(meta, back) ==
               [f EXCEPT !.miss = @ \ {p}, !.retry = IF f.miss # {} THEN @ ELSE @ \ {p},
                         !.needsMeta = meta, !.backoff = back]
<1>1. Handling(s) /\ f.todo = {} /\ p \in Phase(f) /\ gen' = gen /\ next' = next /\ pc' = pc /\ sem' = sem
  BY DEF handleRetryBatches
<1>2. RequestOK(f) /\ f.st = "handling" /\ 1 \in 1 .. Len(reqs[s])
  BY <1>1, HandlingFirst
<1>3. \E meta, back : reqs' = [reqs EXCEPT ![s][1] = Ended(meta, back)]
  <2>1. ASSUME NEW m, NEW b, RetryEnds(s, p, m, b)
        PROVE  \E meta, back : reqs' = [reqs EXCEPT ![s][1] = Ended(meta, back)]
    <3>1. reqs' = [reqs EXCEPT ![s][1] = Ended((f.needsMeta \/ m) /\ ~(Phase(f) = {p}),
                                               (f.backoff \/ b) /\ ~(Phase(f) = {p}))]
      BY <2>1 DEF RetryEnds
    <3> HIDE DEF Ended
    <3> QED BY <3>1
  <2>2. \E m, b : RetryEnds(s, p, m, b)
    BY Zenon DEF handleRetryBatches, RetrySkipped, RetryOnOtherSink, RetryFails, Retried
  <2> QED BY <2>1, <2>2, Zenon
<1>4. PICK meta, back : reqs' = [reqs EXCEPT ![s][1] = Ended(meta, back)]
  BY <1>3, Zenon
<1> DEFINE e == Ended(meta, back)
<1>5. /\ DOMAIN e = RequestFields /\ e.st = "handling" /\ e.gen = f.gen /\ e.bs = f.bs /\ e.dec = f.dec
      /\ e.todo = f.todo /\ e.miss = f.miss \ {p} /\ e.retry = IF f.miss # {} THEN f.retry ELSE f.retry \ {p}
  BY <1>2 DEF RequestOK, RequestFields
<1>6. reqs' = [reqs EXCEPT ![s][1] = e]
  BY <1>4
<1> HIDE DEF Ended, e
<1>7. Further(e, f)
  BY <1>2, <1>5, HandledFurther, Zenon
<1>8. p \in Unhandled(f) /\ p \notin Unhandled(e)
  BY <1>1, <1>2, <1>5 DEF Unhandled, Phase, RequestOK
<1>9. BufShape(rb[p]) /\ SameBuf(rb[p], rb[p])
  BY SameBufSelf, Zenon DEF IInv, BufOK
<1>10. CASE RetrySkipped(s, p)
  <2>1. rb' = rb /\ done' = done /\ gen' \in [Sinks -> {0, 1}]
    BY <1>1, <1>10, Zenon DEF RetrySkipped, IInv
  <2> QED BY <1>1, <1>2, <1>6, <1>7, <2>1, SameBufSelf, FurtherStep, Zenon
<1>11. CASE RetryOnOtherSink(s, p)
  <2> DEFINE x == resetBatchDrainIdx(rb[p])
  <2>1. isOwnersFirstBatch(rb[p], f.bs[p]) /\ rb' = [rb EXCEPT ![p] = x] /\ done' = done
    BY <1>11 DEF RetryOnOtherSink
  <2>2. /\ DOMAIN x = RecBufFields /\ x.batches = rb[p].batches /\ x.idx = 0
        /\ x.inflight = rb[p].inflight /\ x.on = rb[p].on
    BY <1>9 DEF resetBatchDrainIdx, BufShape, RecBufFields
  <2> HIDE DEF x
  <2> QED BY <1>1, <1>6, <1>7, <1>8, <2>1, <2>2, HandledResets, Zenon
<1>12. CASE RetryFails(s, p)
  <2>1. /\ rb' = [rb EXCEPT ![p] = failAllRecords(rb[p])]
        /\ done' = [done EXCEPT ![p] = @ \o FailedPromises(rb[p])]
    BY <1>12 DEF RetryFails
  <2> QED BY <1>1, <1>6, <1>7, <1>9, <2>1, HandledFails, Zenon
<1>13. CASE Retried(s, p)
  <2> DEFINE z == resetBatchDrainIdx(rb[p])
  <2>1. /\ isOwnersFirstBatch(rb[p], f.bs[p]) /\ done' = done
        /\ \E fl : rb' = [rb EXCEPT ![p] = [z EXCEPT !.failing = fl]]
    BY <1>13, Zenon DEF Retried
  <2>2. PICK fl : rb' = [rb EXCEPT ![p] = [z EXCEPT !.failing = fl]]
    BY <2>1, Zenon
  <2> DEFINE x == [z EXCEPT !.failing = fl]
  <2>3. /\ DOMAIN x = RecBufFields /\ x.batches = rb[p].batches /\ x.idx = 0
        /\ x.inflight = rb[p].inflight /\ x.on = rb[p].on
    BY <1>9 DEF resetBatchDrainIdx, BufShape, RecBufFields
  <2>4. rb' = [rb EXCEPT ![p] = x]
    BY <2>2
  <2> HIDE DEF x, z
  <2> QED BY <1>1, <1>6, <1>7, <1>8, <2>1, <2>3, <2>4, HandledResets, Zenon
<1> QED BY <1>10, <1>11, <1>12, <1>13 DEF handleRetryBatches

(* reqFinished: the request lets go of a partition, and with the last one  *)
(* of its slot.                                                            *)
LEMMA reqFinishedIInv ==
    ASSUME IInv, NEW s \in Sinks, NEW p \in Partitions, reqFinished(s, p)
    PROVE  IInv'
<1> DEFINE q == reqs[s]
           f == q[1]
           e == [f EXCEPT !.dec = @ \ {p}]
           y == [q EXCEPT ![1] = e]
           x == decInflight(rb[p])
           n == next[p]
<1>1. /\ Handling(s) /\ f.todo \cup f.miss \cup f.retry = {} /\ p \in f.dec
      /\ rb' = [rb EXCEPT ![p] = x] /\ gen' = gen /\ next' = next /\ pc' = pc /\ done' = done
      /\ IF f.dec = {p} THEN FreeSlot(s, f.gen) ELSE UNCHANGED sem
  BY DEF reqFinished
<1>2. Queue(q) /\ q # <<>> /\ RequestOK(f) /\ f.st = "handling" /\ 1 \in 1 .. Len(q) /\ Len(q) \in Nat
  BY <1>1, HandlingFirst, SeqBasics DEF Queue
<1>3. /\ DOMAIN e = RequestFields /\ e.st = "handling" /\ e.gen = f.gen /\ e.bs = f.bs /\ e.dec = f.dec \ {p}
      /\ e.todo = f.todo /\ e.miss = f.miss /\ e.retry = f.retry
  BY <1>2 DEF RequestOK, RequestFields
<1>4. reqs' = IF f.dec = {p} THEN [reqs EXCEPT ![s] = Tail(q)] ELSE [reqs EXCEPT ![s] = y]
  BY DEF reqFinished
<1> HIDE DEF e
<1>5. Unhandled(f) = {} /\ Unhandled(e) = {}
  BY <1>1, <1>2, <1>3, Zenon DEF Unhandled
<1>6. RequestOK(e)
  BY <1>2, <1>3, <1>5, Zenon DEF RequestOK
<1>7. Replaced(y, q, 1, e)
  <2>1. y = [q EXCEPT ![1] = e] /\ IsSeq(q)
    BY <1>2 DEF Queue
  <2> HIDE DEF y
  <2> QED BY <1>2, <2>1, SeqExcept
<1> HIDE DEF y
<1>8. IsSeq(y) /\ Len(y) = Len(q) /\ y[1] = e /\ \A i \in 2 .. Len(q) : y[i] = q[i]
  BY <1>2, <1>7 DEF Replaced
<1>9. Released(y, q, p)
  BY <1>3, <1>5, <1>8 DEF Released
<1>10. Queue(y) /\ Slots(y, pc[s], sem[s])
  <2>1. Queue(y)
    BY <1>2, <1>6, <1>8, <1>9, ReleasedQueue
  <2>2. Slots(q, pc[s], sem[s])
    BY DEF IInv
  <2> QED BY <1>8, <2>1, <2>2, Zenon DEF Slots
<1>11. BufOK(rb[p], done[p], n) /\ BufShape(rb[p]) /\ Pair(q, s, p, rb[p], n)
  BY DEF IInv, BufOK
<1>12. /\ DOMAIN x = RecBufFields /\ x.batches = rb[p].batches /\ x.idx = rb[p].idx
       /\ x.inflight = rb[p].inflight - 1 /\ x.on = IF rb[p].inflight = 1 THEN None ELSE rb[p].on
  BY <1>11 DEF decInflight, BufShape, RecBufFields
<1> HIDE DEF x
<1>13. Pair(y, s, p, x, n) /\ rb[p].on = s /\ rb[p].inflight \in Nat \ {0}
  BY <1>1, <1>2, <1>9, <1>11, <1>12, ReleasedPair, RecBufAssumption, Zenon
<1>14. BufOK(x, done[p], n)
  <2>1. x.inflight \in Nat /\ x.on \in Sinks \cup {None} /\ (x.on = None <=> x.inflight = 0)
    BY <1>12, <1>13, RecBufAssumption
  <2> QED BY <1>11, <1>12, <2>1, Zenon DEF BufOK, BufShape
<1>15. /\ DOMAIN rb' = Partitions /\ rb'[p] = x /\ \A m \in Partitions \ {p} : rb'[m] = rb[m]
       /\ DOMAIN done' = Partitions /\ gen' \in [Sinks -> {0, 1}] /\ DOMAIN pc' = Sinks /\ DOMAIN sem' = Sinks
       /\ \A t \in Sinks : DOMAIN pc'[t] = {"at", "gen", "epoch"} /\ pc'[t].gen \in {0, 1}
       /\ \A t \in Sinks \ {s} : pc'[t] = pc[t] /\ sem'[t] = sem[t]
  BY <1>1 DEF IInv, FreeSlot
<1>16. \A m \in Partitions : BufOK(rb'[m], done'[m], next[m])
  BY <1>1, <1>14, <1>15, Zenon DEF IInv
<1>17. \A m \in Partitions : Pair(y, s, m, rb'[m], next[m])
  <2>1. \A m \in Partitions \ {p} : Pair(y, s, m, rb[m], next[m])
    BY <1>2, <1>9, ReleasedOtherPair, Zenon DEF IInv
  <2> QED BY <1>13, <1>15, <2>1, Zenon
<1>18. \A t \in Sinks \ {s}, m \in Partitions : Pair(reqs[t], t, m, rb'[m], next[m])
  <2>1. ASSUME NEW t \in Sinks \ {s} PROVE Pair(reqs[t], t, p, x, n)
    <3>1. Queue(reqs[t]) /\ Pair(reqs[t], t, p, rb[p], n)
      BY DEF IInv
    <3>2. Holds(reqs[t], p) = {} /\ Older(reqs[t], p, n)
      BY <1>13, <3>1 DEF Pair, Counted
    <3>3. x.on # t
      BY <1>12, <1>13, RecBufAssumption
    <3> QED BY <3>1, <3>2, <3>3, IdlePair, Zenon
  <2> QED BY <1>15, <2>1, Zenon DEF IInv
<1>19. CASE f.dec # {p}
  <2>1. reqs' = [reqs EXCEPT ![s] = y] /\ Slots(y, pc'[s], sem'[s])
    BY <1>1, <1>4, <1>10, <1>19, Zenon
  <2> QED BY <1>1, <1>10, <1>15, <1>16, <1>17, <1>18, <2>1, QueueStep, Zenon
<1>20. CASE f.dec = {p}
  <2> DEFINE t == Tail(q)
  <2>1. reqs' = [reqs EXCEPT ![s] = t]
    BY <1>4, <1>20
  <2>2. IsSeq(t) /\ Len(t) = Len(q) - 1 /\ Len(q) >= 1 /\ \A i \in 1 .. Len(q) - 1 : t[i] = q[i + 1]
    BY <1>2, SeqTail DEF Queue
  <2> HIDE DEF t
  <2>3. Left(t, y)
    <3>1. ASSUME NEW i \in 1 .. Len(t) PROVE t[i] = y[i + 1]
      <4>1. i \in 1 .. Len(q) - 1 /\ i + 1 \in 2 .. Len(q)
        BY <1>2, <2>2
      <4> QED BY <1>8, <2>2, <4>1
    <3> QED BY <1>8, <2>2, <3>1 DEF Left
  <2>4. y[1].dec = {}
    BY <1>3, <1>8, <1>20
  <2> DEFINE g == f.gen
             k == [sem[s] EXCEPT ![g] = @ - 1]
  <2>5. Queue(t) /\ Slots(t, pc[s], k)
    <3>1. g \in {0, 1} /\ Len(y) \in Nat /\ Len(t) = Len(y) - 1
      BY <1>2, <1>8, <2>2 DEF RequestOK
    <3> HIDE DEF g
    <3> QED BY <1>10, <2>3, <3>1, LeftQueue, LeftSlots, Zenon
  <2>6. Slots(t, pc'[s], sem'[s])
    <3>1. sem'[s] = k
      BY <1>1, <1>20 DEF FreeSlot, IInv
    <3> QED BY <1>1, <2>5, <3>1, Zenon
  <2>7. \A m \in Partitions : Pair(t, s, m, rb'[m], next[m])
    <3>1. \A m \in Partitions : rb'[m].inflight \in Nat
      BY <1>16 DEF BufOK, BufShape
    <3> QED BY <1>10, <1>17, <2>3, <2>4, <3>1, LeftPair, Zenon
  <2> QED BY <1>1, <1>15, <1>16, <1>18, <2>1, <2>5, <2>6, <2>7, QueueStep, Zenon
<1> QED BY <1>19, <1>20

(* updateMetadata and doMove: the batches stay where they are.             *)
LEMMA LearnLeaderIInv ==
    ASSUME IInv, NEW m, NEW l, LearnLeader(m, l), reqs' = reqs, gen' = gen, done' = done, next' = next, pc' = pc, sem' = sem
    PROVE  IInv'
<1>1. DOMAIN rb' = Partitions
  BY DEF LearnLeader, IInv
<1>2. ASSUME NEW p \in Partitions PROVE SameBuf(rb'[p], rb[p])
  <2>1. BufShape(rb[p])
    BY Zenon DEF IInv, BufOK
  <2>2. rb'[p] = rb[p] \/ rb'[p] = [rb[p] EXCEPT !.failing = FALSE, !.sink = l.id, !.ep = l.ep]
    BY Zenon DEF LearnLeader, IInv
  <2>3. /\ DOMAIN rb'[p] = RecBufFields /\ rb'[p].batches = rb[p].batches /\ rb'[p].idx = rb[p].idx
        /\ rb'[p].inflight = rb[p].inflight /\ rb'[p].on = rb[p].on
    BY <2>1, <2>2, Zenon DEF BufShape, RecBufFields
  <2> QED BY <2>1, <2>3, SameBatches
<1>3. /\ DOMAIN pc' = Sinks /\ DOMAIN sem' = Sinks
      /\ \A s \in Sinks : DOMAIN pc'[s] = {"at", "gen", "epoch"} /\ pc'[s].gen \in {0, 1}
      /\ \A s \in Sinks : Slots(reqs[s], pc'[s], sem'[s])
  BY Zenon DEF IInv
<1> QED BY <1>1, <1>2, <1>3, SameBufStep

(* bumpRepeatedLoadErr: they fail, or stay.                                *)
LEMMA bumpRepeatedLoadErrIInv ==
    ASSUME IInv, NEW p \in Partitions, bumpRepeatedLoadErr(p)
    PROVE  IInv'
<1> DEFINE r(err) == checkUnknownFailLimit(rb[p], err)
           n == next[p]
<1>1. PICK err :
         \/ rb' = [rb EXCEPT ![p] = r(err)] /\ done' = [done EXCEPT ![p] = @]
         \/ rb' = [rb EXCEPT ![p] = failAllRecords(r(err))]
            /\ done' = [done EXCEPT ![p] = @ \o FailedPromises(r(err))]
  <2>1. PICK err \in {"network", "retriable", "unknownTopicOrPartition", "fatal"}, fails \in BOOLEAN :
           /\ rb' = [rb EXCEPT ![p] = IF r(err).batches[1].canFail /\ fails THEN failAllRecords(r(err)) ELSE r(err)]
           /\ done' = [done EXCEPT ![p] = IF r(err).batches[1].canFail /\ fails
                                          THEN @ \o FailedPromises(r(err)) ELSE @]
    BY Zenon DEF bumpRepeatedLoadErr, maybeFailErr
  <2> HIDE DEF r
  <2>2. CASE r(err).batches[1].canFail /\ fails
    BY <2>1, <2>2, Zenon
  <2>3. CASE ~(r(err).batches[1].canFail /\ fails)
    BY <2>1, <2>3, Zenon
  <2> QED BY <2>2, <2>3
<1> DEFINE z == r(err)
<1>2. BufOK(rb[p], done[p], n) /\ BufShape(rb[p])
  BY DEF IInv, BufOK
<1>3. DOMAIN z = RecBufFields /\ z.batches = rb[p].batches /\ z.idx = rb[p].idx /\ z.inflight = rb[p].inflight
      /\ z.on = rb[p].on
  BY <1>2 DEF checkUnknownFailLimit, BufShape, RecBufFields
<1> HIDE DEF r
<1>4. SameBuf(z, rb[p])
  <2> HIDE DEF z
  <2> QED BY <1>2, <1>3, SameBatches
<1>5. BufOK(z, done[p], n)
  BY <1>2, <1>4, SameBufOK
<1>6. BufShape(z)
  BY <1>5 DEF BufOK
<1>7. \A t \in Sinks : Queue(reqs[t]) /\ Pair(reqs[t], t, p, z, n)
  BY <1>2, <1>4, SameBufPair, Zenon DEF IInv
<1>8. reqs' = reqs /\ gen' = gen /\ next' = next /\ pc' = pc /\ sem' = sem
  BY DEF bumpRepeatedLoadErr
<1>9. /\ DOMAIN rb' = Partitions /\ \A m \in Partitions \ {p} : rb'[m] = rb[m]
      /\ DOMAIN done' = Partitions /\ \A m \in Partitions \ {p} : done'[m] = done[m]
  BY <1>1 DEF IInv
<1>10. BufOK(rb'[p], done'[p], n) /\ \A t \in Sinks : Pair(reqs[t], t, p, rb'[p], n)
  <2>1. CASE rb' = [rb EXCEPT ![p] = z] /\ done' = [done EXCEPT ![p] = @]
    <3>1. rb'[p] = z /\ done'[p] = done[p]
      BY <2>1 DEF IInv
    <3> QED BY <1>5, <1>7, <3>1
  <2>2. CASE rb' = [rb EXCEPT ![p] = failAllRecords(z)] /\ done' = [done EXCEPT ![p] = @ \o FailedPromises(z)]
    <3>1. rb'[p] = failAllRecords(z) /\ done'[p] = done[p] \o FailedPromises(z)
      BY <2>2 DEF IInv
    <3>2. BufOK(rb'[p], done'[p], n)
      BY <1>5, <3>1, FailedOK
    <3>3. \A t \in Sinks : Pair(reqs[t], t, p, rb'[p], n)
      BY <1>6, <1>7, <3>1, FailedPair
    <3> QED BY <3>2, <3>3
  <2> QED BY <1>1, <2>1, <2>2
<1>11. \A m \in Partitions : BufOK(rb'[m], done'[m], next'[m])
  BY <1>8, <1>9, <1>10 DEF IInv
<1>12. \A t \in Sinks, m \in Partitions : Pair(reqs[t], t, m, rb'[m], next'[m])
  BY <1>8, <1>9, <1>10, Zenon DEF IInv
<1>13. /\ DOMAIN pc' = Sinks /\ DOMAIN sem' = Sinks /\ DOMAIN next' = Partitions
       /\ \A s \in Sinks : DOMAIN pc'[s] = {"at", "gen", "epoch"} /\ pc'[s].gen \in {0, 1}
       /\ \A s \in Sinks : Slots(reqs[s], pc'[s], sem'[s])
  BY <1>8, Zenon DEF IInv
<1> QED BY <1>8, <1>9, <1>11, <1>12, <1>13, BufStep, Zenon

-----------------------------------------------------------------------------
(* Nothing is buffered and nothing is in flight at first.                  *)
LEMMA InitIInv == Init => IInv
<1> SUFFICES ASSUME Init PROVE IInv
  OBVIOUS
<1>1. /\ DOMAIN rb = Partitions /\ DOMAIN reqs = Sinks /\ DOMAIN next = Partitions /\ DOMAIN done = Partitions
      /\ gen \in [Sinks -> {0, 1}] /\ DOMAIN pc = Sinks /\ DOMAIN sem = Sinks
      /\ \A s \in Sinks : reqs[s] = <<>> /\ sem[s] = [g \in {0, 1} |-> 0]
      /\ \A p \in Partitions : next[p] = 1 /\ done[p] = <<>>
  BY DEF Init
<1>2. \A s \in Sinks : DOMAIN pc[s] = {"at", "gen", "epoch"} /\ pc[s].gen = 0 /\ pc[s].at = "idle"
  BY DEF Init
<1>3. ASSUME NEW p \in Partitions
      PROVE  /\ DOMAIN rb[p] = RecBufFields /\ rb[p].batches = <<>> /\ rb[p].idx = 0
             /\ rb[p].inflight = 0 /\ rb[p].on = None
  <2>1. rb[p] = newRecBuf(p) \/ rb[p] = Produced(newRecBuf(p))
    BY DEF Init
  <2>2. /\ DOMAIN newRecBuf(p) = RecBufFields /\ newRecBuf(p).batches = <<>> /\ newRecBuf(p).idx = 0
        /\ newRecBuf(p).inflight = 0 /\ newRecBuf(p).on = None
    BY DEF newRecBuf, RecBufFields
  <2> QED BY <2>1, <2>2, Zenon DEF Produced, RecBufFields
<1>4. <<>> \in Seq(AnyBatch) /\ <<>> \in Seq(AnyPromise) /\ Len(<<>>) = 0
  BY EmptySeq
<1>5. ASSUME NEW p \in Partitions PROVE BufOK(rb[p], done[p], next[p])
  <2>1. BufShape(rb[p])
    <3>1. rb[p].batches \in Seq(AnyBatch) /\ rb[p].idx \in 0 .. Len(rb[p].batches)
      <4>1. rb[p].batches = <<>> /\ rb[p].idx = 0
        BY <1>3
      <4>2. rb[p].batches \in Seq(AnyBatch) /\ Len(rb[p].batches) = 0
        BY <4>1, EmptySeq
      <4> QED BY <4>1, <4>2
    <3>2. rb[p].inflight \in Nat /\ rb[p].on \in Sinks \cup {None} /\ (rb[p].on = None <=> rb[p].inflight = 0)
      BY <1>3
    <3> QED BY <1>3, <3>1, <3>2 DEF BufShape
  <2>2. Contiguous(<<>>, 1, 0) /\ Ordered(<<>>, 1) /\ From(<<>>, 1) = 1
    BY <1>4 DEF Contiguous, Ordered, From
  <2>3. Runs(<<>>, <<>>, 1)
    BY <1>4, <2>2 DEF Runs
  <2> QED BY <1>1, <1>3, <2>1, <2>3 DEF BufOK
<1>6. IsSeq(<<>>)
  BY EmptySeq DEF IsSeq
<1>7. Queue(<<>>)
  BY <1>4, <1>6 DEF Queue
<1>8. \A s \in Sinks : Slots(reqs[s], pc[s], sem[s])
  BY <1>1, <1>2, <1>4, SinkAssumption DEF Slots
<1>9. ASSUME NEW s \in Sinks, NEW p \in Partitions PROVE Pair(reqs[s], s, p, rb[p], next[p])
  <2>1. Holds(<<>>, p) = {} /\ Older(<<>>, p, next[p])
    BY <1>4 DEF Holds, Older
  <2>2. rb[p].on # s
    BY <1>3, RecBufAssumption
  <2> QED BY <1>1, <1>7, <2>1, <2>2, IdlePair
<1> QED BY <1>1, <1>2, <1>5, <1>7, <1>8, <1>9, Zenon DEF IInv

(* Every step keeps the invariant.                                         *)
LEMMA NextIInv == IInv /\ [Next]_vars => IInv'
<1> SUFFICES ASSUME IInv, [Next]_vars PROVE IInv'
  OBVIOUS
<1>1. ASSUME UNCHANGED <<rb, reqs, gen, sem, next, done, pc>> PROVE IInv'
  BY <1>1, Zenon DEF IInv
<1>2. CASE UNCHANGED vars
  BY <1>1, <1>2 DEF vars
<1>3. ASSUME NEW p \in Partitions, bufferRecord(p) PROVE IInv'
  BY <1>3, bufferRecordIInv
<1>4. ASSUME NEW p \in Partitions, updateMetadata(p) PROVE IInv'
  <2>1. /\ LearnLeader(p, leader[p]) /\ reqs' = reqs /\ gen' = gen /\ done' = done /\ next' = next /\ pc' = pc /\ sem' = sem
    BY <1>4 DEF updateMetadata
  <2> QED BY <2>1, LearnLeaderIInv
<1>5. ASSUME NEW p \in Partitions, bumpRepeatedLoadErr(p) PROVE IInv'
  BY <1>5, bumpRepeatedLoadErrIInv
<1>6. ASSUME NEW s \in Sinks, drain(s) PROVE IInv'
  <2>1. CASE drainBegin(s) \/ ProduceNothing(s)
    BY <2>1, drainIInv
  <2>2. CASE producerID(s)
    BY <2>2, producerIDIInv
  <2>3. CASE producerIDFatal(s)
    <3>1. /\ FailPartitions(Partitions) /\ pc' = [pc EXCEPT ![s].at = "idle"] /\ reqs' = reqs /\ gen' = gen /\ next' = next
          /\ Idles(s)
      BY <2>3 DEF producerIDFatal, ProduceEnds, HasSlot, Idles
    <3> QED BY <3>1, FailPartitionsIInv, Zenon
  <2>4. CASE createReq(s)
    BY <2>4, createReqIInv
  <2> QED BY <1>6, <2>1, <2>2, <2>3, <2>4 DEF drain
<1>7. ASSUME NEW s \in Sinks, AppendTo(s) PROVE IInv'
  BY <1>7, AppendToIInv
<1>8. ASSUME NEW s \in Sinks, BrokerHandle(s) PROVE IInv'
  BY <1>8, BrokerHandleIInv
<1>9. ASSUME NEW s \in Sinks, handleReqResp(s) PROVE IInv'
  <2>1. CASE handleSeqResps(s)
    BY <2>1, handleSeqRespsIInv
  <2>2. ASSUME NEW p \in Partitions, handleReqRespBatch(s, p) \/ handleRetryBatches(s, p) \/ reqFinished(s, p)
        PROVE  IInv'
    BY <2>2, handleReqRespBatchIInv, handleRetryBatchesIInv, reqFinishedIInv
  <2> QED BY <1>9, <2>1, <2>2 DEF handleReqResp
<1>10. ASSUME NEW m \in moves, doMove(m) PROVE IInv'
  <2>1. \E l : LearnLeader(m.p, l)
    BY <1>10 DEF doMove
  <2>2. reqs' = reqs /\ gen' = gen /\ done' = done /\ next' = next /\ pc' = pc /\ sem' = sem
    BY <1>10 DEF doMove
  <2> QED BY <2>1, <2>2, LearnLeaderIInv
<1>11. ASSUME NEW s \in Sinks, producerIDLoadFail(s) PROVE IInv'
  <2>1. /\ \E F \in SUBSET CanFail : FailPartitions(F)
        /\ pc' = [pc EXCEPT ![s].at = "idle"] /\ reqs' = reqs /\ gen' = gen /\ next' = next
        /\ Idles(s)
    BY <1>11 DEF producerIDLoadFail, ProduceEnds, HasSlot, Idles
  <2> QED BY <2>1, FailPartitionsIInv, Zenon
<1>12. ASSUME NEW s \in Sinks, DialFails(s) PROVE IInv'
  BY <1>12, DialFailsIInv
<1>13. ASSUME NEW s \in Sinks, ConnDies(s) PROVE IInv'
  BY <1>13, ConnDiesIInv
<1>14. ASSUME NEW s \in Sinks, GhostHandled(s) PROVE IInv'
  BY <1>1, <1>14 DEF GhostHandled, client
<1>15. ASSUME NEW p \in Partitions, LeaderMoves(p) \/ LogLosesTail(p) \/ LogTruncated(p) PROVE IInv'
  BY <1>1, <1>15 DEF LeaderMoves, LogLosesTail, LogTruncated, client
<1> QED BY <1>2, <1>3, <1>4, <1>5, <1>6, <1>7, <1>8, <1>9, <1>10, <1>11, <1>12, <1>13, <1>14, <1>15 DEF Next

(* The inductive invariant, for any partitions, sinks, sizes of batches    *)
(* and semaphores, and scenarios of faults (sink.go).                      *)
THEOREM IInvAlways == Spec => []IInv
  BY InitIInv, NextIInv, PTL DEF Spec

-----------------------------------------------------------------------------
(* The semaphores bound the queue: at most one request uses the first, and *)
(* at most MaxInflight use the second.                                     *)
LEMMA QueueBound ==
    ASSUME NEW q, NEW c, NEW m, Queue(q), Slots(q, c, m)
    PROVE  Len(q) \in Nat /\ Len(q) <= MaxInflight + 1
<1>1. Len(q) \in Nat
  BY SeqBasics DEF Queue
<1> QED BY <1>1, SinkAssumption DEF Slots

(* Requests counted over all sinks are those of the one sink.              *)
LEMMA HoldingCount ==
    ASSUME IInv, NEW p \in Partitions
    PROVE  Numbered(rb[p].inflight, Holding(p)) /\ \A h \in Holding(p) : rb[p].on = h[1]
<1> DEFINE r == rb[p]
           H == Holding(p)
<1>1. BufShape(r) /\ \A s \in Sinks : Counted(reqs[s], s, p, r)
  BY DEF IInv, BufOK, Pair
<1>2. \A s \in Sinks : Len(reqs[s]) \in Nat /\ Len(reqs[s]) <= MaxInflight + 1
  BY QueueBound DEF IInv
<1>3. ASSUME NEW h \in H PROVE h[1] \in Sinks /\ h[2] \in Holds(reqs[h[1]], p) /\ h = <<h[1], h[2]>>
  <2>1. h \in Sinks \X (1 .. MaxInflight + 1) /\ h[2] <= Len(reqs[h[1]]) /\ p \in reqs[h[1]][h[2]].dec
    BY DEF Holding
  <2>2. h[1] \in Sinks /\ h[2] \in 1 .. MaxInflight + 1 /\ h = <<h[1], h[2]>>
    BY <2>1
  <2>3. h[2] \in 1 .. Len(reqs[h[1]])
    BY <1>2, <2>1, <2>2, SinkAssumption
  <2> QED BY <2>1, <2>2, <2>3 DEF Holds
<1>4. ASSUME NEW s \in Sinks, NEW i \in Holds(reqs[s], p) PROVE <<s, i>> \in H
  <2>1. i \in 1 .. Len(reqs[s]) /\ p \in reqs[s][i].dec
    BY DEF Holds
  <2>2. i \in 1 .. MaxInflight + 1 /\ i <= Len(reqs[s])
    BY <1>2, <2>1, SinkAssumption
  <2> QED BY <2>1, <2>2 DEF Holding
<1> HIDE DEF H
<1>5. \A h \in H : r.on = h[1]
  BY <1>1, <1>3 DEF Counted
<1>6. CASE r.on = None
  <2>1. H = {}
    BY <1>3, <1>5, <1>6, RecBufAssumption
  <2> QED BY <1>1, <1>6, <2>1, NumberedNone DEF BufShape, H
<1>7. CASE r.on # None
  <2> DEFINE s == r.on
             T == Holds(reqs[s], p)
             b == [i \in T |-> <<s, i>>]
  <2>1. s \in Sinks /\ Numbered(r.inflight, T) /\ r.inflight \in Nat
    BY <1>1, <1>7 DEF BufShape, Counted
  <2>3. b \in [T -> H]
    BY <1>4, <2>1
  <2>4. \A i, j \in T : b[i] = b[j] => i = j
    OBVIOUS
  <2>5. ASSUME NEW h \in H PROVE \E i \in T : b[i] = h
    <3>1. h = <<s, h[2]>> /\ h[2] \in T
      BY <1>3, <1>5
    <3> QED BY <3>1
  <2>6. Numbered(r.inflight, H)
    <3> HIDE DEF b, T
    <3> QED BY <2>1, <2>3, <2>4, <2>5, NumberedSame
  <2> QED BY <1>5, <2>6 DEF H
<1> QED BY <1>5, <1>6, <1>7 DEF H

(* inflight counts the requests a partition is in, all on one sink, and    *)
(* swapping inflightSem lets at most one more request than its capacity    *)
(* through (tryAddBatch, decInflight, firstRespCheck).                     *)
THEOREM InflightOnOneSinkAlways == Spec => []InflightOnOneSink
<1>1. IInv => InflightOnOneSink
  <2> SUFFICES ASSUME IInv PROVE InflightOnOneSink
    OBVIOUS
  <2>1. \A p \in Partitions : rb[p].on = None <=> rb[p].inflight = 0
    BY DEF IInv, BufOK, BufShape
  <2>2. \A s \in Sinks : Len(reqs[s]) <= MaxInflight + 1
    BY QueueBound DEF IInv
  <2> QED BY <2>1, <2>2, HoldingCount DEF InflightOnOneSink
<1> QED BY <1>1, IInvAlways, PTL

(* Every record is promised exactly once, in the order records were        *)
(* buffered, or is still buffered: whatever fails, is retried, is          *)
(* overtaken or moves (finishBatch, failAllRecords, isOwnersFirstBatch).   *)
THEOREM EachRecordOnceAlways == Spec => []EachRecordOnce
<1>1. IInv => EachRecordOnce
  <2> SUFFICES ASSUME IInv, NEW p \in Partitions
               PROVE  Contiguous(done[p] \o rb[p].batches, 1, next[p] - 1)
    BY DEF EachRecordOnce
  <2> DEFINE d == done[p]
             b == rb[p].batches
             n == next[p]
             k == From(b, n)
             S == AnyPromise \cup AnyBatch
  <2>1. /\ d \in Seq(AnyPromise) /\ b \in Seq(AnyBatch) /\ n \in Nat \ {0}
        /\ Contiguous(d, 1, k - 1) /\ Contiguous(b, k, n - 1)
    BY DEF IInv, BufOK, BufShape, Runs
  <2>2. d \in Seq(S) /\ b \in Seq(S)
    BY <2>1, SeqMonotonic
  <2>3. k \in Int
    <3>1. CASE b = <<>>
      BY <2>1, <3>1 DEF From
    <3>2. CASE b # <<>>
      <4>1. b[1] \in AnyBatch
        <5>1. 1 \in 1 .. Len(b)
          BY <2>1, <3>2, EmptySeq
        <5> QED BY <2>1, <5>1, ElementOfSeq
      <4> QED BY <3>2, <4>1 DEF From, AnyBatch
    <3> QED BY <3>1, <3>2
  <2>4. n - 1 \in Int /\ 1 \in Int
    BY <2>1
  <2> HIDE DEF d, b, k, S, n
  <2>5. Contiguous(d \o b, 1, n - 1)
    BY <2>1, <2>2, <2>3, <2>4, ContiguousConcat
  <2> QED BY <2>5 DEF d, b, n
<1> QED BY <1>1, IInvAlways, PTL
=============================================================================
