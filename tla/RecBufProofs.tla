---------------------------- MODULE RecBufProofs ----------------------------
(***************************************************************************)
(* What the operations on a recBuf, and on the requests that hold it,      *)
(* preserve: lemmas for SinkProofs, about any recBuf and any queue of      *)
(* requests.                                                               *)
(***************************************************************************)
EXTENDS RecBuf, TLAPS

RecBufFields ==
    {"sink", "ep", "batches", "idx", "seq", "seq0", "reset", "inflight", "on", "ok", "failing",
     "unknown", "acked"}
RequestFields ==
    {"epoch", "gen", "st", "bs", "resp", "todo", "miss", "retry", "dec", "moving", "updateMeta",
     "needsMeta", "backoff"}

AnyBatch == [first : Nat, n : Nat \ {0}, frozen : BOOLEAN, canFail : BOOLEAN]
AnyPromise == [first : Nat, n : Nat \ {0}, ok : BOOLEAN]
IsSeq(q) == q \in Seq({q[i] : i \in DOMAIN q})

(* A recBuf r, its promises d, and the number n of its next record: the    *)
(* promises end where the batches begin.                                   *)
From(batches, n) == IF batches = <<>> THEN n ELSE batches[1].first
Ordered(q, n) ==
    /\ \A i, j \in 1 .. Len(q) : i < j => q[i].first + q[i].n <= q[j].first
    /\ \A i \in 1 .. Len(q) : q[i].first + q[i].n <= n

BufShape(r) ==
    /\ DOMAIN r = RecBufFields
    /\ r.batches \in Seq(AnyBatch) /\ r.idx \in 0 .. Len(r.batches)
    /\ r.inflight \in Nat /\ r.on \in Sinks \cup {None} /\ (r.on = None <=> r.inflight = 0)
Runs(batches, d, n) ==
    /\ n \in Nat \ {0} /\ d \in Seq(AnyPromise)
    /\ Contiguous(d, 1, From(batches, n) - 1)
    /\ Contiguous(batches, From(batches, n), n - 1) /\ Ordered(batches, n)
BufOK(r, d, n) == BufShape(r) /\ Runs(r.batches, d, n)

(* The partitions of a request whose responses, or the lack of them, are   *)
(* still to be handled.                                                    *)
Unhandled(q) == IF q.st = "handling" THEN q.todo \cup q.miss \cup q.retry ELSE DOMAIN q.bs
RequestOK(q) ==
    /\ DOMAIN q = RequestFields /\ q.gen \in {0, 1}
    /\ Unhandled(q) \subseteq q.dec /\ q.dec \subseteq DOMAIN q.bs /\ DOMAIN q.bs \subseteq Partitions
    /\ q.todo \cap q.miss = {} /\ q.todo \cap q.retry = {} /\ q.miss \cap q.retry = {}
    /\ q.st # "handling" => q.todo \cup q.miss \cup q.retry = {}
    /\ q.st = "replied" => DOMAIN q.resp \subseteq DOMAIN q.bs
    /\ \A p \in DOMAIN q.bs : "first" \in DOMAIN q.bs[p] /\ q.bs[p].first \in Nat

(* The requests of a sink.                                                 *)
Queue(q) == IsSeq(q) /\ \A i \in 1 .. Len(q) : RequestOK(q[i])

(* The requests of sink s that hold partition p.                           *)
Holds(q, p) == {i \in 1 .. Len(q) : p \in q[i].dec}
Counted(q, s, p, r) ==
    /\ r.on # s => Holds(q, p) = {}
    /\ r.on = s => Numbered(r.inflight, Holds(q, p))

(* The requests of p after some point (cut) carry batches that have been   *)
(* drained and not been rewound, in order.  The ones before it were        *)
(* overtaken by a rewind, or by a failing of all that was buffered: their  *)
(* responses are not about the first batch and are skipped.                *)
Overtaken(q, p, r, i) == r.batches # <<>> => q[i].bs[p].first # r.batches[1].first
InOrder(q, p, r, i) ==
    /\ \E k \in 1 .. r.idx : q[i].bs[p].first = r.batches[k].first
    /\ \A j \in i + 1 .. Len(q) : p \in Unhandled(q[j]) => q[i].bs[p].first < q[j].bs[p].first
ChainedFrom(q, p, r, cut) ==
    \A i \in 1 .. Len(q) : p \in Unhandled(q[i]) =>
        (IF i <= cut THEN Overtaken(q, p, r, i) ELSE InOrder(q, p, r, i))
Chained(q, p, r) == \E cut \in 0 .. Len(q) : ChainedFrom(q, p, r, cut)
Older(q, p, n) == \A i \in 1 .. Len(q) : p \in DOMAIN q[i].bs => q[i].bs[p].first < n

Pair(q, s, p, r, n) == Counted(q, s, p, r) /\ Chained(q, p, r) /\ Older(q, p, n)

-----------------------------------------------------------------------------
(* A function on 1 .. n is a sequence.                                     *)
LEMMA FunctionSeq ==
    ASSUME NEW S, NEW n \in Nat, NEW q \in [1 .. n -> S]
    PROVE  q \in Seq(S) /\ Len(q) = n
  OBVIOUS

(* Sequences over a larger set.                                            *)
LEMMA SeqMonotonic ==
    ASSUME NEW S, NEW T, S \subseteq T, NEW q \in Seq(S)
    PROVE  q \in Seq(T)
  OBVIOUS

(* A sequence is a function.                                               *)
LEMMA LenProperties ==
    ASSUME NEW S, NEW q \in Seq(S)
    PROVE  Len(q) \in Nat /\ DOMAIN q = 1 .. Len(q) /\ q \in [1 .. Len(q) -> S]
  OBVIOUS

(* Its elements.                                                           *)
LEMMA ElementOfSeq ==
    ASSUME NEW S, NEW q \in Seq(S), NEW i \in 1 .. Len(q)
    PROVE  q[i] \in S
  OBVIOUS

(* The empty sequence, and any other.                                      *)
LEMMA EmptySeq ==
    ASSUME NEW S
    PROVE  <<>> \in Seq(S) /\ Len(<<>>) = 0 /\ \A q \in Seq(S) : q # <<>> => Len(q) \in Nat \ {0}
  OBVIOUS

(* One element is replaced.                                                *)
LEMMA ExceptSeq ==
    ASSUME NEW S, NEW q \in Seq(S), NEW i \in 1 .. Len(q), NEW e \in S
    PROVE  LET x == [q EXCEPT ![i] = e]
           IN x \in Seq(S) /\ Len(x) = Len(q) /\ \A j \in 1 .. Len(q) : x[j] = IF j = i THEN e ELSE q[j]
  OBVIOUS

(* One sequence after the other.                                           *)
LEMMA ConcatProperties ==
    ASSUME NEW S, NEW q \in Seq(S), NEW r \in Seq(S)
    PROVE  /\ q \o r \in Seq(S) /\ Len(q \o r) = Len(q) + Len(r)
           /\ \A i \in 1 .. Len(q) + Len(r) :
                 (q \o r)[i] = IF i <= Len(q) THEN q[i] ELSE r[i - Len(q)]
  OBVIOUS

(* The first element, and the rest.                                        *)
LEMMA HeadTailProperties ==
    ASSUME NEW S, NEW q \in Seq(S), q # <<>>
    PROVE  /\ Head(q) \in S /\ Tail(q) \in Seq(S) /\ Len(Tail(q)) = Len(q) - 1
           /\ \A i \in 1 .. Len(Tail(q)) : Tail(q)[i] = q[i + 1]
  OBVIOUS

(* One more element.                                                       *)
LEMMA AppendProperties ==
    ASSUME NEW S, NEW q \in Seq(S), NEW e \in S
    PROVE  /\ Append(q, e) \in Seq(S) /\ Append(q, e) # <<>> /\ Len(Append(q, e)) = Len(q) + 1
           /\ \A i \in 1 .. Len(q) : Append(q, e)[i] = q[i]
           /\ Append(q, e)[Len(q) + 1] = e
  OBVIOUS

(* Which is a sequence of one after it.                                    *)
LEMMA AppendIsConcat ==
    ASSUME NEW S, NEW q \in Seq(S), NEW e \in S
    PROVE  Append(q, e) = q \o <<e>>
  OBVIOUS

-----------------------------------------------------------------------------
(* Sequences of whatever.                                                  *)
LEMMA SeqBasics ==
    ASSUME NEW q, IsSeq(q)
    PROVE  Len(q) \in Nat /\ DOMAIN q = 1 .. Len(q) /\ q = [i \in 1 .. Len(q) |-> q[i]]
  BY LenProperties DEF IsSeq

(* What is a function on 1 .. n is one.                                    *)
LEMMA SeqMade ==
    ASSUME NEW q, NEW n \in Nat, DOMAIN q = 1 .. n, q = [i \in 1 .. n |-> q[i]]
    PROVE  IsSeq(q) /\ Len(q) = n
<1> DEFINE S == {q[i] : i \in DOMAIN q}
<1>1. q \in [1 .. n -> S]
  OBVIOUS
<1>2. q \in Seq(S)
  BY <1>1, FunctionSeq
<1>3. DOMAIN q = 1 .. Len(q) /\ Len(q) \in Nat
  BY <1>2, LenProperties
<1> QED BY <1>2, <1>3 DEF IsSeq

(* One more at the end.                                                    *)
LEMMA SeqAppend ==
    ASSUME NEW q, IsSeq(q), NEW e
    PROVE  /\ IsSeq(Append(q, e)) /\ Len(Append(q, e)) = Len(q) + 1
           /\ \A i \in 1 .. Len(q) : Append(q, e)[i] = q[i]
           /\ Append(q, e)[Len(q) + 1] = e
<1> DEFINE S == {q[i] : i \in DOMAIN q}
           T == S \cup {e}
           x == Append(q, e)
<1>1. q \in Seq(T)
  BY SeqMonotonic DEF IsSeq
<1>2. /\ x \in Seq(T) /\ Len(x) = Len(q) + 1
      /\ \A i \in 1 .. Len(q) : x[i] = q[i]
      /\ x[Len(q) + 1] = e
  <2> e \in T
    OBVIOUS
  <2> HIDE DEF T
  <2> QED BY <1>1, AppendProperties
<1>3. Len(x) \in Nat /\ DOMAIN x = 1 .. Len(x) /\ x = [i \in 1 .. Len(x) |-> x[i]]
  BY <1>2, LenProperties, Zenon
<1>4. IsSeq(x)
  <2> HIDE DEF x
  <2> QED BY <1>3, SeqMade
<1> QED BY <1>2, <1>4

(* All but the first.                                                      *)
LEMMA SeqTail ==
    ASSUME NEW q, IsSeq(q), q # <<>>
    PROVE  /\ IsSeq(Tail(q)) /\ Len(Tail(q)) = Len(q) - 1 /\ Len(q) >= 1
           /\ \A i \in 1 .. Len(q) - 1 : Tail(q)[i] = q[i + 1]
<1> DEFINE S == {q[i] : i \in DOMAIN q}
           x == Tail(q)
<1>1. x \in Seq(S) /\ Len(x) = Len(q) - 1 /\ \A i \in 1 .. Len(x) : x[i] = q[i + 1]
  BY HeadTailProperties DEF IsSeq
<1>2. Len(x) \in Nat /\ DOMAIN x = 1 .. Len(x) /\ x = [i \in 1 .. Len(x) |-> x[i]]
  BY <1>1, LenProperties, Zenon
<1>3. IsSeq(x)
  BY <1>2, SeqMade, Zenon
<1>4. Len(q) \in Nat
  BY SeqBasics
<1> QED BY <1>1, <1>2, <1>3, <1>4

Replaced(x, q, i, e) ==
    IsSeq(x) /\ Len(x) = Len(q) /\ \A j \in 1 .. Len(q) : x[j] = IF j = i THEN e ELSE q[j]

(* One is replaced.                                                        *)
LEMMA SeqExcept ==
    ASSUME NEW q, IsSeq(q), NEW i, i \in 1 .. Len(q), NEW e, NEW x, x = [q EXCEPT ![i] = e]
    PROVE  Replaced(x, q, i, e)
<1>1. Len(q) \in Nat /\ DOMAIN q = 1 .. Len(q)
  BY SeqBasics
<1>2. DOMAIN x = 1 .. Len(q) /\ x = [j \in 1 .. Len(q) |-> x[j]]
  BY <1>1, Zenon
<1>3. \A j \in 1 .. Len(q) : x[j] = IF j = i THEN e ELSE q[j]
  BY <1>1
<1>4. IsSeq(x) /\ Len(x) = Len(q)
  BY <1>1, <1>2, SeqMade, Zenon
<1> QED BY <1>3, <1>4 DEF Replaced

-----------------------------------------------------------------------------
(* How many: none,                                                         *)
LEMMA NumberedNone ==
    ASSUME NEW S
    PROVE  Numbered(0, S) <=> S = {}
<1>1. ASSUME S = {} PROVE Numbered(0, S)
  <2>1. [i \in 1 .. 0 |-> i] \in [1 .. 0 -> S]
    OBVIOUS
  <2> QED BY <1>1, <2>1, Zenon DEF Numbered
<1>2. ASSUME Numbered(0, S) PROVE S = {}
  BY <1>2 DEF Numbered
<1> QED BY <1>1, <1>2

(* one more,                                                               *)
LEMMA NumberedMore ==
    ASSUME NEW n \in Nat, NEW S, Numbered(n, S), NEW e, e \notin S
    PROVE  Numbered(n + 1, S \cup {e})
<1>1. PICK f \in [1 .. n -> S] :
         /\ \A i, j \in 1 .. n : f[i] = f[j] => i = j
         /\ \A x \in S : \E i \in 1 .. n : f[i] = x
  BY DEF Numbered
<1> DEFINE g == [i \in 1 .. n + 1 |-> IF i = n + 1 THEN e ELSE f[i]]
<1>2. /\ g \in [1 .. n + 1 -> S \cup {e}] /\ g[n + 1] = e
      /\ \A i \in 1 .. n : g[i] = f[i] /\ g[i] \in S /\ i \in 1 .. n + 1
  BY <1>1
<1> HIDE DEF g
<1>3. \A i \in 1 .. n + 1 : i = n + 1 \/ i \in 1 .. n
  OBVIOUS
<1>4. \A i, j \in 1 .. n + 1 : g[i] = g[j] => i = j
  BY <1>1, <1>2, <1>3
<1>5. \A x \in S \cup {e} : \E i \in 1 .. n + 1 : g[i] = x
  BY <1>1, <1>2
<1> QED BY <1>2, <1>4, <1>5, Zenon DEF Numbered

(* one less,                                                               *)
LEMMA NumberedLess ==
    ASSUME NEW n \in Nat \ {0}, NEW S, Numbered(n, S), NEW e \in S
    PROVE  Numbered(n - 1, S \ {e})
<1>1. PICK f \in [1 .. n -> S] :
         /\ \A i, j \in 1 .. n : f[i] = f[j] => i = j
         /\ \A x \in S : \E i \in 1 .. n : f[i] = x
  BY DEF Numbered
<1>2. PICK k \in 1 .. n : f[k] = e
  BY <1>1
<1> DEFINE at(i) == IF i < k THEN i ELSE i + 1
           g == [i \in 1 .. n - 1 |-> f[at(i)]]
<1>3. /\ \A i \in 1 .. n - 1 : at(i) \in 1 .. n /\ at(i) # k
      /\ \A i, j \in 1 .. n - 1 : at(i) = at(j) => i = j
      /\ \A j \in 1 .. n : j # k => \E i \in 1 .. n - 1 : at(i) = j
  <2>1. \A i \in 1 .. n - 1 : at(i) \in 1 .. n /\ at(i) # k
    OBVIOUS
  <2>2. \A i, j \in 1 .. n - 1 : at(i) = at(j) => i = j
    OBVIOUS
  <2>3. ASSUME NEW j \in 1 .. n, j # k PROVE \E i \in 1 .. n - 1 : at(i) = j
    <3>1. CASE j < k
      <4>1. j \in 1 .. n - 1 /\ at(j) = j
        BY <3>1
      <4> QED BY <4>1
    <3>2. CASE j > k
      <4>1. j - 1 \in 1 .. n - 1 /\ at(j - 1) = j
        BY <3>2
      <4> QED BY <4>1
    <3> QED BY <2>3, <3>1, <3>2
  <2> QED BY <2>1, <2>2, <2>3
<1>4. \A i \in 1 .. n - 1 : g[i] = f[at(i)]
  OBVIOUS
<1>5. g \in [1 .. n - 1 -> S \ {e}]
  <2>1. \A i \in 1 .. n - 1 : f[at(i)] \in S \ {e}
    <3> HIDE DEF at
    <3> QED BY <1>1, <1>2, <1>3
  <2> QED BY <2>1
<1> HIDE DEF g, at
<1>6. \A i, j \in 1 .. n - 1 : g[i] = g[j] => i = j
  BY <1>1, <1>3, <1>4
<1>7. ASSUME NEW x \in S \ {e} PROVE \E i \in 1 .. n - 1 : g[i] = x
  <2>1. PICK j \in 1 .. n : f[j] = x
    BY <1>1
  <2>2. j # k
    BY <1>2, <2>1
  <2> QED BY <1>3, <1>4, <2>1, <2>2
<1> QED BY <1>5, <1>6, <1>7, Zenon DEF Numbered

(* and as many.                                                            *)
LEMMA NumberedSame ==
    ASSUME NEW n \in Nat, NEW S, Numbered(n, S), NEW T, NEW b \in [S -> T],
           \A x, y \in S : b[x] = b[y] => x = y, \A t \in T : \E x \in S : b[x] = t
    PROVE  Numbered(n, T)
<1>1. PICK f \in [1 .. n -> S] :
         /\ \A i, j \in 1 .. n : f[i] = f[j] => i = j
         /\ \A x \in S : \E i \in 1 .. n : f[i] = x
  BY DEF Numbered
<1> DEFINE g == [i \in 1 .. n |-> b[f[i]]]
<1>2. g \in [1 .. n -> T] /\ \A i \in 1 .. n : g[i] = b[f[i]] /\ f[i] \in S
  BY <1>1
<1> HIDE DEF g
<1>3. \A i, j \in 1 .. n : g[i] = g[j] => i = j
  BY <1>1, <1>2
<1>4. \A t \in T : \E i \in 1 .. n : g[i] = t
  BY <1>1, <1>2
<1> QED BY <1>2, <1>3, <1>4, Zenon DEF Numbered

(* Places move up when the first request leaves.                           *)
LEMMA ShiftNumbered ==
    ASSUME NEW n \in Nat, NEW T, T \subseteq 2 .. n, NEW U,
           U = {i \in 1 .. n - 1 : i + 1 \in T}, NEW k \in Nat, Numbered(k, T)
    PROVE  Numbered(k, U)
<1>1. PICK f \in [1 .. k -> T] :
         /\ \A i, j \in 1 .. k : f[i] = f[j] => i = j
         /\ \A x \in T : \E i \in 1 .. k : f[i] = x
  BY DEF Numbered
<1> DEFINE g == [i \in 1 .. k |-> f[i] - 1]
<1>2. \A i \in 1 .. k : f[i] \in T /\ f[i] \in 2 .. n
  BY <1>1
<1>3. g \in [1 .. k -> U] /\ \A i \in 1 .. k : g[i] = f[i] - 1
  BY <1>2
<1> HIDE DEF g
<1>4. \A i, j \in 1 .. k : g[i] = g[j] => i = j
  BY <1>1, <1>2, <1>3
<1>5. ASSUME NEW u \in U PROVE \E i \in 1 .. k : g[i] = u
  <2>1. u + 1 \in T /\ u \in Int
    OBVIOUS
  <2>2. PICK i \in 1 .. k : f[i] = u + 1
    BY <1>1, <2>1
  <2>3. g[i] = u
    BY <1>3, <2>1, <2>2
  <2> QED BY <2>3
<1> QED BY <1>3, <1>4, <1>5, Zenon DEF Numbered

-----------------------------------------------------------------------------
(* A queue whose requests are as before, but further along.                *)
Similar(x, q) ==
    /\ IsSeq(x) /\ Len(x) = Len(q)
    /\ \A i \in 1 .. Len(q) :
          /\ x[i].dec = q[i].dec /\ x[i].gen = q[i].gen /\ DOMAIN x[i].bs = DOMAIN q[i].bs
          /\ \A p \in DOMAIN q[i].bs : x[i].bs[p].first = q[i].bs[p].first
          /\ Unhandled(x[i]) \subseteq Unhandled(q[i])

(* It holds the same partitions, in the same order.                        *)
LEMMA SimilarPair ==
    ASSUME NEW q, NEW x, NEW s, NEW p, NEW r, NEW n, Queue(q), Similar(x, q), Pair(q, s, p, r, n)
    PROVE  Pair(x, s, p, r, n)
<1>1. Holds(x, p) = Holds(q, p)
  BY DEF Similar, Holds
<1>2. Counted(x, s, p, r)
  BY <1>1 DEF Pair, Counted
<1>3. Older(x, p, n)
  BY DEF Pair, Older, Similar
<1>4. \A i \in 1 .. Len(q) : p \in Unhandled(x[i]) =>
         p \in Unhandled(q[i]) /\ x[i].bs[p].first = q[i].bs[p].first
  BY Zenon DEF Similar, Queue, RequestOK
<1>5. Len(x) = Len(q) /\ Len(q) \in Nat
  BY SeqBasics DEF Similar, Queue
<1>6. Chained(x, p, r)
  <2>1. PICK cut \in 0 .. Len(q) : ChainedFrom(q, p, r, cut)
    BY DEF Pair, Chained
  <2>2. ASSUME NEW i \in 1 .. Len(q), p \in Unhandled(x[i])
        PROVE  IF i <= cut THEN Overtaken(x, p, r, i) ELSE InOrder(x, p, r, i)
    <3>1. IF i <= cut THEN Overtaken(q, p, r, i) ELSE InOrder(q, p, r, i)
      BY <1>4, <2>1, <2>2 DEF ChainedFrom
    <3>2. Overtaken(q, p, r, i) => Overtaken(x, p, r, i)
      BY <1>4, <2>2 DEF Overtaken
    <3>3. InOrder(q, p, r, i) => InOrder(x, p, r, i)
      BY <1>4, <1>5, <2>2 DEF InOrder
    <3> QED BY <3>1, <3>2, <3>3
  <2> QED BY <1>5, <2>1, <2>2 DEF Chained, ChainedFrom
<1> QED BY <1>2, <1>3, <1>6 DEF Pair

(* A recBuf that holds and has drained what it did before.                 *)
SameBuf(x, r) ==
    /\ DOMAIN x = RecBufFields /\ x.batches \in Seq(AnyBatch)
    /\ Len(x.batches) = Len(r.batches) /\ x.idx = r.idx /\ x.inflight = r.inflight /\ x.on = r.on
    /\ \A k \in 1 .. Len(r.batches) :
          x.batches[k].first = r.batches[k].first /\ x.batches[k].n = r.batches[k].n

(* An empty sequence is known by its length.                               *)
LEMMA EmptyBatches ==
    ASSUME NEW S, NEW q \in Seq(S)
    PROVE  Len(q) \in Nat /\ (q = <<>> <=> Len(q) = 0)
  BY EmptySeq, LenProperties

(* What is known of the batches does not depend on their flags.            *)
LEMMA SameRuns ==
    ASSUME NEW x \in Seq(AnyBatch), NEW b \in Seq(AnyBatch), NEW d, NEW n, Runs(b, d, n),
           Len(x) = Len(b),
           \A k \in 1 .. Len(b) : x[k].first = b[k].first /\ x[k].n = b[k].n
    PROVE  Runs(x, d, n)
<1>1. Len(b) \in Nat /\ (x = <<>> <=> Len(x) = 0) /\ (b = <<>> <=> Len(b) = 0)
  BY EmptyBatches
<1>2. From(x, n) = From(b, n)
  BY <1>1 DEF From
<1>3. Contiguous(x, From(b, n), n - 1)
  <2>1. CASE Len(x) = 0
    BY <1>1, <2>1 DEF Runs, Contiguous
  <2>2. CASE Len(x) > 0
    <3>1. 1 \in 1 .. Len(b) /\ Len(b) \in 1 .. Len(b)
      BY <1>1, <2>2
    <3>2. \A i \in 1 .. Len(b) - 1 : i \in 1 .. Len(b) /\ i + 1 \in 1 .. Len(b)
      BY <1>1
    <3> QED BY <1>1, <2>2, <3>1, <3>2 DEF Runs, Contiguous
  <2> QED BY <1>1, <2>1, <2>2
<1>4. Ordered(x, n)
  BY <1>1 DEF Runs, Ordered
<1> QED BY <1>2, <1>3, <1>4 DEF Runs

(* It is still one.                                                        *)
LEMMA SameBufOK ==
    ASSUME NEW x, NEW r, NEW d, NEW n, SameBuf(x, r), BufOK(r, d, n)
    PROVE  BufOK(x, d, n)
<1>1. BufShape(x)
  BY DEF SameBuf, BufOK, BufShape
<1>2. Runs(x.batches, d, n)
  BY SameRuns DEF SameBuf, BufOK, BufShape
<1> QED BY <1>1, <1>2 DEF BufOK

(* And to its requests it makes no difference.                             *)
LEMMA SameBufPair ==
    ASSUME NEW x, NEW r, NEW q, NEW s, NEW p, NEW n, SameBuf(x, r), BufShape(r), Pair(q, s, p, r, n)
    PROVE  Pair(q, s, p, x, n)
<1>1. /\ Len(x.batches) \in Nat /\ Len(x.batches) = Len(r.batches)
      /\ (x.batches = <<>> <=> Len(x.batches) = 0) /\ (r.batches = <<>> <=> Len(r.batches) = 0)
      /\ r.idx \in 0 .. Len(r.batches)
  BY EmptyBatches DEF SameBuf, BufShape
<1>2. Counted(q, s, p, x)
  BY DEF SameBuf, Pair, Counted
<1>3. Chained(q, p, x)
  <2>1. PICK cut \in 0 .. Len(q) : ChainedFrom(q, p, r, cut)
    BY DEF Pair, Chained
  <2>2. ASSUME NEW i \in 1 .. Len(q)
        PROVE  /\ Overtaken(q, p, r, i) => Overtaken(q, p, x, i)
               /\ InOrder(q, p, r, i) => InOrder(q, p, x, i)
    BY <1>1 DEF SameBuf, Overtaken, InOrder
  <2> QED BY <2>1, <2>2 DEF Chained, ChainedFrom
<1> QED BY <1>2, <1>3 DEF Pair

(* The records of one sequence follow those of another.                    *)
LEMMA ContiguousConcat ==
    ASSUME NEW S, NEW a \in Seq(S), NEW b \in Seq(S), NEW from \in Int, NEW mid \in Int, NEW to \in Int,
           Contiguous(a, from, mid - 1), Contiguous(b, mid, to)
    PROVE  Contiguous(a \o b, from, to)
<1> DEFINE x == a \o b
<1>1. /\ x \in Seq(S) /\ Len(x) = Len(a) + Len(b) /\ Len(a) \in Nat /\ Len(b) \in Nat
      /\ \A i \in 1 .. Len(a) + Len(b) : x[i] = IF i <= Len(a) THEN a[i] ELSE b[i - Len(a)]
  BY ConcatProperties, LenProperties
<1>2. (x = <<>> <=> Len(x) = 0) /\ (a = <<>> <=> Len(a) = 0) /\ (b = <<>> <=> Len(b) = 0)
  BY <1>1, EmptyBatches
<1> HIDE DEF x
<1>3. CASE Len(a) = 0
  BY <1>1, <1>2, <1>3 DEF Contiguous
<1>4. CASE Len(b) = 0
  BY <1>1, <1>2, <1>4 DEF Contiguous
<1>5. CASE Len(a) > 0 /\ Len(b) > 0
  <2>0. /\ 1 \in 1 .. Len(a) + Len(b) /\ Len(x) \in 1 .. Len(a) + Len(b)
        /\ ~(Len(x) <= Len(a)) /\ Len(x) - Len(a) = Len(b) /\ 1 <= Len(a)
    BY <1>1, <1>5
  <2>1. x # <<>> /\ x[1] = a[1] /\ x[Len(x)] = b[Len(b)]
    BY <1>1, <1>2, <1>5, <2>0
  <2>2. a[1].first = from /\ a[Len(a)].first + a[Len(a)].n = mid /\ b[1].first = mid
    BY <1>1, <1>2, <1>5 DEF Contiguous
  <2>3. ASSUME NEW i \in 1 .. Len(x) - 1 PROVE x[i + 1].first = x[i].first + x[i].n
    <3>0. i \in 1 .. Len(a) + Len(b) /\ i + 1 \in 1 .. Len(a) + Len(b)
      BY <1>1
    <3>1. CASE i < Len(a)
      <4>1. x[i] = a[i] /\ x[i + 1] = a[i + 1] /\ i \in 1 .. Len(a) - 1
        BY <1>1, <3>0, <3>1
      <4> QED BY <4>1 DEF Contiguous
    <3>2. CASE i = Len(a)
      <4>1. x[i] = a[Len(a)] /\ x[i + 1] = b[1]
        BY <1>1, <3>0, <3>2
      <4> QED BY <2>2, <4>1
    <3>3. CASE i > Len(a)
      <4> DEFINE j == i - Len(a)
      <4>1. x[i] = b[j] /\ x[i + 1] = b[j + 1] /\ j \in 1 .. Len(b) - 1
        BY <1>1, <3>0, <3>3
      <4> HIDE DEF j
      <4> QED BY <4>1 DEF Contiguous
    <3> QED BY <1>1, <3>1, <3>2, <3>3
  <2> QED BY <1>1, <1>2, <1>5, <2>1, <2>2, <2>3 DEF Contiguous
<1>6. Len(a) = 0 \/ Len(b) = 0 \/ (Len(a) > 0 /\ Len(b) > 0)
  BY <1>1
<1> QED BY <1>3, <1>4, <1>5, <1>6

-----------------------------------------------------------------------------
(* failAllRecords: all that is buffered is promised, in order.             *)
LEMMA FailedOK ==
    ASSUME NEW r, NEW d, NEW n, BufOK(r, d, n)
    PROVE  BufOK(failAllRecords(r), d \o FailedPromises(r), n)
<1> DEFINE f == FailedPromises(r)
           x == failAllRecords(r)
           b == r.batches
           k == From(b, n)
<1>1. b \in Seq(AnyBatch) /\ Len(b) \in Nat /\ (b = <<>> <=> Len(b) = 0) /\ n \in Nat \ {0}
  BY EmptyBatches DEF BufOK, BufShape, Runs
<1>2. \A i \in 1 .. Len(b) : b[i].first \in Nat /\ b[i].n \in Nat \ {0}
  <2>1. \A i \in 1 .. Len(b) : b[i] \in AnyBatch
    BY <1>1, ElementOfSeq
  <2> QED BY <2>1 DEF AnyBatch
<1>3. f \in Seq(AnyPromise) /\ Len(f) = Len(b)
      /\ \A i \in 1 .. Len(b) : f[i].first = b[i].first /\ f[i].n = b[i].n
  <2>1. f \in [1 .. Len(b) -> AnyPromise]
    BY <1>2 DEF FailedPromises, Promise, AnyPromise
  <2>2. f \in Seq(AnyPromise)
    BY <1>1, <2>1, FunctionSeq
  <2>3. Len(f) = Len(b)
    BY <1>1, <2>1, <2>2, LenProperties
  <2> QED BY <2>2, <2>3 DEF FailedPromises, Promise
<1>4. k \in Int
  BY <1>1, <1>2 DEF From
<1>5. Contiguous(f, k, n - 1)
  <2>1. Contiguous(b, k, n - 1) /\ (f = <<>> <=> Len(f) = 0)
    BY <1>3, EmptyBatches DEF BufOK, Runs
  <2>2. CASE Len(b) = 0
    BY <1>1, <1>3, <2>1, <2>2 DEF Contiguous
  <2>3. CASE Len(b) > 0
    <3>1. 1 \in 1 .. Len(b) /\ Len(b) \in 1 .. Len(b)
      BY <1>1, <2>3
    <3>2. \A i \in 1 .. Len(b) - 1 : i \in 1 .. Len(b) /\ i + 1 \in 1 .. Len(b)
      BY <1>1
    <3> HIDE DEF f, b, k
    <3>3. f # <<>> /\ b # <<>>
      BY <1>1, <1>3, <2>1, <2>3
    <3>4. f[1].first = k /\ f[Len(f)].first + f[Len(f)].n = (n - 1) + 1
      BY <1>3, <2>1, <3>1, <3>3 DEF Contiguous
    <3>5. \A i \in 1 .. Len(f) - 1 : f[i + 1].first = f[i].first + f[i].n
      BY <1>3, <2>1, <3>2 DEF Contiguous
    <3> QED BY <3>3, <3>4, <3>5 DEF Contiguous
  <2> QED BY <1>1, <2>2, <2>3
<1>6. d \in Seq(AnyPromise) /\ Contiguous(d, 1, k - 1)
  BY DEF BufOK, Runs
<1>7. Contiguous(d \o f, 1, n - 1) /\ d \o f \in Seq(AnyPromise)
  <2> HIDE DEF f, k
  <2>1. k - 1 \in Int /\ n - 1 \in Int /\ k = (k - 1) + 1 /\ f \in Seq(AnyPromise)
    BY <1>1, <1>3, <1>4
  <2>2. Contiguous(d \o f, 1, n - 1)
    BY <1>5, <1>6, <2>1, ContiguousConcat
  <2>3. d \o f \in Seq(AnyPromise)
    BY <1>6, <2>1, ConcatProperties
  <2> QED BY <2>2, <2>3
<1>8. /\ DOMAIN x = RecBufFields /\ x.batches = <<>> /\ x.idx = 0 /\ x.inflight = r.inflight
      /\ x.on = r.on
  BY DEF failAllRecords, resetBatchDrainIdx, BufOK, BufShape, RecBufFields
<1> HIDE DEF x, f
<1>9. BufShape(x)
  BY <1>8, EmptySeq DEF BufOK, BufShape
<1>10. From(x.batches, n) = n
  BY <1>8 DEF From
<1>11. Contiguous(x.batches, n, n - 1) /\ Ordered(x.batches, n)
  BY <1>1, <1>8, EmptySeq DEF Contiguous, Ordered
<1>12. BufOK(x, d \o f, n)
  BY <1>1, <1>7, <1>9, <1>10, <1>11 DEF BufOK, Runs
<1> QED BY <1>12 DEF x, f

(* Its requests are overtaken.                                             *)
LEMMA FailedPair ==
    ASSUME NEW r, NEW q, NEW s, NEW p, NEW n, BufShape(r), Queue(q), Pair(q, s, p, r, n)
    PROVE  Pair(q, s, p, failAllRecords(r), n)
<1> DEFINE x == failAllRecords(r)
<1>1. x.batches = <<>> /\ x.inflight = r.inflight /\ x.on = r.on
  BY DEF failAllRecords, resetBatchDrainIdx, BufShape, RecBufFields
<1> HIDE DEF x
<1>2. Counted(q, s, p, x)
  BY <1>1 DEF Pair, Counted
<1>3. Len(q) \in 0 .. Len(q)
  BY SeqBasics DEF Queue
<1>4. ChainedFrom(q, p, x, Len(q))
  BY <1>1, <1>3 DEF ChainedFrom, Overtaken
<1>5. Pair(q, s, p, x, n)
  BY <1>2, <1>3, <1>4 DEF Pair, Chained
<1> QED BY <1>5 DEF x

-----------------------------------------------------------------------------
(* The first request of a queue has been handled for p, if its batch is    *)
(* the first: all later requests of p have later batches, and they are of  *)
(* the ones drained since.                                                 *)
LEMMA FirstIsChained ==
    ASSUME NEW q, NEW p, NEW r, Queue(q), q # <<>>, BufShape(r), Chained(q, p, r),
           p \in Unhandled(q[1]), isOwnersFirstBatch(r, q[1].bs[p])
    PROVE  /\ Len(q) \in Nat /\ 1 \in 1 .. Len(q) /\ r.idx \in 1 .. Len(r.batches)
           /\ \A i \in 2 .. Len(q) : p \in Unhandled(q[i]) =>
                 /\ r.batches[1].first < q[i].bs[p].first
                 /\ InOrder(q, p, r, i)
<1>1. Len(q) \in Nat /\ Len(q) >= 1 /\ 1 \in 1 .. Len(q)
  BY SeqBasics, SeqTail DEF Queue
<1>2. PICK cut \in 0 .. Len(q) : ChainedFrom(q, p, r, cut)
  BY DEF Chained
<1>3. r.batches # <<>> /\ q[1].bs[p].first = r.batches[1].first
  BY DEF isOwnersFirstBatch
<1>4. ~(1 <= cut) /\ InOrder(q, p, r, 1)
  BY <1>1, <1>2, <1>3 DEF ChainedFrom, Overtaken
<1>5. cut = 0
  BY <1>1, <1>4
<1>6. ASSUME NEW i \in 2 .. Len(q), p \in Unhandled(q[i])
      PROVE  r.batches[1].first < q[i].bs[p].first /\ InOrder(q, p, r, i)
  <2>1. i \in 1 .. Len(q) /\ ~(i <= cut) /\ i \in 1 + 1 .. Len(q)
    BY <1>1, <1>5
  <2> QED BY <1>2, <1>3, <1>4, <1>6, <2>1 DEF ChainedFrom, InOrder
<1>7. r.idx \in 1 .. Len(r.batches)
  BY <1>4, EmptyBatches DEF InOrder, BufShape
<1> QED BY <1>1, <1>6, <1>7

(* resetBatchDrainIdx: what was drained after it is overtaken.             *)
LEMMA ResetPair ==
    ASSUME NEW q, NEW y, NEW s, NEW p, NEW r, NEW n, Queue(q), q # <<>>, BufShape(r),
           Pair(q, s, p, r, n), p \in Unhandled(q[1]), isOwnersFirstBatch(r, q[1].bs[p]),
           Similar(y, q), p \notin Unhandled(y[1]),
           NEW x, x.batches = r.batches, x.inflight = r.inflight, x.on = r.on
    PROVE  Pair(y, s, p, x, n)
<1>1. /\ Len(q) \in Nat /\ 1 \in 1 .. Len(q) /\ Len(y) = Len(q)
      /\ \A i \in 2 .. Len(q) : p \in Unhandled(q[i]) => r.batches[1].first < q[i].bs[p].first
      /\ r.idx \in 1 .. Len(r.batches)
  BY FirstIsChained DEF Pair, Similar
<1>2. Pair(y, s, p, r, n)
  BY SimilarPair
<1>3. Counted(y, s, p, x) /\ Older(y, p, n)
  BY <1>2 DEF Pair, Counted
<1>4. ASSUME NEW i \in 1 .. Len(y), p \in Unhandled(y[i])
      PROVE  i <= Len(y) /\ Overtaken(y, p, x, i)
  <2>1. i \in 2 .. Len(q) /\ p \in Unhandled(q[i]) /\ y[i].bs[p].first = q[i].bs[p].first
    <3>1. i \in 1 .. Len(q) /\ i # 1 /\ i \in 2 .. Len(q)
      BY <1>1, <1>4
    <3>2. p \in Unhandled(q[i])
      BY <1>4, <3>1, Zenon DEF Similar
    <3>3. p \in DOMAIN q[i].bs
      BY <3>1, <3>2 DEF Queue, RequestOK
    <3> QED BY <3>1, <3>2, <3>3 DEF Similar
  <2>2. r.batches[1].first < q[i].bs[p].first
    BY <1>1, <2>1
  <2>3. r.batches[1].first \in Nat /\ q[i].bs[p].first \in Nat
    <3>1. r.batches[1] \in AnyBatch
      BY <1>1, ElementOfSeq, EmptyBatches DEF BufShape
    <3>2. p \in DOMAIN q[i].bs /\ i \in 1 .. Len(q)
      BY <1>1, <2>1, Zenon DEF Queue, RequestOK
    <3> QED BY <3>1, <3>2 DEF AnyBatch, Queue, RequestOK
  <2> QED BY <1>1, <2>1, <2>2, <2>3 DEF Overtaken
<1>5. ChainedFrom(y, p, x, Len(y)) /\ Len(y) \in 0 .. Len(y)
  BY <1>1, <1>4 DEF ChainedFrom
<1>6. Chained(y, p, x)
  BY <1>5 DEF Chained
<1> QED BY <1>3, <1>6 DEF Pair

(* finishBatch: the first batch is promised, and the ones after it that    *)
(* were drained still are.                                                 *)
LEMMA FinishedOK ==
    ASSUME NEW r, NEW d, NEW n, BufOK(r, d, n), r.batches # <<>>, r.idx >= 1,
           NEW x, DOMAIN x = RecBufFields, x.batches = Tail(r.batches), x.idx = r.idx - 1,
           x.inflight = r.inflight, x.on = r.on,
           NEW e, e.first = r.batches[1].first, e.n = r.batches[1].n, e \in AnyPromise
    PROVE  BufOK(x, Append(d, e), n)
<1> DEFINE b == r.batches
           t == x.batches
<1>1. /\ b \in Seq(AnyBatch) /\ Len(b) \in Nat \ {0} /\ n \in Nat \ {0} /\ r.idx \in 0 .. Len(b)
      /\ d \in Seq(AnyPromise)
  BY EmptySeq DEF BufOK, BufShape, Runs
<1>2. /\ t \in Seq(AnyBatch) /\ Len(t) = Len(b) - 1 /\ Len(t) \in Nat /\ (t = <<>> <=> Len(t) = 0)
      /\ \A i \in 1 .. Len(t) : t[i] = b[i + 1]
  <2>1. t \in Seq(AnyBatch) /\ Len(t) = Len(b) - 1 /\ \A i \in 1 .. Len(t) : t[i] = b[i + 1]
    BY <1>1, HeadTailProperties
  <2> HIDE DEF t
  <2> QED BY <2>1, EmptyBatches, Zenon
<1>3. \A i \in 1 .. Len(b) : b[i].first \in Nat /\ b[i].n \in Nat \ {0}
  <2>1. \A i \in 1 .. Len(b) : b[i] \in AnyBatch
    BY <1>1, ElementOfSeq
  <2> QED BY <2>1 DEF AnyBatch
<1>4. /\ b[1].first = From(b, n) /\ b[Len(b)].first + b[Len(b)].n = n
      /\ \A i \in 1 .. Len(b) - 1 : b[i + 1].first = b[i].first + b[i].n
      /\ 1 \in 1 .. Len(b)
  BY <1>1, <1>3 DEF BufOK, Runs, Contiguous, From
<1> DEFINE k == b[1].first + b[1].n
<1>5. k \in Int /\ From(t, n) = k
  <2>1. CASE Len(t) = 0
    BY <1>1, <1>2, <1>3, <1>4, <2>1 DEF From
  <2>2. CASE Len(t) > 0
    <3>1. t # <<>> /\ t[1] = b[1 + 1] /\ 1 \in 1 .. Len(b) - 1
      BY <1>1, <1>2, <2>2
    <3> QED BY <1>3, <1>4, <3>1 DEF From
  <2> QED BY <1>2, <2>1, <2>2
<1>6. Contiguous(t, k, n - 1)
  <2>1. CASE Len(t) = 0
    BY <1>1, <1>2, <1>4, <2>1 DEF Contiguous
  <2>2. CASE Len(t) > 0
    <3>1. t[1].first = k /\ t[Len(t)] = b[Len(b)]
      BY <1>1, <1>2, <1>4, <2>2
    <3>2. \A i \in 1 .. Len(t) - 1 : t[i + 1].first = t[i].first + t[i].n
      BY <1>1, <1>2, <1>4
    <3> HIDE DEF t, b, k
    <3> QED BY <1>1, <1>2, <1>4, <2>2, <3>1, <3>2 DEF Contiguous
  <2> QED BY <1>2, <2>1, <2>2
<1>7. Ordered(t, n)
  <2>1. Ordered(b, n) /\ \A i \in 1 .. Len(t) : i + 1 \in 1 .. Len(b)
    BY <1>1, <1>2 DEF BufOK, Runs
  <2> HIDE DEF t, b
  <2>2. ASSUME NEW i \in 1 .. Len(t), NEW j \in 1 .. Len(t), i < j
        PROVE  t[i].first + t[i].n <= t[j].first
    <3>1. i + 1 < j + 1 /\ i + 1 \in 1 .. Len(b) /\ j + 1 \in 1 .. Len(b)
      BY <1>2, <2>1, <2>2
    <3> QED BY <1>2, <2>1, <3>1 DEF Ordered
  <2>3. ASSUME NEW i \in 1 .. Len(t) PROVE t[i].first + t[i].n <= n
    BY <1>2, <2>1 DEF Ordered
  <2> QED BY <2>2, <2>3 DEF Ordered
<1>8. Contiguous(<<e>>, b[1].first, k - 1) /\ <<e>> \in Seq(AnyPromise)
  BY <1>3, <1>4 DEF Contiguous
<1>9. Contiguous(d, 1, b[1].first - 1)
  BY <1>4 DEF BufOK, Runs
<1>10. Append(d, e) = d \o <<e>> /\ Append(d, e) \in Seq(AnyPromise)
  BY <1>1, AppendIsConcat, AppendProperties
<1>11. Contiguous(Append(d, e), 1, k - 1)
  <2>1. b[1].first \in Int /\ k - 1 \in Int
    BY <1>3, <1>4
  <2> DEFINE w == <<e>>
             m == b[1].first
  <2>2. w \in Seq(AnyPromise) /\ Contiguous(w, m, k - 1) /\ Contiguous(d, 1, m - 1) /\ m \in Int
    BY <1>8, <1>9, <2>1
  <2>3. Append(d, e) = d \o w
    BY <1>10
  <2> HIDE DEF k, b, w, m
  <2>4. Contiguous(d \o w, 1, k - 1)
    BY <1>1, <2>1, <2>2, ContiguousConcat
  <2> QED BY <2>3, <2>4
<1>12. BufShape(x)
  BY <1>1, <1>2 DEF BufOK, BufShape
<1> QED BY <1>1, <1>5, <1>6, <1>7, <1>10, <1>11, <1>12 DEF BufOK, Runs

(* The requests after it are chained as they were.                         *)
LEMMA FinishedPair ==
    ASSUME NEW q, NEW y, NEW s, NEW p, NEW r, NEW n, Queue(q), q # <<>>, BufShape(r),
           Pair(q, s, p, r, n), p \in Unhandled(q[1]), isOwnersFirstBatch(r, q[1].bs[p]),
           Similar(y, q), p \notin Unhandled(y[1]),
           NEW x, x.batches = Tail(r.batches), x.idx = r.idx - 1,
           x.inflight = r.inflight, x.on = r.on
    PROVE  Pair(y, s, p, x, n)
<1>1. /\ Len(q) \in Nat /\ 1 \in 1 .. Len(q) /\ Len(y) = Len(q)
      /\ \A i \in 2 .. Len(q) : p \in Unhandled(q[i]) =>
            r.batches[1].first < q[i].bs[p].first /\ InOrder(q, p, r, i)
      /\ r.idx \in 1 .. Len(r.batches)
  BY FirstIsChained DEF Pair, Similar
<1>2. Pair(y, s, p, r, n)
  BY SimilarPair
<1>3. Counted(y, s, p, x) /\ Older(y, p, n)
  BY <1>2 DEF Pair, Counted
<1>4. /\ r.batches \in Seq(AnyBatch) /\ Len(r.batches) \in Nat /\ Len(x.batches) = Len(r.batches) - 1
      /\ \A i \in 1 .. Len(x.batches) : x.batches[i] = r.batches[i + 1]
  <2>1. r.batches \in Seq(AnyBatch) /\ r.batches # <<>>
    BY DEF BufShape, isOwnersFirstBatch
  <2> QED BY <2>1, HeadTailProperties, EmptyBatches
<1>5. \A i \in 1 .. Len(q) : p \in Unhandled(y[i]) =>
         /\ i \in 2 .. Len(q) /\ p \in Unhandled(q[i])
         /\ y[i].bs[p].first = q[i].bs[p].first /\ q[i].bs[p].first \in Nat
  <2> SUFFICES ASSUME NEW i \in 1 .. Len(q), p \in Unhandled(y[i])
               PROVE  /\ i \in 2 .. Len(q) /\ p \in Unhandled(q[i])
                      /\ y[i].bs[p].first = q[i].bs[p].first /\ q[i].bs[p].first \in Nat
    OBVIOUS
  <2>1. i # 1 /\ i \in 2 .. Len(q)
    BY <1>1
  <2>2. p \in Unhandled(q[i])
    BY Zenon DEF Similar
  <2>3. p \in DOMAIN q[i].bs /\ q[i].bs[p].first \in Nat
    BY <2>2 DEF Queue, RequestOK
  <2> QED BY <2>1, <2>2, <2>3 DEF Similar
<1>6. r.batches[1].first \in Nat
  <2>1. r.batches[1] \in AnyBatch
    BY <1>1, <1>4, ElementOfSeq
  <2> QED BY <2>1 DEF AnyBatch
<1>7. ASSUME NEW i \in 1 .. Len(q), p \in Unhandled(y[i])
      PROVE  ~(i <= 0) /\ InOrder(y, p, x, i)
  <2>1. r.batches[1].first < q[i].bs[p].first /\ InOrder(q, p, r, i)
    BY <1>1, <1>5, <1>7
  <2>2. PICK k \in 1 .. r.idx : q[i].bs[p].first = r.batches[k].first
    BY <2>1 DEF InOrder
  <2>3. k # 1
    BY <1>5, <1>6, <1>7, <2>1, <2>2
  <2>4. k - 1 \in 1 .. x.idx /\ x.batches[k - 1] = r.batches[k]
    BY <1>1, <1>4, <2>2, <2>3
  <2>5. \E l \in 1 .. x.idx : y[i].bs[p].first = x.batches[l].first
    BY <1>5, <1>7, <2>2, <2>4, Zenon
  <2>6. ASSUME NEW j \in i + 1 .. Len(q), p \in Unhandled(y[j])
        PROVE  y[i].bs[p].first < y[j].bs[p].first
    <3>1. j \in 1 .. Len(q)
      BY <1>1
    <3> QED BY <1>5, <1>7, <2>1, <2>6, <3>1 DEF InOrder
  <2>7. ~(i <= 0)
    BY <1>1
  <2> QED BY <1>1, <2>5, <2>6, <2>7 DEF InOrder
<1>8. ChainedFrom(y, p, x, 0) /\ 0 \in 0 .. Len(y)
  BY <1>1, <1>7 DEF ChainedFrom
<1> QED BY <1>3, <1>8 DEF Pair, Chained

-----------------------------------------------------------------------------
(* bufferRecord: a record is the first of a new batch.                     *)
LEMMA NewBatchOK ==
    ASSUME NEW r, NEW d, NEW n, BufOK(r, d, n), NEW x, DOMAIN x = RecBufFields,
           x.batches = Append(r.batches, newRecordBatch(n)),
           x.idx = r.idx, x.inflight = r.inflight, x.on = r.on
    PROVE  BufOK(x, d, n + 1)
<1> DEFINE b == r.batches
           t == x.batches
           e == newRecordBatch(n)
           l == Len(b) + 1
<1>1. b \in Seq(AnyBatch) /\ Len(b) \in Nat /\ n \in Nat \ {0} /\ (b = <<>> <=> Len(b) = 0)
  BY EmptyBatches DEF BufOK, BufShape, Runs
<1>2. e \in AnyBatch /\ e.first = n /\ e.n = 1
  BY <1>1 DEF newRecordBatch, AnyBatch
<1>3. /\ t \in Seq(AnyBatch) /\ t # <<>> /\ Len(t) = l
      /\ \A i \in 1 .. Len(b) : t[i] = b[i]
      /\ t[l].first = n /\ t[l].n = 1
  <2> HIDE DEF e
  <2> QED BY <1>1, <1>2, AppendProperties DEF e
<1>4. Contiguous(b, From(b, n), n - 1) /\ Ordered(b, n)
  BY DEF BufOK, Runs
<1> HIDE DEF b, t, e
<1>5. From(t, n + 1) = From(b, n)
  BY <1>1, <1>3 DEF From
<1>6. Contiguous(t, From(b, n), n)
  <2>1. CASE Len(b) = 0
    BY <1>1, <1>3, <2>1 DEF Contiguous, From
  <2>2. CASE Len(b) > 0
    <3>1. b # <<>> /\ b[1].first = From(b, n) /\ b[Len(b)].first + b[Len(b)].n = n
      BY <1>1, <1>4, <2>2 DEF Contiguous
    <3>2. t[1].first = From(b, n)
      BY <1>1, <1>3, <2>2, <3>1
    <3>3. ASSUME NEW i \in 1 .. Len(t) - 1 PROVE t[i + 1].first = t[i].first + t[i].n
      <4>1. CASE i < Len(b)
        BY <1>1, <1>3, <1>4, <4>1 DEF Contiguous
      <4>2. CASE i = Len(b)
        BY <1>1, <1>3, <3>1, <4>2
      <4> QED BY <1>1, <1>3, <4>1, <4>2
    <3> QED BY <1>1, <1>3, <3>2, <3>3 DEF Contiguous
  <2> QED BY <1>1, <2>1, <2>2
<1>7. Ordered(t, n + 1)
  <2>1. ASSUME NEW i \in 1 .. Len(b)
        PROVE  b[i].first \in Nat /\ b[i].n \in Nat /\ b[i].first + b[i].n <= n
    <3>1. b[i] \in AnyBatch
      BY <1>1, ElementOfSeq
    <3> QED BY <1>4, <3>1 DEF Ordered, AnyBatch
  <2>2. ASSUME NEW i \in 1 .. Len(t), NEW j \in 1 .. Len(t), i < j
        PROVE  t[i].first + t[i].n <= t[j].first
    <3>1. CASE j = l
      BY <1>1, <1>3, <2>1, <2>2, <3>1
    <3>2. CASE j # l
      <4>1. i \in 1 .. Len(b) /\ j \in 1 .. Len(b)
        <5>1. Len(b) \in Nat /\ Len(t) = Len(b) + 1 /\ j # Len(b) + 1
          BY <1>1, <1>3, <3>2
        <5> QED BY <2>2, <5>1
      <4>2. t[i] = b[i] /\ t[j] = b[j]
        BY <1>3, <4>1
      <4> QED BY <1>4, <2>2, <4>1, <4>2 DEF Ordered
    <3> QED BY <3>1, <3>2
  <2>3. ASSUME NEW i \in 1 .. Len(t) PROVE t[i].first + t[i].n <= n + 1
    BY <1>1, <1>3, <2>1
  <2> QED BY <2>2, <2>3 DEF Ordered
<1>8. BufShape(x)
  BY <1>1, <1>3 DEF BufOK, BufShape, t, b
<1> QED BY <1>1, <1>5, <1>6, <1>7, <1>8 DEF BufOK, Runs, t, b

(* Or it joins the last batch.                                             *)
LEMMA GrownBatchOK ==
    ASSUME NEW r, NEW d, NEW n, BufOK(r, d, n), NEW x, DOMAIN x = RecBufFields, r.batches # <<>>,
           x.batches = [r.batches EXCEPT ![Len(r.batches)].n = @ + 1],
           x.idx = r.idx, x.inflight = r.inflight, x.on = r.on
    PROVE  BufOK(x, d, n + 1)
<1> DEFINE b == r.batches
           t == x.batches
           l == Len(b)
           e == [b[l] EXCEPT !.n = @ + 1]
<1>1. b \in Seq(AnyBatch) /\ l \in Nat \ {0} /\ n \in Nat \ {0}
  BY EmptySeq DEF BufOK, BufShape, Runs
<1>2. b[l] \in AnyBatch
  BY <1>1, ElementOfSeq
<1>3. e \in AnyBatch /\ e.first = b[l].first /\ e.n = b[l].n + 1
  BY <1>2 DEF AnyBatch
<1>4. /\ t \in Seq(AnyBatch) /\ Len(t) = l
      /\ \A i \in 1 .. l : t[i] = IF i = l THEN e ELSE b[i]
  <2>1. t = [b EXCEPT ![l] = e]
    OBVIOUS
  <2> HIDE DEF e, t, b
  <2> QED BY <1>1, <1>3, <2>1, ExceptSeq
<1>5. Contiguous(b, From(b, n), n - 1) /\ Ordered(b, n) /\ b # <<>> /\ t # <<>>
  BY <1>1, <1>4, EmptySeq DEF BufOK, Runs
<1> HIDE DEF b, t, e
<1>6. ASSUME NEW i \in 1 .. l
      PROVE  /\ t[i].first = b[i].first /\ b[i].first \in Nat /\ b[i].n \in Nat
             /\ i # l => t[i].n = b[i].n
  <2>1. b[i] \in AnyBatch
    BY <1>1, ElementOfSeq
  <2> QED BY <1>3, <1>4, <2>1 DEF AnyBatch
<1>7. 1 \in 1 .. l /\ t[1].first = From(b, n) /\ From(t, n + 1) = From(b, n)
  <2>1. 1 \in 1 .. l
    BY <1>1
  <2>2. t[1].first = b[1].first
    BY <1>6, <2>1
  <2> QED BY <1>5, <2>1, <2>2 DEF From
<1>8. Contiguous(t, From(b, n), n)
  <2>2. t[l].first + t[l].n = n + 1
    <3>1. b[l].first + b[l].n = n
      BY <1>1, <1>5 DEF Contiguous
    <3>2. t[l].first = b[l].first /\ t[l].n = b[l].n + 1 /\ b[l].first \in Nat /\ b[l].n \in Nat
      BY <1>1, <1>3, <1>4, <1>6
    <3> DEFINE u == b[l].first
               v == b[l].n
    <3>3. t[l].first = u /\ t[l].n = v + 1 /\ u \in Nat /\ v \in Nat /\ u + v = n
      BY <3>1, <3>2
    <3> HIDE DEF u, v
    <3> QED BY <1>1, <3>3
  <2>3. ASSUME NEW i \in 1 .. l - 1 PROVE t[i + 1].first = t[i].first + t[i].n
    <3>1. i \in 1 .. l /\ i + 1 \in 1 .. l /\ i # l
      BY <1>1
    <3>2. b[i + 1].first = b[i].first + b[i].n
      BY <1>5 DEF Contiguous
    <3> QED BY <1>6, <3>1, <3>2
  <2> QED BY <1>1, <1>4, <1>5, <1>7, <2>2, <2>3 DEF Contiguous
<1>9. Ordered(t, n + 1)
  <2>1. ASSUME NEW i \in 1 .. l, NEW j \in 1 .. l, i < j PROVE t[i].first + t[i].n <= t[j].first
    <3>1. i # l
      BY <1>1, <2>1
    <3> QED BY <1>5, <1>6, <2>1, <3>1 DEF Ordered
  <2>2. ASSUME NEW i \in 1 .. l PROVE t[i].first + t[i].n <= n + 1
    <3>1. b[i].first + b[i].n <= n
      BY <1>5 DEF Ordered
    <3>2. CASE i = l
      BY <1>1, <1>3, <1>4, <1>6, <3>1, <3>2
    <3>3. CASE i # l
      BY <1>1, <1>6, <3>1, <3>3
    <3> QED BY <3>2, <3>3
  <2> QED BY <1>4, <2>1, <2>2 DEF Ordered
<1>10. BufShape(x)
  BY <1>1, <1>4 DEF BufOK, BufShape, t, b
<1> QED BY <1>1, <1>7, <1>8, <1>9, <1>10 DEF BufOK, Runs, t, b

(* Neither concerns a request.                                             *)
LEMMA BufferedPair ==
    ASSUME NEW r, NEW x, NEW q, NEW s, NEW p, NEW n \in Nat, BufShape(r), Queue(q), Pair(q, s, p, r, n),
           x.idx = r.idx, x.inflight = r.inflight, x.on = r.on,
           \A k \in 1 .. Len(r.batches) : x.batches[k].first = r.batches[k].first,
           r.batches = <<>> => x.batches[1].first = n
    PROVE  Pair(q, s, p, x, n + 1)
<1>1. Counted(q, s, p, x)
  BY DEF Pair, Counted
<1>2. \A i \in 1 .. Len(q) : p \in DOMAIN q[i].bs => q[i].bs[p].first \in Nat /\ q[i].bs[p].first < n
  BY DEF Pair, Older, Queue, RequestOK
<1>3. Older(q, p, n + 1)
  BY <1>2 DEF Older
<1>4. PICK cut \in 0 .. Len(q) : ChainedFrom(q, p, r, cut)
  BY DEF Pair, Chained
<1>5. Len(r.batches) \in Nat /\ (r.batches = <<>> <=> Len(r.batches) = 0) /\ r.idx \in 0 .. Len(r.batches)
  BY EmptyBatches DEF BufShape
<1>6. ASSUME NEW i \in 1 .. Len(q), p \in Unhandled(q[i])
      PROVE  IF i <= cut THEN Overtaken(q, p, x, i) ELSE InOrder(q, p, x, i)
  <2>1. p \in DOMAIN q[i].bs
    BY <1>6 DEF Queue, RequestOK
  <2>2. CASE i <= cut
    <3>1. Overtaken(q, p, r, i)
      BY <1>4, <1>6, <2>2 DEF ChainedFrom
    <3>2. CASE r.batches = <<>>
      BY <1>2, <2>1, <2>2, <3>2 DEF Overtaken
    <3>3. CASE r.batches # <<>>
      <4>1. 1 \in 1 .. Len(r.batches)
        BY <1>5, <3>3
      <4> QED BY <2>2, <3>1, <3>3, <4>1 DEF Overtaken
    <3> QED BY <3>2, <3>3
  <2>3. CASE ~(i <= cut)
    <3>1. InOrder(q, p, r, i)
      BY <1>4, <1>6, <2>3 DEF ChainedFrom
    <3>2. \A k \in 1 .. r.idx : k \in 1 .. Len(r.batches)
      BY <1>5
    <3> QED BY <2>3, <3>1, <3>2 DEF InOrder
  <2> QED BY <2>2, <2>3
<1> QED BY <1>1, <1>3, <1>6 DEF Pair, Chained, ChainedFrom

-----------------------------------------------------------------------------
(* A partition that no request of a queue holds.                           *)
LEMMA IdlePair ==
    ASSUME NEW q, NEW s, NEW p, NEW r, NEW n, Queue(q), Holds(q, p) = {}, r.on # s, Older(q, p, n)
    PROVE  Pair(q, s, p, r, n)
<1>1. \A i \in 1 .. Len(q) : p \notin Unhandled(q[i])
  BY DEF Queue, RequestOK, Holds
<1>2. 0 \in 0 .. Len(q) /\ ChainedFrom(q, p, r, 0)
  BY <1>1, SeqBasics DEF ChainedFrom, Queue
<1> QED BY <1>2 DEF Pair, Counted, Chained

(* A request is made: who was holding what still is.                       *)
LEMMA AppendQueue ==
    ASSUME NEW q, NEW e, Queue(q), RequestOK(e)
    PROVE  Queue(Append(q, e))
<1> DEFINE y == Append(q, e)
<1>1. /\ IsSeq(y) /\ Len(y) = Len(q) + 1 /\ (\A i \in 1 .. Len(q) : y[i] = q[i])
      /\ y[Len(q) + 1] = e /\ Len(q) \in Nat
  BY SeqAppend, SeqBasics DEF Queue
<1> HIDE DEF y
<1>2. ASSUME NEW i \in 1 .. Len(y) PROVE RequestOK(y[i])
  <2>1. CASE i \in 1 .. Len(q)
    BY <1>1, <2>1 DEF Queue
  <2>2. CASE i = Len(q) + 1
    BY <1>1, <2>2
  <2> QED BY <1>1, <2>1, <2>2
<1>3. Queue(y)
  BY <1>1, <1>2 DEF Queue
<1> QED BY <1>3 DEF y

(* The partitions it does not hold.                                        *)
LEMMA OtherAppendPair ==
    ASSUME NEW q, NEW e, NEW s, NEW p, NEW r, NEW n, Queue(q), RequestOK(e), p \notin DOMAIN e.bs,
           Pair(q, s, p, r, n)
    PROVE  Pair(Append(q, e), s, p, r, n)
<1> DEFINE y == Append(q, e)
<1>1. /\ Len(y) = Len(q) + 1 /\ (\A i \in 1 .. Len(q) : y[i] = q[i])
      /\ y[Len(q) + 1] = e /\ Len(q) \in Nat
  BY SeqAppend, SeqBasics DEF Queue
<1> HIDE DEF y
<1>2. p \notin e.dec /\ p \notin Unhandled(e)
  BY DEF RequestOK
<1>3. \A i \in 1 .. Len(y) : p \in Unhandled(y[i]) => i \in 1 .. Len(q) /\ y[i] = q[i]
  BY <1>1, <1>2
<1>4. Holds(y, p) = Holds(q, p)
  BY <1>1, <1>2 DEF Holds
<1>5. Counted(y, s, p, r)
  BY <1>4 DEF Pair, Counted
<1>6. Older(y, p, n)
  <2>1. \A i \in 1 .. Len(y) : i \in 1 .. Len(q) \/ i = Len(q) + 1
    BY <1>1
  <2> QED BY <1>1, <2>1 DEF Pair, Older
<1>7. PICK cut \in 0 .. Len(q) : ChainedFrom(q, p, r, cut)
  BY DEF Pair, Chained
<1>8. ASSUME NEW i \in 1 .. Len(y), p \in Unhandled(y[i])
      PROVE  IF i <= cut THEN Overtaken(y, p, r, i) ELSE InOrder(y, p, r, i)
  <2>1. i \in 1 .. Len(q) /\ y[i] = q[i]
    BY <1>3, <1>8
  <2>2. IF i <= cut THEN Overtaken(q, p, r, i) ELSE InOrder(q, p, r, i)
    BY <1>7, <1>8, <2>1 DEF ChainedFrom
  <2>3. Overtaken(q, p, r, i) => Overtaken(y, p, r, i)
    BY <2>1 DEF Overtaken
  <2>4. InOrder(q, p, r, i) => InOrder(y, p, r, i)
    <3>1. \A j \in i + 1 .. Len(y) : p \in Unhandled(y[j]) => j \in i + 1 .. Len(q) /\ y[j] = q[j]
      BY <1>1, <1>3, <2>1
    <3> QED BY <2>1, <3>1 DEF InOrder
  <2> QED BY <2>2, <2>3, <2>4
<1>9. cut \in 0 .. Len(y) /\ ChainedFrom(y, p, r, cut)
  BY <1>1, <1>8 DEF ChainedFrom
<1>10. Pair(y, s, p, r, n)
  BY <1>5, <1>6, <1>9 DEF Pair, Chained
<1> QED BY <1>10 DEF y

(* The partitions it does: tryAddBatch has drained one more batch.         *)
LEMMA AddedPair ==
    ASSUME NEW q, NEW e, NEW s \in Sinks, NEW p, NEW r, NEW d, NEW n, Queue(q), RequestOK(e),
           BufOK(r, d, n), Pair(q, s, p, r, n), r.on \in {None, s}, r.idx < Len(r.batches),
           p \in e.dec, e.st # "handling", e.bs[p].first = r.batches[r.idx + 1].first,
           NEW x, x.idx = r.idx + 1, x.inflight = r.inflight + 1, x.on = s,
           x.batches \in Seq(AnyBatch), Len(x.batches) = Len(r.batches),
           \A k \in 1 .. Len(r.batches) : x.batches[k].first = r.batches[k].first
    PROVE  Pair(Append(q, e), s, p, x, n)
<1> DEFINE y == Append(q, e)
           l == Len(q) + 1
<1>1. /\ Len(y) = l /\ (\A i \in 1 .. Len(q) : y[i] = q[i]) /\ y[l] = e /\ Len(q) \in Nat
  BY SeqAppend, SeqBasics DEF Queue
<1> HIDE DEF y
<1>2. /\ r.batches \in Seq(AnyBatch) /\ Len(r.batches) \in Nat /\ r.idx \in 0 .. Len(r.batches) - 1
      /\ (r.batches = <<>> <=> Len(r.batches) = 0) /\ (x.batches = <<>> <=> Len(x.batches) = 0)
      /\ r.inflight \in Nat /\ (r.on = None <=> r.inflight = 0) /\ Ordered(r.batches, n) /\ n \in Nat
  BY EmptyBatches DEF BufOK, BufShape, Runs
<1>3. \A k \in 1 .. Len(r.batches) : r.batches[k].first \in Nat /\ r.batches[k].n \in Nat \ {0}
  <2>1. \A k \in 1 .. Len(r.batches) : r.batches[k] \in AnyBatch
    BY <1>2, ElementOfSeq
  <2> QED BY <2>1 DEF AnyBatch
<1>a. /\ r.idx + 1 \in 1 .. x.idx /\ r.idx + 1 \in 1 .. Len(r.batches)
      /\ \A k \in 1 .. r.idx : k \in 1 .. x.idx /\ k \in 1 .. Len(r.batches) /\ k < r.idx + 1
  <2> DEFINE h == r.idx
             m == Len(r.batches)
  <2>1. h \in 0 .. m - 1 /\ m \in Nat /\ x.idx = h + 1
    BY <1>2
  <2>2. h + 1 \in 1 .. h + 1 /\ h + 1 \in 1 .. m /\ \A k \in 1 .. h : k \in 1 .. h + 1 /\ k \in 1 .. m /\ k < h + 1
    <3> HIDE DEF h, m
    <3> QED BY <2>1
  <2> QED BY <2>1, <2>2
<1>4. Counted(y, s, p, x)
  <2> DEFINE T == Holds(q, p)
  <2>1. l \notin T /\ Holds(y, p) = T \cup {l}
    BY <1>1 DEF Holds
  <2>2. Numbered(r.inflight, T)
    <3>1. CASE r.on = s
      BY <3>1 DEF Pair, Counted
    <3>2. CASE r.on # s
      BY <1>2, <3>2, NumberedNone DEF Pair, Counted
    <3> QED BY <3>1, <3>2
  <2>3. Numbered(r.inflight + 1, T \cup {l})
    <3> HIDE DEF T, l
    <3> QED BY <1>2, <2>1, <2>2, NumberedMore
  <2> QED BY <2>1, <2>3 DEF Counted
<1>5. Older(y, p, n)
  <2>2. e.bs[p].first < n
    <3> DEFINE u == r.batches[r.idx + 1].first
               v == r.batches[r.idx + 1].n
    <3>1. u \in Nat /\ v \in Nat \ {0} /\ u + v <= n /\ e.bs[p].first = u
      BY <1>2, <1>3, <1>a DEF Ordered
    <3> HIDE DEF u, v
    <3> QED BY <1>2, <3>1
  <2>3. \A i \in 1 .. Len(y) : i \in 1 .. Len(q) \/ i = l
    BY <1>1
  <2> QED BY <1>1, <2>2, <2>3 DEF Pair, Older
<1>6. PICK cut \in 0 .. Len(q) : ChainedFrom(q, p, r, cut)
  BY DEF Pair, Chained
<1>7. ASSUME NEW i \in 1 .. Len(y), p \in Unhandled(y[i])
      PROVE  IF i <= cut THEN Overtaken(y, p, x, i) ELSE InOrder(y, p, x, i)
  <2>1. CASE i = l
    <3>1. ~(i <= cut) /\ y[i] = e /\ \A j \in i + 1 .. Len(y) : FALSE
      BY <1>1, <2>1
    <3> QED BY <1>a, <3>1 DEF InOrder
  <2>2. CASE i \in 1 .. Len(q) /\ i <= cut
    <3>1. y[i] = q[i] /\ Overtaken(q, p, r, i)
      BY <1>1, <1>6, <1>7, <2>2 DEF ChainedFrom
    <3>2. 1 \in 1 .. Len(r.batches) /\ r.batches # <<>>
      BY <1>2
    <3> QED BY <2>2, <3>1, <3>2 DEF Overtaken
  <2>3. CASE i \in 1 .. Len(q) /\ ~(i <= cut)
    <3>1. y[i] = q[i] /\ InOrder(q, p, r, i)
      BY <1>1, <1>6, <1>7, <2>3 DEF ChainedFrom
    <3>2. PICK k \in 1 .. r.idx : q[i].bs[p].first = r.batches[k].first
      BY <3>1 DEF InOrder
    <3>3. k \in 1 .. x.idx /\ k \in 1 .. Len(r.batches) /\ r.idx + 1 \in 1 .. Len(r.batches) /\ k < r.idx + 1
      BY <1>a
    <3>4. \E m \in 1 .. x.idx : y[i].bs[p].first = x.batches[m].first
      BY <3>1, <3>2, <3>3
    <3>5. r.batches[k].first < r.batches[r.idx + 1].first
      <4>1. r.batches[k].first + r.batches[k].n <= r.batches[r.idx + 1].first
        BY <1>2, <3>3, Zenon DEF Ordered
      <4> DEFINE u == r.batches[k].first
                 v == r.batches[k].n
                 w == r.batches[r.idx + 1].first
      <4>2. u \in Nat /\ v \in Nat \ {0} /\ w \in Nat /\ u + v <= w
        BY <1>3, <3>3, <4>1
      <4>3. u < w
        <5> HIDE DEF u, v, w
        <5> QED BY <4>2
      <4> QED BY <4>3
    <3>6. ASSUME NEW j \in i + 1 .. Len(y), p \in Unhandled(y[j])
          PROVE  y[i].bs[p].first < y[j].bs[p].first
      <4>1. CASE j = l
        BY <1>1, <3>1, <3>2, <3>5, <4>1
      <4>2. CASE j # l
        <5>1. j \in i + 1 .. Len(q) /\ j \in 1 .. Len(q)
          <6>1. Len(y) = Len(q) + 1 /\ Len(q) \in Nat /\ i \in 1 .. Len(q) /\ j # Len(q) + 1
            BY <1>1, <2>3, <4>2
          <6> QED BY <3>6, <6>1
        <5> QED BY <1>1, <3>1, <3>6, <5>1 DEF InOrder
      <4> QED BY <4>1, <4>2
    <3> QED BY <2>3, <3>4, <3>6 DEF InOrder
  <2> QED BY <1>1, <2>1, <2>2, <2>3
<1>8. cut \in 0 .. Len(y) /\ ChainedFrom(y, p, x, cut)
  BY <1>1, <1>7 DEF ChainedFrom
<1>9. Pair(y, s, p, x, n)
  BY <1>4, <1>5, <1>8 DEF Pair, Chained
<1> QED BY <1>9 DEF y

-----------------------------------------------------------------------------
(* The first request lets go of partition p, all of it being handled.      *)
Released(y, q, p) ==
    /\ IsSeq(y) /\ Len(y) = Len(q) /\ Unhandled(q[1]) = {} /\ Unhandled(y[1]) = {}
    /\ y[1].dec = q[1].dec \ {p} /\ y[1].bs = q[1].bs /\ y[1].gen = q[1].gen
    /\ \A i \in 2 .. Len(q) : y[i] = q[i]

(* What is to be handled is in order as before.                            *)
LEMMA ReleasedChained ==
    ASSUME NEW q, NEW y, NEW p, NEW m, NEW r, NEW x, NEW n, Queue(q), q # <<>>, Released(y, q, m),
           Chained(q, p, r), Older(q, p, n), x.batches = r.batches, x.idx = r.idx
    PROVE  Chained(y, p, x) /\ Older(y, p, n)
<1>1. Len(q) \in Nat /\ Len(q) >= 1 /\ Len(y) = Len(q)
  BY SeqBasics, SeqTail DEF Queue, Released
<1>2. PICK cut \in 0 .. Len(q) : ChainedFrom(q, p, r, cut)
  BY DEF Chained
<1>3. \A i \in 1 .. Len(q) : y[i].bs = q[i].bs
  BY <1>1 DEF Released
<1>4. \A i \in 1 .. Len(q) : p \in Unhandled(y[i]) => p \in Unhandled(q[i])
  BY <1>1 DEF Released
<1>5. ASSUME NEW i \in 1 .. Len(q)
      PROVE  /\ Overtaken(q, p, r, i) => Overtaken(y, p, x, i)
             /\ InOrder(q, p, r, i) => InOrder(y, p, x, i)
  <2>1. Overtaken(q, p, r, i) => Overtaken(y, p, x, i)
    BY <1>3 DEF Overtaken
  <2>2. \A j \in i + 1 .. Len(q) : j \in 1 .. Len(q)
    BY <1>1
  <2>3. InOrder(q, p, r, i) => InOrder(y, p, x, i)
    BY <1>1, <1>3, <1>4, <2>2 DEF InOrder
  <2> QED BY <2>1, <2>3
<1>6. ChainedFrom(y, p, x, cut)
  BY <1>1, <1>2, <1>4, <1>5 DEF ChainedFrom
<1>7. Chained(y, p, x)
  BY <1>1, <1>6 DEF Chained
<1>8. Older(y, p, n)
  BY <1>1, <1>3 DEF Older
<1> QED BY <1>7, <1>8

(* decInflight: one request less holds the partition.                      *)
LEMMA ReleasedPair ==
    ASSUME NEW q, NEW y, NEW s \in Sinks, NEW p, NEW r, NEW n, Queue(q), q # <<>>, None \notin Sinks,
           BufShape(r), Pair(q, s, p, r, n), Released(y, q, p), p \in q[1].dec,
           NEW x, x.batches = r.batches, x.idx = r.idx, x.inflight = r.inflight - 1,
           x.on = IF r.inflight = 1 THEN None ELSE r.on
    PROVE  Pair(y, s, p, x, n) /\ r.on = s /\ r.inflight \in Nat \ {0}
<1>1. Len(q) \in Nat /\ Len(q) >= 1 /\ Len(y) = Len(q)
  BY SeqBasics, SeqTail DEF Queue, Released
<1>2. 1 \in Holds(q, p) /\ Holds(q, p) \subseteq 1 .. Len(q)
  BY <1>1 DEF Holds
<1>3. Holds(y, p) = Holds(q, p) \ {1}
  BY <1>1 DEF Holds, Released
<1>4. r.on = s /\ Numbered(r.inflight, Holds(q, p)) /\ r.inflight \in Nat \ {0}
  <2>1. r.on = s
    BY <1>2 DEF Pair, Counted
  <2> QED BY <2>1 DEF Pair, Counted, BufShape
<1>6. Numbered(r.inflight - 1, Holds(y, p))
  BY <1>2, <1>3, <1>4, NumberedLess
<1>7. Counted(y, s, p, x)
  <2>1. CASE r.inflight = 1
    <3>1. Holds(y, p) = {}
      BY <1>6, <2>1, NumberedNone
    <3> QED BY <2>1, <3>1 DEF Counted
  <2>2. CASE r.inflight # 1
    BY <1>4, <1>6, <2>2 DEF Counted
  <2> QED BY <2>1, <2>2
<1>8. Chained(y, p, x) /\ Older(y, p, n)
  BY ReleasedChained DEF Pair
<1> QED BY <1>4, <1>7, <1>8 DEF Pair

(* To other partitions it makes no difference.                             *)
LEMMA ReleasedOtherPair ==
    ASSUME NEW q, NEW y, NEW s, NEW p, NEW m, NEW r, NEW n, Queue(q), q # <<>>,
           Pair(q, s, p, r, n), Released(y, q, m), m # p
    PROVE  Pair(y, s, p, r, n)
<1>1. Len(q) \in Nat /\ Len(q) >= 1 /\ Len(y) = Len(q)
  BY SeqBasics, SeqTail DEF Queue, Released
<1>2. Holds(y, p) = Holds(q, p)
  BY <1>1 DEF Holds, Released
<1>3. Counted(y, s, p, r)
  BY <1>2 DEF Pair, Counted
<1>4. Chained(y, p, r) /\ Older(y, p, n)
  BY ReleasedChained DEF Pair
<1> QED BY <1>3, <1>4 DEF Pair

(* Nor to the other requests.                                              *)
LEMMA ReleasedQueue ==
    ASSUME NEW q, NEW y, NEW p, Queue(q), q # <<>>, Released(y, q, p), RequestOK(y[1])
    PROVE  Queue(y)
<1>1. Len(q) \in Nat /\ Len(q) >= 1 /\ Len(y) = Len(q)
  BY SeqBasics, SeqTail DEF Queue, Released
<1>3. ASSUME NEW i \in 1 .. Len(y)
      PROVE  RequestOK(y[i])
  <2>1. i = 1 \/ i \in 2 .. Len(q)
    BY <1>1
  <2> QED BY <1>1, <2>1 DEF Queue, Released
<1> QED BY <1>3 DEF Queue, Released

-----------------------------------------------------------------------------
(* The first request, which holds nothing any more, leaves the queue.      *)
Left(t, y) ==
    /\ IsSeq(t) /\ Len(y) >= 1 /\ Len(t) = Len(y) - 1
    /\ \A i \in 1 .. Len(t) : t[i] = y[i + 1]

(* The others stay as they are.                                            *)
LEMMA LeftQueue ==
    ASSUME NEW y, NEW t, Queue(y), Left(t, y)
    PROVE  Queue(t)
<1>1. Len(y) \in Nat /\ Len(y) >= 1 /\ Len(t) = Len(y) - 1 /\ \A i \in 1 .. Len(t) : t[i] = y[i + 1]
  BY SeqBasics DEF Queue, Left
<1>2. \A i \in 1 .. Len(t) : i + 1 \in 1 .. Len(y)
  BY <1>1
<1> QED BY <1>1, <1>2 DEF Queue, Left

(* What the others hold, and their order, stay.                            *)
LEMMA LeftPair ==
    ASSUME NEW y, NEW t, NEW s, NEW p, NEW r, NEW n, Queue(y), Left(t, y), y[1].dec = {},
           Pair(y, s, p, r, n), r.inflight \in Nat
    PROVE  Pair(t, s, p, r, n)
<1>1. Len(y) \in Nat /\ Len(y) >= 1 /\ Len(t) = Len(y) - 1 /\ \A i \in 1 .. Len(t) : t[i] = y[i + 1]
  BY SeqBasics DEF Queue, Left
<1>2. \A i \in 1 .. Len(t) : i + 1 \in 1 .. Len(y)
  BY <1>1
<1>3. Holds(y, p) \subseteq 2 .. Len(y)
  BY <1>1 DEF Holds
<1>4. Holds(t, p) = {i \in 1 .. Len(y) - 1 : i + 1 \in Holds(y, p)}
  BY <1>1, <1>2 DEF Holds
<1>5. Counted(t, s, p, r)
  <2>1. r.on = s => Numbered(r.inflight, Holds(t, p))
    BY <1>1, <1>3, <1>4, ShiftNumbered DEF Pair, Counted
  <2>2. Holds(y, p) = {} => Holds(t, p) = {}
    BY <1>4
  <2> QED BY <2>1, <2>2 DEF Pair, Counted
<1>6. Older(t, p, n)
  BY <1>1, <1>2 DEF Pair, Older
<1>7. PICK cut \in 0 .. Len(y) : ChainedFrom(y, p, r, cut)
  BY DEF Pair, Chained
<1> DEFINE k == IF cut = 0 THEN 0 ELSE cut - 1
<1>8. k \in 0 .. Len(t) /\ \A i \in 1 .. Len(t) : i <= k <=> i + 1 <= cut
  BY <1>1
<1> HIDE DEF k
<1>9. ASSUME NEW i \in 1 .. Len(t)
      PROVE  /\ Overtaken(y, p, r, i + 1) => Overtaken(t, p, r, i)
             /\ InOrder(y, p, r, i + 1) => InOrder(t, p, r, i)
  <2>1. Overtaken(y, p, r, i + 1) => Overtaken(t, p, r, i)
    BY <1>1 DEF Overtaken
  <2>2. ASSUME NEW j \in i + 1 .. Len(t)
        PROVE  j + 1 \in i + 1 + 1 .. Len(y) /\ t[j] = y[j + 1]
    <3>1. j \in 1 .. Len(t) /\ j + 1 \in i + 1 + 1 .. Len(y)
      BY <1>1
    <3> QED BY <1>1, <3>1
  <2>3. InOrder(y, p, r, i + 1) => InOrder(t, p, r, i)
    <3> SUFFICES ASSUME InOrder(y, p, r, i + 1) PROVE InOrder(t, p, r, i)
      OBVIOUS
    <3>1. t[i] = y[i + 1]
      BY <1>1
    <3>2. ASSUME NEW j \in i + 1 .. Len(t), p \in Unhandled(t[j])
          PROVE  t[i].bs[p].first < t[j].bs[p].first
      BY <2>2, <3>1, <3>2 DEF InOrder
    <3>3. \E l \in 1 .. r.idx : t[i].bs[p].first = r.batches[l].first
      BY <3>1 DEF InOrder
    <3> QED BY <3>2, <3>3 DEF InOrder
  <2> QED BY <2>1, <2>3
<1>10. ChainedFrom(t, p, r, k)
  <2> SUFFICES ASSUME NEW i \in 1 .. Len(t), p \in Unhandled(t[i])
               PROVE  IF i <= k THEN Overtaken(t, p, r, i) ELSE InOrder(t, p, r, i)
    BY DEF ChainedFrom
  <2>1. i + 1 \in 1 .. Len(y) /\ p \in Unhandled(y[i + 1])
    BY <1>1, <1>2
  <2>2. IF i + 1 <= cut THEN Overtaken(y, p, r, i + 1) ELSE InOrder(y, p, r, i + 1)
    BY <1>7, <2>1 DEF ChainedFrom
  <2> QED BY <1>8, <1>9, <2>2
<1>11. Chained(t, p, r)
  BY <1>8, <1>10 DEF Chained
<1> QED BY <1>5, <1>6, <1>11 DEF Pair

-----------------------------------------------------------------------------
(* Only what is not about batches changes in a recBuf.                     *)
LEMMA SameBatches ==
    ASSUME NEW r, NEW x, BufShape(r), DOMAIN x = RecBufFields, x.batches = r.batches, x.idx = r.idx,
           x.inflight = r.inflight, x.on = r.on
    PROVE  SameBuf(x, r)
  BY DEF SameBuf, BufShape

(* One more batch of a recBuf is drained, on sink s.                       *)
Drained(x, r, s) ==
    /\ r.idx < Len(r.batches) /\ x.idx = r.idx + 1 /\ x.inflight = r.inflight + 1 /\ x.on = s
    /\ x.batches \in Seq(AnyBatch) /\ Len(x.batches) = Len(r.batches)
    /\ \A k \in 1 .. Len(r.batches) : x.batches[k].first = r.batches[k].first

(* tryAddBatch drains the next batch, whether or not it begins with        *)
(* sequence number 0 again.                                                *)
LEMMA tryAddBatchOK ==
    ASSUME NEW s \in Sinks, None \notin Sinks, NEW r, NEW d, NEW n, BufOK(r, d, n), Pending(r),
           NEW x, x = tryAddBatch(s, r)
    PROVE  BufOK(x, d, n) /\ Drained(x, r, s)
<1> DEFINE b == r.batches
           z == maybeSeqReset(r)
           i == r.idx + 1
           y == [b EXCEPT ![i].frozen = TRUE]
<1>1. /\ DOMAIN r = RecBufFields /\ b \in Seq(AnyBatch) /\ Len(b) \in Nat /\ r.idx \in 0 .. Len(b) - 1
      /\ r.inflight \in Nat
  BY LenProperties DEF BufOK, BufShape, Pending
<1>2. /\ DOMAIN z = RecBufFields /\ z.batches = b /\ z.idx = r.idx /\ z.inflight = r.inflight
  BY <1>1 DEF maybeSeqReset, RecBufFields
<1>3. x = [z EXCEPT !.batches[z.idx + 1].frozen = TRUE, !.on = s, !.inflight = @ + 1, !.idx = z.idx + 1,
                    !.seq = incrementSequence(@, z.batches[z.idx + 1].n)]
  BY DEF tryAddBatch
<1> HIDE DEF z
<1>4. DOMAIN x = RecBufFields /\ x.batches = y /\ x.on = s /\ x.inflight = r.inflight + 1 /\ x.idx = i
  BY <1>2, <1>3 DEF RecBufFields
<1>5. i \in 1 .. Len(b)
  BY <1>1
<1>6. \A k \in 1 .. Len(b) : b[k] \in AnyBatch
  BY <1>1, ElementOfSeq
<1>7. /\ y \in Seq(AnyBatch) /\ Len(y) = Len(b)
      /\ \A k \in 1 .. Len(b) : y[k].first = b[k].first /\ y[k].n = b[k].n
  <2> DEFINE e == [b[i] EXCEPT !.frozen = TRUE]
  <2>1. e \in AnyBatch /\ e.first = b[i].first /\ e.n = b[i].n
    BY <1>5, <1>6, Zenon DEF AnyBatch
  <2>2. y = [b EXCEPT ![i] = e]
    OBVIOUS
  <2> HIDE DEF e, y
  <2>3. /\ y \in Seq(AnyBatch) /\ Len(y) = Len(b)
        /\ \A k \in 1 .. Len(b) : y[k] = IF k = i THEN e ELSE b[k]
    BY <1>1, <1>5, <2>1, <2>2, ExceptSeq
  <2> QED BY <2>1, <2>3
<1> HIDE DEF y
<1>8. Runs(x.batches, d, n)
  BY <1>1, <1>4, <1>7, SameRuns, Zenon DEF BufOK
<1>9. BufShape(x)
  BY <1>1, <1>4, <1>5, <1>7 DEF BufShape
<1>10. r.idx < Len(b)
  BY <1>1
<1> QED BY <1>4, <1>7, <1>8, <1>9, <1>10 DEF BufOK, Drained

(* A request that is further along than f was, for the same partitions.    *)
Further(e, f) ==
    /\ RequestOK(e) /\ e.dec = f.dec /\ e.gen = f.gen /\ DOMAIN e.bs = DOMAIN f.bs
    /\ \A p \in DOMAIN f.bs : e.bs[p].first = f.bs[p].first
    /\ Unhandled(e) \subseteq Unhandled(f)

Advanced(y, q, i, e) == Similar(y, q) /\ Queue(y) /\ y[i] = e

(* One request of a queue gets further.                                    *)
LEMMA FurtherQueue ==
    ASSUME NEW q, Queue(q), NEW i, i \in 1 .. Len(q), NEW e, Further(e, q[i]), NEW y, y = [q EXCEPT ![i] = e]
    PROVE  Advanced(y, q, i, e)
<1>1. Replaced(y, q, i, e)
  BY SeqExcept, Zenon DEF Queue
<1>a. /\ IsSeq(y) /\ Len(y) = Len(q)
      /\ \A j \in 1 .. Len(q) : y[j] = IF j = i THEN e ELSE q[j]
  BY <1>1 DEF Replaced
<1>2. ASSUME NEW j \in 1 .. Len(q)
      PROVE  /\ y[j].dec = q[j].dec /\ y[j].gen = q[j].gen /\ DOMAIN y[j].bs = DOMAIN q[j].bs
             /\ \A p \in DOMAIN q[j].bs : y[j].bs[p].first = q[j].bs[p].first
             /\ Unhandled(y[j]) \subseteq Unhandled(q[j])
             /\ RequestOK(y[j])
  <2>1. CASE j = i
    BY <1>a, <2>1 DEF Further
  <2>2. CASE j # i
    BY <1>a, <2>2 DEF Queue
  <2> QED BY <2>1, <2>2
<1> QED BY <1>a, <1>2 DEF Similar, Queue, Advanced

(* cannotFail keeps the batches.                                           *)
LEMMA cannotFailOK ==
    ASSUME NEW r, NEW ks, BufShape(r)
    PROVE  SameBuf(cannotFail(r, ks), r)
<1> DEFINE b == r.batches
           w == [k \in 1 .. Len(b) |-> IF k \in ks THEN [b[k] EXCEPT !.canFail = FALSE] ELSE b[k]]
           x == cannotFail(r, ks)
<1>1. DOMAIN r = RecBufFields /\ b \in Seq(AnyBatch) /\ Len(b) \in Nat
  BY LenProperties DEF BufShape
<1>2. \A k \in 1 .. Len(b) : b[k] \in AnyBatch
  BY <1>1, ElementOfSeq
<1>3. x = [r EXCEPT !.batches = w]
  BY DEF cannotFail
<1>4. ASSUME NEW k \in 1 .. Len(b)
      PROVE  w[k] \in AnyBatch /\ w[k].first = b[k].first /\ w[k].n = b[k].n
  <2>1. b[k] \in AnyBatch /\ (w[k] = b[k] \/ w[k] = [b[k] EXCEPT !.canFail = FALSE])
    BY <1>2
  <2> HIDE DEF w
  <2> QED BY <2>1, Zenon DEF AnyBatch
<1>5. DOMAIN w = 1 .. Len(b) /\ w = [k \in 1 .. Len(b) |-> w[k]]
  OBVIOUS
<1> HIDE DEF w, x
<1>6. w \in Seq(AnyBatch) /\ Len(w) = Len(b)
  <2>1. w \in [1 .. Len(b) -> AnyBatch]
    BY <1>4, <1>5
  <2>2. w \in Seq(AnyBatch)
    BY <1>1, <2>1, FunctionSeq
  <2> QED BY <1>1, <1>5, <2>2, LenProperties
<1>7. DOMAIN x = RecBufFields /\ x.batches = w /\ x.idx = r.idx /\ x.inflight = r.inflight /\ x.on = r.on
  BY <1>1, <1>3 DEF RecBufFields
<1>8. SameBuf(x, r)
  BY <1>4, <1>6, <1>7 DEF SameBuf
<1> QED BY <1>8 DEF x

(* A request is further along, its response still to be handled.           *)
LEMMA FurtherUnhandled ==
    ASSUME NEW f, NEW e, RequestOK(f), f.st # "handling", e.st # "handling", DOMAIN e = RequestFields,
           e.gen = f.gen, e.bs = f.bs, e.dec = f.dec, e.todo = f.todo, e.miss = f.miss, e.retry = f.retry,
           e.st = "replied" => DOMAIN e.resp \subseteq DOMAIN f.bs
    PROVE  Further(e, f)
<1>1. Unhandled(e) = DOMAIN f.bs /\ Unhandled(f) = DOMAIN f.bs
  BY DEF Unhandled
<1>2. RequestOK(e)
  BY <1>1 DEF RequestOK
<1> QED BY <1>1, <1>2 DEF Further

(* responded keeps the batches.                                            *)
LEMMA respondedOK ==
    ASSUME NEW r, BufShape(r), r.batches # <<>>
    PROVE  SameBuf(responded(r), r)
<1> DEFINE b == r.batches
           e == [b[1] EXCEPT !.canFail = TRUE]
           y == [b EXCEPT ![1] = e]
           x == responded(r)
<1>1. DOMAIN r = RecBufFields /\ b \in Seq(AnyBatch) /\ Len(b) \in Nat \ {0} /\ 1 \in 1 .. Len(b)
  BY EmptySeq DEF BufShape
<1>2. e \in AnyBatch /\ e.first = b[1].first /\ e.n = b[1].n
  <2>1. b[1] \in AnyBatch
    BY <1>1, ElementOfSeq
  <2> QED BY <2>1, Zenon DEF AnyBatch
<1>3. x = [r EXCEPT !.batches = y, !.ok = FALSE]
  BY DEF responded
<1> HIDE DEF e
<1>4. /\ y \in Seq(AnyBatch) /\ Len(y) = Len(b)
      /\ \A k \in 1 .. Len(b) : y[k] = IF k = 1 THEN e ELSE b[k]
  BY <1>1, <1>2, ExceptSeq
<1> HIDE DEF y, x
<1>5. DOMAIN x = RecBufFields /\ x.batches = y /\ x.idx = r.idx /\ x.inflight = r.inflight /\ x.on = r.on
  BY <1>1, <1>3 DEF RecBufFields
<1>6. SameBuf(x, r)
  BY <1>2, <1>4, <1>5 DEF SameBuf
<1> QED BY <1>6 DEF x

(* So do all that follows from a response that is not the last word.       *)
LEMMA SameBufTrans ==
    ASSUME NEW x, NEW r, NEW z, SameBuf(r, z), DOMAIN x = RecBufFields, x.batches = r.batches,
           x.idx = r.idx, x.inflight = r.inflight, x.on = r.on
    PROVE  SameBuf(x, z)
  BY DEF SameBuf

(* The recBuf a response's error is looked at with.                        *)
LEMMA decidedOK ==
    ASSUME NEW r, NEW code, BufShape(r), r.batches # <<>>
    PROVE  SameBuf(checkUnknownFailLimit(responded(r), code), r)
<1> DEFINE z == responded(r)
           x == checkUnknownFailLimit(z, code)
<1>1. SameBuf(z, r)
  BY respondedOK
<1> HIDE DEF z
<1>2. DOMAIN x = RecBufFields /\ x.batches = z.batches /\ x.idx = z.idx /\ x.inflight = z.inflight /\ x.on = z.on
  BY <1>1 DEF checkUnknownFailLimit, SameBuf, RecBufFields
<1> HIDE DEF x
<1>3. SameBuf(x, r)
  BY <1>1, <1>2, SameBufTrans
<1> QED BY <1>3 DEF x, z
=============================================================================
