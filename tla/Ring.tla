-------------------------------- MODULE Ring --------------------------------
(***************************************************************************)
(* The ring of pkg/kgo/ring.go, with the worker protocol that every user   *)
(* of a ring follows (broker.do and handleReqs, brokerCxn.waitResp and     *)
(* handleResps, sink.doSequenced and handleSeqResps, producer.promiseBatch *)
(* and finishPromises): the pusher of the first element starts the worker, *)
(* the worker drops an element only once it is done with it, and quits     *)
(* when dropPeek says that there is no more.                               *)
(*                                                                         *)
(* push, dropPeek and die hold the ring's mutex and are one step each.     *)
(* Starting the worker goroutine happens after push released the mutex and *)
(* is a step of its own.  An element counts as handled when its worker     *)
(* comes back for the next one.                                            *)
(***************************************************************************)
EXTENDS Integers, Sequences

CONSTANTS
    Eight,      \* number of slots (eight in the code)
    Pushers,    \* goroutines that push
    MaxPush,    \* bound on the number of pushes
    NoElem      \* the zero value of an element

ASSUME EightAssumption == Eight \in Nat \ {0}
ASSUME MaxPushAssumption == MaxPush \in Nat
ASSUME NoElemAssumption == NoElem \notin Nat

(* The i-th push brings element i: all elements are different.  A worker   *)
(* goroutine is named after the element it was started with.               *)
Elems == 1 .. MaxPush
Slots == 0 .. Eight - 1

VARIABLES
    elems,      \* the slots
    head, tail, \* the slot of the first element, the slot of the next push
    l,          \* number of slots in use
    overflow,   \* elements beyond the slots
    dead,       \* die was called
    starting,   \* per pusher: the element it is about to start a worker with
    holds,      \* per worker: the element it works on, NoElem if not running
    sawDead,    \* the workers whose last dropPeek returned dead
    nextElem,   \* the element the next push brings
    handled,    \* history: elements workers are done with, in order
    late        \* history: elements handled normally after die

ring == <<elems, head, tail, l, overflow, dead>>
vars == <<elems, head, tail, l, overflow, dead, starting, holds, sawDead,
          nextElem, handled, late>>

(* i & mask7                                                               *)
Mask(i) == i % Eight

Init ==
    /\ elems = [i \in Slots |-> NoElem]
    /\ head = 0
    /\ tail = 0
    /\ l = 0
    /\ overflow = <<>>
    /\ dead = FALSE
    /\ starting = [p \in Pushers |-> NoElem]
    /\ holds = [w \in Elems |-> NoElem]
    /\ sawDead = {}
    /\ nextElem = 1
    /\ handled = <<>>
    /\ late = 0

-----------------------------------------------------------------------------
(* push on a dead ring: the element is refused, and the pusher fails its   *)
(* promise itself.                                                         *)
PushDead ==
    /\ dead
    /\ UNCHANGED <<elems, head, tail, l, overflow, starting>>

(* Mutant of PushOverflow: the new element goes to the front.              *)
PushOverflowFront ==
    /\ ~dead
    /\ l = Eight \/ Len(overflow) > 0
    /\ overflow' = <<nextElem>> \o overflow
    /\ UNCHANGED <<elems, head, tail, l, starting>>

(* push when the slots are full, or when overflow is already in use.       *)
PushOverflow ==
    /\ ~dead
    /\ l = Eight \/ Len(overflow) > 0
    /\ overflow' = Append(overflow, nextElem)
    /\ UNCHANGED <<elems, head, tail, l, starting>>

(* Mutant of PushSlot: who fills the first slot is taken for the first.    *)
PushSlotZero(p) ==
    /\ ~dead
    /\ l # Eight
    /\ Len(overflow) = 0
    /\ elems' = [elems EXCEPT ![tail] = nextElem]
    /\ tail' = Mask(tail + 1)
    /\ l' = l + 1
    /\ starting' = IF tail = 0 THEN [starting EXCEPT ![p] = nextElem] ELSE starting
    /\ UNCHANGED <<head, overflow>>

(* push into the slots; the pusher of the first element has to start the   *)
(* worker.                                                                 *)
PushSlot(p) ==
    /\ ~dead
    /\ l # Eight
    /\ Len(overflow) = 0
    /\ elems' = [elems EXCEPT ![tail] = nextElem]
    /\ tail' = Mask(tail + 1)
    /\ l' = l + 1
    /\ starting' = IF l' = 1 THEN [starting EXCEPT ![p] = nextElem] ELSE starting
    /\ UNCHANGED <<head, overflow>>

push(p) ==
    /\ starting[p] = NoElem
    /\ nextElem <= MaxPush
    /\ nextElem' = nextElem + 1
    /\ PushDead \/ PushOverflow \/ PushSlot(p)
    /\ UNCHANGED <<dead, holds, sawDead, handled, late>>

(* if first { go handleReqs(pr) }                                          *)
StartWorker(p) ==
    /\ starting[p] # NoElem
    /\ holds' = [holds EXCEPT ![starting[p]] = starting[p]]
    /\ sawDead' = sawDead \ {starting[p]}
    /\ starting' = [starting EXCEPT ![p] = NoElem]
    /\ UNCHANGED <<ring, nextElem, handled, late>>

(* dropPeek while there are elements in the slots.                         *)
DropSlot(w) ==
    /\ l >= 1
    /\ elems' = [elems EXCEPT ![head] = NoElem]
    /\ head' = Mask(head + 1)
    /\ l' = l - 1
    /\ holds' = [holds EXCEPT ![w] = IF l > 1 THEN elems[Mask(head + 1)]
                                     ELSE IF Len(overflow) = 0 THEN NoElem
                                     ELSE overflow[1]]
    /\ UNCHANGED overflow

(* dropPeek once the slots are empty: the element just done is the first   *)
(* of overflow.  (With overflow empty too the code would panic.)           *)
DropOverflow(w) ==
    /\ l = 0
    /\ Len(overflow) > 0
    /\ overflow' = Tail(overflow)
    /\ holds' = [holds EXCEPT ![w] = IF Len(overflow) > 1 THEN overflow[2] ELSE NoElem]
    /\ UNCHANGED <<elems, head, l>>

(* Mutant of dropPeek: it does not report that the ring died.              *)
dropPeekUnaware(w) ==
    /\ holds[w] # NoElem
    /\ handled' = Append(handled, holds[w])
    /\ DropSlot(w) \/ DropOverflow(w)
    /\ late' = IF dead /\ w \notin sawDead THEN late + 1 ELSE late
    /\ UNCHANGED <<tail, dead, starting, nextElem, sawDead>>

dropPeek(w) ==
    /\ holds[w] # NoElem
    /\ handled' = Append(handled, holds[w])
    /\ DropSlot(w) \/ DropOverflow(w)
    /\ late' = IF dead /\ w \notin sawDead THEN late + 1 ELSE late
    /\ sawDead' = IF dead THEN sawDead \cup {w} ELSE sawDead \ {w}
    /\ UNCHANGED <<tail, dead, starting, nextElem>>

die ==
    /\ ~dead
    /\ dead' = TRUE
    /\ UNCHANGED <<elems, head, tail, l, overflow, starting, holds, sawDead,
                   nextElem, handled, late>>

Next ==
    \/ \E p \in Pushers : push(p) \/ StartWorker(p)
    \/ \E w \in Elems : dropPeek(w)
    \/ die

(* A started goroutine keeps running, and handling an element ends: the    *)
(* promises behind a ring always return.                                   *)
Fairness ==
    /\ \A p \in Pushers : WF_vars(StartWorker(p))
    /\ \A w \in Elems : WF_vars(dropPeek(w))

Spec == Init /\ [][Next]_vars /\ Fairness
-----------------------------------------------------------------------------
(* What is in the ring, first element first.                               *)
InSlots == [i \in 1 .. l |-> elems[Mask(head + i - 1)]]
Contents == InSlots \o overflow

Starting == {p \in Pushers : starting[p] # NoElem}
Running == {w \in Elems : holds[w] # NoElem}

(* Types of ring.go's fields and of the histories.                         *)
TypeOK ==
    /\ elems \in [Slots -> Elems \cup {NoElem}]
    /\ head \in Slots
    /\ tail \in Slots
    /\ l \in 0 .. Eight
    /\ overflow \in Seq(Elems)
    /\ dead \in BOOLEAN
    /\ starting \in [Pushers -> Elems \cup {NoElem}]
    /\ holds \in [Elems -> Elems \cup {NoElem}]
    /\ sawDead \subseteq Elems
    /\ nextElem \in 1 .. MaxPush + 1
    /\ handled \in Seq(Elems)
    /\ late \in Nat

(* The serial handling the users of a ring rely on: never are two workers  *)
(* running or about to be started, and none is while the ring is empty, so *)
(* dropPeek never indexes an empty overflow.                               *)
OneWorker ==
    /\ \A p, q \in Starting : p = q
    /\ \A v, w \in Running : v = w
    /\ Starting = {} \/ Running = {}
    /\ (Starting # {} \/ Running # {}) <=> l + Len(overflow) > 0

(* The worker (or the one about to start) has the first element, whether   *)
(* that one is in a slot or, after the slots were drained, in overflow.    *)
HoldsFirst ==
    /\ \A w \in Running : holds[w] = Contents[1]
    /\ \A p \in Starting : starting[p] = Contents[1]

(* dropPeek zeroes what it drops: no slot outside the live ones keeps an   *)
(* element (and what it references) alive, and no live one is zero.        *)
SlotsReleased ==
    \A i \in 0 .. Eight - 1 : (elems[Mask(head + i)] = NoElem) <=> (i >= l)

(* die takes effect promptly: all but the element a worker is working on   *)
(* when the ring dies see it dead and are failed, not handled.             *)
DeathIsPrompt == late <= 1

(* The ring is a FIFO queue served one element at a time, each accepted    *)
(* element exactly once and in order, and none is left behind: the         *)
(* abstract queue with the ring's contents as its queue.                   *)
Queue == INSTANCE RingQueue WITH q <- Contents
QueueSpec == Queue!Spec
=============================================================================
