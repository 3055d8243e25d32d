----------------------------- MODULE RingProofs -----------------------------
(***************************************************************************)
(* Proofs about Ring, for any number of slots, pushers and pushes.         *)
(*                                                                         *)
(* The inductive invariant adds to the properties of Ring where the next   *)
(* push goes (Window) and what a worker that outlives die has seen         *)
(* (DeathSeen); it speaks of the first element by its place (First), which *)
(* ContentsSeq shows to be the head of the contents.                       *)
(***************************************************************************)
EXTENDS Ring, SequenceTheorems, TLAPS

First == IF l > 0 THEN elems[head] ELSE overflow[1]

Window == tail = Mask(head + l)

HoldFirst ==
    /\ \A w \in Running : holds[w] = First
    /\ \A p \in Starting : starting[p] = First

DeathSeen ==
    /\ late \in {0, 1}
    /\ \A w \in Running : w \in sawDead => dead
    /\ late = 1 => dead /\ Starting = {} /\ Running \subseteq sawDead

RingInv == TypeOK /\ Window /\ SlotsReleased /\ OneWorker /\ HoldFirst /\ DeathSeen

-----------------------------------------------------------------------------
(* Masking an index that has gone around at most once.                     *)
LEMMA MaskValue ==
    ASSUME NEW i \in 0 .. 2 * Eight - 1
    PROVE  Mask(i) = IF i < Eight THEN i ELSE i - Eight
  BY EightAssumption, SMTT(30) DEF Mask

(* The same, quantified, with the range of the result.                     *)
LEMMA MaskValues ==
    \A i \in 0 .. 2 * Eight - 1 : /\ Mask(i) = IF i < Eight THEN i ELSE i - Eight
                                  /\ Mask(i) \in Slots
  BY MaskValue, EightAssumption DEF Slots

(* Different offsets below Eight from a slot reach different slots, and    *)
(* going on from the next slot is the same as going one further.           *)
LEMMA MaskOffsets ==
    ASSUME NEW h \in Slots, NEW i \in 0 .. Eight - 1
    PROVE  /\ Mask(h + i) \in Slots
           /\ Mask(h + 0) = h
           /\ Mask(h + Eight) = h
           /\ \A j \in 0 .. Eight - 1 : Mask(h + i) = Mask(h + j) <=> i = j
           /\ Mask(Mask(h + 1) + i) = Mask(h + (i + 1))
<1>1. /\ h \in 0 .. 2 * Eight - 1 /\ h + 0 = h /\ h + i \in 0 .. 2 * Eight - 1
      /\ h + 1 \in 0 .. 2 * Eight - 1 /\ h + (i + 1) \in 0 .. 2 * Eight - 1
      /\ h + Eight \in 0 .. 2 * Eight - 1
      /\ \A j \in 0 .. Eight - 1 : h + j \in 0 .. 2 * Eight - 1
  BY EightAssumption DEF Slots
<1>2. Mask(h + 0) = h /\ Mask(h + Eight) = h /\ Mask(h + i) \in Slots
  BY <1>1, MaskValues, EightAssumption DEF Slots
<1>3. Mask(h + i) = IF h + i < Eight THEN h + i ELSE h + i - Eight
  BY <1>1, MaskValues, EightAssumption DEF Slots
<1>4. ASSUME NEW j \in 0 .. Eight - 1 PROVE Mask(h + i) = Mask(h + j) <=> i = j
  <2>1. Mask(h + j) = IF h + j < Eight THEN h + j ELSE h + j - Eight
    BY <1>1, MaskValues, EightAssumption DEF Slots
  <2> QED BY <1>3, <2>1, EightAssumption DEF Slots
<1>5. Mask(Mask(h + 1) + i) = Mask(h + (i + 1))
  <2>1. Mask(h + 1) = IF h + 1 < Eight THEN h + 1 ELSE h + 1 - Eight
    BY <1>1, MaskValues, EightAssumption DEF Slots
  <2>2. Mask(h + 1) + i \in 0 .. 2 * Eight - 1
    BY <2>1, EightAssumption DEF Slots
  <2>3. Mask(Mask(h + 1) + i) = IF Mask(h + 1) + i < Eight THEN Mask(h + 1) + i
                                ELSE Mask(h + 1) + i - Eight
    BY <2>1, <2>2, MaskValues, EightAssumption DEF Slots
  <2>4. Mask(h + (i + 1)) = IF h + (i + 1) < Eight THEN h + (i + 1) ELSE h + (i + 1) - Eight
    BY <1>1, MaskValues, EightAssumption DEF Slots
  <2> QED BY <2>1, <2>3, <2>4, EightAssumption DEF Slots
<1> QED BY <1>2, <1>4, <1>5

(* An empty ring satisfies the invariant.                                  *)
LEMMA InitRingInv == Init => RingInv
<1> SUFFICES ASSUME Init PROVE RingInv
  OBVIOUS
<1>1. TypeOK
  <2>1. dead \in BOOLEAN
    BY Zenon DEF Init
  <2>2. head \in Slots /\ tail \in Slots /\ l \in 0 .. Eight
    BY EightAssumption DEF Init, Slots
  <2>3. overflow \in Seq(Elems) /\ handled \in Seq(Elems)
    BY DEF Init
  <2>4. nextElem \in 1 .. MaxPush + 1 /\ late \in Nat /\ sawDead \subseteq Elems
    BY MaxPushAssumption DEF Init
  <2> QED BY <2>1, <2>2, <2>3, <2>4 DEF Init, TypeOK
<1>2. Window
  BY MaskValues, EightAssumption DEF Init, Window
<1>3. SlotsReleased
  BY MaskValues, EightAssumption DEF Init, SlotsReleased
<1>4. OneWorker
  BY DEF Init, OneWorker, Starting, Running
<1>5. HoldFirst
  BY DEF Init, HoldFirst, Starting, Running
<1>6. DeathSeen
  BY DEF Init, DeathSeen, Running
<1> QED BY <1>1, <1>2, <1>3, <1>4, <1>5, <1>6 DEF RingInv

(* push preserves the invariant: it adds behind what is there, and asks    *)
(* for a worker exactly when the ring was empty.                           *)
LEMMA PushInv == ASSUME RingInv, NEW p \in Pushers, push(p) PROVE RingInv'
<1> USE DEF RingInv
<1>1. CASE PushDead
  <2>1. TypeOK'
    BY <1>1, MaxPushAssumption DEF push, PushDead, TypeOK
  <2>2. Window' /\ SlotsReleased'
    BY <1>1 DEF push, PushDead, Window, SlotsReleased, Mask
  <2>3. OneWorker' /\ HoldFirst' /\ DeathSeen'
    BY <1>1 DEF push, PushDead, OneWorker, HoldFirst, First, DeathSeen, Starting, Running
  <2> QED BY <2>1, <2>2, <2>3
<1>2. CASE PushOverflow
  <2>1. TypeOK'
    BY <1>2, MaxPushAssumption DEF push, PushOverflow, TypeOK, Elems
  <2>2. Window' /\ SlotsReleased'
    BY <1>2 DEF push, PushOverflow, Window, SlotsReleased, Mask
  <2>3. Len(overflow') = Len(overflow) + 1 /\ (Len(overflow) > 0 => overflow'[1] = overflow[1])
    BY <1>2 DEF push, PushOverflow, TypeOK
  <2>4. l + Len(overflow) > 0 /\ l + Len(overflow') > 0 /\ First' = First
    BY <1>2, <2>3, EightAssumption DEF push, PushOverflow, TypeOK, First
  <2>5. OneWorker' /\ HoldFirst' /\ DeathSeen'
    BY <1>2, <2>4 DEF push, PushOverflow, OneWorker, HoldFirst, DeathSeen, Starting, Running
  <2> QED BY <2>1, <2>2, <2>5
<1>3. CASE PushSlot(p)
  <2>0. nextElem \in Elems /\ nextElem # NoElem
    BY MaxPushAssumption, NoElemAssumption DEF push, TypeOK, Elems
  <2>1. TypeOK'
    BY <1>3, <2>0, MaskValues, EightAssumption, MaxPushAssumption
       DEF push, PushSlot, TypeOK, Slots
  <2>2. Window'
    BY <1>3, MaskValues, EightAssumption, SMTT(40) DEF push, PushSlot, TypeOK, Window, Slots
  <2>3. SlotsReleased'
    <3> SUFFICES ASSUME NEW i \in 0 .. Eight - 1
                 PROVE  (elems'[Mask(head + i)] = NoElem) <=> (i >= l + 1)
      BY <1>3 DEF push, PushSlot, SlotsReleased, Mask
    <3>1. Mask(head + i) \in Slots /\ (Mask(head + i) = tail <=> i = l)
      <4>1. l \in 0 .. Eight - 1 /\ head \in Slots
        BY <1>3, EightAssumption DEF PushSlot, TypeOK
      <4> QED BY <4>1, MaskOffsets DEF Window
    <3>2. (elems[Mask(head + i)] = NoElem) <=> (i >= l)
      BY DEF SlotsReleased
    <3>3. elems'[Mask(head + i)] = IF i = l THEN nextElem ELSE elems[Mask(head + i)]
      BY <1>3, <3>1 DEF PushSlot, TypeOK
    <3> QED BY <2>0, <3>2, <3>3 DEF TypeOK
  <2>4. CASE l = 0
    <3>1. First' = nextElem /\ l' = 1
      BY <1>3, <2>4, MaskValues, EightAssumption
         DEF push, PushSlot, TypeOK, Window, First, Slots
    <3>2. Starting = {} /\ Running = {}
      BY <1>3, <2>4 DEF PushSlot, OneWorker
    <3>3. Starting' = {p} /\ Running' = {} /\ starting'[p] = nextElem
      BY <1>3, <2>0, <3>1, <3>2 DEF push, PushSlot, TypeOK, Starting, Running
    <3>4. late = 0
      BY <1>3 DEF PushSlot, DeathSeen
    <3> QED BY <1>3, <2>1, <2>2, <2>3, <3>1, <3>3, <3>4
            DEF push, PushSlot, TypeOK, OneWorker, HoldFirst, DeathSeen
  <2>5. CASE l # 0
    <3>1. First' = First /\ l' > 1
      BY <1>3, <2>5, MaskValues, EightAssumption, SMTT(40)
         DEF push, PushSlot, TypeOK, Window, First, Slots
    <3>2. starting' = starting
      BY <1>3, <2>5, <3>1 DEF PushSlot
    <3> QED BY <1>3, <2>1, <2>2, <2>3, <2>5, <3>1, <3>2
            DEF push, PushSlot, TypeOK, OneWorker, HoldFirst, DeathSeen, Starting, Running
  <2> QED BY <2>4, <2>5
<1> QED BY <1>1, <1>2, <1>3 DEF push

(* Starting the worker goroutine preserves it.                             *)
LEMMA StartInv == ASSUME RingInv, NEW p \in Pushers, StartWorker(p) PROVE RingInv'
<1> USE DEF RingInv
<1>0. starting[p] \in Elems /\ starting[p] # NoElem
  BY DEF StartWorker, TypeOK
<1>1. TypeOK'
  BY <1>0 DEF StartWorker, TypeOK, ring
<1>2. Window' /\ SlotsReleased'
  BY DEF StartWorker, Window, SlotsReleased, Mask, ring
<1>3. First' = First /\ l' + Len(overflow') = l + Len(overflow)
  BY DEF StartWorker, First, ring
<1>4. Starting = {p} /\ Running = {} /\ starting[p] = First /\ l + Len(overflow) > 0
  BY DEF StartWorker, OneWorker, HoldFirst, Starting
<1>5. Starting' = {} /\ Running' = {starting[p]} /\ holds'[starting[p]] = First
  BY <1>0, <1>4 DEF StartWorker, TypeOK, Starting, Running
<1>6. OneWorker' /\ HoldFirst'
  BY <1>3, <1>4, <1>5 DEF OneWorker, HoldFirst
<1>7. DeathSeen'
  BY <1>4, <1>5 DEF StartWorker, DeathSeen
<1> QED BY <1>1, <1>2, <1>6, <1>7

(* dropPeek preserves it: the worker goes on with the element that is      *)
(* first now, or quits because the ring is empty.                          *)
LEMMA DropInv == ASSUME RingInv, NEW w \in Elems, dropPeek(w) PROVE RingInv'
<1> USE DEF RingInv
<1>1. Running = {w} /\ Starting = {} /\ l + Len(overflow) > 0 /\ starting' = starting
  BY DEF dropPeek, OneWorker, Running
<1>2. TypeOK' /\ Window' /\ SlotsReleased'
  <2>0. handled' \in Seq(Elems) /\ late' \in Nat /\ sawDead' \subseteq Elems
    BY DEF dropPeek, TypeOK
  <2>1. CASE DropSlot(w)
    <3>1. Mask(head + 1) \in Slots
      BY MaskValues, EightAssumption DEF TypeOK, Slots
    <3>2. overflow \in Seq(Elems) /\ (Len(overflow) # 0 => overflow[1] \in Elems)
      BY DEF TypeOK
    <3>3. TypeOK'
      BY <2>0, <2>1, <3>1, <3>2, EightAssumption DEF dropPeek, DropSlot, TypeOK
    <3>4. Window'
      <4>1. head \in Slots /\ l - 1 \in 0 .. Eight - 1 /\ l = (l - 1) + 1
        BY <2>1, EightAssumption DEF DropSlot, TypeOK
      <4>2. Mask(Mask(head + 1) + (l - 1)) = Mask(head + l)
        BY <4>1, MaskOffsets
      <4> QED BY <2>1, <4>2 DEF dropPeek, DropSlot, Window, Mask
    <3>5. SlotsReleased'
      <4>0. head \in Slots /\ l \in 0 .. Eight /\ l >= 1
        BY <2>1 DEF DropSlot, TypeOK
      <4> SUFFICES ASSUME NEW i \in 0 .. Eight - 1
                   PROVE  (elems'[Mask(head' + i)] = NoElem) <=> (i >= l')
        BY DEF SlotsReleased, Mask
      <4>1. CASE i = Eight - 1
        <5>1. Mask(head' + i) = head
          BY <2>1, <4>0, <4>1, MaskOffsets, EightAssumption DEF DropSlot
        <5> QED BY <2>1, <4>0, <4>1, <5>1, EightAssumption DEF DropSlot, TypeOK
      <4>2. CASE i # Eight - 1
        <5>0. i + 1 \in 0 .. Eight - 1 /\ i + 1 # 0 /\ 0 \in 0 .. Eight - 1
          BY <4>2, EightAssumption
        <5>1. Mask(head' + i) = Mask(head + (i + 1)) /\ Mask(head' + i) # head /\ Mask(head' + i) \in Slots
          BY <2>1, <4>0, <5>0, MaskOffsets DEF DropSlot
        <5>2. (elems[Mask(head + (i + 1))] = NoElem) <=> (i + 1 >= l)
          BY <4>2, EightAssumption DEF SlotsReleased
        <5> QED BY <2>1, <4>0, <5>1, <5>2, EightAssumption DEF DropSlot, TypeOK
      <4> QED BY <4>1, <4>2
    <3> QED BY <3>3, <3>4, <3>5
  <2>2. CASE DropOverflow(w)
    <3>1. overflow' \in Seq(Elems) /\ (Len(overflow) > 1 => overflow[2] \in Elems)
      BY <2>2 DEF DropOverflow, TypeOK
    <3>2. TypeOK'
      BY <2>0, <2>2, <3>1 DEF dropPeek, DropOverflow, TypeOK
    <3> QED BY <2>2, <3>2 DEF dropPeek, DropOverflow, Window, SlotsReleased, Mask
  <2> QED BY <2>1, <2>2 DEF dropPeek
<1>3. \/ holds'[w] = NoElem /\ l' + Len(overflow') = 0
      \/ holds'[w] # NoElem /\ l' + Len(overflow') > 0 /\ holds'[w] = First'
  <2>1. CASE DropSlot(w)
    <3>1. CASE l > 1
      <4>0. Mask(head + 1) \in Slots /\ Mask(head + 1) # head
        <5>1. head \in Slots /\ 0 \in 0 .. Eight - 1 /\ 1 \in 0 .. Eight - 1
          BY <3>1, EightAssumption DEF TypeOK
        <5> QED BY <5>1, MaskOffsets
      <4>1. holds'[w] = elems[Mask(head + 1)] /\ elems'[Mask(head + 1)] = elems[Mask(head + 1)]
        BY <2>1, <3>1, <4>0 DEF DropSlot, TypeOK
      <4>2. elems[Mask(head + 1)] # NoElem
        BY <3>1, EightAssumption DEF SlotsReleased, TypeOK
      <4> QED BY <2>1, <3>1, <4>1, <4>2 DEF DropSlot, TypeOK, First
    <3>2. CASE l = 1 /\ Len(overflow) = 0
      BY <2>1, <3>2 DEF DropSlot, TypeOK
    <3>3. CASE l = 1 /\ Len(overflow) # 0
      <4>1. overflow[1] \in Elems /\ overflow[1] # NoElem /\ Len(overflow) \in Nat
        BY <3>3, NoElemAssumption, MaxPushAssumption DEF TypeOK, Elems
      <4> QED BY <2>1, <3>3, <4>1 DEF DropSlot, TypeOK, First
    <3> QED BY <2>1, <3>1, <3>2, <3>3 DEF DropSlot, TypeOK
  <2>2. CASE DropOverflow(w)
    <3>1. Len(overflow) \in Nat /\ Len(overflow') = Len(overflow) - 1
      BY <2>2 DEF DropOverflow, TypeOK
    <3>2. CASE Len(overflow) > 1
      <4>1. overflow[2] \in Elems /\ overflow[2] # NoElem /\ overflow'[1] = overflow[2]
        BY <2>2, <3>2, NoElemAssumption, MaxPushAssumption, SMTT(40) DEF DropOverflow, TypeOK, Elems
      <4> QED BY <2>2, <3>1, <3>2, <4>1 DEF DropOverflow, TypeOK, First
    <3>3. CASE Len(overflow) = 1
      BY <2>2, <3>1, <3>3 DEF DropOverflow, TypeOK
    <3>4. Len(overflow) > 0
      BY <2>2 DEF DropOverflow
    <3> QED BY <3>1, <3>2, <3>3, <3>4
  <2> QED BY <2>1, <2>2 DEF dropPeek
<1>4. Running' \subseteq {w} /\ Starting' = {}
  BY <1>1 DEF dropPeek, DropSlot, DropOverflow, TypeOK, Running, Starting
<1>5. OneWorker' /\ HoldFirst'
  BY <1>3, <1>4 DEF OneWorker, HoldFirst, Running
<1>6. DeathSeen'
  BY <1>1, <1>4 DEF dropPeek, DeathSeen
<1> QED BY <1>2, <1>5, <1>6

(* Every step preserves the invariant.                                     *)
LEMMA NextRingInv == RingInv /\ [Next]_vars => RingInv'
<1> SUFFICES ASSUME RingInv, [Next]_vars PROVE RingInv'
  OBVIOUS
<1>1. ASSUME NEW p \in Pushers, push(p) PROVE RingInv'
  BY <1>1, PushInv
<1>2. ASSUME NEW p \in Pushers, StartWorker(p) PROVE RingInv'
  BY <1>2, StartInv
<1>3. ASSUME NEW w \in Elems, dropPeek(w) PROVE RingInv'
  BY <1>3, DropInv
<1>4. CASE die
  <2>1. TypeOK'
    <3>1. dead' \in BOOLEAN
      BY <1>4, Zenon DEF die
    <3> QED BY <1>4, <3>1 DEF die, RingInv, TypeOK
  <2>2. Window' /\ SlotsReleased'
    BY <1>4 DEF die, RingInv, Window, SlotsReleased, Mask
  <2>3. OneWorker' /\ HoldFirst' /\ DeathSeen'
    BY <1>4 DEF die, RingInv, OneWorker, HoldFirst, First, DeathSeen, Starting, Running
  <2> QED BY <2>1, <2>2, <2>3 DEF RingInv
<1>5. CASE UNCHANGED vars
  <2>1. TypeOK'
    BY <1>5 DEF vars, RingInv, TypeOK
  <2>2. Window' /\ SlotsReleased'
    BY <1>5 DEF vars, RingInv, Window, SlotsReleased, Mask
  <2>3. OneWorker' /\ HoldFirst' /\ DeathSeen'
    BY <1>5 DEF vars, RingInv, OneWorker, HoldFirst, First, DeathSeen, Starting, Running
  <2> QED BY <2>1, <2>2, <2>3 DEF RingInv
<1> QED BY <1>1, <1>2, <1>3, <1>4, <1>5 DEF Next

(* The invariant of the ring.                                              *)
THEOREM SpecRingInv == Spec => []RingInv
  BY InitRingInv, NextRingInv, PTL DEF Spec

(* However many goroutines push, exactly one worker serves a non-empty     *)
(* ring and none an empty one, so handlers of one ring never run at once   *)
(* and dropPeek never indexes an empty slice.                              *)
THEOREM OneWorkerAlways == Spec => []OneWorker
  BY SpecRingInv, PTL DEF RingInv

(* dropPeek leaves no dropped element in a slot.                           *)
THEOREM SlotsReleasedAlways == Spec => []SlotsReleased
  BY SpecRingInv, PTL DEF RingInv

(* After die at most one more element is handled normally.                 *)
THEOREM DeathIsPromptAlways == Spec => []DeathIsPrompt
<1>1. RingInv => DeathIsPrompt
  BY DEF RingInv, DeathSeen, DeathIsPrompt
<1> QED BY <1>1, SpecRingInv, PTL

-----------------------------------------------------------------------------
ContentsOK ==
    /\ Contents \in Seq(Elems)
    /\ Len(Contents) = l + Len(overflow)
    /\ \A i \in 1 .. l + Len(overflow) :
         Contents[i] = IF i <= l THEN elems[Mask(head + (i - 1))] ELSE overflow[i - l]

(* The contents of the ring are a sequence, slots first.                   *)
LEMMA ContentsSeq == RingInv => ContentsOK
<1> SUFFICES ASSUME RingInv PROVE ContentsOK
  OBVIOUS
<1>1. ASSUME NEW i \in 1 .. l
      PROVE elems[Mask(head + i - 1)] \in Elems /\ head + i - 1 = head + (i - 1)
  <2>1. i - 1 \in 0 .. Eight - 1 /\ head \in Slots /\ head + i - 1 = head + (i - 1) /\ i - 1 < l
    BY EightAssumption DEF RingInv, TypeOK, Slots
  <2>2. Mask(head + (i - 1)) \in Slots
    BY <2>1, MaskOffsets
  <2>3. elems[Mask(head + (i - 1))] # NoElem
    BY <2>1 DEF RingInv, SlotsReleased, TypeOK
  <2> QED BY <2>1, <2>2, <2>3 DEF RingInv, TypeOK
<1>2. l \in Nat /\ overflow \in Seq(Elems) /\ Len(overflow) \in Nat
  BY EightAssumption DEF RingInv, TypeOK
<1>3. /\ InSlots \in Seq(Elems) /\ Len(InSlots) = l
      /\ \A i \in 1 .. l : InSlots[i] = elems[Mask(head + i - 1)]
  BY <1>1, <1>2 DEF InSlots
<1>4. /\ Contents \in Seq(Elems)
      /\ Len(Contents) = l + Len(overflow)
      /\ \A i \in 1 .. l + Len(overflow) :
            Contents[i] = IF i <= l THEN InSlots[i] ELSE overflow[i - l]
  BY <1>2, <1>3, ConcatProperties, ZenonT(40) DEF Contents
<1> QED BY <1>1, <1>2, <1>3, <1>4 DEF ContentsOK

(* An accepted push appends to the contents, a refused one leaves them.    *)
LEMMA PushContents ==
    ASSUME RingInv, RingInv', NEW p \in Pushers, push(p)
    PROVE  IF dead THEN Contents' = Contents
           ELSE nextElem \in Elems /\ Contents' = Append(Contents, nextElem)
<1>1. CASE dead
  BY <1>1, ZenonT(40) DEF push, PushDead, PushOverflow, PushSlot, Contents, InSlots, Mask
<1>2. CASE ~dead
  <2>0. nextElem \in Elems
    BY MaxPushAssumption DEF push, RingInv, TypeOK, Elems
  <2>1. /\ Contents' \in Seq(Elems)
        /\ Len(Contents') = l' + Len(overflow')
        /\ \A i \in 1 .. l' + Len(overflow') :
             Contents'[i] = IF i <= l' THEN elems'[Mask(head' + (i - 1))] ELSE overflow'[i - l']
    <3>1. (RingInv => ContentsOK)'
      BY ContentsSeq, PTL
    <3> QED BY <3>1 DEF ContentsOK, Mask
  <2>2. /\ Append(Contents, nextElem) \in Seq(Elems)
        /\ Len(Append(Contents, nextElem)) = l + Len(overflow) + 1
        /\ \A i \in 1 .. l + Len(overflow) : Append(Contents, nextElem)[i] = Contents[i]
        /\ Append(Contents, nextElem)[l + Len(overflow) + 1] = nextElem
    BY <2>0, ContentsSeq, AppendProperties DEF ContentsOK
  <2>3. l \in 0 .. Eight /\ l \in Nat /\ overflow \in Seq(Elems) /\ Len(overflow) \in Nat /\ head \in Slots
    BY EightAssumption DEF RingInv, TypeOK
  <2>4. CASE PushOverflow
    <3>1. /\ l' = l /\ elems' = elems /\ head' = head
          /\ Len(overflow') = Len(overflow) + 1
          /\ \A i \in 1 .. Len(overflow) : overflow'[i] = overflow[i]
          /\ overflow'[Len(overflow) + 1] = nextElem
      BY <2>0, <2>3, <2>4, AppendProperties DEF PushOverflow
    <3>2. ASSUME NEW i \in 1 .. l + Len(overflow) + 1
          PROVE  Contents'[i] = Append(Contents, nextElem)[i]
      <4>1. Contents'[i] = IF i <= l THEN elems[Mask(head + (i - 1))] ELSE overflow'[i - l]
        BY <2>1, <2>3, <3>1
      <4>2. CASE i = l + Len(overflow) + 1
        <5>1. i - l = Len(overflow) + 1 /\ ~(i <= l)
          BY <2>3, <4>2
        <5> QED BY <2>2, <3>1, <4>1, <4>2, <5>1
      <4>3. CASE i \in 1 .. l + Len(overflow)
        <5>1. Contents[i] = IF i <= l THEN elems[Mask(head + (i - 1))] ELSE overflow[i - l]
          BY <4>3, ContentsSeq DEF ContentsOK
        <5>2. ~(i <= l) => overflow'[i - l] = overflow[i - l]
          BY <2>3, <3>1, <4>3
        <5> QED BY <2>2, <4>1, <4>3, <5>1, <5>2
      <4>4. i = l + Len(overflow) + 1 \/ i \in 1 .. l + Len(overflow)
        BY <2>3
      <4> QED BY <4>2, <4>3, <4>4, ZenonT(40)
    <3> QED BY <1>2, <2>0, <2>1, <2>2, <2>3, <3>1, <3>2, SeqEqual
  <2>5. CASE PushSlot(p)
    <3>1. /\ l' = l + 1 /\ head' = head /\ overflow' = overflow /\ Len(overflow) = 0
          /\ l \in 0 .. Eight - 1
      BY <2>3, <2>5, EightAssumption DEF PushSlot
    <3>2. ASSUME NEW i \in 1 .. l PROVE elems'[Mask(head + (i - 1))] = elems[Mask(head + (i - 1))]
      <4>1. i - 1 \in 0 .. Eight - 1 /\ i - 1 # l
        BY <3>1, EightAssumption
      <4>2. Mask(head + (i - 1)) \in Slots /\ Mask(head + (i - 1)) # tail
        BY <2>3, <3>1, <4>1, MaskOffsets DEF RingInv, Window
      <4>3. elems' = [elems EXCEPT ![tail] = nextElem] /\ elems \in [Slots -> Elems \cup {NoElem}]
        BY <2>5 DEF PushSlot, RingInv, TypeOK
      <4> QED BY <4>2, <4>3
    <3>3. elems'[Mask(head + l)] = nextElem
      BY <2>5 DEF PushSlot, RingInv, TypeOK, Window
    <3>4. ASSUME NEW i \in 1 .. l + 1
          PROVE  Contents'[i] = Append(Contents, nextElem)[i]
      <4>1. CASE i \in 1 .. l
        BY <2>1, <2>2, <2>3, <3>1, <3>2, <4>1, ContentsSeq, SMTT(40) DEF ContentsOK
      <4>2. CASE i = l + 1
        BY <2>1, <2>2, <2>3, <3>1, <3>3, <4>2
      <4>3. i \in 1 .. l \/ i = l + 1
        BY <2>3
      <4> QED BY <4>1, <4>2, <4>3, ZenonT(40)
    <3> QED BY <1>2, <2>0, <2>1, <2>2, <2>3, <3>1, <3>4, SeqEqual
  <2> QED BY <1>2, <2>4, <2>5 DEF push, PushDead
<1> QED BY <1>1, <1>2

(* dropPeek serves the first of the contents and drops it.                 *)
LEMMA DropContents ==
    ASSUME RingInv, RingInv', NEW w \in Elems, dropPeek(w)
    PROVE  Contents # <<>> /\ holds[w] = Head(Contents) /\ Contents' = Tail(Contents)
<1>0. /\ l \in 0 .. Eight /\ l \in Nat /\ head \in Slots
      /\ overflow \in Seq(Elems) /\ Len(overflow) \in Nat
  BY EightAssumption, SMTT(40) DEF RingInv, TypeOK
<1>1. holds[w] = First /\ l + Len(overflow) > 0
  BY DEF dropPeek, RingInv, OneWorker, HoldFirst, Running
<1>2. /\ Contents \in Seq(Elems)
      /\ Len(Contents) = l + Len(overflow)
      /\ \A i \in 1 .. l + Len(overflow) :
            Contents[i] = IF i <= l THEN elems[Mask(head + (i - 1))] ELSE overflow[i - l]
  BY ContentsSeq DEF ContentsOK
<1>3. Contents # <<>>
  BY <1>1, <1>2
<1>4. holds[w] = Head(Contents)
  <2>1. Head(Contents) = Contents[1]
    BY <1>2, <1>3
  <2>2. Contents[1] = IF 1 <= l THEN elems[Mask(head + (1 - 1))] ELSE overflow[1 - l]
    BY <1>0, <1>1, <1>2
  <2>3. Mask(head + 0) = head
    BY <1>0, MaskOffsets, EightAssumption
  <2> QED BY <1>0, <1>1, <2>1, <2>2, <2>3 DEF First
<1>5. /\ Contents' \in Seq(Elems)
      /\ Len(Contents') = l' + Len(overflow')
      /\ \A i \in 1 .. l' + Len(overflow') :
           Contents'[i] = IF i <= l' THEN elems'[Mask(head' + (i - 1))] ELSE overflow'[i - l']
  <2>1. (RingInv => ContentsOK)'
    BY ContentsSeq, PTL
  <2> QED BY <2>1 DEF ContentsOK, Mask
<1>6. /\ Tail(Contents) \in Seq(Elems)
      /\ Len(Tail(Contents)) = l + Len(overflow) - 1
      /\ \A i \in 1 .. l + Len(overflow) - 1 : Tail(Contents)[i] = Contents[i + 1]
  BY <1>0, <1>2, <1>3
<1>7. CASE DropSlot(w)
  <2>1. l' = l - 1 /\ overflow' = overflow /\ l >= 1 /\ head' = Mask(head + 1)
    BY <1>7 DEF DropSlot
  <2>2. ASSUME NEW i \in 1 .. l - 1
        PROVE  elems'[Mask(head' + (i - 1))] = elems[Mask(head + i)]
    <3>1. i - 1 \in 0 .. Eight - 1 /\ i \in 0 .. Eight - 1 /\ 0 \in 0 .. Eight - 1 /\ (i - 1) + 1 = i /\ i # 0
      BY <1>0, EightAssumption
    <3>2. Mask(head' + (i - 1)) = Mask(head + i) /\ Mask(head + i) \in Slots /\ Mask(head + i) # head
      BY <1>0, <2>1, <3>1, MaskOffsets
    <3>3. elems' = [elems EXCEPT ![head] = NoElem] /\ elems \in [Slots -> Elems \cup {NoElem}]
      BY <1>7 DEF DropSlot, RingInv, TypeOK
    <3> QED BY <3>2, <3>3
  <2>3. ASSUME NEW i \in 1 .. l + Len(overflow) - 1
        PROVE  Contents'[i] = Tail(Contents)[i]
    <3>1. /\ Contents'[i] = IF i <= l - 1 THEN elems'[Mask(head' + (i - 1))] ELSE overflow[i - (l - 1)]
          /\ i + 1 \in 1 .. l + Len(overflow)
      BY <1>0, <1>5, <2>1, SMTT(40)
    <3>2. Contents[i + 1] = IF i + 1 <= l THEN elems[Mask(head + (i + 1 - 1))] ELSE overflow[i + 1 - l]
      BY <1>0, <1>2, <3>1, EightAssumption, SMTT(40) DEF Slots
    <3>3. i + 1 - 1 = i /\ i + 1 - l = i - (l - 1) /\ (i <= l - 1 <=> i + 1 <= l)
      BY <1>0
    <3>4. i <= l - 1 => i \in 1 .. l - 1
      BY <1>0
    <3>5. Contents'[i] = Contents[i + 1]
      BY <2>2, <3>1, <3>2, <3>3, <3>4
    <3> QED BY <1>6, <3>5, SMTT(40)
  <2>4. Len(Contents') = Len(Tail(Contents))
    BY <1>0, <1>5, <1>6, <2>1
  <2> QED BY <1>3, <1>4, <1>5, <1>6, <2>3, <2>4, SeqEqual
<1>8. CASE DropOverflow(w)
  <2>1. /\ l' = l /\ l = 0 /\ Len(overflow') = Len(overflow) - 1
        /\ \A i \in 1 .. Len(overflow) - 1 : overflow'[i] = overflow[i + 1]
    BY <1>0, <1>8 DEF DropOverflow
  <2>2. ASSUME NEW i \in 1 .. Len(overflow) - 1
        PROVE  Contents'[i] = Tail(Contents)[i]
    <3>1. Contents'[i] = overflow'[i - 0] /\ Contents[i + 1] = overflow[i + 1 - 0]
      BY <1>0, <1>2, <1>5, <2>1
    <3>2. i - 0 = i /\ i + 1 - 0 = i + 1
      BY <1>0
    <3>3. Contents'[i] = Contents[i + 1]
      BY <2>1, <3>1, <3>2
    <3>4. Tail(Contents)[i] = Contents[i + 1]
      BY <1>0, <1>6, <2>1
    <3> QED BY <3>3, <3>4, ZenonT(40)
  <2>3. Len(Contents') = Len(Tail(Contents)) /\ Len(Contents') = Len(overflow) - 1
    BY <1>0, <1>5, <1>6, <2>1
  <2> QED BY <1>3, <1>4, <1>5, <1>6, <2>2, <2>3, SeqEqual
<1> QED BY <1>7, <1>8 DEF dropPeek

-----------------------------------------------------------------------------
(* The ring implements the safety part of the queue: elements are served   *)
(* one at a time, in push order, each once, and none is accepted after     *)
(* die.                                                                    *)
THEOREM RingImplementsQueue == Spec => Queue!Safety
<1>1. Init => Queue!Init
  <2> SUFFICES ASSUME Init PROVE Queue!Init
    OBVIOUS
  <2>1. RingInv
    BY InitRingInv
  <2>2. Len(Contents) = 0 /\ Contents \in Seq(Elems)
    BY <2>1, ContentsSeq DEF ContentsOK, Init
  <2> QED BY <2>2 DEF Init, Queue!Init
<1>2. RingInv /\ RingInv' /\ [Next]_vars => [Queue!Next]_(Queue!qvars)
  <2> SUFFICES ASSUME RingInv, RingInv', [Next]_vars PROVE [Queue!Next]_(Queue!qvars)
    OBVIOUS
  <2>1. ASSUME NEW p \in Pushers, push(p) PROVE [Queue!Next]_(Queue!qvars)
    BY <2>1, PushContents DEF push, Queue!Next, Queue!Push, Queue!qvars, Queue!Elems, Elems
  <2>2. ASSUME NEW p \in Pushers, StartWorker(p) PROVE [Queue!Next]_(Queue!qvars)
    BY <2>2 DEF StartWorker, ring, Queue!qvars, Contents, InSlots, Mask
  <2>3. ASSUME NEW w \in Elems, dropPeek(w) PROVE [Queue!Next]_(Queue!qvars)
    BY <2>3, DropContents, ZenonT(40) DEF dropPeek, Queue!Next, Queue!Serve
  <2>4. CASE die
    BY <2>4 DEF die, Queue!Next, Queue!Die, Contents, InSlots, Mask
  <2>5. CASE UNCHANGED vars
    BY <2>5 DEF vars, Queue!qvars, Contents, InSlots, Mask
  <2> QED BY <2>1, <2>2, <2>3, <2>4, <2>5 DEF Next
<1> QED BY <1>1, <1>2, SpecRingInv, PTL DEF Spec, Queue!Safety

(* The element a worker holds is the first of the contents.                *)
THEOREM HoldsFirstAlways == Spec => []HoldsFirst
<1>1. RingInv => HoldsFirst
  <2> SUFFICES ASSUME RingInv PROVE HoldsFirst
    OBVIOUS
  <2>1. l + Len(overflow) > 0 => First = Contents[1]
    <3> SUFFICES ASSUME l + Len(overflow) > 0 PROVE First = Contents[1]
      OBVIOUS
    <3>1. l \in Nat /\ Len(overflow) \in Nat /\ head \in Slots
      BY EightAssumption DEF RingInv, TypeOK
    <3>2. Contents[1] = IF 1 <= l THEN elems[Mask(head + (1 - 1))] ELSE overflow[1 - l]
      BY <3>1, ContentsSeq DEF ContentsOK
    <3>3. Mask(head + 0) = head
      BY <3>1, MaskOffsets, EightAssumption
    <3> QED BY <3>1, <3>2, <3>3 DEF First
  <2> QED BY <2>1 DEF RingInv, OneWorker, HoldFirst, HoldsFirst
<1> QED BY <1>1, SpecRingInv, PTL
=============================================================================
