--------------------------- MODULE WorkLoopProofs ---------------------------
(***************************************************************************)
(* Proofs about WorkLoop, for any set of triggers and any amount of work.  *)
(* TypeOK, OneLoop and NoLostWakeup together are inductive.                *)
(***************************************************************************)
EXTENDS WorkLoop, TLAPS

Inv == TypeOK /\ OneLoop /\ NoLostWakeup

(* The state in which every sink starts satisfies the invariant.           *)
LEMMA InitInv == Init => Inv
<1> SUFFICES ASSUME Init PROVE Inv
  OBVIOUS
<1>1. TypeOK
  <2>1. closed \in BOOLEAN
    BY Zenon DEF Init
  <2>2. added \in 0 .. MaxWork /\ work \in Nat
    BY MaxWorkAssumption DEF Init
  <2> QED BY <2>1, <2>2 DEF Init, TypeOK, Unstarted, Working, ContinueWorking
<1>2. OneLoop
  BY DEF Init, OneLoop, Loops
<1>3. NoLostWakeup
  BY DEF Init, NoLostWakeup
<1> QED BY <1>1, <1>2, <1>3 DEF Inv

(* Every atomic step of maybeBegin, of the loop and of maybeFinish         *)
(* preserves it.                                                           *)
LEMMA NextInv == Inv /\ [Next]_vars => Inv'
<1> SUFFICES ASSUME Inv, [Next]_vars PROVE Inv'
  OBVIOUS
<1> USE DEF Unstarted, Working, ContinueWorking
<1>1. TypeOK'
  <2>1. ASSUME NEW t \in Triggers, AddWork(t) PROVE TypeOK'
    BY <2>1, MaxWorkAssumption DEF Inv, TypeOK, AddWork
  <2>2. ASSUME NEW t \in Triggers, Begin(t) PROVE TypeOK'
    BY <2>2 DEF Inv, TypeOK, Begin, BeginLoad, BeginSwapUnstarted, BeginSwapWorking
  <2>3. ASSUME NEW t \in Triggers, Loop(t) PROVE TypeOK'
    BY <2>3 DEF Inv, TypeOK, Loop, Body, hardFinish, maybeFinish, FinishLoad,
                FinishSwap, FinishStore
  <2>4. CASE Close
    BY <2>4 DEF Inv, TypeOK, Close
  <2>5. CASE UNCHANGED vars
    BY <2>5 DEF Inv, TypeOK, vars
  <2> QED BY <2>1, <2>2, <2>3, <2>4, <2>5 DEF Next
<1>2. OneLoop'
  <2>1. ASSUME NEW t \in Triggers, AddWork(t) PROVE OneLoop'
    BY <2>1 DEF Inv, TypeOK, OneLoop, Loops, AddWork
  <2>2. ASSUME NEW t \in Triggers, Begin(t) PROVE OneLoop'
    BY <2>2 DEF Inv, TypeOK, OneLoop, Loops, Begin, BeginLoad, BeginSwapUnstarted,
                BeginSwapWorking
  <2>3. ASSUME NEW t \in Triggers, Loop(t) PROVE OneLoop'
    BY <2>3 DEF Inv, TypeOK, OneLoop, Loops, Loop, Body, hardFinish, maybeFinish,
                FinishLoad, FinishSwap, FinishStore
  <2>4. CASE Close
    BY <2>4 DEF Inv, OneLoop, Loops, Close
  <2>5. CASE UNCHANGED vars
    BY <2>5 DEF Inv, OneLoop, Loops, vars
  <2> QED BY <2>1, <2>2, <2>3, <2>4, <2>5 DEF Next
<1>3. NoLostWakeup'
  <2>1. ASSUME NEW t \in Triggers, AddWork(t) PROVE NoLostWakeup'
    BY <2>1 DEF Inv, TypeOK, NoLostWakeup, AddWork
  <2>2. ASSUME NEW t \in Triggers, Begin(t) PROVE NoLostWakeup'
    BY <2>2 DEF Inv, TypeOK, OneLoop, NoLostWakeup, Loops, Begin, BeginLoad,
                BeginSwapUnstarted, BeginSwapWorking
  <2>3. ASSUME NEW t \in Triggers, Loop(t) PROVE NoLostWakeup'
    BY <2>3 DEF Inv, TypeOK, OneLoop, NoLostWakeup, Loops, Loop, Body, hardFinish,
                maybeFinish, FinishLoad, FinishSwap, FinishStore
  <2>4. CASE Close
    BY <2>4 DEF Inv, NoLostWakeup, Close
  <2>5. CASE UNCHANGED vars
    BY <2>5 DEF Inv, NoLostWakeup, Loops, vars
  <2> QED BY <2>1, <2>2, <2>3, <2>4, <2>5 DEF Next
<1> QED BY <1>1, <1>2, <1>3 DEF Inv

(* The three together are an invariant of the work loop.                   *)
THEOREM SpecInv == Spec => []Inv
  BY InitInv, NextInv, PTL DEF Spec

(* sink.drain never runs twice at once on a sink, for any number of        *)
(* goroutines that trigger it.                                             *)
THEOREM OneLoopAlways == Spec => []OneLoop
  BY SpecInv, PTL DEF Inv

(* maybeBegin and maybeFinish never lose a trigger: work in an open client *)
(* always has somebody who will still look at it.                          *)
THEOREM NoLostWakeupAlways == Spec => []NoLostWakeup
  BY SpecInv, PTL DEF Inv
=============================================================================
