------------------------------ MODULE WorkLoop ------------------------------
(***************************************************************************)
(* The lock-free work loop of pkg/kgo/atomic_maybe_work.go, as the sink's  *)
(* drain loop uses it: a goroutine that has buffered work calls            *)
(* sink.maybeDrain, and starts sink.drain if maybeBegin returns true; the  *)
(* loop does some of the work (sink.produce), and maybeFinish decides      *)
(* whether it goes on.                                                     *)
(*                                                                         *)
(* Every atomic load, store and compare-and-swap is a step of its own:     *)
(* what can go wrong goes wrong between a load and the swap that follows.  *)
(***************************************************************************)
EXTENDS Integers

CONSTANTS
    Triggers,   \* goroutines that add work and trigger the loop
    MaxWork     \* bound on the work that is ever added

ASSUME MaxWorkAssumption == MaxWork \in Nat

VARIABLES
    state,      \* workLoop.state
    work,       \* work that is buffered and not done
    added,      \* work ever added
    closed,     \* the client context is done
    tpc,        \* per trigger: where it is in maybeBegin
    lpc         \* per trigger: where the loop it started is

vars == <<state, work, added, closed, tpc, lpc>>

Unstarted == "unstarted"
Working == "working"
ContinueWorking == "continueWorking"

Init ==
    /\ state = Unstarted
    /\ work = 0
    /\ added = 0
    /\ closed = FALSE
    /\ tpc = [t \in Triggers |-> "idle"]
    /\ lpc = [t \in Triggers |-> "none"]

-----------------------------------------------------------------------------
(* A record is buffered, after which its goroutine calls maybeBegin.       *)
AddWork(t) ==
    /\ tpc[t] = "idle"
    /\ added < MaxWork
    /\ added' = added + 1
    /\ work' = work + 1
    /\ tpc' = [tpc EXCEPT ![t] = "load"]
    /\ UNCHANGED <<state, closed, lpc>>

(* Mutant of BeginLoad: a trigger that sees the loop working leaves        *)
(* without asking it to continue.                                          *)
BeginLoadForgets(t) ==
    /\ tpc[t] = "load"
    /\ tpc' = [tpc EXCEPT ![t] = IF state = Unstarted THEN "casUnstarted" ELSE "idle"]
    /\ UNCHANGED <<state, work, added, closed, lpc>>

(* maybeBegin: l.state.Load() and the switch on it.                        *)
BeginLoad(t) ==
    /\ tpc[t] = "load"
    /\ tpc' = [tpc EXCEPT ![t] = CASE state = Unstarted -> "casUnstarted"
                                   [] state = Working -> "casWorking"
                                   [] state = ContinueWorking -> "idle"]
    /\ UNCHANGED <<state, work, added, closed, lpc>>

(* Mutant of BeginSwapUnstarted: a store instead of a compare-and-swap.    *)
BeginStoreWorking(t) ==
    /\ tpc[t] = "casUnstarted"
    /\ state' = Working
    /\ tpc' = [tpc EXCEPT ![t] = "idle"]
    /\ lpc' = [lpc EXCEPT ![t] = "body"]
    /\ UNCHANGED <<work, added, closed>>

(* maybeBegin: CompareAndSwap(stateUnstarted, stateWorking); on success    *)
(* maybeBegin returns true and the caller does "go s.drain()".             *)
BeginSwapUnstarted(t) ==
    /\ tpc[t] = "casUnstarted"
    /\ IF state = Unstarted
       THEN /\ state' = Working
            /\ tpc' = [tpc EXCEPT ![t] = "idle"]
            /\ lpc' = [lpc EXCEPT ![t] = "body"]
       ELSE /\ tpc' = [tpc EXCEPT ![t] = "load"]
            /\ UNCHANGED <<state, lpc>>
    /\ UNCHANGED <<work, added, closed>>

(* maybeBegin: CompareAndSwap(stateWorking, stateContinueWorking); on      *)
(* success the running loop has to go around once more.                    *)
BeginSwapWorking(t) ==
    /\ tpc[t] = "casWorking"
    /\ IF state = Working
       THEN /\ state' = ContinueWorking
            /\ tpc' = [tpc EXCEPT ![t] = "idle"]
       ELSE /\ tpc' = [tpc EXCEPT ![t] = "load"]
            /\ UNCHANGED state
    /\ UNCHANGED <<work, added, closed, lpc>>

-----------------------------------------------------------------------------
(* The loop's body, sink.produce: do some of the work, and say whether     *)
(* there is more: the argument of maybeFinish, which may be stale when it  *)
(* gets there.                                                             *)
Body(t) ==
    /\ lpc[t] = "body"
    /\ work' = IF work > 0 THEN work - 1 ELSE 0
    /\ lpc' = [lpc EXCEPT ![t] = IF work > 1 THEN "finAgain" ELSE "finStop"]
    /\ UNCHANGED <<state, added, closed, tpc>>

(* The loop notices that the client is closed and gives up.                *)
hardFinish(t) ==
    /\ lpc[t] = "body"
    /\ closed
    /\ state' = Unstarted
    /\ lpc' = [lpc EXCEPT ![t] = "none"]
    /\ UNCHANGED <<work, added, closed, tpc>>

(* maybeFinish: the load and the switch on it.                             *)
FinishLoad(t) ==
    /\ lpc[t] \in {"finAgain", "finStop"}
    /\ lpc' = [lpc EXCEPT ![t] = IF state = ContinueWorking THEN "finStore"
                                 ELSE IF lpc[t] = "finAgain" THEN "body"
                                 ELSE IF state = Working THEN "finCas"
                                 ELSE "none"]
    /\ UNCHANGED <<state, work, added, closed, tpc>>

(* Mutant of FinishSwap: a store instead of a compare-and-swap.            *)
FinishStoreUnstarted(t) ==
    /\ lpc[t] = "finCas"
    /\ state' = Unstarted
    /\ lpc' = [lpc EXCEPT ![t] = "none"]
    /\ UNCHANGED <<work, added, closed, tpc>>

(* maybeFinish: again = !CompareAndSwap(stateWorking, stateUnstarted)      *)
FinishSwap(t) ==
    /\ lpc[t] = "finCas"
    /\ IF state = Working
       THEN /\ state' = Unstarted
            /\ lpc' = [lpc EXCEPT ![t] = "none"]
       ELSE /\ lpc' = [lpc EXCEPT ![t] = "body"]
            /\ UNCHANGED state
    /\ UNCHANGED <<work, added, closed, tpc>>

(* maybeFinish: Store(stateWorking); again = true                          *)
FinishStore(t) ==
    /\ lpc[t] = "finStore"
    /\ state' = Working
    /\ lpc' = [lpc EXCEPT ![t] = "body"]
    /\ UNCHANGED <<work, added, closed, tpc>>

(* Client.Close cancels the client context.                                *)
Close ==
    /\ ~closed
    /\ closed' = TRUE
    /\ UNCHANGED <<state, work, added, tpc, lpc>>

Begin(t) == BeginLoad(t) \/ BeginSwapUnstarted(t) \/ BeginSwapWorking(t)
maybeFinish(t) == FinishLoad(t) \/ FinishSwap(t) \/ FinishStore(t)
Loop(t) == Body(t) \/ hardFinish(t) \/ maybeFinish(t)

Next ==
    \/ \E t \in Triggers : AddWork(t) \/ Begin(t) \/ Loop(t)
    \/ Close

(* Goroutines run: a trigger inside maybeBegin and a started loop take     *)
(* their next step.  Nothing obliges anyone to add work or to close.       *)
Fairness == \A t \in Triggers : WF_vars(Begin(t)) /\ WF_vars(Loop(t))

Spec == Init /\ [][Next]_vars /\ Fairness

-----------------------------------------------------------------------------
Loops == {t \in Triggers : lpc[t] # "none"}

(* Types.                                                                  *)
TypeOK ==
    /\ state \in {Unstarted, Working, ContinueWorking}
    /\ work \in Nat
    /\ added \in 0 .. MaxWork
    /\ closed \in BOOLEAN
    /\ tpc \in [Triggers -> {"idle", "load", "casUnstarted", "casWorking"}]
    /\ lpc \in [Triggers -> {"none", "body", "finAgain", "finStop", "finCas", "finStore"}]

(* Two drain loops never run at once, whatever the triggers race with, and *)
(* a loop runs exactly while the state says so: sink.drain relies on being *)
(* alone when it builds requests.                                          *)
OneLoop ==
    /\ \A s, t \in Loops : s = t
    /\ (state # Unstarted) <=> (Loops # {})

(* No wakeup is lost: while there is work in an open client, someone will  *)
(* still look at it, be it a trigger inside maybeBegin, a loop about to    *)
(* run its body, or a loop that cannot stop because it was asked to        *)
(* continue.                                                               *)
NoLostWakeup ==
    work > 0 /\ ~closed =>
        \/ \E t \in Triggers : tpc[t] # "idle"
        \/ \E t \in Loops : lpc[t] \in {"body", "finAgain", "finStore"}
        \/ state = ContinueWorking

(* Buffered work is eventually done unless the client is closed.           *)
WorkGetsDone == work > 0 ~> (work = 0 \/ closed)
=============================================================================
