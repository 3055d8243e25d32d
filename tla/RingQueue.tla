----------------------------- MODULE RingQueue -----------------------------
(***************************************************************************)
(* What a ring promises its users: a FIFO queue whose elements are handled *)
(* one at a time, in the order they were pushed, until the ring dies; what *)
(* was accepted before that is still handled.                              *)
(***************************************************************************)
EXTENDS Integers, Sequences

CONSTANTS MaxPush

Elems == 1 .. MaxPush

VARIABLES
    q,          \* accepted and not yet handled
    dead,       \* no more elements are accepted
    handled     \* handled, in order

qvars == <<q, dead, handled>>

Init ==
    /\ q = <<>>
    /\ dead = FALSE
    /\ handled = <<>>

Push ==
    /\ ~dead
    /\ \E e \in Elems : q' = Append(q, e)
    /\ UNCHANGED <<dead, handled>>

Serve ==
    /\ q # <<>>
    /\ handled' = Append(handled, Head(q))
    /\ q' = Tail(q)
    /\ UNCHANGED dead

Die ==
    /\ ~dead
    /\ dead' = TRUE
    /\ UNCHANGED <<q, handled>>

Next == Push \/ Serve \/ Die

Safety == Init /\ [][Next]_qvars

Spec == Safety /\ WF_qvars(Serve)
=============================================================================
