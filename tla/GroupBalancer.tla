---------------------------- MODULE GroupBalancer ----------------------------
(***************************************************************************)
(* The leader's plan for a group: who may consume which partition.  A      *)
(* member's claim is what its join request says it consumed and in which   *)
(* generation.  The sticky balancer (internal/sticky) is given by what it  *)
(* returns, a balanced plan that moves as few claimed partitions as        *)
(* possible, and the eager balancers by a balanced plan; the adjustment    *)
(* for cooperative groups is translated (group_balancer.go).               *)
(***************************************************************************)
EXTENDS Integers, FiniteSets

CONSTANTS Partitions

\* An assignment gives every partition to one member; a plan is its inverse.
Plan(a, members) == [m \in members |-> {p \in DOMAIN a : a[p] = m}]

Balanced(a, members) ==
    LET n(m) == Cardinality({p \in DOMAIN a : a[p] = m})
    IN  \A m, o \in members : n(m) <= n(o) + 1

(***************************************************************************)
(* parseMemberMetadata: of the members that claim a partition, the one     *)
(* with the newest generation had it (KIP-341).                            *)
(***************************************************************************)
Had(claims, p) ==
    LET by == {m \in DOMAIN claims : p \in claims[m].owned}
    IN  {m \in by : \A o \in by : claims[o].gen <= claims[m].gen}

Kept(a, claims) == Cardinality({p \in DOMAIN a : a[p] \in Had(claims, p)})

\* The balanced plans; the sticky balancer keeps as much as any balanced plan can.
BalancedPlans(claims) ==
    LET members == DOMAIN claims
        as == {a \in [Partitions -> members] : Balanced(a, members)}
    IN  {Plan(a, members) : a \in as}

StickyPlans(claims) ==
    LET members == DOMAIN claims
        as == {a \in [Partitions -> members] : Balanced(a, members)}
    IN  {Plan(a, members) :
            a \in {x \in as : \A y \in as : Kept(y, claims) <= Kept(x, claims)}}

\* Mutant of AdjustCooperative: migrating partitions stay in the plan.
AdjustCooperativeNot(plan, claims) == plan

(***************************************************************************)
(* AdjustCooperative: a partition that one member had and another is to    *)
(* have is left out of the plan, until the first member revoked it.        *)
(***************************************************************************)
AdjustCooperative(plan, claims) ==
    LET revoked == UNION {claims[m].owned \ plan[m] : m \in DOMAIN plan}
    IN  [m \in DOMAIN plan |-> {p \in plan[m] : p \in claims[m].owned \/ p \notin revoked}]

Plans(claims, cooperative) ==
    IF cooperative
    THEN {AdjustCooperative(plan, claims) : plan \in StickyPlans(claims)}
    ELSE BalancedPlans(claims)
=============================================================================
