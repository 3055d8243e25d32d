------------------------ MODULE GroupConsumerProofs ------------------------
(***************************************************************************)
(* A member's callbacks are serial and respect polls, what is revoked is   *)
(* quiet and what is assigned is consumed, for any members, partitions and *)
(* scenarios.  All of it is about one member: to it the coordinator is an  *)
(* environment that sends it any subset of the partitions.                 *)
(***************************************************************************)
EXTENDS GroupConsumer, TLAPS

ClientFields ==
    {"man", "id", "gen", "err", "now", "last", "fetching", "added", "lost", "use", "st", "hb",
     "rv", "pend", "ctx", "fo", "rejoin", "dying", "lv", "gate", "fill", "proc", "gone", "late",
     "out"}
GroupFields ==
    {"state", "leader", "members", "pending", "gen", "nJoining", "tRebalance", "timed",
     "waiting", "join", "assignment", "reply"}

(* The coordinator assigns nothing but partitions.                         *)
ReplyOK(r) == r # NoReply /\ r.kind = "sync" => r.parts \subseteq Partitions
Assigns(g) ==
    /\ DOMAIN g = GroupFields /\ g.members \subseteq Members
    /\ g.assignment \in [Members -> SUBSET Partitions]
    /\ DOMAIN g.reply = Members /\ \A m \in Members : ReplyOK(g.reply[m])
GroupOK(g) ==
    /\ Assigns(g) /\ g.state \in {"Empty", "Preparing", "Completing", "Stable"}
    /\ g.state = "Empty" => g.members = {}

(* The goroutines of a session: where its callbacks are (st), when the     *)
(* heartbeat loop may return (hb) and when offsets are fetched (fo).       *)
Before == {"prerevoke", "prerevokeW", "prerevoking", "assign", "assignW"}
Calling == {"prerevoking", "assigning", "revoking"}
AtGate == {"prerevokeW", "assignW", "revokeW"} \cup Calling

Phases(c) ==
    /\ DOMAIN c = ClientFields
    /\ c.st \in {"none", "assigned", "revoked"} \cup Before \cup AtGate
    /\ c.st \notin {"none", "assigned", "revoked"} => c.man = "session"
    /\ c.hb \in {"run", "ret"} <=> c.man = "session"
    /\ c.rv => c.man = "session"
    /\ c.hb = "ret" /\ c.rv => c.st = "revoked"
    /\ c.fo # "none" => c.man = "session" /\ c.st \in {"assigned", "revokeW", "revoking", "revoked"}

(* What a member consumes, has been assigned, fetches offsets for and has  *)
(* had revoked.                                                            *)
Consumes(c, cooperative) ==
    /\ c.now \subseteq Partitions /\ c.added \subseteq Partitions
    /\ c.fetching \subseteq Partitions /\ c.use \subseteq Partitions
    /\ c.last = c.now /\ c.lost \cap (c.now \cup c.fetching) = {}
    /\ c.man # "session" => c.added = {}
    /\ c.man # "failed" => c.gone \cap c.use \subseteq c.late
    /\ c.st = "prerevoking" => c.lost \cap c.use = {}
    /\ cooperative =>
          /\ c.man # "failed" =>
                c.gone \cap (c.fetching \ (IF c.st \in Before THEN c.added ELSE {})) = {}
          /\ ~c.dying => c.now \subseteq c.use \cup c.fetching
          /\ c.fo = "ok" => c.fetching = {}
    /\ ~cooperative =>
          /\ c.fetching = {}
          /\ c.st = "revoking" => c.use \subseteq c.late
          /\ c.st \in {"assigning", "assigned", "revokeW"} => c.gone \cap c.added = {}
          /\ c.st \in Before \cup {"assigning", "assigned"} /\ c.man = "session" => c.now \subseteq c.added
          /\ c.st = "assigned" /\ c.fo = "ok" /\ ~c.dying => c.now \subseteq c.use

(* The gate counts one rebalance for a callback of the session, one for    *)
(* manageFailWait and one for LeaveGroup, and below them the polls.        *)
Rebalancing(c) ==
    (IF c.st \in AtGate THEN Half ELSE 0)
    + (IF c.man \in {"failW", "failing", "failed"} THEN Half ELSE 0)
    + (IF c.lv = "gate" THEN Half ELSE 0)
Polling(c) == c.gate - Rebalancing(c)
Passed(c) == c.st \in Calling \/ c.man \in {"failing", "failed"}

Gated(c, b) ==
    b.block /\ ~b.parallel =>
        /\ c.gate \in Nat /\ Polling(c) >= 0 /\ Polling(c) + b.polls < Half
        /\ Polling(c) >= (IF c.proc # {} THEN 1 ELSE 0) + (IF c.fill THEN 1 ELSE 0)
        /\ Passed(c) => Polling(c) = 0

(* What a scenario has left.                                               *)
BoundType == [members : SUBSET Members, cooperative : BOOLEAN, block : BOOLEAN,
              parallel : BOOLEAN, polls : Nat, forced : Nat, leavers : SUBSET Members,
              faults : Nat]

(* The inductive invariant.                                                *)
MemberOK(c, b) == Phases(c) /\ Consumes(c, b.cooperative) /\ Gated(c, b)
IInv ==
    /\ bound \in BoundType
    /\ GroupOK(grp)
    /\ DOMAIN cl = Members /\ \A m \in Members : MemberOK(cl[m], bound)

-----------------------------------------------------------------------------
(* The coordinator.  A refusal assigns nothing.                            *)
LEMMA RefusedOK == \A err : ReplyOK(Refused(err))
  BY DEF ReplyOK, Refused

(* Neither does the answer to a join.                                      *)
LEMMA JoinOK == \A g, m, l : ReplyOK(JoinResponse(g, m, l))
  BY DEF ReplyOK, JoinResponse, JoinOk

(* Members that wait are answered.                                         *)
LEMMA ReplyGroup ==
    ASSUME NEW g, Assigns(g), NEW who, NEW answer, \A m \in who : ReplyOK(answer[m])
    PROVE  /\ Assigns(Reply(g, who, answer))
           /\ Reply(g, who, answer).state = g.state /\ Reply(g, who, answer).members = g.members
  BY DEF Assigns, GroupFields, Reply

(* A client is answered at once.                                           *)
LEMMA AnswerGroup ==
    ASSUME NEW g, GroupOK(g), NEW m \in Members, NEW r, ReplyOK(r)
    PROVE  GroupOK(Answer(g, m, r))
  BY DEF GroupOK, Assigns, GroupFields, Answer

(* Whoever joined is answered.                                             *)
LEMMA CompleteRebalanceGroup ==
    ASSUME NEW g, Assigns(g), NEW n \in CompleteRebalance(g)
    PROVE  GroupOK(n)
<1> DEFINE joined == {m \in g.members : g.waiting[m] # "no"}
           next == [g EXCEPT !.tRebalance = FALSE, !.nJoining = 0, !.members = joined,
                             !.gen = @ + 1, !.timed = @ \cap joined,
                             !.state = IF joined = {} THEN "Empty" ELSE "Completing"]
           led(l) == [next EXCEPT !.leader = l]
           found == g.leader \in joined
           answer(l) == [m \in joined |-> JoinResponse(next, m, IF found THEN l ELSE m)]
<1>1. GroupOK(next)
  <2>1. joined \subseteq Members
    BY DEF Assigns
  <2> HIDE DEF joined
  <2> QED BY <2>1 DEF GroupOK, Assigns, GroupFields
<1>2. n = next \/ \E l : n = Reply(led(l), joined, answer(l))
  BY DEF CompleteRebalance
<1> HIDE DEF next
<1>3. \A l : GroupOK(led(l))
  BY <1>1 DEF GroupOK, Assigns, GroupFields
<1>4. \A l : \A m \in joined : ReplyOK(answer(l)[m])
  BY JoinOK
<1> HIDE DEF led, answer, joined
<1>5. \A l : GroupOK(Reply(led(l), joined, answer(l)))
  BY <1>3, <1>4, ReplyGroup DEF GroupOK
<1> QED BY <1>1, <1>2, <1>5

(* Whoever waits in sync is told to join again.                            *)
LEMMA RebalanceGroup ==
    ASSUME NEW g, Assigns(g), NEW n \in Rebalance(g)
    PROVE  GroupOK(n)
<1> DEFINE syncing == {m \in g.members : g.state = "Completing" /\ g.waiting[m] = "sync"}
           cleared == IF g.state = "Completing"
                      THEN [g EXCEPT !.assignment = [m \in Members |->
                                IF m \in g.members THEN {} ELSE @[m]]]
                      ELSE g
           answer == [m \in syncing |-> Refused("RebalanceInProgress")]
           told == Reply(cleared, syncing, answer)
           prep == [told EXCEPT !.state = "Preparing"]
<1>1. Assigns(cleared)
  BY DEF Assigns, GroupFields
<1>2. \A m \in syncing : ReplyOK(answer[m])
  BY RefusedOK
<1>3. n \in CompleteRebalance(prep) \/ n = [prep EXCEPT !.tRebalance = TRUE]
  BY DEF Rebalance
<1> HIDE DEF cleared, syncing, answer
<1>4. Assigns(told)
  BY <1>1, <1>2, ReplyGroup
<1> HIDE DEF told
<1>5. Assigns(prep) /\ prep.state = "Preparing"
  BY <1>4 DEF Assigns, GroupFields
<1> HIDE DEF prep
<1>6. GroupOK([prep EXCEPT !.tRebalance = TRUE])
  BY <1>5 DEF GroupOK, Assigns, GroupFields
<1> QED BY <1>3, <1>5, <1>6, CompleteRebalanceGroup

(* A member is removed.                                                    *)
LEMMA RemoveMemberGroup ==
    ASSUME NEW g, GroupOK(g), NEW m \in Members, NEW n \in RemoveMember(g, m)
    PROVE  GroupOK(n)
<1> DEFINE x == [g EXCEPT !.members = @ \ {m}, !.timed = @ \ {m},
                          !.nJoining = IF g.waiting[m] = "no" THEN @ ELSE @ - 1,
                          !.waiting[m] = "no", !.join[m] = NoClaim, !.assignment[m] = {}]
<1>1. n \in Rebalance(x)
  BY DEF RemoveMember
<1>2. Assigns(x)
  BY DEF GroupOK, Assigns, GroupFields
<1> HIDE DEF x
<1> QED BY <1>1, <1>2, RebalanceGroup

(* A session times out or ends by a leave request.                         *)
LEMMA LeaveGroupOK ==
    ASSUME NEW g, GroupOK(g), NEW m \in Members, NEW n \in HandleLeave(g, m) \cup SessionTimeout(g, m)
    PROVE  GroupOK(n)
<1>1. CASE m \in g.members
  BY <1>1, RemoveMemberGroup DEF HandleLeave, SessionTimeout
<1>2. CASE m \notin g.members
  BY <1>2 DEF HandleLeave, SessionTimeout, GroupOK, Assigns, GroupFields
<1> QED BY <1>1, <1>2

(* A join request is handled.                                              *)
LEMMA HandleJoinGroup ==
    ASSUME NEW g, GroupOK(g), NEW m \in Members, NEW hasID, NEW claim,
           NEW n \in HandleJoin(g, m, hasID, claim)
    PROVE  GroupOK(n)
<1> DEFINE add == [g EXCEPT !.pending = @ \ {m}, !.timed = @ \ {m}, !.members = @ \cup {m},
                            !.join[m] = claim, !.nJoining = @ + 1, !.waiting[m] = "join"]
           update == [g EXCEPT !.join[m] = claim,
                               !.nJoining = IF g.waiting[m] = "no" THEN @ + 1 ELSE @,
                               !.waiting[m] = "join"]
           pend == [g EXCEPT !.pending = @ \cup {m}, !.timed = @ \cup {m}]
<1>1. \/ n = Answer(pend, m, Refused("MemberIDRequired"))
      \/ n \in Rebalance(add)
      \/ n = Answer(g, m, Refused("UnknownMemberID"))
      \/ n = Answer(g, m, JoinResponse(g, m, g.leader))
      \/ n \in Rebalance(update)
  <2>1. CASE ~hasID
    BY <2>1 DEF HandleJoin
  <2>2. CASE hasID /\ m \in g.pending
    BY <2>2 DEF HandleJoin, AddMember
  <2>3. CASE hasID /\ m \notin g.pending \cup g.members
    BY <2>3 DEF HandleJoin
  <2>4. CASE hasID /\ m \notin g.pending /\ m \in g.members
    BY <2>4 DEF HandleJoin, UpdateMember
  <2> QED BY <2>1, <2>2, <2>3, <2>4
<1>2. Assigns(add) /\ Assigns(update) /\ GroupOK(pend)
  BY DEF GroupOK, Assigns, GroupFields
<1> HIDE DEF add, update, pend
<1> QED BY <1>1, <1>2, RebalanceGroup, AnswerGroup, RefusedOK, JoinOK

(* A sync request is handled, the leader's with its plan.                  *)
LEMMA HandleSyncGroup ==
    ASSUME NEW g, GroupOK(g), NEW m \in Members, NEW gen, NEW plan,
           \A n \in DOMAIN plan : plan[n] \subseteq Partitions
    PROVE  GroupOK(HandleSync(g, m, gen, plan))
<1> DEFINE wait == [g EXCEPT !.waiting[m] = "sync"]
           planned == [wait EXCEPT !.state = "Stable",
                           !.assignment = [n \in Members |->
                               IF n \in g.members /\ n \in DOMAIN plan THEN plan[n] ELSE {}]]
           syncing == {n \in g.members : wait.waiting[n] # "no"}
           answer == [n \in syncing |-> SyncOk(planned.assignment[n])]
<1>1. GroupOK(wait)
  BY DEF GroupOK, Assigns, GroupFields
<1>2. GroupOK(planned) /\ syncing \subseteq Members
  <2> HIDE DEF wait
  <2> QED BY <1>1 DEF GroupOK, Assigns, GroupFields
<1>3. \A n \in syncing : ReplyOK(answer[n])
  <2> HIDE DEF planned, syncing
  <2> QED BY <1>2 DEF ReplyOK, SyncOk, GroupOK, Assigns
<1>4. GroupOK(Reply(planned, syncing, answer))
  <2> HIDE DEF planned, syncing, answer
  <2> QED BY <1>2, <1>3, ReplyGroup DEF GroupOK
<1>5. ReplyOK(SyncOk(g.assignment[m]))
  BY DEF ReplyOK, SyncOk, GroupOK, Assigns
<1>6. \/ \E err : HandleSync(g, m, gen, plan) = Answer(g, m, Refused(err))
      \/ HandleSync(g, m, gen, plan) = Reply(planned, syncing, answer)
      \/ HandleSync(g, m, gen, plan) = wait
      \/ HandleSync(g, m, gen, plan) = Answer(g, m, SyncOk(g.assignment[m]))
  <2>1. CASE m \notin g.members
    BY <2>1 DEF HandleSync
  <2>2. CASE m \in g.members /\ gen # g.gen
    BY <2>2 DEF HandleSync
  <2>3. CASE m \in g.members /\ gen = g.gen
    <3>1. g.state \in {"Preparing", "Completing", "Stable"}
      BY <2>3 DEF GroupOK
    <3>2. CASE g.state = "Preparing"
      BY <2>3, <3>2 DEF HandleSync
    <3>3. CASE g.state = "Completing" /\ m = g.leader
      BY <2>3, <3>3 DEF HandleSync
    <3>4. CASE g.state = "Completing" /\ m # g.leader
      BY <2>3, <3>4 DEF HandleSync
    <3>5. CASE g.state = "Stable"
      BY <2>3, <3>5 DEF HandleSync
    <3> QED BY <3>1, <3>2, <3>3, <3>4, <3>5
  <2> QED BY <2>1, <2>2, <2>3
<1> HIDE DEF wait, planned, syncing, answer
<1> QED BY <1>1, <1>4, <1>5, <1>6, AnswerGroup, RefusedOK

(* The plans of the leader have nothing but partitions.                    *)
LEMMA PlansOK ==
    ASSUME NEW claims, NEW cooperative \in BOOLEAN, NEW plan \in Plans(claims, cooperative)
    PROVE  \A n \in DOMAIN plan : plan[n] \subseteq Partitions
<1>1. \A a \in [Partitions -> DOMAIN claims] : \A n \in DOMAIN Plan(a, DOMAIN claims) :
         Plan(a, DOMAIN claims)[n] \subseteq Partitions
  BY DEF Plan
<1>2. CASE ~cooperative
  BY <1>1, <1>2 DEF Plans, BalancedPlans
<1>3. CASE cooperative
  <2>1. PICK q \in StickyPlans(claims) : plan = AdjustCooperative(q, claims)
    BY <1>3 DEF Plans
  <2>2. \A n \in DOMAIN q : q[n] \subseteq Partitions
    BY <1>1 DEF StickyPlans
  <2> QED BY <2>1, <2>2 DEF AdjustCooperative
<1> QED BY <1>2, <1>3

-----------------------------------------------------------------------------
(* The gate's halves, within its width.                                    *)
LEMMA WrapIs ==
    ASSUME NEW s \in Nat, s < Half + Half + Half
    PROVE  Wrap(s) = s
<1>1. Half \in Nat /\ Half > 2
  BY GroupAssumption
<1>2. Half * Half \in Nat /\ Half * Half >= Half + Half + Half
  BY <1>1
<1>3. s \in 0 .. Half * Half - 1
  BY <1>1, <1>2
<1>4. \A w \in Nat : s \in 0 .. w - 1 => s % w = s
  OBVIOUS
<1> QED BY <1>2, <1>3, <1>4 DEF Wrap

(* So are its counts of pollers and of rebalances.                         *)
LEMMA HalvesAre ==
    ASSUME NEW p \in Nat, p < Half, NEW r \in {0, Half, Half + Half}
    PROVE  Pollers(r + p) = p /\ (Rebalances(r + p) = 0 <=> r = 0)
<1>1. Half \in Nat /\ Half > 2
  BY GroupAssumption
<1>2. CASE r = 0
  BY <1>1, <1>2 DEF Pollers, Rebalances
<1>3. CASE r = Half
  BY <1>1, <1>3 DEF Pollers, Rebalances
<1>4. CASE r = Half + Half
  <2>1. r = 2 * Half
    BY <1>1, <1>4
  <2> QED BY <1>1, <2>1 DEF Pollers, Rebalances
<1> QED BY <1>2, <1>3, <1>4

(* What the gate of a member says.                                         *)
LEMMA GateIs ==
    ASSUME NEW c, NEW b, Phases(c), Gated(c, b), b.block, ~b.parallel, b.polls \in Nat
    PROVE  /\ Half \in Nat /\ Half > 2 /\ c.gate \in Nat
           /\ Rebalancing(c) \in {0, Half, Half + Half}
           /\ Polling(c) \in Nat /\ Polling(c) < Half /\ c.gate = Rebalancing(c) + Polling(c)
           /\ Pollers(c.gate) = Polling(c)
           /\ Rebalances(c.gate) = 0 <=> Rebalancing(c) = 0
<1>1. Half \in Nat /\ Half > 2
  BY GroupAssumption
<1>2. Rebalancing(c) \in {0, Half, Half + Half}
  BY <1>1 DEF Phases, Rebalancing, AtGate, Calling, Before
<1>3. c.gate \in Nat /\ Polling(c) \in Nat /\ Polling(c) < Half /\ c.gate = Rebalancing(c) + Polling(c)
  BY <1>1, <1>2 DEF Gated, Polling
<1> QED BY <1>1, <1>2, <1>3, HalvesAre

(* A member becomes x.                                                     *)
LEMMA MemberStep ==
    ASSUME IInv, NEW m \in Members, NEW x, Client(m, x), MemberOK(x, bound),
           UNCHANGED bound, GroupOK(grp')
    PROVE  IInv'
  BY DEF IInv, Client

(* The behaviour keeps within its scenario.                                *)
LEMMA BoundOK ==
    ASSUME NEW c, NEW b, NEW d, MemberOK(c, b), d.cooperative = b.cooperative, d.block = b.block,
           d.parallel = b.parallel, b.polls \in Nat, d.polls \in Nat, d.polls <= b.polls
    PROVE  MemberOK(c, d)
<1>1. Phases(c) /\ Consumes(c, b.cooperative) /\ Gated(c, b)
  BY DEF MemberOK
<1>2. Gated(c, d)
  <2> SUFFICES ASSUME d.block, ~d.parallel PROVE Gated(c, d)
    BY DEF Gated
  <2>1. Polling(c) \in Nat /\ Half \in Nat
    BY <1>1, GateIs
  <2> QED BY <1>1, <2>1 DEF Gated
<1> QED BY <1>1, <1>2 DEF MemberOK

(* The history of drops is no concern of a member's.                       *)
LEMMA OutOK ==
    ASSUME NEW c, NEW b, NEW o, MemberOK(c, b)
    PROVE  MemberOK([c EXCEPT !.out = o], b)
<1>1. Phases(c) /\ Consumes(c, b.cooperative) /\ Gated(c, b)
  BY DEF MemberOK
<1> DEFINE x == [c EXCEPT !.out = o]
<1>2. Phases(x)
  BY <1>1 DEF Phases, ClientFields
<1>3. Consumes(x, b.cooperative)
  BY <1>1 DEF Phases, ClientFields, Consumes
<1>4. Gated(x, b)
  BY <1>1 DEF Phases, ClientFields, Gated, Polling, Rebalancing, Passed
<1> QED BY <1>2, <1>3, <1>4 DEF MemberOK

(* A member becomes x, and others may be dropped.                          *)
LEMMA DroppingStep ==
    ASSUME IInv, NEW m \in Members, NEW x, Dropping(m, x), MemberOK(x, bound),
           UNCHANGED bound, GroupOK(grp')
    PROVE  IInv'
<1>1. DOMAIN cl' = Members
  BY DEF Dropping
<1>2. ASSUME NEW n \in Members PROVE MemberOK(cl'[n], bound)
  <2>1. MemberOK(IF n = m THEN x ELSE cl[n], bound)
    BY DEF IInv
  <2>2. cl'[n] = [(IF n = m THEN x ELSE cl[n]) EXCEPT !.out = OutOr(n, @)]
    BY DEF Dropping
  <2> QED BY <2>1, <2>2, OutOK
<1> QED BY <1>1, <1>2 DEF IInv

-----------------------------------------------------------------------------
(* Joining and syncing.                                                    *)
LEMMA JoiningIInv ==
    ASSUME IInv, NEW m \in Members,
           \/ Manage(m) \/ Join(m) \/ RequestTimeout(m) \/ JoinRefused(m) \/ Joined(m)
           \/ SyncRefused(m) \/ Synced(m)
    PROVE  IInv'
<1> DEFINE c == cl[m]
           r == grp.reply[m]
<1>0. /\ Phases(c) /\ Consumes(c, bound.cooperative) /\ Gated(c, bound) /\ DOMAIN c = ClientFields
      /\ GroupOK(grp) /\ GroupOK(Taken(m)) /\ bound.cooperative \in BOOLEAN
  <2>1. GroupOK(grp) /\ MemberOK(c, bound) /\ bound.cooperative \in BOOLEAN
    BY DEF IInv, BoundType
  <2>2. GroupOK(Taken(m))
    BY <2>1 DEF Taken, GroupOK, Assigns, GroupFields, ReplyOK
  <2> QED BY <2>1, <2>2 DEF MemberOK, Phases
<1>1. CASE Manage(m)
  <2> DEFINE x == [c EXCEPT !.man = "start"]
  <2>1. c.man = "off" /\ Client(m, x) /\ UNCHANGED <<grp, bound>>
    BY <1>1 DEF Manage
  <2>2. Phases(x)
    BY <1>0, <2>1 DEF Phases, ClientFields, Before, AtGate, Calling
  <2>3. Consumes(x, bound.cooperative)
    BY <1>0, <2>1 DEF Phases, ClientFields, Consumes
  <2>4. Gated(x, bound)
    BY <1>0, <2>1 DEF ClientFields, Gated, Polling, Rebalancing, Passed
  <2> HIDE DEF x
  <2> QED BY <1>0, <2>1, <2>2, <2>3, <2>4, MemberStep DEF MemberOK
<1>2. CASE Join(m)
  <2> DEFINE x == [c EXCEPT !.man = "join", !.rejoin = FALSE]
  <2>1. c.man = "start" /\ Dropping(m, x) /\ UNCHANGED bound
        /\ grp' \in HandleJoin(grp, m, c.id, Claim(c))
    BY <1>2 DEF Join
  <2>2. Phases(x)
    BY <1>0, <2>1 DEF Phases, ClientFields, Before, AtGate, Calling
  <2>3. Consumes(x, bound.cooperative)
    BY <1>0, <2>1 DEF Phases, ClientFields, Consumes
  <2>4. Gated(x, bound)
    BY <1>0, <2>1 DEF ClientFields, Gated, Polling, Rebalancing, Passed
  <2> HIDE DEF x
  <2>5. GroupOK(grp')
    BY <1>0, <2>1, HandleJoinGroup
  <2> QED BY <2>1, <2>2, <2>3, <2>4, <2>5, DroppingStep DEF MemberOK
<1>3. CASE RequestTimeout(m)
  <2>1. GroupOK(HandleSync(grp, m, c.gen, <<>>))
    BY <1>0, HandleSyncGroup
  <2>2. GroupOK(grp')
    BY <1>0, <1>3, <2>1, HandleJoinGroup DEF RequestTimeout
  <2> QED BY <1>3, <2>2 DEF RequestTimeout, IInv
<1>4. CASE JoinRefused(m)
  <2> DEFINE x == [c EXCEPT !.man = "start", !.id = r.err = "MemberIDRequired"]
  <2>1. c.man = "join" /\ Client(m, x) /\ grp' = Taken(m) /\ UNCHANGED bound
    BY <1>4 DEF JoinRefused
  <2>2. Phases(x)
    BY <1>0, <2>1 DEF Phases, ClientFields, Before, AtGate, Calling
  <2>3. Consumes(x, bound.cooperative)
    BY <1>0, <2>1 DEF Phases, ClientFields, Consumes
  <2>4. Gated(x, bound)
    BY <1>0, <2>1 DEF ClientFields, Gated, Polling, Rebalancing, Passed
  <2> HIDE DEF x
  <2> QED BY <1>0, <2>1, <2>2, <2>3, <2>4, MemberStep DEF MemberOK
<1>5. CASE Joined(m)
  <2> DEFINE x == [c EXCEPT !.man = "sync", !.gen = r.gen,
                            !.out = IF @ = "back" /\ r.gen > c.gen THEN "no" ELSE @]
  <2>1. /\ c.man = "join" /\ Client(m, x) /\ UNCHANGED bound
        /\ \E plan \in IF r.leads THEN Plans(r.claims, bound.cooperative) ELSE {<<>>} :
              grp' = HandleSync(Taken(m), m, r.gen, plan)
    BY <1>5 DEF Joined
  <2>2. Phases(x)
    BY <1>0, <2>1 DEF Phases, ClientFields, Before, AtGate, Calling
  <2>3. Consumes(x, bound.cooperative)
    BY <1>0, <2>1 DEF Phases, ClientFields, Consumes
  <2>4. Gated(x, bound)
    BY <1>0, <2>1 DEF ClientFields, Gated, Polling, Rebalancing, Passed
  <2> HIDE DEF x
  <2>5. PICK plan : /\ grp' = HandleSync(Taken(m), m, r.gen, plan)
                    /\ plan = <<>> \/ plan \in Plans(r.claims, bound.cooperative)
    BY <2>1
  <2>6. \A n \in DOMAIN plan : plan[n] \subseteq Partitions
    BY <1>0, <2>5, PlansOK
  <2>7. GroupOK(grp')
    BY <1>0, <2>5, <2>6, HandleSyncGroup
  <2> QED BY <2>1, <2>2, <2>3, <2>4, <2>7, MemberStep DEF MemberOK
<1>6. CASE SyncRefused(m)
  <2> DEFINE x == IF r.err = "RebalanceInProgress"
                  THEN [c EXCEPT !.man = "start"]
                  ELSE [c EXCEPT !.man = "fail", !.err = "fatal"]
  <2>1. c.man = "sync" /\ Client(m, x) /\ grp' = Taken(m) /\ UNCHANGED bound
    BY <1>6 DEF SyncRefused
  <2>2. Phases(x)
    BY <1>0, <2>1 DEF Phases, ClientFields, Before, AtGate, Calling
  <2>3. Consumes(x, bound.cooperative)
    BY <1>0, <2>1 DEF Phases, ClientFields, Consumes
  <2>4. Gated(x, bound)
    BY <1>0, <2>1 DEF ClientFields, Gated, Polling, Rebalancing, Passed
  <2> HIDE DEF x
  <2> QED BY <1>0, <2>1, <2>2, <2>3, <2>4, MemberStep DEF MemberOK
<1>7. CASE Synced(m)
  <2> DEFINE added == Added(c, r.parts)
             lost == Lost(c, r.parts)
             x == [c EXCEPT !.man = "session", !.now = r.parts, !.last = r.parts,
                            !.added = added, !.lost = lost,
                            !.fetching = AdjustFetching(c, added, lost),
                            !.st = IF lost # {} THEN "prerevoke" ELSE "assign",
                            !.hb = "run", !.fo = "none",
                            !.out = IF @ = "out" /\ m \in grp.members THEN "back" ELSE @]
  <2>1. c.man = "sync" /\ Client(m, x) /\ grp' = Taken(m) /\ UNCHANGED bound
        /\ r.parts \subseteq Partitions
    BY <1>0, <1>7 DEF Synced, GroupOK, Assigns, ReplyOK
  <2>2. /\ x.man = "session" /\ x.now = r.parts /\ x.last = r.parts /\ x.added = added
        /\ x.lost = lost /\ x.fetching = AdjustFetching(c, added, lost)
        /\ x.st \in {"prerevoke", "assign"} /\ x.hb = "run" /\ x.fo = "none"
        /\ x.rv = c.rv /\ x.use = c.use /\ x.gone = c.gone /\ x.late = c.late
        /\ x.dying = c.dying /\ DOMAIN x = ClientFields
    BY <1>0 DEF ClientFields
  <2>3. Gated(x, bound)
    BY <1>0, <2>1 DEF Phases, ClientFields, Gated, Polling, Rebalancing, Passed, AtGate, Calling,
                      Before
  <2> HIDE DEF x
  <2>4. Phases(x)
    BY <1>0, <2>1, <2>2 DEF Phases, Before, AtGate, Calling
  <2>5. Consumes(x, bound.cooperative)
    BY <1>0, <2>1, <2>2 DEF Phases, Consumes, Added, Lost, AdjustFetching, Before, AtGate, Calling
  <2> QED BY <1>0, <2>1, <2>3, <2>4, <2>5, MemberStep DEF MemberOK
<1> QED BY <1>1, <1>2, <1>3, <1>4, <1>5, <1>6, <1>7

-----------------------------------------------------------------------------
(* The gate.  A step that neither waits at it nor leaves it: a callback    *)
(* begins only when no poll is counted.                                    *)
LEMMA GateKept ==
    ASSUME NEW c, NEW x, bound.polls \in Nat, Phases(c), Gated(c, bound), Phases(x),
           x.gate = c.gate, Rebalancing(x) = Rebalancing(c), x.proc = c.proc, x.fill = c.fill,
           Passed(x) => Passed(c) \/ Open(c)
    PROVE  Gated(x, bound)
<1> SUFFICES ASSUME bound.block, ~bound.parallel PROVE Gated(x, bound)
  BY DEF Gated
<1>1. Polling(x) = Polling(c) /\ c.gate \in Nat /\ Pollers(c.gate) = Polling(c)
  BY GateIs DEF Polling
<1>2. Passed(x) => Polling(c) = 0
  BY <1>1 DEF Gated, Open
<1> QED BY <1>1, <1>2 DEF Gated

(* waitAndAddRebalance counts a rebalance.                                 *)
LEMMA GateEntered ==
    ASSUME NEW c, NEW x, bound.polls \in Nat, Phases(c), Gated(c, bound), Phases(x),
           x.gate = AddRebalance(c.gate), Rebalancing(x) = Rebalancing(c) + Half,
           x.proc = c.proc, x.fill = c.fill, Passed(x) => Passed(c) \/ Open(c)
    PROVE  Gated(x, bound)
<1> SUFFICES ASSUME bound.block, ~bound.parallel PROVE Gated(x, bound)
  BY DEF Gated
<1>1. /\ Half \in Nat /\ Half > 2 /\ Rebalancing(c) \in {0, Half, Half + Half}
      /\ Polling(c) \in Nat /\ Polling(c) < Half /\ c.gate = Rebalancing(c) + Polling(c)
      /\ Pollers(c.gate) = Polling(c)
  BY GateIs
<1>2. Rebalancing(x) \in {0, Half, Half + Half}
  BY <1>1 DEF Rebalancing, Phases, Before, AtGate, Calling
<1>3. c.gate + Half \in Nat /\ c.gate + Half < Half + Half + Half
  BY <1>1, <1>2
<1>4. x.gate = c.gate + Half
  BY <1>3, WrapIs DEF AddRebalance
<1>5. Polling(x) = Polling(c) /\ x.gate \in Nat
  BY <1>1, <1>3, <1>4 DEF Polling
<1>6. Passed(x) => Polling(c) = 0
  BY <1>1 DEF Gated, Open
<1> QED BY <1>5, <1>6 DEF Gated

(* unaddRebalance takes it back.                                           *)
LEMMA GateLeft ==
    ASSUME NEW c, NEW x, bound.polls \in Nat, Phases(c), Gated(c, bound), Phases(x),
           x.gate = UnaddRebalance(c.gate), Rebalancing(x) = Rebalancing(c) - Half,
           x.proc = c.proc, x.fill = c.fill, Passed(x) => Passed(c) \/ Open(c)
    PROVE  Gated(x, bound)
<1> SUFFICES ASSUME bound.block, ~bound.parallel PROVE Gated(x, bound)
  BY DEF Gated
<1>1. /\ Half \in Nat /\ Half > 2 /\ Rebalancing(c) \in {0, Half, Half + Half}
      /\ Polling(c) \in Nat /\ Polling(c) < Half /\ c.gate = Rebalancing(c) + Polling(c)
      /\ Pollers(c.gate) = Polling(c)
  BY GateIs
<1>2. Rebalancing(x) \in {0, Half, Half + Half}
  BY <1>1 DEF Rebalancing, Phases, Before, AtGate, Calling
<1>3. c.gate - Half \in Nat /\ c.gate - Half < Half + Half + Half
  BY <1>1, <1>2
<1>4. x.gate = c.gate - Half
  BY <1>3, WrapIs DEF UnaddRebalance
<1>5. Polling(x) = Polling(c) /\ x.gate \in Nat
  BY <1>1, <1>3, <1>4 DEF Polling
<1>6. Passed(x) => Polling(c) = 0
  BY <1>1 DEF Gated, Open
<1> QED BY <1>5, <1>6 DEF Gated

-----------------------------------------------------------------------------
(* A session's callbacks.                                                  *)
LEMMA CallbacksIInv ==
    ASSUME IInv, NEW m \in Members,
           \/ CallbackGate(m) \/ Prerevoke(m) \/ PrerevokeDone(m) \/ Assign(m) \/ AssignDone(m)
           \/ Revoke(m) \/ RevokeDone(m)
    PROVE  IInv'
<1> DEFINE c == cl[m]
<1>0. /\ Phases(c) /\ Consumes(c, bound.cooperative) /\ Gated(c, bound) /\ GroupOK(grp)
      /\ bound.cooperative \in BOOLEAN /\ bound.polls \in Nat /\ Half \in Nat
  BY GroupAssumption DEF IInv, MemberOK, BoundType
<1>1. CASE CallbackGate(m)
  <2> DEFINE x == [c EXCEPT !.st = Waits[IF c.st = "assigned" /\ c.rv THEN "revoke" ELSE c.st],
                            !.gate = AddRebalance(@)]
  <2>1. (IF c.st = "assigned" /\ c.rv THEN "revoke" ELSE c.st) \in DOMAIN Waits /\ Client(m, x) /\ UNCHANGED <<grp, bound>>
    BY <1>1 DEF CallbackGate
  <2>2. Phases(x)
    BY <1>0, <2>1 DEF Phases, ClientFields, Before, AtGate, Calling, Waits
  <2>3. Consumes(x, bound.cooperative)
    BY <1>0, <2>1 DEF Phases, ClientFields, Consumes, Before, AtGate, Calling, Waits
  <2>4. Gated(x, bound)
    <3>1. /\ x.gate = AddRebalance(c.gate) /\ Rebalancing(x) = Rebalancing(c) + Half
          /\ x.proc = c.proc /\ x.fill = c.fill /\ (Passed(x) => Passed(c) \/ Open(c))
      BY <1>0, <2>1 DEF Phases, ClientFields, Rebalancing, Passed, AtGate, Calling, Before, Waits
    <3> HIDE DEF x
    <3> QED BY <1>0, <2>2, <3>1, GateEntered
  <2> HIDE DEF x
  <2> QED BY <1>0, <2>1, <2>2, <2>3, <2>4, MemberStep DEF MemberOK
<1>2. CASE Prerevoke(m)
  <2> DEFINE x == [Drop(c, c.lost) EXCEPT !.st = "prerevoking"]
  <2>1. c.st = "prerevokeW" /\ Open(c) /\ Client(m, x) /\ UNCHANGED <<grp, bound>>
    BY <1>2 DEF Prerevoke
  <2>2. Phases(x)
    BY <1>0, <2>1 DEF Phases, ClientFields, Before, AtGate, Calling, Drop
  <2>3. Consumes(x, bound.cooperative)
    BY <1>0, <2>1 DEF Phases, ClientFields, Consumes, Before, AtGate, Calling, Drop
  <2>4. Gated(x, bound)
    <3>1. /\ x.gate = c.gate /\ Rebalancing(x) = Rebalancing(c)
          /\ x.proc = c.proc /\ x.fill = c.fill /\ (Passed(x) => Passed(c) \/ Open(c))
      BY <1>0, <2>1 DEF Phases, ClientFields, Rebalancing, Passed, AtGate, Calling, Before, Drop
    <3> HIDE DEF x
    <3> QED BY <1>0, <2>2, <3>1, GateKept
  <2> HIDE DEF x
  <2> QED BY <1>0, <2>1, <2>2, <2>3, <2>4, MemberStep DEF MemberOK
<1>3. CASE PrerevokeDone(m)
  <2> DEFINE x == [c EXCEPT !.st = "assign", !.rejoin = TRUE, !.gate = UnaddRebalance(@),
                            !.gone = @ \cup c.lost]
  <2>1. c.st = "prerevoking" /\ Client(m, x) /\ UNCHANGED <<grp, bound>>
    BY <1>3 DEF PrerevokeDone
  <2>2. Phases(x)
    BY <1>0, <2>1 DEF Phases, ClientFields, Before, AtGate, Calling
  <2>3. Consumes(x, bound.cooperative)
    BY <1>0, <2>1 DEF Phases, ClientFields, Consumes, Before, AtGate, Calling
  <2>4. Gated(x, bound)
    <3>1. /\ x.gate = UnaddRebalance(c.gate) /\ Rebalancing(x) = Rebalancing(c) - Half
          /\ x.proc = c.proc /\ x.fill = c.fill /\ (Passed(x) => Passed(c) \/ Open(c))
      BY <1>0, <2>1 DEF Phases, ClientFields, Rebalancing, Passed, AtGate, Calling, Before
    <3> HIDE DEF x
    <3> QED BY <1>0, <2>2, <3>1, GateLeft
  <2> HIDE DEF x
  <2> QED BY <1>0, <2>1, <2>2, <2>3, <2>4, MemberStep DEF MemberOK
<1>4. CASE Assign(m)
  <2> DEFINE x == [c EXCEPT !.st = "assigning", !.gone = @ \ c.added]
  <2>1. c.st = "assignW" /\ Open(c) /\ Client(m, x) /\ UNCHANGED <<grp, bound>>
    BY <1>4 DEF Assign
  <2>2. Phases(x)
    BY <1>0, <2>1 DEF Phases, ClientFields, Before, AtGate, Calling
  <2>3. Consumes(x, bound.cooperative)
    BY <1>0, <2>1 DEF Phases, ClientFields, Consumes, Before, AtGate, Calling
  <2>4. Gated(x, bound)
    <3>1. /\ x.gate = c.gate /\ Rebalancing(x) = Rebalancing(c)
          /\ x.proc = c.proc /\ x.fill = c.fill /\ (Passed(x) => Passed(c) \/ Open(c))
      BY <1>0, <2>1 DEF Phases, ClientFields, Rebalancing, Passed, AtGate, Calling, Before
    <3> HIDE DEF x
    <3> QED BY <1>0, <2>2, <3>1, GateKept
  <2> HIDE DEF x
  <2> QED BY <1>0, <2>1, <2>2, <2>3, <2>4, MemberStep DEF MemberOK
<1>5. CASE AssignDone(m)
  <2> DEFINE x == [c EXCEPT !.st = "assigned", !.gate = UnaddRebalance(@),
                            !.fo = IF ToFetch(c) = {} THEN "ok"
                                   ELSE IF Canceled(c) THEN "canceled" ELSE "req"]
  <2>1. c.st = "assigning" /\ Client(m, x) /\ UNCHANGED <<grp, bound>>
    BY <1>5 DEF AssignDone
  <2>2. Phases(x)
    BY <1>0, <2>1 DEF Phases, ClientFields, Before, AtGate, Calling
  <2>3. Consumes(x, bound.cooperative)
    BY <1>0, <2>1 DEF Phases, ClientFields, Consumes, Before, AtGate, Calling, ToFetch
  <2>4. Gated(x, bound)
    <3>1. /\ x.gate = UnaddRebalance(c.gate) /\ Rebalancing(x) = Rebalancing(c) - Half
          /\ x.proc = c.proc /\ x.fill = c.fill /\ (Passed(x) => Passed(c) \/ Open(c))
      BY <1>0, <2>1 DEF Phases, ClientFields, Rebalancing, Passed, AtGate, Calling, Before
    <3> HIDE DEF x
    <3> QED BY <1>0, <2>2, <3>1, GateLeft
  <2> HIDE DEF x
  <2> QED BY <1>0, <2>1, <2>2, <2>3, <2>4, MemberStep DEF MemberOK
<1>6. CASE Revoke(m)
  <2> DEFINE x == [(IF bound.cooperative THEN c ELSE Drop(c, Partitions)) EXCEPT !.st = "revoking"]
  <2>1. c.st = "revokeW" /\ Open(c) /\ Client(m, x) /\ UNCHANGED <<grp, bound>>
    BY <1>6 DEF Revoke
  <2>2. Phases(x)
    BY <1>0, <2>1 DEF Phases, ClientFields, Before, AtGate, Calling, Drop
  <2>3. Consumes(x, bound.cooperative)
    BY <1>0, <2>1 DEF Phases, ClientFields, Consumes, Before, AtGate, Calling, Drop
  <2>4. Gated(x, bound)
    <3>1. /\ x.gate = c.gate /\ Rebalancing(x) = Rebalancing(c)
          /\ x.proc = c.proc /\ x.fill = c.fill /\ (Passed(x) => Passed(c) \/ Open(c))
      BY <1>0, <2>1 DEF Phases, ClientFields, Rebalancing, Passed, AtGate, Calling, Before, Drop
    <3> HIDE DEF x
    <3> QED BY <1>0, <2>2, <3>1, GateKept
  <2> HIDE DEF x
  <2> QED BY <1>0, <2>1, <2>2, <2>3, <2>4, MemberStep DEF MemberOK
<1>7. CASE RevokeDone(m)
  <2> DEFINE x == IF bound.cooperative
                  THEN [c EXCEPT !.st = "revoked", !.gate = UnaddRebalance(@)]
                  ELSE [[c EXCEPT !.st = "revoked", !.gate = UnaddRebalance(@)]
                           EXCEPT !.now = {}, !.last = {}, !.gone = @ \cup c.now]
  <2>1. c.st = "revoking" /\ Client(m, x) /\ UNCHANGED <<grp, bound>>
    BY <1>7 DEF RevokeDone
  <2>2. Phases(x)
    BY <1>0, <2>1 DEF Phases, ClientFields, Before, AtGate, Calling
  <2>3. Consumes(x, bound.cooperative)
    BY <1>0, <2>1 DEF Phases, ClientFields, Consumes, Before, AtGate, Calling
  <2>4. Gated(x, bound)
    <3>1. /\ x.gate = UnaddRebalance(c.gate) /\ Rebalancing(x) = Rebalancing(c) - Half
          /\ x.proc = c.proc /\ x.fill = c.fill /\ (Passed(x) => Passed(c) \/ Open(c))
      BY <1>0, <2>1 DEF Phases, ClientFields, Rebalancing, Passed, AtGate, Calling, Before
    <3> HIDE DEF x
    <3> QED BY <1>0, <2>2, <3>1, GateLeft
  <2> HIDE DEF x
  <2> QED BY <1>0, <2>1, <2>2, <2>3, <2>4, MemberStep DEF MemberOK
<1> QED BY <1>1, <1>2, <1>3, <1>4, <1>5, <1>6, <1>7

-----------------------------------------------------------------------------
(* The offset fetch and the heartbeat loop.                                *)
LEMMA SessionIInv ==
    ASSUME IInv, NEW m \in Members,
           \/ OffsetsFetched(m) \/ OffsetsAssigned(m) \/ FetchCanceled(m)
           \/ Heartbeat(m) \/ HeartbeatErrored(m) \/ Rejoin(m) \/ FetchErrored(m)
           \/ GroupCanceled(m) \/ Revoked(m) \/ SessionEnds(m)
    PROVE  IInv'
<1> DEFINE c == cl[m]
<1>0. /\ Phases(c) /\ Consumes(c, bound.cooperative) /\ Gated(c, bound) /\ GroupOK(grp)
      /\ bound.cooperative \in BOOLEAN /\ bound.polls \in Nat /\ Half \in Nat
  BY GroupAssumption DEF IInv, MemberOK, BoundType
<1>1. CASE OffsetsFetched(m)
  <2> DEFINE x == [c EXCEPT !.fo = "resp"]
  <2>1. c.fo = "req" /\ Client(m, x) /\ UNCHANGED <<grp, bound>>
    BY <1>1 DEF OffsetsFetched
  <2>2. Phases(x)
    BY <1>0, <2>1 DEF Phases, ClientFields, Before, AtGate, Calling
  <2>3. Consumes(x, bound.cooperative)
    BY <1>0, <2>1 DEF Phases, ClientFields, Consumes, Before, AtGate, Calling
  <2>4. Gated(x, bound)
    <3>1. /\ x.gate = c.gate /\ Rebalancing(x) = Rebalancing(c)
          /\ x.proc = c.proc /\ x.fill = c.fill /\ (Passed(x) => Passed(c) \/ Open(c))
      BY <1>0, <2>1 DEF Phases, ClientFields, Rebalancing, Passed, AtGate, Calling, Before
    <3> HIDE DEF x
    <3> QED BY <1>0, <2>2, <3>1, GateKept
  <2> HIDE DEF x
  <2> QED BY <1>0, <2>1, <2>2, <2>3, <2>4, MemberStep DEF MemberOK
<1>2. CASE OffsetsAssigned(m)
  <2> DEFINE x == [c EXCEPT !.fo = "ok", !.fetching = {}, !.use = @ \cup ToFetch(c),
                            !.late = IF ~bound.cooperative /\ c.st \in {"revoking", "revoked"}
                                     THEN @ \cup ToFetch(c) ELSE @]
  <2>1. c.fo = "resp" /\ Client(m, x) /\ UNCHANGED <<grp, bound>>
    BY <1>2 DEF OffsetsAssigned
  <2>2. Phases(x)
    BY <1>0, <2>1 DEF Phases, ClientFields, Before, AtGate, Calling
  <2>3. Consumes(x, bound.cooperative)
    BY <1>0, <2>1 DEF Phases, ClientFields, Consumes, Before, AtGate, Calling, ToFetch
  <2>4. Gated(x, bound)
    <3>1. /\ x.gate = c.gate /\ Rebalancing(x) = Rebalancing(c)
          /\ x.proc = c.proc /\ x.fill = c.fill /\ (Passed(x) => Passed(c) \/ Open(c))
      BY <1>0, <2>1 DEF Phases, ClientFields, Rebalancing, Passed, AtGate, Calling, Before
    <3> HIDE DEF x
    <3> QED BY <1>0, <2>2, <3>1, GateKept
  <2> HIDE DEF x
  <2> QED BY <1>0, <2>1, <2>2, <2>3, <2>4, MemberStep DEF MemberOK
<1>3. CASE FetchCanceled(m)
  <2> DEFINE x == [c EXCEPT !.fo = "canceled"]
  <2>1. c.fo = "req" /\ Client(m, x) /\ UNCHANGED <<grp, bound>>
    BY <1>3 DEF FetchCanceled
  <2>2. Phases(x)
    BY <1>0, <2>1 DEF Phases, ClientFields, Before, AtGate, Calling
  <2>3. Consumes(x, bound.cooperative)
    BY <1>0, <2>1 DEF Phases, ClientFields, Consumes, Before, AtGate, Calling
  <2>4. Gated(x, bound)
    <3>1. /\ x.gate = c.gate /\ Rebalancing(x) = Rebalancing(c)
          /\ x.proc = c.proc /\ x.fill = c.fill /\ (Passed(x) => Passed(c) \/ Open(c))
      BY <1>0, <2>1 DEF Phases, ClientFields, Rebalancing, Passed, AtGate, Calling, Before
    <3> HIDE DEF x
    <3> QED BY <1>0, <2>2, <3>1, GateKept
  <2> HIDE DEF x
  <2> QED BY <1>0, <2>1, <2>2, <2>3, <2>4, MemberStep DEF MemberOK
<1>4. CASE Heartbeat(m)
  <2> DEFINE x == [c EXCEPT !.pend = Outcome(m)]
  <2>1. /\ c.hb = "run" /\ Client(m, x) /\ UNCHANGED bound
        /\ grp' = grp \/ grp' = HandleHeartbeat(grp, m, c.gen)
    BY <1>4 DEF Heartbeat, Beating
  <2>2. Phases(x)
    BY <1>0, <2>1 DEF Phases, ClientFields, Before, AtGate, Calling
  <2>3. Consumes(x, bound.cooperative)
    BY <1>0, <2>1 DEF Phases, ClientFields, Consumes, Before, AtGate, Calling
  <2>4. Gated(x, bound)
    <3>1. /\ x.gate = c.gate /\ Rebalancing(x) = Rebalancing(c)
          /\ x.proc = c.proc /\ x.fill = c.fill /\ (Passed(x) => Passed(c) \/ Open(c))
      BY <1>0, <2>1 DEF Phases, ClientFields, Rebalancing, Passed, AtGate, Calling, Before
    <3> HIDE DEF x
    <3> QED BY <1>0, <2>2, <3>1, GateKept
  <2>5. GroupOK(grp')
    BY <1>0, <2>1 DEF HandleHeartbeat, GroupOK, Assigns, GroupFields
  <2> HIDE DEF x
  <2> QED BY <2>5, <2>1, <2>2, <2>3, <2>4, MemberStep DEF MemberOK
<1>5. CASE HeartbeatErrored(m)
  <2>0. PICK e : Client(m, [Error(c, e) EXCEPT !.pend = "none"])
    BY <1>5 DEF HeartbeatErrored
  <2> DEFINE x == [Error(c, e) EXCEPT !.pend = "none"]
  <2>1. c.hb = "run" /\ Client(m, x) /\ UNCHANGED <<grp, bound>>
    BY <1>5, <2>0 DEF HeartbeatErrored
  <2>2. Phases(x)
    BY <1>0, <2>1 DEF Phases, ClientFields, Before, AtGate, Calling, Error
  <2>3. Consumes(x, bound.cooperative)
    BY <1>0, <2>1 DEF Phases, ClientFields, Consumes, Before, AtGate, Calling, Error
  <2>4. Gated(x, bound)
    <3>1. /\ x.gate = c.gate /\ Rebalancing(x) = Rebalancing(c)
          /\ x.proc = c.proc /\ x.fill = c.fill /\ (Passed(x) => Passed(c) \/ Open(c))
      BY <1>0, <2>1 DEF Phases, ClientFields, Rebalancing, Passed, AtGate, Calling, Before, Error
    <3> HIDE DEF x
    <3> QED BY <1>0, <2>2, <3>1, GateKept
  <2> HIDE DEF x
  <2> QED BY <1>0, <2>1, <2>2, <2>3, <2>4, MemberStep DEF MemberOK
<1>6. CASE Rejoin(m)
  <2> DEFINE x == [Error(c, "rebalance") EXCEPT !.rejoin = FALSE]
  <2>1. c.hb = "run" /\ Client(m, x) /\ UNCHANGED <<grp, bound>>
    BY <1>6 DEF Rejoin, Beating
  <2>2. Phases(x)
    BY <1>0, <2>1 DEF Phases, ClientFields, Before, AtGate, Calling, Error
  <2>3. Consumes(x, bound.cooperative)
    BY <1>0, <2>1 DEF Phases, ClientFields, Consumes, Before, AtGate, Calling, Error
  <2>4. Gated(x, bound)
    <3>1. /\ x.gate = c.gate /\ Rebalancing(x) = Rebalancing(c)
          /\ x.proc = c.proc /\ x.fill = c.fill /\ (Passed(x) => Passed(c) \/ Open(c))
      BY <1>0, <2>1 DEF Phases, ClientFields, Rebalancing, Passed, AtGate, Calling, Before, Error
    <3> HIDE DEF x
    <3> QED BY <1>0, <2>2, <3>1, GateKept
  <2> HIDE DEF x
  <2> QED BY <1>0, <2>1, <2>2, <2>3, <2>4, MemberStep DEF MemberOK
<1>7. CASE FetchErrored(m)
  <2> DEFINE x == [Error(c, IF c.fo = "failed" THEN "fatal" ELSE "canceled")
                     EXCEPT !.fo = "errored"]
  <2>1. c.hb = "run" /\ c.fo \in {"failed", "canceled"} /\ Client(m, x) /\ UNCHANGED <<grp, bound>>
    BY <1>7 DEF FetchErrored, Beating
  <2>2. Phases(x)
    BY <1>0, <2>1 DEF Phases, ClientFields, Before, AtGate, Calling, Error
  <2>3. Consumes(x, bound.cooperative)
    BY <1>0, <2>1 DEF Phases, ClientFields, Consumes, Before, AtGate, Calling, Error
  <2>4. Gated(x, bound)
    <3>1. /\ x.gate = c.gate /\ Rebalancing(x) = Rebalancing(c)
          /\ x.proc = c.proc /\ x.fill = c.fill /\ (Passed(x) => Passed(c) \/ Open(c))
      BY <1>0, <2>1 DEF Phases, ClientFields, Rebalancing, Passed, AtGate, Calling, Before, Error
    <3> HIDE DEF x
    <3> QED BY <1>0, <2>2, <3>1, GateKept
  <2> HIDE DEF x
  <2> QED BY <1>0, <2>1, <2>2, <2>3, <2>4, MemberStep DEF MemberOK
<1>8. CASE GroupCanceled(m)
  <2> DEFINE x == [Error(c, "canceled") EXCEPT !.ctx = TRUE]
  <2>1. c.hb = "run" /\ Client(m, x) /\ UNCHANGED <<grp, bound>>
    BY <1>8 DEF GroupCanceled, Beating
  <2>2. Phases(x)
    BY <1>0, <2>1 DEF Phases, ClientFields, Before, AtGate, Calling, Error
  <2>3. Consumes(x, bound.cooperative)
    BY <1>0, <2>1 DEF Phases, ClientFields, Consumes, Before, AtGate, Calling, Error
  <2>4. Gated(x, bound)
    <3>1. /\ x.gate = c.gate /\ Rebalancing(x) = Rebalancing(c)
          /\ x.proc = c.proc /\ x.fill = c.fill /\ (Passed(x) => Passed(c) \/ Open(c))
      BY <1>0, <2>1 DEF Phases, ClientFields, Rebalancing, Passed, AtGate, Calling, Before, Error
    <3> HIDE DEF x
    <3> QED BY <1>0, <2>2, <3>1, GateKept
  <2> HIDE DEF x
  <2> QED BY <1>0, <2>1, <2>2, <2>3, <2>4, MemberStep DEF MemberOK
<1>9. CASE Revoked(m)
  <2> DEFINE x == [c EXCEPT !.hb = "ret"]
  <2>1. c.hb = "run" /\ c.rv /\ c.st = "revoked" /\ Client(m, x) /\ UNCHANGED <<grp, bound>>
    BY <1>9 DEF Revoked, Beating
  <2>2. Phases(x)
    BY <1>0, <2>1 DEF Phases, ClientFields, Before, AtGate, Calling
  <2>3. Consumes(x, bound.cooperative)
    BY <1>0, <2>1 DEF Phases, ClientFields, Consumes, Before, AtGate, Calling
  <2>4. Gated(x, bound)
    <3>1. /\ x.gate = c.gate /\ Rebalancing(x) = Rebalancing(c)
          /\ x.proc = c.proc /\ x.fill = c.fill /\ (Passed(x) => Passed(c) \/ Open(c))
      BY <1>0, <2>1 DEF Phases, ClientFields, Rebalancing, Passed, AtGate, Calling, Before
    <3> HIDE DEF x
    <3> QED BY <1>0, <2>2, <3>1, GateKept
  <2> HIDE DEF x
  <2> QED BY <1>0, <2>1, <2>2, <2>3, <2>4, MemberStep DEF MemberOK
<1>10. CASE SessionEnds(m)
  <2> DEFINE x == [c EXCEPT !.man = IF c.err = "rebalance" THEN "start" ELSE "fail",
                            !.hb = "off", !.rv = FALSE, !.ctx = FALSE,
                            !.fo = "none", !.added = {}, !.lost = {}]
  <2>1. c.man = "session" /\ SessionDone(c) /\ Client(m, x) /\ UNCHANGED <<grp, bound>>
    BY <1>10 DEF SessionEnds
  <2>2. Phases(x)
    BY <1>0, <2>1 DEF Phases, ClientFields, Before, AtGate, Calling, SessionDone
  <2>3. Consumes(x, bound.cooperative)
    BY <1>0, <2>1 DEF Phases, ClientFields, Consumes, Before, AtGate, Calling, SessionDone
  <2>4. Gated(x, bound)
    <3>1. /\ x.gate = c.gate /\ Rebalancing(x) = Rebalancing(c)
          /\ x.proc = c.proc /\ x.fill = c.fill /\ (Passed(x) => Passed(c) \/ Open(c))
      BY <1>0, <2>1 DEF Phases, ClientFields, Rebalancing, Passed, AtGate, Calling, Before, SessionDone
    <3> HIDE DEF x
    <3> QED BY <1>0, <2>2, <3>1, GateKept
  <2> HIDE DEF x
  <2> QED BY <1>0, <2>1, <2>2, <2>3, <2>4, MemberStep DEF MemberOK
<1> QED BY <1>1, <1>2, <1>3, <1>4, <1>5, <1>6, <1>7, <1>8, <1>9, <1>10

-----------------------------------------------------------------------------
(* manageFailWait and LeaveGroup.                                          *)
LEMMA FailingIInv ==
    ASSUME IInv, NEW m \in Members,
           \/ FailGate(m) \/ FailCallback(m) \/ FailCallbackDone(m) \/ FailInvalidate(m) \/ Backoff(m)
           \/ LeaveGroup(m) \/ Leave(m)
    PROVE  IInv'
<1> DEFINE c == cl[m]
<1>0. /\ Phases(c) /\ Consumes(c, bound.cooperative) /\ Gated(c, bound) /\ GroupOK(grp)
      /\ bound.cooperative \in BOOLEAN /\ bound.polls \in Nat /\ Half \in Nat
  BY GroupAssumption DEF IInv, MemberOK, BoundType
<1>1. CASE FailGate(m)
  <2> DEFINE x == [c EXCEPT !.man = "failW", !.gate = AddRebalance(@)]
  <2>1. c.man = "fail" /\ Client(m, x) /\ UNCHANGED <<grp, bound>>
    BY <1>1 DEF FailGate
  <2>2. Phases(x)
    BY <1>0, <2>1 DEF Phases, ClientFields, Before, AtGate, Calling
  <2>3. Consumes(x, bound.cooperative)
    BY <1>0, <2>1 DEF Phases, ClientFields, Consumes, Before, AtGate, Calling
  <2>4. Gated(x, bound)
    <3>1. /\ x.gate = AddRebalance(c.gate) /\ Rebalancing(x) = Rebalancing(c) + Half
          /\ x.proc = c.proc /\ x.fill = c.fill /\ (Passed(x) => Passed(c) \/ Open(c))
      BY <1>0, <2>1 DEF Phases, ClientFields, Rebalancing, Passed, AtGate, Calling, Before
    <3> HIDE DEF x
    <3> QED BY <1>0, <2>2, <3>1, GateEntered
  <2> HIDE DEF x
  <2> QED BY <1>0, <2>1, <2>2, <2>3, <2>4, MemberStep DEF MemberOK
<1>2. CASE FailCallback(m)
  <2> DEFINE x == [c EXCEPT !.man = "failing"]
  <2>1. c.man = "failW" /\ Open(c) /\ Client(m, x) /\ UNCHANGED <<grp, bound>>
    BY <1>2 DEF FailCallback
  <2>2. Phases(x)
    BY <1>0, <2>1 DEF Phases, ClientFields, Before, AtGate, Calling
  <2>3. Consumes(x, bound.cooperative)
    BY <1>0, <2>1 DEF Phases, ClientFields, Consumes, Before, AtGate, Calling
  <2>4. Gated(x, bound)
    <3>1. /\ x.gate = c.gate /\ Rebalancing(x) = Rebalancing(c)
          /\ x.proc = c.proc /\ x.fill = c.fill /\ (Passed(x) => Passed(c) \/ Open(c))
      BY <1>0, <2>1 DEF Phases, ClientFields, Rebalancing, Passed, AtGate, Calling, Before
    <3> HIDE DEF x
    <3> QED BY <1>0, <2>2, <3>1, GateKept
  <2> HIDE DEF x
  <2> QED BY <1>0, <2>1, <2>2, <2>3, <2>4, MemberStep DEF MemberOK
<1>3. CASE FailCallbackDone(m)
  <2> DEFINE x == [c EXCEPT !.man = "failed", !.gone = @ \cup c.now]
  <2>1. c.man = "failing" /\ Client(m, x) /\ UNCHANGED <<grp, bound>>
    BY <1>3 DEF FailCallbackDone
  <2>2. Phases(x)
    BY <1>0, <2>1 DEF Phases, ClientFields, Before, AtGate, Calling
  <2>3. Consumes(x, bound.cooperative)
    BY <1>0, <2>1 DEF Phases, ClientFields, Consumes, Before, AtGate, Calling
  <2>4. Gated(x, bound)
    <3>1. /\ x.gate = c.gate /\ Rebalancing(x) = Rebalancing(c)
          /\ x.proc = c.proc /\ x.fill = c.fill /\ (Passed(x) => Passed(c) \/ Open(c))
      BY <1>0, <2>1 DEF Phases, ClientFields, Rebalancing, Passed, AtGate, Calling, Before
    <3> HIDE DEF x
    <3> QED BY <1>0, <2>2, <3>1, GateKept
  <2> HIDE DEF x
  <2> QED BY <1>0, <2>1, <2>2, <2>3, <2>4, MemberStep DEF MemberOK
<1>4. CASE FailInvalidate(m)
  <2> DEFINE x == [Drop(c, Partitions)
                     EXCEPT !.man = IF c.err = "canceled" THEN "done" ELSE "backoff",
                            !.err = "nil", !.now = {}, !.last = {}, !.fetching = {},
                            !.out = "no", !.gate = UnaddRebalance(@)]
  <2>1. c.man = "failed" /\ Client(m, x) /\ UNCHANGED <<grp, bound>>
    BY <1>4 DEF FailInvalidate, Drop
  <2>2. Phases(x)
    BY <1>0, <2>1 DEF Phases, ClientFields, Before, AtGate, Calling, Drop
  <2>3. Consumes(x, bound.cooperative)
    BY <1>0, <2>1 DEF Phases, ClientFields, Consumes, Before, AtGate, Calling, Drop
  <2>4. Gated(x, bound)
    <3>1. /\ x.gate = UnaddRebalance(c.gate) /\ Rebalancing(x) = Rebalancing(c) - Half
          /\ x.proc = c.proc /\ x.fill = c.fill /\ (Passed(x) => Passed(c) \/ Open(c))
      BY <1>0, <2>1 DEF Phases, ClientFields, Rebalancing, Passed, AtGate, Calling, Before, Drop
    <3> HIDE DEF x
    <3> QED BY <1>0, <2>2, <3>1, GateLeft
  <2> HIDE DEF x
  <2> QED BY <1>0, <2>1, <2>2, <2>3, <2>4, MemberStep DEF MemberOK
<1>5. CASE Backoff(m)
  <2> DEFINE x == [c EXCEPT !.man = IF c.dying THEN "done" ELSE "start"]
  <2>1. c.man = "backoff" /\ Client(m, x) /\ UNCHANGED <<grp, bound>>
    BY <1>5 DEF Backoff
  <2>2. Phases(x)
    BY <1>0, <2>1 DEF Phases, ClientFields, Before, AtGate, Calling
  <2>3. Consumes(x, bound.cooperative)
    BY <1>0, <2>1 DEF Phases, ClientFields, Consumes, Before, AtGate, Calling
  <2>4. Gated(x, bound)
    <3>1. /\ x.gate = c.gate /\ Rebalancing(x) = Rebalancing(c)
          /\ x.proc = c.proc /\ x.fill = c.fill /\ (Passed(x) => Passed(c) \/ Open(c))
      BY <1>0, <2>1 DEF Phases, ClientFields, Rebalancing, Passed, AtGate, Calling, Before
    <3> HIDE DEF x
    <3> QED BY <1>0, <2>2, <3>1, GateKept
  <2> HIDE DEF x
  <2> QED BY <1>0, <2>1, <2>2, <2>3, <2>4, MemberStep DEF MemberOK
<1>6. CASE LeaveGroup(m)
  <2> DEFINE x == [c EXCEPT !.lv = "gate", !.gate = AddRebalance(@)]
  <2>1. c.lv = "no" /\ Client(m, x) /\ UNCHANGED <<grp, bound>>
    BY <1>6 DEF LeaveGroup
  <2>2. Phases(x)
    BY <1>0, <2>1 DEF Phases, ClientFields, Before, AtGate, Calling
  <2>3. Consumes(x, bound.cooperative)
    BY <1>0, <2>1 DEF Phases, ClientFields, Consumes, Before, AtGate, Calling
  <2>4. Gated(x, bound)
    <3>1. /\ x.gate = AddRebalance(c.gate) /\ Rebalancing(x) = Rebalancing(c) + Half
          /\ x.proc = c.proc /\ x.fill = c.fill /\ (Passed(x) => Passed(c) \/ Open(c))
      BY <1>0, <2>1 DEF Phases, ClientFields, Rebalancing, Passed, AtGate, Calling, Before
    <3> HIDE DEF x
    <3> QED BY <1>0, <2>2, <3>1, GateEntered
  <2> HIDE DEF x
  <2> QED BY <1>0, <2>1, <2>2, <2>3, <2>4, MemberStep DEF MemberOK
<1>7. CASE Leave(m)
  <2> DEFINE x == [Drop(c, Partitions) EXCEPT !.lv = "leaving", !.dying = TRUE,
                                              !.gate = UnaddRebalance(@)]
  <2>1. c.lv = "gate" /\ Client(m, x) /\ UNCHANGED <<grp, bound>>
    BY <1>7 DEF Leave
  <2>2. Phases(x)
    BY <1>0, <2>1 DEF Phases, ClientFields, Before, AtGate, Calling, Drop
  <2>3. Consumes(x, bound.cooperative)
    BY <1>0, <2>1 DEF Phases, ClientFields, Consumes, Before, AtGate, Calling, Drop
  <2>4. Gated(x, bound)
    <3>1. /\ x.gate = UnaddRebalance(c.gate) /\ Rebalancing(x) = Rebalancing(c) - Half
          /\ x.proc = c.proc /\ x.fill = c.fill /\ (Passed(x) => Passed(c) \/ Open(c))
      BY <1>0, <2>1 DEF Phases, ClientFields, Rebalancing, Passed, AtGate, Calling, Before, Drop
    <3> HIDE DEF x
    <3> QED BY <1>0, <2>2, <3>1, GateLeft
  <2> HIDE DEF x
  <2> QED BY <1>0, <2>1, <2>2, <2>3, <2>4, MemberStep DEF MemberOK
<1> QED BY <1>1, <1>2, <1>3, <1>4, <1>5, <1>6, <1>7

-----------------------------------------------------------------------------
(* A step that spends some of the scenario.                                *)
LEMMA SpendingStep ==
    ASSUME IInv, NEW m \in Members, NEW x, Client(m, x), MemberOK(x, bound'), GroupOK(grp'),
           bound' \in BoundType, bound'.cooperative = bound.cooperative,
           bound'.block = bound.block, bound'.parallel = bound.parallel,
           bound'.polls <= bound.polls
    PROVE  IInv'
<1>1. bound.polls \in Nat /\ bound'.polls \in Nat
  BY DEF IInv, BoundType
<1>2. ASSUME NEW n \in Members PROVE MemberOK(cl[n], bound')
  <2>1. MemberOK(cl[n], bound)
    BY DEF IInv
  <2> QED BY <1>1, <2>1, BoundOK
<1>3. DOMAIN cl' = Members /\ \A n \in Members : cl'[n] = IF n = m THEN x ELSE cl[n]
  BY DEF IInv, Client
<1> QED BY <1>2, <1>3 DEF IInv

(* A timer of the coordinator drops members, which their clients learn     *)
(* only from an answer.                                                    *)
LEMMA DroppedStep ==
    ASSUME IInv, cl' = [n \in Members |-> [cl[n] EXCEPT !.out = OutOr(n, @)]],
           GroupOK(grp'), bound' = bound \/ bound' = [bound EXCEPT !.faults = @ - 1],
           bound' # bound => bound.faults > 0
    PROVE  IInv'
<1>1. /\ bound' \in BoundType /\ bound'.cooperative = bound.cooperative
      /\ bound'.block = bound.block /\ bound'.parallel = bound.parallel
      /\ bound'.polls = bound.polls /\ bound.polls \in Nat
  BY DEF IInv, BoundType
<1>2. ASSUME NEW n \in Members PROVE MemberOK(cl'[n], bound')
  <2>1. MemberOK(cl[n], bound)
    BY DEF IInv
  <2>2. MemberOK(cl[n], bound')
    BY <1>1, <2>1, BoundOK
  <2> QED BY <2>2, OutOK
<1> QED BY <1>1, <1>2 DEF IInv

(* Polls and AllowRebalance.                                               *)
LEMMA PollingIInv ==
    ASSUME IInv, NEW m \in Members, Poll(m) \/ Fill(m) \/ AllowRebalance(m)
    PROVE  IInv'
<1> DEFINE c == cl[m]
<1>0. /\ Phases(c) /\ Consumes(c, bound.cooperative) /\ Gated(c, bound) /\ GroupOK(grp)
      /\ bound \in BoundType /\ bound.polls \in Nat
  BY DEF IInv, MemberOK, BoundType
<1>g. ASSUME bound.block, ~bound.parallel
      PROVE  /\ Half \in Nat /\ Half > 2 /\ c.gate \in Nat
             /\ Rebalancing(c) \in {0, Half, Half + Half}
             /\ Polling(c) \in Nat /\ Polling(c) < Half /\ c.gate = Rebalancing(c) + Polling(c)
             /\ Pollers(c.gate) = Polling(c)
             /\ Rebalances(c.gate) = 0 <=> Rebalancing(c) = 0
  BY <1>0, <1>g, GateIs
<1>1. CASE Poll(m)
  <2> DEFINE x == [c EXCEPT !.fill = TRUE, !.gate = AddPoller(@)]
  <2>1. /\ Client(m, x) /\ UNCHANGED grp /\ bound' = [bound EXCEPT !.polls = @ - 1]
        /\ bound.polls > 0 /\ (bound.block => Rebalances(c.gate) = 0) /\ ~c.fill
    BY <1>1 DEF Poll
  <2>2. /\ bound' \in BoundType /\ bound'.cooperative = bound.cooperative
        /\ bound'.block = bound.block /\ bound'.parallel = bound.parallel
        /\ bound'.polls = bound.polls - 1
    BY <1>0, <2>1 DEF BoundType
  <2>3. Phases(x)
    BY <1>0 DEF Phases, ClientFields
  <2>4. Consumes(x, bound.cooperative)
    BY <1>0 DEF Phases, ClientFields, Consumes
  <2>5. /\ x.gate = AddPoller(c.gate) /\ x.fill = TRUE /\ x.proc = c.proc
        /\ x.st = c.st /\ x.man = c.man /\ x.lv = c.lv
    BY <1>0 DEF Phases, ClientFields
  <2> HIDE DEF x
  <2>6. Gated(x, bound')
    <3> SUFFICES ASSUME bound.block, ~bound.parallel PROVE Gated(x, bound')
      BY <2>2 DEF Gated
    <3>1. Rebalancing(c) = 0 /\ Polling(c) + bound.polls < Half
      BY <1>0, <1>g, <2>1 DEF Gated
    <3>2. ~Passed(c)
      BY <1>g, <3>1 DEF Passed, Rebalancing, AtGate
    <3>3. x.gate = c.gate + 1
      BY <1>g, <2>5, <3>1, WrapIs DEF AddPoller
    <3>4. Rebalancing(x) = Rebalancing(c) /\ ~Passed(x)
      BY <2>5, <3>2 DEF Rebalancing, Passed
    <3>5. Polling(x) = Polling(c) + 1 /\ x.gate \in Nat
      BY <1>g, <3>1, <3>3, <3>4 DEF Polling
    <3> QED BY <1>0, <1>g, <2>1, <2>2, <2>5, <3>1, <3>4, <3>5 DEF Gated
  <2> QED BY <1>0, <2>1, <2>2, <2>3, <2>4, <2>6, SpendingStep DEF MemberOK
<1>2. CASE Fill(m)
  <2>0. PICK got \in SUBSET c.use :
          Client(m, [c EXCEPT !.fill = FALSE, !.proc = @ \cup got,
                              !.gate = IF got = {} THEN UnaddPoller(@) ELSE @])
    BY <1>2 DEF Fill
  <2> DEFINE x == [c EXCEPT !.fill = FALSE, !.proc = @ \cup got,
                            !.gate = IF got = {} THEN UnaddPoller(@) ELSE @]
  <2>1. Client(m, x) /\ UNCHANGED <<grp, bound>> /\ c.fill
    BY <1>2, <2>0 DEF Fill
  <2>3. Phases(x)
    BY <1>0 DEF Phases, ClientFields
  <2>4. Consumes(x, bound.cooperative)
    BY <1>0 DEF Phases, ClientFields, Consumes
  <2>5. /\ x.gate = (IF got = {} THEN UnaddPoller(c.gate) ELSE c.gate) /\ x.fill = FALSE
        /\ x.proc = c.proc \cup got /\ x.st = c.st /\ x.man = c.man /\ x.lv = c.lv
    BY <1>0 DEF Phases, ClientFields
  <2> HIDE DEF x
  <2>6. Gated(x, bound)
    <3> SUFFICES ASSUME bound.block, ~bound.parallel PROVE Gated(x, bound)
      BY DEF Gated
    <3>1. /\ Polling(c) >= (IF c.proc # {} THEN 1 ELSE 0) + 1 /\ ~Passed(c)
          /\ Polling(c) + bound.polls < Half
      BY <1>0, <1>g, <2>1 DEF Gated
    <3>2. Rebalancing(x) = Rebalancing(c) /\ ~Passed(x)
      BY <2>5, <3>1 DEF Rebalancing, Passed
    <3>3. CASE got = {}
      <4>1. c.gate - 1 \in Nat /\ c.gate - 1 < Half + Half + Half
        BY <1>g, <3>1
      <4>2. x.gate = c.gate - 1
        BY <2>5, <3>3, <4>1, WrapIs DEF UnaddPoller
      <4>3. Polling(x) = Polling(c) - 1 /\ x.gate \in Nat
        BY <1>g, <3>2, <4>1, <4>2 DEF Polling
      <4>4. x.proc = c.proc
        BY <2>5, <3>3
      <4> QED BY <1>0, <1>g, <2>5, <3>1, <3>2, <4>3, <4>4 DEF Gated
    <3>4. CASE got # {}
      <4>1. Polling(x) = Polling(c) /\ x.gate \in Nat
        BY <1>g, <2>5, <3>2, <3>4 DEF Polling
      <4> QED BY <1>0, <1>g, <2>5, <3>1, <3>2, <4>1 DEF Gated
    <3> QED BY <3>3, <3>4
  <2> QED BY <1>0, <2>1, <2>3, <2>4, <2>6, MemberStep DEF MemberOK
<1>3. CASE AllowRebalance(m)
  <2> DEFINE x == [c EXCEPT !.proc = {}, !.gate = MaskPollers(@)]
  <2>1. Client(m, x) /\ UNCHANGED <<grp, bound>> /\ (c.fill => bound.parallel)
    BY <1>3 DEF AllowRebalance
  <2>3. Phases(x)
    BY <1>0 DEF Phases, ClientFields
  <2>4. Consumes(x, bound.cooperative)
    BY <1>0 DEF Phases, ClientFields, Consumes
  <2>5. /\ x.gate = MaskPollers(c.gate) /\ x.fill = c.fill /\ x.proc = {}
        /\ x.st = c.st /\ x.man = c.man /\ x.lv = c.lv
    BY <1>0 DEF Phases, ClientFields
  <2> HIDE DEF x
  <2>6. Gated(x, bound)
    <3> SUFFICES ASSUME bound.block, ~bound.parallel PROVE Gated(x, bound)
      BY DEF Gated
    <3>1. x.gate = Rebalancing(c)
      BY <1>g, <2>5 DEF MaskPollers
    <3>2. Rebalancing(x) = Rebalancing(c)
      BY <2>5 DEF Rebalancing
    <3>3. Polling(x) = 0 /\ x.gate \in Nat
      BY <1>g, <3>1, <3>2 DEF Polling
    <3>4. Polling(c) + bound.polls < Half
      BY <1>0 DEF Gated
    <3> QED BY <1>0, <1>g, <2>1, <2>5, <3>3, <3>4 DEF Gated
  <2> QED BY <1>0, <2>1, <2>3, <2>4, <2>6, MemberStep DEF MemberOK
<1> QED BY <1>1, <1>2, <1>3

(* What happens to a member: it leaves, is made to rejoin, fails to fetch, *)
(* is expired.                                                             *)
LEMMA EventsIInv ==
    ASSUME IInv, NEW m \in Members,
           Left(m) \/ ForceRebalance(m) \/ FetchFailed(m) \/ Expire(m)
    PROVE  IInv'
<1> DEFINE c == cl[m]
<1>0. /\ Phases(c) /\ Consumes(c, bound.cooperative) /\ Gated(c, bound) /\ GroupOK(grp)
      /\ bound \in BoundType /\ bound.polls \in Nat
  BY DEF IInv, MemberOK, BoundType
<1>1. CASE Left(m)
  <2> DEFINE x == [c EXCEPT !.lv = "left"]
  <2>1. /\ c.lv = "leaving" /\ Dropping(m, x) /\ UNCHANGED bound
        /\ grp' = grp \/ grp' \in HandleLeave(grp, m)
    BY <1>1 DEF Left
  <2>2. Phases(x)
    BY <1>0 DEF Phases, ClientFields
  <2>3. Consumes(x, bound.cooperative)
    BY <1>0 DEF Phases, ClientFields, Consumes
  <2>4. Gated(x, bound)
    BY <1>0, <2>1 DEF Phases, ClientFields, Gated, Polling, Rebalancing, Passed
  <2> HIDE DEF x
  <2>5. GroupOK(grp')
    BY <1>0, <2>1, LeaveGroupOK
  <2> QED BY <2>1, <2>2, <2>3, <2>4, <2>5, DroppingStep DEF MemberOK
<1>2. CASE ForceRebalance(m)
  <2> DEFINE x == [c EXCEPT !.rejoin = TRUE]
  <2>1. /\ Client(m, x) /\ UNCHANGED grp /\ bound' = [bound EXCEPT !.forced = @ - 1]
        /\ bound.forced > 0
    BY <1>2 DEF ForceRebalance
  <2>2. /\ bound' \in BoundType /\ bound'.cooperative = bound.cooperative
        /\ bound'.block = bound.block /\ bound'.parallel = bound.parallel
        /\ bound'.polls = bound.polls
    BY <1>0, <2>1 DEF BoundType
  <2>3. Phases(x)
    BY <1>0 DEF Phases, ClientFields
  <2>4. Consumes(x, bound.cooperative)
    BY <1>0 DEF Phases, ClientFields, Consumes
  <2>5. Gated(x, bound)
    BY <1>0 DEF Phases, ClientFields, Gated, Polling, Rebalancing, Passed
  <2> HIDE DEF x
  <2>6. MemberOK(x, bound')
    BY <1>0, <2>2, <2>3, <2>4, <2>5, BoundOK DEF MemberOK
  <2> QED BY <1>0, <2>1, <2>2, <2>6, SpendingStep
<1>3. CASE FetchFailed(m)
  <2> DEFINE x == [c EXCEPT !.fo = "failed"]
  <2>1. /\ Client(m, x) /\ UNCHANGED grp /\ bound' = [bound EXCEPT !.faults = @ - 1]
        /\ bound.faults > 0 /\ c.fo = "req"
    BY <1>3 DEF FetchFailed
  <2>2. /\ bound' \in BoundType /\ bound'.cooperative = bound.cooperative
        /\ bound'.block = bound.block /\ bound'.parallel = bound.parallel
        /\ bound'.polls = bound.polls
    BY <1>0, <2>1 DEF BoundType
  <2>3. Phases(x)
    BY <1>0, <2>1 DEF Phases, ClientFields
  <2>4. Consumes(x, bound.cooperative)
    BY <1>0, <2>1 DEF Phases, ClientFields, Consumes
  <2>5. Gated(x, bound)
    BY <1>0 DEF Phases, ClientFields, Gated, Polling, Rebalancing, Passed
  <2> HIDE DEF x
  <2>6. MemberOK(x, bound')
    BY <1>0, <2>2, <2>3, <2>4, <2>5, BoundOK DEF MemberOK
  <2> QED BY <1>0, <2>1, <2>2, <2>6, SpendingStep
<1>4. CASE Expire(m)
  <2>1. /\ bound.faults > 0 /\ bound' = [bound EXCEPT !.faults = @ - 1]
        /\ grp' \in SessionTimeout(grp, m) /\ Dropping(m, cl[m])
    BY <1>4 DEF Expire
  <2>2. GroupOK(grp')
    BY <1>0, <2>1, LeaveGroupOK
  <2>3. cl' = [n \in Members |-> [cl[n] EXCEPT !.out = OutOr(n, @)]]
    BY <2>1 DEF Dropping
  <2> QED BY <2>1, <2>2, <2>3, DroppedStep
<1> QED BY <1>1, <1>2, <1>3, <1>4

(* The rebalance timer.                                                    *)
LEMMA RebalanceTimeoutIInv ==
    ASSUME IInv, RebalanceTimeout
    PROVE  IInv'
<1>1. GroupOK(grp')
  BY CompleteRebalanceGroup DEF RebalanceTimeout, IInv, GroupOK
<1>2. /\ cl' = [n \in Members |-> [cl[n] EXCEPT !.out = OutOr(n, @)]]
      /\ bound' = bound \/ bound' = [bound EXCEPT !.faults = @ - 1]
      /\ bound' # bound => bound.faults > 0
  BY DEF RebalanceTimeout
<1> QED BY <1>1, <1>2, DroppedStep

-----------------------------------------------------------------------------
(* A group that has not begun.                                             *)
LEMMA InitIInv == Init => IInv
<1> SUFFICES ASSUME Init PROVE IInv
  OBVIOUS
<1>1. bound \in BoundType /\ bound.polls \in Nat /\ bound.polls < Half /\ Half \in Nat
  BY GroupAssumption DEF Init, BoundType
<1>2. GroupOK(grp)
  BY DEF Init, EmptyGroup, GroupOK, Assigns, GroupFields, ReplyOK
<1>3. Phases(Fresh)
  BY DEF Phases, Fresh, ClientFields, Before, AtGate, Calling
<1>4. Consumes(Fresh, bound.cooperative)
  BY DEF Consumes, Fresh, Before
<1>5. Gated(Fresh, bound)
  BY <1>1 DEF Gated, Fresh, Polling, Rebalancing, Passed, AtGate, Calling
<1> QED BY <1>1, <1>2, <1>3, <1>4, <1>5 DEF Init, IInv, MemberOK

(* Every step keeps the inductive invariant.                               *)
LEMMA NextIInv == IInv /\ [Next]_vars => IInv'
<1> SUFFICES ASSUME IInv, [Next]_vars PROVE IInv'
  OBVIOUS
<1>1. CASE UNCHANGED vars
  BY <1>1 DEF vars, IInv
<1>2. ASSUME NEW m \in Members, Step(m) PROVE IInv'
  BY <1>2, JoiningIInv, CallbacksIInv, SessionIInv, FailingIInv, PollingIInv, EventsIInv DEF Step
<1>3. ASSUME NEW m \in Members, Event(m) PROVE IInv'
  BY <1>3, FailingIInv, PollingIInv, EventsIInv DEF Event
<1> QED BY <1>1, <1>2, <1>3, RebalanceTimeoutIInv DEF Next

(* The inductive invariant: of every member, in every reachable state.     *)
THEOREM IInvAlways == Spec => []IInv
  BY InitIInv, NextIInv, PTL DEF Spec

(***************************************************************************)
(* A member's callbacks never overlap, and with BlockRebalanceOnPoll none  *)
(* runs while what was polled is processed (waitAndAddRebalance), for any  *)
(* number of members, partitions and polls.  The hypothesis is that the    *)
(* user does not call AllowRebalance while another of its goroutines is in *)
(* a poll: it resets a count that the poll still takes one from.           *)
(***************************************************************************)
THEOREM CallbacksSerialAlways == Spec => [](~bound.parallel => CallbacksSerial)
<1>1. IInv => (~bound.parallel => CallbacksSerial)
  <2> SUFFICES ASSUME IInv, ~bound.parallel, NEW m \in Members
               PROVE  /\ ~(SessionCallback(cl[m]) /\ cl[m].man = "failing")
                      /\ bound.block /\ cl[m].proc # {} => ~InCallback(cl[m])
    BY DEF CallbacksSerial
  <2> DEFINE c == cl[m]
  <2>1. Phases(c) /\ Gated(c, bound) /\ bound.polls \in Nat
    BY DEF IInv, MemberOK, BoundType
  <2>2. ~(SessionCallback(c) /\ c.man = "failing")
    BY <2>1 DEF Phases, SessionCallback, Before, AtGate, Calling
  <2>3. ASSUME bound.block, c.proc # {} PROVE ~InCallback(c)
    <3>1. Polling(c) >= 1 /\ Polling(c) \in Nat
      BY <2>1, <2>3, GateIs DEF Gated
    <3>2. ~Passed(c)
      BY <2>1, <2>3, <3>1 DEF Gated
    <3> QED BY <3>2 DEF Passed, InCallback, SessionCallback, Calling
  <2> QED BY <2>2, <2>3
<1> QED BY <1>1, IInvAlways, PTL

(***************************************************************************)
(* A member does not consume what a callback took from it, but for the     *)
(* late offset fetch and until manageFailWait invalidates.                 *)
(***************************************************************************)
THEOREM RevokedIsQuietAlways == Spec => []RevokedIsQuiet
<1>1. IInv => RevokedIsQuiet
  BY DEF IInv, MemberOK, Consumes, RevokedIsQuiet
<1> QED BY <1>1, IInvAlways, PTL

(***************************************************************************)
(* A member whose session is set up consumes all it is assigned: the       *)
(* offset fetches that a session did not finish are resumed by the next    *)
(* (adjustCooperativeFetchOffsets).                                        *)
(***************************************************************************)
THEOREM AssignedIsConsumedAlways == Spec => []AssignedIsConsumed
<1>1. IInv => AssignedIsConsumed
  <2> SUFFICES ASSUME IInv, NEW m \in Members, cl[m].st = "assigned", cl[m].fo = "ok", ~cl[m].dying
               PROVE  cl[m].now \subseteq cl[m].use
    BY DEF AssignedIsConsumed
  <2>1. Consumes(cl[m], bound.cooperative) /\ bound.cooperative \in BOOLEAN
    BY DEF IInv, MemberOK, BoundType
  <2> QED BY <2>1 DEF Consumes
<1> QED BY <1>1, IInvAlways, PTL
=============================================================================
