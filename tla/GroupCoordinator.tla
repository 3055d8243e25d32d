-------------------------- MODULE GroupCoordinator --------------------------
(***************************************************************************)
(* The coordinator of one consumer group: the goroutine that owns a group  *)
(* of the repository's own broker (kfake/groups.go, group.manage).  It     *)
(* handles one request or timer at a time, so every handler is one step.   *)
(*                                                                         *)
(* The group is one record.  A client has at most one join or sync request *)
(* outstanding, so a member ID is the client's name, and what the          *)
(* coordinator wrote back to a client is at most one reply.  What a member *)
(* puts in its join request is its claim: the partitions it had and the    *)
(* generation it had them in.  The handlers are functions from a group to  *)
(* the set of groups that they may leave behind; the choice is the order   *)
(* in which Go iterates over the member map.                               *)
(***************************************************************************)
EXTENDS Integers, FiniteSets

CONSTANTS
    Members,   \* the clients
    NoReply,   \* nothing was written to a client
    NoLeader   \* no member was leader yet

NoClaim == [owned |-> {}, gen |-> -1]

\* What may be written to a client that waits for a join or a sync response.
JoinOk(gen, leads, claims) ==
    [kind |-> "join", gen |-> gen, leads |-> leads, claims |-> claims]
SyncOk(parts) == [kind |-> "sync", parts |-> parts]
Refused(err) == [kind |-> "err", err |-> err]

EmptyGroup ==
    [state |-> "Empty",
     leader |-> NoLeader,
     members |-> {},
     pending |-> {},                                  \* given an ID, not yet joined
     gen |-> 0,
     nJoining |-> 0,
     tRebalance |-> FALSE,                            \* the rebalance timer is set
     timed |-> {},                                    \* with a session timer running
     waiting |-> [m \in Members |-> "no"],            \* groupMember.waitingReply
     join |-> [m \in Members |-> NoClaim],            \* groupMember.join
     assignment |-> [m \in Members |-> {}],
     reply |-> [m \in Members |-> NoReply]]

(***************************************************************************)
(* group.reply for a member that waited: its session timer starts again.   *)
(***************************************************************************)
Reply(g, who, answer) ==
    [g EXCEPT !.reply = [m \in Members |-> IF m \in who THEN answer[m] ELSE @[m]],
              !.waiting = [m \in Members |-> IF m \in who THEN "no" ELSE @[m]],
              !.timed = @ \cup who]

\* The reply to a request that the manage loop answers at once: no member is touched.
Answer(g, m, r) == [g EXCEPT !.reply[m] = r]

\* fillJoinResp: only the leader learns of the other members.
JoinResponse(g, m, leader) ==
    JoinOk(g.gen, m = leader,
           IF m = leader THEN [n \in g.members |-> g.join[n]] ELSE [n \in {} |-> NoClaim])

(***************************************************************************)
(* Members that are not waiting are dropped and the others are answered.   *)
(* Without its leader the group gets a new one: the loop that answers the  *)
(* members makes each of them leader in turn, and says so to each of them. *)
(***************************************************************************)
CompleteRebalance(g) ==
    LET joined == {m \in g.members : g.waiting[m] # "no"}
        next == [g EXCEPT !.tRebalance = FALSE, !.nJoining = 0, !.members = joined,
                          !.gen = @ + 1, !.timed = @ \cap joined,
                          !.state = IF joined = {} THEN "Empty" ELSE "Completing"]
        led(l) == [next EXCEPT !.leader = l]
        found == g.leader \in joined
    IN  IF joined = {} THEN {next}
        ELSE {Reply(led(l), joined,
                    [m \in joined |-> JoinResponse(next, m, IF found THEN l ELSE m)]) :
                 l \in IF found THEN {g.leader} ELSE joined}

(***************************************************************************)
(* rebalance: members that wait in sync are told to join again; when all   *)
(* members joined the rebalance completes, otherwise a timer bounds it.    *)
(***************************************************************************)
Rebalance(g) ==
    LET syncing == {m \in g.members : g.state = "Completing" /\ g.waiting[m] = "sync"}
        cleared == IF g.state = "Completing"
                   THEN [g EXCEPT !.assignment = [m \in Members |->
                             IF m \in g.members THEN {} ELSE @[m]]]
                   ELSE g
        told == Reply(cleared, syncing, [m \in syncing |-> Refused("RebalanceInProgress")])
        prep == [told EXCEPT !.state = "Preparing"]
    IN  IF prep.nJoining >= Cardinality(prep.members)
        THEN CompleteRebalance(prep)
        ELSE {[prep EXCEPT !.tRebalance = TRUE]}

\* addMemberAndRebalance: a pending member joins.
AddMember(g, m, claim) ==
    Rebalance([g EXCEPT !.pending = @ \ {m}, !.timed = @ \ {m}, !.members = @ \cup {m},
                        !.join[m] = claim, !.nJoining = @ + 1, !.waiting[m] = "join"])

\* updateMemberAndRebalance with a new join request.
UpdateMember(g, m, claim) ==
    Rebalance([g EXCEPT !.join[m] = claim,
                        !.nJoining = IF g.waiting[m] = "no" THEN @ + 1 ELSE @,
                        !.waiting[m] = "join"])

\* updateMemberAndRebalance without one: the member left or its session timed out.
RemoveMember(g, m) ==
    Rebalance([g EXCEPT !.members = @ \ {m}, !.timed = @ \ {m},
                        !.nJoining = IF g.waiting[m] = "no" THEN @ ELSE @ - 1,
                        !.waiting[m] = "no", !.join[m] = NoClaim, !.assignment[m] = {}])

(***************************************************************************)
(* handleJoin of a client that has a member ID or has none (KIP-394).      *)
(***************************************************************************)
HandleJoin(g, m, hasID, claim) ==
    LET respond == {Answer(g, m, JoinResponse(g, m, g.leader))}
        same == g.join[m] = claim
    IN  CASE ~hasID ->
                {Answer([g EXCEPT !.pending = @ \cup {m}, !.timed = @ \cup {m}], m,
                        Refused("MemberIDRequired"))}
          [] hasID /\ m \in g.pending -> AddMember(g, m, claim)
          [] hasID /\ m \notin g.pending \cup g.members ->
                {Answer(g, m, Refused("UnknownMemberID"))}
          [] OTHER ->
                IF \/ g.state = "Completing" /\ same
                   \/ g.state = "Stable" /\ (g.leader # m \/ same)
                THEN respond
                ELSE UpdateMember(g, m, claim)

(***************************************************************************)
(* handleSync; the leader's sync carries the plan, and completeLeaderSync  *)
(* answers every member that already waits in sync.                        *)
(***************************************************************************)
HandleSync(g, m, gen, plan) ==
    LET wait == [g EXCEPT !.waiting[m] = "sync"]
        planned == [wait EXCEPT !.state = "Stable",
                        !.assignment = [n \in Members |->
                            IF n \in g.members /\ n \in DOMAIN plan THEN plan[n] ELSE {}]]
        syncing == {n \in g.members : wait.waiting[n] # "no"}
    IN  CASE m \notin g.members -> Answer(g, m, Refused("UnknownMemberID"))
          [] m \in g.members /\ gen # g.gen -> Answer(g, m, Refused("IllegalGeneration"))
          [] OTHER ->
                CASE g.state = "Preparing" -> Answer(g, m, Refused("RebalanceInProgress"))
                  [] g.state = "Completing" /\ m = g.leader ->
                        Reply(planned, syncing, [n \in syncing |-> SyncOk(planned.assignment[n])])
                  [] g.state = "Completing" /\ m # g.leader -> wait
                  [] g.state = "Stable" -> Answer(g, m, SyncOk(g.assignment[m]))

\* handleHeartbeat: what the heartbeat of m in generation gen is answered.
HeartbeatError(g, m, gen) ==
    IF m \notin g.members THEN "UnknownMemberID"
    ELSE IF gen # g.gen THEN "IllegalGeneration"
    ELSE IF g.state = "Preparing" THEN "RebalanceInProgress"
    ELSE "none"

\* updateHeartbeat, for the heartbeats that are not refused.
HandleHeartbeat(g, m, gen) ==
    IF HeartbeatError(g, m, gen) \in {"none", "RebalanceInProgress"}
    THEN [g EXCEPT !.timed = @ \cup {m}]
    ELSE g

\* handleLeave of one member.
HandleLeave(g, m) ==
    IF m \in g.members THEN RemoveMember(g, m)
    ELSE {[g EXCEPT !.pending = @ \ {m}, !.timed = @ \ {m}]}

\* atSessionTimeout: the timer of a member or of a pending one fired.
SessionTimeout(g, m) ==
    IF m \in g.members THEN RemoveMember(g, m)
    ELSE {[g EXCEPT !.pending = @ \ {m}, !.timed = @ \ {m}]}
=============================================================================
