---------------------------- MODULE GroupConsumer ----------------------------
(***************************************************************************)
(* The members of a consumer group (consumer_group.go) and the gate        *)
(* between polls and rebalances (consumer.go), composed with the group's   *)
(* coordinator.                                                            *)
(*                                                                         *)
(* A member is one record, cl[m].  Its goroutines are: manage, which joins *)
(* and syncs and waits for a session to end (man); the prerevoke, assign   *)
(* and revoke goroutines of a session, which run one after the other (st); *)
(* the heartbeat loop (hb); the offset fetch (fo); LeaveGroup (lv); and    *)
(* the user's polls (fill, proc).  A request is sent and handled in one    *)
(* step and its answer is received in a later one: nothing the client does *)
(* between the two depends on whether the request was handled yet.         *)
(*                                                                         *)
(* use is what assignPartitions left the client consuming; how it stops    *)
(* and starts fetches is module Consumer.  What the group knows of commits *)
(* is module Commit.  The group is managed by the client (not KIP-848),    *)
(* has no instance IDs and does not change its topics.                     *)
(***************************************************************************)
EXTENDS GroupCoordinator, GroupBalancer

CONSTANTS
    Half,       \* pollWaitState has two halves of this many values (2^32)
    Scenarios   \* bounds: a behaviour keeps within one of them

\* A callback and LeaveGroup may wait at the gate together, and the pollers fit its half.
ASSUME GroupAssumption ==
    /\ Half \in Nat \ 0 .. 2 /\ \A s \in Scenarios : s.polls < Half
    /\ Scenarios \subseteq [members : SUBSET Members,
                            cooperative : BOOLEAN,   \* the balancers the members use
                            block : BOOLEAN,         \* BlockRebalanceOnPoll
                            parallel : BOOLEAN,      \* AllowRebalance while a poll runs
                            polls : Nat,             \* per member
                            forced : Nat,            \* ForceRebalance calls
                            leavers : SUBSET Members,
                            faults : Nat]            \* timeouts and failed offset fetches

VARIABLES
    cl,     \* the members
    grp,    \* the coordinator's group
    bound   \* what is left of the behaviour's scenario

vars == <<cl, grp, bound>>

Fresh ==
    [man |-> "off", id |-> FALSE, gen |-> -1, err |-> "nil",
     now |-> {}, last |-> {}, fetching |-> {}, added |-> {}, lost |-> {}, use |-> {},
     st |-> "none", hb |-> "off", rv |-> FALSE, pend |-> "none", ctx |-> FALSE,
     fo |-> "none", rejoin |-> FALSE, dying |-> FALSE, lv |-> "no",
     gate |-> 0, fill |-> FALSE, proc |-> {},
     gone |-> {}, late |-> {}, out |-> "no"]   \* history: see the properties

Init ==
    /\ bound \in Scenarios
    /\ cl = [m \in Members |-> Fresh]
    /\ grp = EmptyGroup

Client(m, c) == cl' = [cl EXCEPT ![m] = c]

OutOr(n, was) == IF n \in grp.members \ grp'.members THEN "out" ELSE was

\* A step of m, which becomes c, that may make the coordinator drop members.
Dropping(m, c) ==
    cl' = [n \in Members |->
              [(IF n = m THEN c ELSE cl[n]) EXCEPT !.out = OutOr(n, @)]]

-----------------------------------------------------------------------------
(* The gate: pollWaitState counts pollers in its low half, rebalances in its high half. *)

Pollers(s) == s % Half
Rebalances(s) == s \div Half
Wrap(s) == s % (Half * Half)

AddPoller(s) == IF bound.block THEN Wrap(s + 1) ELSE s
UnaddPoller(s) == IF bound.block THEN Wrap(s - 1) ELSE s
MaskPollers(s) == IF bound.block THEN s - Pollers(s) ELSE s
AddRebalance(s) == IF bound.block THEN Wrap(s + Half) ELSE s
UnaddRebalance(s) == IF bound.block THEN Wrap(s - Half) ELSE s
-----------------------------------------------------------------------------
(* Joining and syncing: joinAndSync. *)

\* findNewAssignments: the first metadata with partitions starts the manage goroutine.
Manage(m) ==
    /\ m \in bound.members
    /\ cl[m].man = "off" /\ ~cl[m].dying
    /\ Client(m, [cl[m] EXCEPT !.man = "start"])
    /\ UNCHANGED <<grp, bound>>

Claim(c) == [owned |-> IF bound.cooperative THEN c.last ELSE {}, gen |-> c.gen]

\* The top of joinAndSync: a signaled rejoin is drained, the join request is sent.
Join(m) ==
    /\ cl[m].man = "start"
    /\ grp' \in HandleJoin(grp, m, cl[m].id, Claim(cl[m]))
    /\ Dropping(m, [cl[m] EXCEPT !.man = "join", !.rejoin = FALSE])
    /\ UNCHANGED bound

\* The coordinator dropped m without answering its join or sync: once reading the answer
\* times out the client sends the request again, and is refused.
RequestTimeout(m) ==
    /\ cl[m].man \in {"join", "sync"} /\ grp.reply[m] = NoReply /\ m \notin grp.members
    /\ grp' \in IF cl[m].man = "join" THEN HandleJoin(grp, m, cl[m].id, Claim(cl[m]))
                ELSE {HandleSync(grp, m, cl[m].gen, <<>>)}
    /\ UNCHANGED <<cl, bound>>

Taken(m) == [grp EXCEPT !.reply[m] = NoReply]

\* handleJoinResp refuses: MemberIDRequired and UnknownMemberID restart the join.
JoinRefused(m) ==
    /\ cl[m].man = "join" /\ grp.reply[m] # NoReply /\ grp.reply[m].kind = "err"
    /\ Client(m, [cl[m] EXCEPT !.man = "start",
                               !.id = grp.reply[m].err = "MemberIDRequired"])
    /\ grp' = Taken(m)
    /\ UNCHANGED bound

\* handleJoinResp accepts: a leader balances, then the sync request is sent.
Joined(m) ==
    LET r == grp.reply[m]
    IN  /\ cl[m].man = "join" /\ r # NoReply /\ r.kind = "join"
        /\ Client(m, [cl[m] EXCEPT !.man = "sync", !.gen = r.gen,
                                   !.out = IF @ = "back" /\ r.gen > cl[m].gen THEN "no" ELSE @])
        /\ \E plan \in IF r.leads THEN Plans(r.claims, bound.cooperative) ELSE {<<>>} :
              grp' = HandleSync(Taken(m), m, r.gen, plan)
        /\ UNCHANGED bound

\* handleSyncResp refuses: a rebalance restarts the join, all else ends in manageFailWait.
SyncRefused(m) ==
    LET r == grp.reply[m]
    IN  /\ cl[m].man = "sync" /\ r # NoReply /\ r.kind = "err"
        /\ Client(m, IF r.err = "RebalanceInProgress"
                     THEN [cl[m] EXCEPT !.man = "start"]
                     ELSE [cl[m] EXCEPT !.man = "fail", !.err = "fatal"])
        /\ grp' = Taken(m)
        /\ UNCHANGED bound

-----------------------------------------------------------------------------
(* A session: setupAssignedAndHeartbeat. *)

\* diffAssigned
Added(c, parts) == IF bound.cooperative THEN parts \ c.last ELSE parts
Lost(c, parts) == IF bound.cooperative THEN c.last \ parts ELSE {}

\* Mutant of AdjustFetching: fetches that an earlier session started are forgotten.
AdjustFetchingAdded(c, added, lost) == IF bound.cooperative THEN added ELSE {}

\* What adjustCooperativeFetchOffsets resumes: fetches that an earlier session started.
AdjustFetching(c, added, lost) ==
    IF bound.cooperative THEN (c.fetching \ lost) \cup added ELSE {}

\* handleSyncResp accepts and a session begins.
Synced(m) ==
    LET c == cl[m]
        r == grp.reply[m]
        added == Added(c, r.parts)
        lost == Lost(c, r.parts)
    IN  /\ c.man = "sync" /\ r # NoReply /\ r.kind = "sync"
        /\ Client(m, [c EXCEPT !.man = "session", !.now = r.parts, !.last = r.parts,
                               !.added = added, !.lost = lost,
                               !.fetching = AdjustFetching(c, added, lost),
                               !.st = IF lost # {} THEN "prerevoke" ELSE "assign",
                               !.hb = "run", !.fo = "none",
                               !.out = IF @ = "out" /\ m \in grp.members THEN "back" ELSE @])
        /\ grp' = Taken(m)
        /\ UNCHANGED bound

\* Before every callback the session waits at the gate.
Waits == [prerevoke |-> "prerevokeW", assign |-> "assignW", revoke |-> "revokeW"]

CallbackGate(m) ==
    LET c == cl[m]
        next == IF c.st = "assigned" /\ c.rv THEN "revoke" ELSE c.st
    IN  /\ next \in DOMAIN Waits
        /\ Client(m, [c EXCEPT !.st = Waits[next], !.gate = AddRebalance(@)])
        /\ UNCHANGED <<grp, bound>>

\* Mutant of Open: only a second poll closes the gate.
OpenForOne(c) == bound.block => Pollers(c.gate) <= 1

\* waitAndAddRebalance returns.
Open(c) == bound.block => Pollers(c.gate) = 0

Drop(c, parts) == [c EXCEPT !.use = @ \ parts, !.late = @ \ parts]

\* Mutant of Prerevoke: what was lost is still fetched.
PrerevokeKeeping(m) ==
    /\ cl[m].st = "prerevokeW" /\ Open(cl[m])
    /\ Client(m, [cl[m] EXCEPT !.st = "prerevoking"])
    /\ UNCHANGED <<grp, bound>>

\* revoke(revokeLastSession): what was lost is no longer fetched, then onRevoked runs.
Prerevoke(m) ==
    /\ cl[m].st = "prerevokeW" /\ Open(cl[m])
    /\ Client(m, [Drop(cl[m], cl[m].lost) EXCEPT !.st = "prerevoking"])
    /\ UNCHANGED <<grp, bound>>

\* Mutant of PrerevokeDone: the member does not join again.
PrerevokeDoneStaying(m) ==
    /\ cl[m].st = "prerevoking"
    /\ Client(m, [cl[m] EXCEPT !.st = "assign", !.gate = UnaddRebalance(@),
                               !.gone = @ \cup cl[m].lost])
    /\ UNCHANGED <<grp, bound>>

\* A member that revoked what it lost joins again.
PrerevokeDone(m) ==
    /\ cl[m].st = "prerevoking"
    /\ Client(m, [cl[m] EXCEPT !.st = "assign", !.rejoin = TRUE,
                               !.gate = UnaddRebalance(@), !.gone = @ \cup cl[m].lost])
    /\ UNCHANGED <<grp, bound>>

Assign(m) ==
    /\ cl[m].st = "assignW" /\ Open(cl[m])
    /\ Client(m, [cl[m] EXCEPT !.st = "assigning", !.gone = @ \ cl[m].added])
    /\ UNCHANGED <<grp, bound>>

\* The context that an offset fetch is given.
Canceled(c) == c.hb = "ret" \/ c.dying

ToFetch(c) == IF bound.cooperative THEN c.fetching ELSE c.added

\* onAssigned returned: the offsets of what is new are fetched.
AssignDone(m) ==
    /\ cl[m].st = "assigning"
    /\ Client(m, [cl[m] EXCEPT !.st = "assigned", !.gate = UnaddRebalance(@),
                               !.fo = IF ToFetch(cl[m]) = {} THEN "ok"
                                      ELSE IF Canceled(cl[m]) THEN "canceled" ELSE "req"])
    /\ UNCHANGED <<grp, bound>>

\* revoke(revokeThisSession): an eager member gives up everything it was assigned.
Revoke(m) ==
    /\ cl[m].st = "revokeW" /\ Open(cl[m])
    /\ Client(m, [(IF bound.cooperative THEN cl[m] ELSE Drop(cl[m], Partitions))
                  EXCEPT !.st = "revoking"])
    /\ UNCHANGED <<grp, bound>>

RevokeDone(m) ==
    LET c == cl[m]
        done == [c EXCEPT !.st = "revoked", !.gate = UnaddRebalance(@)]
    IN  /\ c.st = "revoking"
        /\ Client(m, IF bound.cooperative THEN done
                     ELSE [done EXCEPT !.now = {}, !.last = {}, !.gone = @ \cup c.now])
        /\ UNCHANGED <<grp, bound>>

-----------------------------------------------------------------------------
(* fetchOffsets: once it has its response, nothing stops it from assigning. *)

OffsetsFetched(m) ==
    /\ cl[m].fo = "req"
    /\ Client(m, [cl[m] EXCEPT !.fo = "resp"])
    /\ UNCHANGED <<grp, bound>>

OffsetsAssigned(m) ==
    LET c == cl[m]
    IN  /\ c.fo = "resp"
        /\ Client(m, [c EXCEPT !.fo = "ok", !.fetching = {}, !.use = @ \cup ToFetch(c),
                               !.late = IF ~bound.cooperative /\ c.st \in {"revoking", "revoked"}
                                        THEN @ \cup ToFetch(c) ELSE @])
        /\ UNCHANGED <<grp, bound>>

\* The session's context ended, or the fetch failed.
FetchCanceled(m) ==
    /\ cl[m].fo = "req" /\ Canceled(cl[m])
    /\ Client(m, [cl[m] EXCEPT !.fo = "canceled"])
    /\ UNCHANGED <<grp, bound>>

FetchFailed(m) ==
    /\ cl[m].fo = "req" /\ bound.faults > 0
    /\ bound' = [bound EXCEPT !.faults = @ - 1]
    /\ Client(m, [cl[m] EXCEPT !.fo = "failed"])
    /\ UNCHANGED grp
-----------------------------------------------------------------------------
(* The heartbeat loop: one error ends the session, after a revoke if it is a rebalance. *)

Beating(c) == c.hb = "run" /\ c.pend = "none"

Error(c, e) ==
    IF c.rv THEN [c EXCEPT !.err = e]
    ELSE IF e = "rebalance" THEN [c EXCEPT !.rv = TRUE, !.err = e]
    ELSE [c EXCEPT !.hb = "ret", !.err = e]

\* What a heartbeat of m returns: its request is canceled once the group is being left.
Outcome(m) ==
    IF cl[m].dying THEN "canceled"
    ELSE CASE HeartbeatError(grp, m, cl[m].gen) = "none" -> "none"
           [] HeartbeatError(grp, m, cl[m].gen) = "RebalanceInProgress" -> "rebalance"
           [] OTHER -> "fatal"

\* A heartbeat is sent; one that returns nothing new changes nothing.
Heartbeat(m) ==
    /\ Beating(cl[m])
    /\ Outcome(m) \notin {"none", IF cl[m].rv THEN cl[m].err ELSE "none"}
    /\ grp' = IF cl[m].dying THEN grp ELSE HandleHeartbeat(grp, m, cl[m].gen)
    /\ Client(m, [cl[m] EXCEPT !.pend = Outcome(m)])
    /\ UNCHANGED bound

\* It returns, with its answer or because the group is left meanwhile.
HeartbeatErrored(m) ==
    /\ cl[m].hb = "run" /\ cl[m].pend # "none"
    /\ \E e \in {cl[m].pend} \cup (IF cl[m].dying THEN {"canceled"} ELSE {}) :
          Client(m, [Error(cl[m], e) EXCEPT !.pend = "none"])
    /\ UNCHANGED <<grp, bound>>

\* rejoinCh
Rejoin(m) ==
    /\ Beating(cl[m]) /\ cl[m].rejoin
    /\ Client(m, [Error(cl[m], "rebalance") EXCEPT !.rejoin = FALSE])
    /\ UNCHANGED <<grp, bound>>

\* fetchErrCh
FetchErrored(m) ==
    /\ Beating(cl[m]) /\ cl[m].fo \in {"failed", "canceled"}
    /\ Client(m, [Error(cl[m], IF cl[m].fo = "failed" THEN "fatal" ELSE "canceled")
                  EXCEPT !.fo = "errored"])
    /\ UNCHANGED <<grp, bound>>

\* ctxCh: the group is being left.
GroupCanceled(m) ==
    /\ Beating(cl[m]) /\ cl[m].dying /\ ~cl[m].ctx
    /\ Client(m, [Error(cl[m], "canceled") EXCEPT !.ctx = TRUE])
    /\ UNCHANGED <<grp, bound>>

\* The revoke that the first error started is done.
Revoked(m) ==
    /\ Beating(cl[m]) /\ cl[m].rv /\ cl[m].st = "revoked"
    /\ Client(m, [cl[m] EXCEPT !.hb = "ret"])
    /\ UNCHANGED <<grp, bound>>

\* setupAssignedAndHeartbeat returns: assigning, fetching and heartbeating are complete.
SessionDone(c) ==
    c.hb = "ret" /\ c.st \in {"assigned", "revoked"} /\ c.fo \notin {"req", "resp"}

SessionEnds(m) ==
    LET c == cl[m]
    IN  /\ c.man = "session" /\ SessionDone(c)
        /\ Client(m, [c EXCEPT !.man = IF c.err = "rebalance" THEN "start" ELSE "fail",
                               !.hb = "off", !.rv = FALSE, !.ctx = FALSE,
                               !.fo = "none", !.added = {}, !.lost = {}])
        /\ UNCHANGED <<grp, bound>>

-----------------------------------------------------------------------------
(* manageFailWait *)

FailGate(m) ==
    /\ cl[m].man = "fail"
    /\ Client(m, [cl[m] EXCEPT !.man = "failW", !.gate = AddRebalance(@)])
    /\ UNCHANGED <<grp, bound>>

\* onRevoked if the group is being left, onLost otherwise.
FailCallback(m) ==
    /\ cl[m].man = "failW" /\ Open(cl[m])
    /\ Client(m, [cl[m] EXCEPT !.man = "failing"])
    /\ UNCHANGED <<grp, bound>>

FailCallbackDone(m) ==
    /\ cl[m].man = "failing"
    /\ Client(m, [cl[m] EXCEPT !.man = "failed", !.gone = @ \cup cl[m].now])
    /\ UNCHANGED <<grp, bound>>

\* Only now is everything invalidated.  After the backoff the member joins again.
FailInvalidate(m) ==
    LET c == Drop(cl[m], Partitions)
    IN  /\ cl[m].man = "failed"
        /\ Client(m, [c EXCEPT !.man = IF c.err = "canceled" THEN "done" ELSE "backoff",
                               !.err = "nil", !.now = {}, !.last = {}, !.fetching = {},
                               !.out = "no", !.gate = UnaddRebalance(@)])
        /\ UNCHANGED <<grp, bound>>

Backoff(m) ==
    /\ cl[m].man = "backoff"
    /\ Client(m, [cl[m] EXCEPT !.man = IF cl[m].dying THEN "done" ELSE "start"])
    /\ UNCHANGED <<grp, bound>>

-----------------------------------------------------------------------------
(* The user: LeaveGroup, ForceRebalance, polls and AllowRebalance. *)

LeaveGroup(m) ==
    /\ m \in bound.leavers /\ cl[m].lv = "no"
    /\ Client(m, [cl[m] EXCEPT !.lv = "gate", !.gate = AddRebalance(@)])
    /\ UNCHANGED <<grp, bound>>

\* Everything is invalidated and the group's context is canceled, then the gate opens.
Leave(m) ==
    /\ cl[m].lv = "gate" /\ Open(cl[m])
    /\ Client(m, [Drop(cl[m], Partitions) EXCEPT !.lv = "leaving", !.dying = TRUE,
                                                 !.gate = UnaddRebalance(@)])
    /\ UNCHANGED <<grp, bound>>

\* Once manage returned the leave request is sent, and answered.
Left(m) ==
    /\ cl[m].lv = "leaving" /\ cl[m].man \in {"off", "done"}
    /\ grp' \in IF cl[m].id THEN HandleLeave(grp, m) ELSE {grp}
    /\ Dropping(m, [cl[m] EXCEPT !.lv = "left"])
    /\ UNCHANGED bound

ForceRebalance(m) ==
    /\ bound.forced > 0 /\ ~cl[m].rejoin /\ cl[m].man = "session"
    /\ bound' = [bound EXCEPT !.forced = @ - 1]
    /\ Client(m, [cl[m] EXCEPT !.rejoin = TRUE])
    /\ UNCHANGED grp

\* PollRecords: fill waits for rebalances, then blocks them.
Poll(m) ==
    /\ bound.polls > 0 /\ ~cl[m].fill
    /\ bound.block => Rebalances(cl[m].gate) = 0
    /\ bound' = [bound EXCEPT !.polls = @ - 1]
    /\ Client(m, [cl[m] EXCEPT !.fill = TRUE, !.gate = AddPoller(@)])
    /\ UNCHANGED grp

\* It returns what was fetched, or finds nothing and no longer blocks rebalances.
Fill(m) ==
    /\ cl[m].fill
    /\ \E got \in SUBSET cl[m].use :
          Client(m, [cl[m] EXCEPT !.fill = FALSE, !.proc = @ \cup got,
                                  !.gate = IF got = {} THEN UnaddPoller(@) ELSE @])
    /\ UNCHANGED <<grp, bound>>

\* The user is done with all it polled.
AllowRebalance(m) ==
    /\ bound.block
    /\ IF cl[m].fill THEN bound.parallel ELSE cl[m].proc # {}
    /\ Client(m, [cl[m] EXCEPT !.proc = {}, !.gate = MaskPollers(@)])
    /\ UNCHANGED <<grp, bound>>
-----------------------------------------------------------------------------
(* Faults: timers of the coordinator that run out. *)

\* A member that did not heartbeat in time.
Expire(m) ==
    /\ bound.faults > 0 /\ m \in grp.timed
    /\ bound' = [bound EXCEPT !.faults = @ - 1]
    /\ grp' \in SessionTimeout(grp, m)
    /\ Dropping(m, cl[m])

\* The rebalance timer drops whoever did not join; it drops nobody if all did.
RebalanceTimeout ==
    LET all == \A m \in grp.members : grp.waiting[m] # "no"
    IN  /\ grp.tRebalance /\ (all \/ bound.faults > 0)
        /\ bound' = IF all THEN bound ELSE [bound EXCEPT !.faults = @ - 1]
        /\ grp' \in CompleteRebalance(grp)
        /\ cl' = [n \in Members |->
                    [cl[n] EXCEPT !.out = OutOr(n, @)]]

-----------------------------------------------------------------------------
Step(m) ==
    \/ Manage(m) \/ Join(m) \/ RequestTimeout(m) \/ JoinRefused(m) \/ Joined(m)
    \/ SyncRefused(m) \/ Synced(m)
    \/ CallbackGate(m) \/ Prerevoke(m) \/ PrerevokeDone(m) \/ Assign(m) \/ AssignDone(m)
    \/ Revoke(m) \/ RevokeDone(m)
    \/ OffsetsFetched(m) \/ OffsetsAssigned(m) \/ FetchCanceled(m)
    \/ Heartbeat(m) \/ HeartbeatErrored(m) \/ Rejoin(m) \/ FetchErrored(m)
    \/ GroupCanceled(m) \/ Revoked(m) \/ SessionEnds(m)
    \/ FailGate(m) \/ FailCallback(m) \/ FailCallbackDone(m) \/ FailInvalidate(m) \/ Backoff(m)
    \/ Leave(m) \/ Left(m) \/ Fill(m) \/ AllowRebalance(m)

\* What a user, a timer or the network may do and need not.
Event(m) == LeaveGroup(m) \/ ForceRebalance(m) \/ Poll(m) \/ FetchFailed(m) \/ Expire(m)

Next == (\E m \in Members : Step(m) \/ Event(m)) \/ RebalanceTimeout

Spec == Init /\ [][Next]_vars
(***************************************************************************)
(* Every goroutine of a client runs, its callbacks and its requests return *)
(* and its user allows rebalances after processing; the coordinator's      *)
(* rebalance timer runs out.  What Event names need not happen.            *)
(***************************************************************************)
FairSpec == Spec /\ (\A m \in Members : WF_vars(Step(m))) /\ WF_vars(RebalanceTimeout)

-----------------------------------------------------------------------------
SessionCallback(c) == c.st \in {"prerevoking", "assigning", "revoking"}
InCallback(c) == SessionCallback(c) \/ c.man = "failing"

\* A member's fields are in their types and the gate in its width.
TypeOK ==
    /\ bound.polls >= 0 /\ bound.forced >= 0 /\ bound.faults >= 0
    /\ grp.state \in {"Empty", "Preparing", "Completing", "Stable"}
    /\ grp.members \subseteq Members /\ grp.pending \cap grp.members = {}
    /\ \A m \in Members :
          /\ {cl[m].now, cl[m].last, cl[m].fetching, cl[m].use} \subseteq SUBSET Partitions
          /\ cl[m].gate \in 0 .. Half * Half - 1
          /\ grp.waiting[m] # "no" => grp.reply[m] = NoReply

(***************************************************************************)
(* OnPartitionsAssigned, Revoked and Lost are never called concurrently;   *)
(* with BlockRebalanceOnPoll they are also never called while the user     *)
(* processes what it polled (config.go).                                   *)
(***************************************************************************)
CallbacksSerial ==
    \A m \in Members :
        /\ ~(SessionCallback(cl[m]) /\ cl[m].man = "failing")
        /\ bound.block /\ cl[m].proc # {} => ~InCallback(cl[m])

(***************************************************************************)
(* A member begins to consume a partition only when no other member does.  *)
(* The exceptions are that one of the two was dropped by the coordinator   *)
(* and did not get an assignment since, or got its first one (out): its    *)
(* stale claim keeps AdjustCooperative from withholding the partition; and *)
(* that the other is an eager member that an offset fetch made consume     *)
(* again what it had just revoked (late).                                  *)
(***************************************************************************)
Begins(m, p) == p \in cl'[m].use \ cl[m].use

OneConsumer ==
    [][\A m, n \in Members : m # n =>
          \A p \in cl[n].use :
              Begins(m, p) => \/ {cl'[m].out, cl'[n].out} # {"no"}
                           \/ p \in cl'[m].late \cup cl[n].late]_vars

(***************************************************************************)
(* A member does not consume what its revoke or lost callback was given    *)
(* and that it was not assigned since.  The two exceptions are the late    *)
(* offset fetch, and manageFailWait, which invalidates only after its      *)
(* callback returned.                                                      *)
(***************************************************************************)
RevokedIsQuiet ==
    \A m \in Members :
        cl[m].man # "failed" => cl[m].gone \cap cl[m].use \subseteq cl[m].late

(***************************************************************************)
(* What the documentation of OnPartitionsRevoked guarantees: "once the     *)
(* callback has completed any subsequent polls will not return records for *)
(* the revoked partitions" (a poll may return whatever is consumed).       *)
(***************************************************************************)
RevokedNotPolled == \A m \in Members : cl[m].gone \cap cl[m].use = {}

(***************************************************************************)
(* A member whose session is set up consumes all it is assigned, also what *)
(* an earlier, interrupted session began to fetch offsets for.             *)
(***************************************************************************)
AssignedIsConsumed ==
    \A m \in Members :
        LET c == cl[m]
        IN  c.st = "assigned" /\ c.fo = "ok" /\ ~c.dying => c.now \subseteq c.use

(***************************************************************************)
(* A group settles once its members, its user and its timers do nothing    *)
(* more: every LeaveGroup returned, every other member is in a session,    *)
(* every partition is consumed and none by two members (but late).  Not so *)
(* after a fault in a cooperative group: there a member that is not the    *)
(* leader may have revoked what it lost and join again, which makes kfake  *)
(* answer with the old join and start no rebalance (handleJoin).           *)
(***************************************************************************)
Settled ==
    LET in == {m \in bound.members : cl[m].lv # "left"}
    IN  /\ \A m \in in : cl[m].lv = "no" /\ cl[m].man = "session" /\ cl[m].st = "assigned"
        /\ in # {} => UNION {cl[m].use : m \in in} = Partitions
        /\ \A m, n \in in : m # n =>
              cl[m].use \cap cl[n].use \subseteq cl[m].late \cup cl[n].late

GroupSettles == (bound.cooperative /\ bound.faults > 0) \/ <>[]Settled
=============================================================================
