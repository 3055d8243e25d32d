------------------------------- MODULE Commit -------------------------------
(***************************************************************************)
(* The offsets of a group member (consumer_group.go): what polls leave     *)
(* uncommitted, autocommits, CommitOffsets, CommitOffsetsSync and the      *)
(* default revoke that commit them, the locks between them and joins, and  *)
(* the coordinator's handling of a commit (kfake/groups.go).               *)
(*                                                                         *)
(* One partition is consumed; its offsets stand for its records.  Other    *)
(* members of the group only matter in that they may be given the          *)
(* partition.  A commit is a record of coms, in the order in which the     *)
(* commits were called; its phase ph is the statement its goroutine is at: *)
(*   "lock"     noCommitDuringJoinAndSync is to be read-locked,            *)
(*   "wait"     it could not be,                                           *)
(*   "sync"     it is; syncCommitMu is to be locked,                       *)
(*   "prior"    the commit is the latest one, an earlier one may run,      *)
(*   "issue"    the request is to be sent,    "sent"  it was sent,         *)
(*   "calling"  onDone runs,  "unblock"  autocommits are to be unblocked,  *)
(*   "done".                                                               *)
(* Requests travel on one connection, in order.  The group does not use    *)
(* KIP-848, marks, greedy autocommits or transactions.                     *)
(***************************************************************************)
EXTENDS Integers, Sequences, FiniteSets

CONSTANTS
    MaxOffset,   \* the end of the partition
    Scenarios    \* bounds: a behaviour keeps within one of them

ASSUME CommitAssumption ==
    /\ MaxOffset \in Nat
    /\ Scenarios \subseteq [cooperative : BOOLEAN,
                            auto : BOOLEAN,    \* autocommitting is enabled
                            ticks : Nat,       \* autocommits
                            asyncs : Nat,      \* CommitOffsets
                            syncs : Nat,       \* CommitOffsetsSync
                            joins : Nat,       \* rebalances
                            cancels : Nat,     \* contexts that the user cancels
                            expels : Nat,      \* times the coordinator drops the member
                            fails : Nat]       \* joins and syncs that fail

VARIABLES
    u,          \* g.uncommitted of the partition, or Nil
    coms,       \* the commits
    last,       \* g.commitCancel, g.commitDone: the latest commit, or 0
    blockAuto,
    ses,        \* where the manage goroutine is: "failed" if joinAndSync returned an
                \* error, "rejoin" if it is called again after one
    gen,        \* g.memberGen
    pos,        \* the next offset a poll returns, or -1 if nothing is consumed
    wire,       \* commits on their way to the coordinator
    coord,      \* the coordinator: its generation, state, the owner, the commit
    processed,  \* history: all before this offset was processed
    bound       \* what is left of the behaviour's scenario

vars == <<u, coms, last, blockAuto, ses, gen, pos, wire, coord, processed, bound>>

Nil == [dirty |-> -1, head |-> -1, committed |-> -1]
At(o) == [dirty |-> o, head |-> o, committed |-> o]
Empty == -1   \* nothing to commit

Max2(a, b) == IF a < b THEN b ELSE a

Init ==
    /\ bound \in Scenarios
    /\ u = Nil /\ coms = <<>> /\ last = 0 /\ blockAuto = FALSE
    /\ ses = "join" /\ gen = 0 /\ pos = -1 /\ wire = <<>>
    /\ coord = [gen |-> 0, state |-> "preparing", owner |-> "none", stored |-> 0]
    /\ processed = 0

Spend(field) == bound[field] > 0 /\ bound' = [bound EXCEPT ![field] = @ - 1]
-----------------------------------------------------------------------------
(* Polls. *)

(***************************************************************************)
(* The user polls and commits in one goroutine: CommitOffsets returns when *)
(* its commit has begun, CommitOffsetsSync when its onDone returned.       *)
(***************************************************************************)
UserIsFree ==
    \A i \in DOMAIN coms :
        /\ coms[i].kind = "async" => coms[i].ph \notin {"lock", "wait", "sync"}
        /\ coms[i].kind = "sync" => coms[i].ph \in {"unblock", "done"}

\* Nothing that polls returned is still being processed.
Clean == u.dirty <= processed /\ (bound.auto => u.head = u.dirty)

(***************************************************************************)
(* PollRecords: what earlier polls returned is processed, and may be       *)
(* autocommitted from now on (undirtyUncommitted) ...                      *)
(***************************************************************************)
Undirty ==
    /\ UserIsFree /\ u # Nil /\ ~Clean
    /\ processed' = Max2(processed, u.dirty)
    /\ u' = IF bound.auto THEN [u EXCEPT !.head = u.dirty] ELSE u
    /\ UNCHANGED <<coms, last, blockAuto, ses, gen, pos, wire, coord, bound>>

\* Mutant of Fill: what a poll returns may be autocommitted at once.
FillHead ==
    /\ pos \in 0 .. MaxOffset - 1
    /\ UserIsFree /\ Clean
    /\ \E to \in pos + 1 .. MaxOffset :
          pos' = to /\ u' = [u EXCEPT !.dirty = to, !.head = to]
    /\ UNCHANGED <<coms, last, blockAuto, ses, gen, wire, coord, processed, bound>>

\* ... and what it returns is uncommitted (updateUncommitted).
Fill ==
    /\ pos \in 0 .. MaxOffset - 1
    /\ UserIsFree /\ Clean
    /\ \E to \in pos + 1 .. MaxOffset :
          /\ pos' = to
          /\ u' = [u EXCEPT !.dirty = to, !.head = IF bound.auto THEN @ ELSE to]
    /\ UNCHANGED <<coms, last, blockAuto, ses, gen, wire, coord, processed, bound>>

-----------------------------------------------------------------------------
(* Commits. *)

New(kind, ph, off) ==
    [kind |-> kind, ph |-> ph, off |-> off, called |-> gen, gen |-> -1, prior |-> 0,
     cancel |-> FALSE, killed |-> FALSE, ans |-> "none"]

Holding == {"prior", "issue", "sent", "calling"}

\* noCommitDuringJoinAndSync: a join that waits for the lock keeps readers out.
Readers == {i \in DOMAIN coms : coms[i].ph \in {"sync", "prior", "issue", "sent"}}

\* Mutant of CanRLock: the lock is released once the join is answered.
CanRLockEarly == ses \notin {"join", "rejoin", "joining"}

\* Mutant of CanRLock: the lock is taken before partitions are revoked.
CanRLockLate == ses \notin {"revoking", "join", "rejoin", "joining", "joined"}

CanRLock == ses \notin {"join", "rejoin", "joining", "joined"}

\* syncCommitMu
Users == {i \in DOMAIN coms : coms[i].kind # "auto"}
SyncFree == \A i \in Users : coms[i].ph \notin Holding
AsyncFree ==
    \A i \in Users : coms[i].kind # "async" => coms[i].ph \notin Holding \cup {"sync"}

\* getUncommittedLocked(head, dirty)
Uncommitted(off) == IF u = Nil \/ off = u.committed THEN Empty ELSE off

\* The user, done with what it polled, commits UncommittedOffsets.
Call(kind, field) ==
    /\ Spend(field)
    /\ UserIsFree /\ Uncommitted(u.dirty) # Empty
    /\ processed' = Max2(processed, u.dirty)
    /\ coms' = Append(coms, New(kind, "lock", u.dirty))
    /\ UNCHANGED <<u, last, blockAuto, ses, gen, pos, wire, coord>>

CommitOffsets == Call("async", "asyncs")
CommitOffsetsSync == Call("sync", "syncs")

Com(i, c) == coms' = [coms EXCEPT ![i] = c]

\* waitJoinSyncMu: the lock is tried, then waited for until the user's context is canceled.
TryJoinSyncRLock(i) ==
    /\ coms[i].ph = "lock"
    /\ Com(i, [coms[i] EXCEPT !.ph = IF CanRLock THEN "sync" ELSE "wait"])
    /\ UNCHANGED <<u, last, blockAuto, ses, gen, pos, wire, coord, processed, bound>>

JoinSyncRLock(i) ==
    /\ coms[i].ph = "wait" /\ CanRLock
    /\ Com(i, [coms[i] EXCEPT !.ph = "sync"])
    /\ UNCHANGED <<u, last, blockAuto, ses, gen, pos, wire, coord, processed, bound>>

JoinSyncCanceled(i) ==
    /\ coms[i].ph = "wait" /\ coms[i].killed
    /\ Com(i, [coms[i] EXCEPT !.ph = "done", !.ans = "canceled"])
    /\ UNCHANGED <<u, last, blockAuto, ses, gen, pos, wire, coord, processed, bound>>

\* commit: the new commit replaces the latest one, which it will cancel and wait for.
Latest(c) == [c EXCEPT !.ph = "prior", !.gen = gen, !.prior = last]

\* syncCommitMu is locked; then, under g.mu, autocommits are blocked.
Begin(i) ==
    /\ coms[i].ph = "sync"
    /\ IF coms[i].kind = "async" THEN AsyncFree ELSE SyncFree
    /\ blockAuto' = TRUE
    /\ IF coms[i].off = Empty
       THEN Com(i, [coms[i] EXCEPT !.ph = "calling", !.ans = "ok"]) /\ UNCHANGED last
       ELSE Com(i, Latest(coms[i])) /\ last' = i
    /\ UNCHANGED <<u, ses, gen, pos, wire, coord, processed, bound>>

\* loopCommit: a tick.
AutoCommit ==
    /\ bound.auto /\ CanRLock /\ ~blockAuto
    /\ Spend("ticks")
    /\ Uncommitted(u.head) # Empty
    /\ coms' = Append(coms, Latest(New("auto", "prior", u.head)))
    /\ last' = Len(coms')
    /\ UNCHANGED <<u, blockAuto, ses, gen, pos, wire, coord, processed>>

\* Mutant of PriorDone: the earlier commit is not waited for.
PriorIgnored(i) == TRUE

PriorDone(i) == coms[i].prior # 0 => coms[coms[i].prior].ph = "done"

CancelPrior(i) ==
    /\ coms[i].ph = "prior" /\ ~PriorDone(i) /\ ~coms[coms[i].prior].cancel
    /\ coms' = [coms EXCEPT ![coms[i].prior].cancel = TRUE]
    /\ UNCHANGED <<u, last, blockAuto, ses, gen, pos, wire, coord, processed, bound>>

Prior(i) ==
    /\ coms[i].ph = "prior" /\ PriorDone(i)
    /\ Com(i, [coms[i] EXCEPT !.ph = "issue"])
    /\ UNCHANGED <<u, last, blockAuto, ses, gen, pos, wire, coord, processed, bound>>

Canceled(c) == c.cancel \/ c.killed

\* The request is sent unless its context is canceled.
Issue(i) ==
    /\ coms[i].ph = "issue"
    /\ IF Canceled(coms[i])
       THEN Com(i, [coms[i] EXCEPT !.ph = "calling", !.ans = "canceled"]) /\ UNCHANGED wire
       ELSE Com(i, [coms[i] EXCEPT !.ph = "sent"]) /\ wire' = Append(wire, i)
    /\ UNCHANGED <<u, last, blockAuto, ses, gen, pos, coord, processed, bound>>

\* The request's context is canceled while it waits for its answer.
Abandon(i) ==
    /\ coms[i].ph = "sent" /\ Canceled(coms[i])
    /\ Com(i, [coms[i] EXCEPT !.ph = "calling", !.ans = "canceled"])
    /\ UNCHANGED <<u, last, blockAuto, ses, gen, pos, wire, coord, processed, bound>>

\* updateCommitted
UpdateCommitted(c) ==
    IF c.gen # gen \/ u = Nil \/ c.ans # "ok" THEN u
    ELSE [u EXCEPT !.committed = c.off, !.head = Max2(@, c.off)]

Answered(i) ==
    /\ coms[i].ph = "sent" /\ coms[i].ans # "none"
    /\ u' = UpdateCommitted(coms[i])
    /\ Com(i, [coms[i] EXCEPT !.ph = "calling"])
    /\ UNCHANGED <<last, blockAuto, ses, gen, pos, wire, coord, processed, bound>>

\* onDone returned; a commit of the user releases syncCommitMu.
OnDone(i) ==
    /\ coms[i].ph = "calling"
    /\ Com(i, [coms[i] EXCEPT !.ph = IF coms[i].kind = "auto" THEN "done" ELSE "unblock"])
    /\ UNCHANGED <<u, last, blockAuto, ses, gen, pos, wire, coord, processed, bound>>

\* Autocommits are unblocked under g.mu, then commitDone is closed.
Unblock(i) ==
    /\ coms[i].ph = "unblock"
    /\ blockAuto' = FALSE
    /\ Com(i, [coms[i] EXCEPT !.ph = "done"])
    /\ UNCHANGED <<u, last, ses, gen, pos, wire, coord, processed, bound>>

CancelContext(i) ==
    /\ coms[i].kind \in {"sync", "async"} /\ coms[i].ph # "done" /\ ~coms[i].killed
    /\ Spend("cancels")
    /\ Com(i, [coms[i] EXCEPT !.killed = TRUE])
    /\ UNCHANGED <<u, last, blockAuto, ses, gen, pos, wire, coord, processed>>
-----------------------------------------------------------------------------
(* The coordinator. *)

\* handleOffsetCommit
HandleCommit ==
    LET i == Head(wire)
        c == coms[i]
        ok == coord.state \in {"stable", "preparing"} /\ c.gen = coord.gen
        ans == IF ok THEN "ok" ELSE IF coord.state = "gone" THEN "unknown" ELSE "refused"
    IN  /\ wire # <<>>
        /\ wire' = Tail(wire)
        /\ coord' = IF ok THEN [coord EXCEPT !.stored = c.off] ELSE coord
        /\ Com(i, IF c.ph = "sent" THEN [c EXCEPT !.ans = ans] ELSE c)
        /\ UNCHANGED <<u, last, blockAuto, ses, gen, pos, processed, bound>>

\* (External.)  Another member consumes the partition and commits.
OtherCommits ==
    /\ coord.owner = "other" /\ coord.stored < MaxOffset
    /\ coord' = [coord EXCEPT !.stored = @ + 1]
    /\ processed' = Max2(processed, coord.stored + 1)
    /\ UNCHANGED <<u, coms, last, blockAuto, ses, gen, pos, wire, bound>>

(***************************************************************************)
(* The session of the member times out, or it does not join or sync in     *)
(* time.  (One that is dropped when it is about to join, and joins again   *)
(* without onLost, is in Transaction.)                                     *)
(***************************************************************************)
Expel ==
    /\ ses \in {"on", "away", "failed"} /\ coord.state # "gone"
    /\ Spend("expels")
    /\ coord' = [coord EXCEPT !.gen = @ + 1, !.state = "gone", !.owner = "other"]
    /\ UNCHANGED <<u, coms, last, blockAuto, ses, gen, pos, wire, processed>>

-----------------------------------------------------------------------------
(* Group sessions. *)

Ses(next) == ses' = next

\* joinAndSync has locked noCommitDuringJoinAndSync and sends its join request.
JoinLocked ==
    /\ ses \in {"join", "rejoin"} /\ Readers = {}
    /\ Ses("joining")
    /\ coord' = [coord EXCEPT !.state = "preparing"]
    /\ UNCHANGED <<u, coms, last, blockAuto, gen, pos, wire, processed, bound>>

\* The group has its members, the coordinator answers their joins.
NextGeneration == [coord EXCEPT !.gen = @ + 1, !.state = "completing"]

\* The join is answered: handleJoinResp stores the new generation.
Joined ==
    /\ ses = "joining"
    /\ Ses("joined")
    /\ coord' = NextGeneration
    /\ gen' = coord.gen + 1
    /\ UNCHANGED <<u, coms, last, blockAuto, pos, wire, processed, bound>>

(***************************************************************************)
(* joinAndSync returns an error, which unlocks, because of the join: the   *)
(* coordinator did not see it or refused it, or its answer is lost, or     *)
(* handleJoinResp stores the generation and then cannot balance.           *)
(***************************************************************************)
JoinFails ==
    /\ ses = "joining"
    /\ Spend("fails")
    /\ Ses("failed")
    /\ \/ UNCHANGED <<coord, gen>>
       \/ coord' = NextGeneration /\ gen' \in {gen, coord.gen + 1}
    /\ UNCHANGED <<u, coms, last, blockAuto, pos, wire, processed>>

\* A partition that is lost is given to nobody else before it is revoked and we join again.
Assigned(mine) ==
    [coord EXCEPT !.state = "stable",
                  !.owner = IF mine THEN "us" ELSE IF pos >= 0 THEN "none" ELSE "other"]

(***************************************************************************)
(* The sync is answered and joinAndSync unlocks.  A partition that is lost *)
(* is revoked; one that is kept is consumed on; one that is new has its    *)
(* offset fetched.                                                         *)
(***************************************************************************)
Synced ==
    /\ ses = "joined"
    /\ \E mine \in BOOLEAN :
          /\ coord' = Assigned(mine)
          /\ Ses(CASE pos >= 0 /\ mine -> "on" [] pos >= 0 /\ ~mine -> "revoke"
                   [] pos < 0 /\ mine -> "fetch" [] pos < 0 /\ ~mine -> "away")
    /\ UNCHANGED <<u, coms, last, blockAuto, gen, pos, wire, processed, bound>>

\* The sync is answered with REBALANCE_IN_PROGRESS: joinAndSync joins again, still locked.
SyncRebalances ==
    /\ ses = "joined"
    /\ Spend("joins")
    /\ Ses("joining")
    /\ coord' = [coord EXCEPT !.state = "preparing"]
    /\ UNCHANGED <<u, coms, last, blockAuto, gen, pos, wire, processed>>

\* joinAndSync returns an error because of the sync: it, or its answer, is lost.
SyncFails ==
    /\ ses = "joined"
    /\ Spend("fails")
    /\ Ses("failed")
    /\ coord' \in {coord, Assigned(TRUE), Assigned(FALSE)}
    /\ UNCHANGED <<u, coms, last, blockAuto, gen, pos, wire, processed>>

\* fetchOffsets
FetchOffsets ==
    /\ ses = "fetch"
    /\ Ses("on")
    /\ pos' = coord.stored /\ u' = At(coord.stored)
    /\ UNCHANGED <<coms, last, blockAuto, gen, wire, coord, processed, bound>>

\* A heartbeat returns that the group rebalances.
Rebalance ==
    /\ ses \in {"on", "away"} /\ coord.state = "stable"
    /\ Spend("joins")
    /\ coord' = [coord EXCEPT !.state = "preparing"]
    /\ Ses(IF ses = "on" /\ ~bound.cooperative THEN "revoke" ELSE "join")
    /\ UNCHANGED <<u, coms, last, blockAuto, gen, pos, wire, processed>>

\* revoke: fetching stops, then defaultRevoke commits what may be autocommitted.
Revoke ==
    /\ ses = "revoke"
    /\ pos' = -1
    /\ IF bound.auto
       THEN Ses("revoking") /\ coms' = Append(coms, New("revoke", "lock", Uncommitted(u.head)))
       ELSE Ses("revoked") /\ UNCHANGED coms
    /\ UNCHANGED <<u, last, blockAuto, gen, wire, coord, processed, bound>>

\* Mutant of RevokeReturns: the revoke commits without waiting.
RevokeAsync ==
    /\ ses = "revoking"
    /\ Ses("revoked")
    /\ UNCHANGED <<u, coms, last, blockAuto, gen, pos, wire, coord, processed, bound>>

\* defaultRevoke returns once its onDone returned.
RevokeReturns ==
    /\ ses = "revoking"
    /\ \A i \in DOMAIN coms : coms[i].kind = "revoke" => coms[i].ph \in {"unblock", "done"}
    /\ Ses("revoked")
    /\ UNCHANGED <<u, coms, last, blockAuto, gen, pos, wire, coord, processed, bound>>

Revoked ==
    /\ ses = "revoked"
    /\ u' = Nil
    /\ Ses("join")
    /\ UNCHANGED <<coms, last, blockAuto, gen, pos, wire, coord, processed, bound>>

\* manageFailWait: joinAndSync failed or the member was dropped, all it had is lost.
Lost ==
    /\ ses = "failed" \/ (ses \in {"on", "away"} /\ coord.state = "gone")
    /\ u' = Nil /\ pos' = -1 /\ Ses("rejoin")
    /\ UNCHANGED <<coms, last, blockAuto, gen, wire, coord, processed, bound>>

-----------------------------------------------------------------------------
Goroutine(i) ==
    \/ TryJoinSyncRLock(i) \/ JoinSyncRLock(i) \/ JoinSyncCanceled(i)
    \/ Begin(i) \/ CancelPrior(i) \/ Prior(i) \/ Issue(i) \/ Abandon(i) \/ Answered(i)
    \/ OnDone(i) \/ Unblock(i)

Session ==
    \/ JoinLocked \/ Joined \/ Synced \/ FetchOffsets
    \/ Revoke \/ RevokeReturns \/ Revoked \/ Lost

Event ==
    \/ Undirty \/ Fill \/ CommitOffsets \/ CommitOffsetsSync \/ AutoCommit
    \/ Rebalance \/ SyncRebalances \/ JoinFails \/ SyncFails \/ Expel \/ OtherCommits
    \/ \E i \in DOMAIN coms : CancelContext(i)

Next == (\E i \in DOMAIN coms : Goroutine(i)) \/ Session \/ HandleCommit \/ Event

Spec == Init /\ [][Next]_vars

\* Every goroutine, lock, request and callback makes progress; what Event names need not happen.
FairSpec ==
    /\ Spec
    /\ WF_vars(\E i \in DOMAIN coms : Goroutine(i)) /\ WF_vars(Session) /\ WF_vars(HandleCommit)

-----------------------------------------------------------------------------
\* Offsets are in the partition, and commits refer to commits.
TypeOK ==
    /\ u \in [dirty : -1 .. MaxOffset, head : -1 .. MaxOffset, committed : -1 .. MaxOffset]
    /\ last \in 0 .. Len(coms) /\ blockAuto \in BOOLEAN
    /\ pos \in -1 .. MaxOffset /\ processed \in 0 .. MaxOffset
    /\ \A i \in DOMAIN coms : coms[i].off \in -1 .. MaxOffset /\ coms[i].prior \in 0 .. Len(coms)

(***************************************************************************)
(* Nothing is committed, and thus skipped by whoever consumes next, before *)
(* it was processed: autocommits never commit what the latest poll         *)
(* returned.                                                               *)
(***************************************************************************)
AtLeastOnce == coord.stored <= processed

(***************************************************************************)
(* A commit that the client waits for is refused for its generation, or    *)
(* because the group is between join and sync, only if joinAndSync failed  *)
(* and is not called again yet (noCommitDuringJoinAndSync: "we avoid       *)
(* RebalanceInProgress and IllegalGeneration", commit; after a failure     *)
(* "the user will likely be unable to commit", manageFailWait).  A member  *)
(* that was dropped is told that it is unknown.                            *)
(***************************************************************************)
NeverRefused ==
    [][\A i \in DOMAIN coms :
          coms[i].ans # "refused" /\ coms'[i].ans = "refused" => ses \in {"failed", "rejoin"}]_vars

(***************************************************************************)
(* No commit was called before a rebalance and made after it: such a       *)
(* commit has the new generation and is accepted, though the partition may *)
(* have been consumed further by another member ("you will commit offsets  *)
(* for partitions that have moved to a different consumer", CommitOffsets).*)
(***************************************************************************)
NoneLate == \A i \in DOMAIN coms : coms[i].gen \in {-1, coms[i].called}

(***************************************************************************)
(* The commits of the user and autocommits take effect in the order in     *)
(* which they were made, so the committed offset does not go back          *)
(* (CommitOffsets: "absolute ordering of commit requests by canceling      *)
(* prior requests and ensuring they are done before executing a new one"). *)
(* Excepted is the commit of a revoke: see NoRewind.                       *)
(***************************************************************************)
CommitsInOrder ==
    [][NoneLate /\ coord'.stored < coord.stored => coms[Head(wire)].kind = "revoke"]_vars

(***************************************************************************)
(* "We want to ensure we forward the head so that using it later does not  *)
(* rewind the manual commit" (updateCommitted): no commit goes back.  The  *)
(* default revoke reads the head before it waits for the commit of a user. *)
(***************************************************************************)
NoRewind == [][coord'.stored >= coord.stored]_vars

(***************************************************************************)
(* Before the member joins again, and the partition may be given away,     *)
(* what could be autocommitted when it was revoked is committed            *)
(* (defaultRevoke: "ensures we never miss committing everything").         *)
(***************************************************************************)
RevokeCommits ==
    NoneLate /\ ses = "joining" =>
        \A i \in DOMAIN coms : coms[i].kind = "revoke" => coms[i].off <= coord.stored

(***************************************************************************)
(* CommitOffsetsSync "begins a commit that cannot be canceled" by another  *)
(* commit before its onDone returned.                                      *)
(***************************************************************************)
SyncNotCanceled ==
    \A i \in DOMAIN coms :
        coms[i].kind \in {"sync", "revoke"} /\ coms[i].cancel => coms[i].ph \in {"unblock", "done"}

(***************************************************************************)
(* Commits and joins that wait for each other all finish: every commit     *)
(* calls its onDone, CommitOffsetsSync returns, and the group is joined.   *)
(***************************************************************************)
AllReturn ==
    <>[](ses \in {"on", "away"} /\ \A i \in DOMAIN coms : coms[i].ph = "done")
=============================================================================
