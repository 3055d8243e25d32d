---------------------------- MODULE Transaction ----------------------------
(***************************************************************************)
(* GroupTransactSession (txn.go): sessions that consume a partition in a   *)
(* group, produce one output for each record and end a transaction that    *)
(* commits the outputs and the consumed offsets together, or neither.      *)
(*                                                                         *)
(* An output is named by the offset of its input.  What the user does in a *)
(* session is sequential: poll, begin, produce, End.  The group's manage   *)
(* goroutine runs beside it.  The phase ph of a session is the statement   *)
(* of End that it is at:                                                   *)
(*   "idle"    not in End,                                                 *)
(*   "end"     flushed; the failed flags are to be read,                   *)
(*   "prepare" the offset commit is to be prepared,                        *)
(*   "rlock"   noCommitDuringJoinAndSync is to be read-locked,             *)
(*   "commit"  it is; the offset commit is sent,                           *)
(*   "beat"    a heartbeat is forced,                                      *)
(*   "decide"  failMu is to be locked,    "ending"  it is; EndTransaction, *)
(*   "ended"   it returned,    "set"  the offsets are to be set,           *)
(*   "reset"   failMu is unlocked; the flags are to be reset.              *)
(* ses is where the manage goroutine is.  The brokers are external: they   *)
(* check an offset commit's generation (KIP-447), fence an old producer    *)
(* epoch, and end a transaction atomically.                                *)
(***************************************************************************)
EXTENDS Integers, FiniteSets

CONSTANTS
    Sessions,
    MaxOffset,   \* the end of the input partition
    Scenarios    \* bounds: a behaviour keeps within one of them

ASSUME TransactionAssumption ==
    /\ MaxOffset \in Nat
    /\ IsFiniteSet(Sessions)
    /\ Scenarios \subseteq [cooperative : BOOLEAN,
                            stable : BOOLEAN,    \* RequireStableFetchOffsets
                            txns : Nat,          \* transactions of a session
                            txnsFirst : Nat,     \* and of the one that starts with the partition
                            aborts : BOOLEAN,    \* the user may end with TryAbort
                            rebalances : Nat,
                            expels : Nat,        \* times a member is dropped from the group
                            joining : BOOLEAN,   \* only one that is about to join is
                            timeouts : Nat,      \* transactions that the broker aborts
                            fails : Nat,         \* producer IDs that fail
                            unknowns : Nat]      \* EndTxn with UNKNOWN_SERVER_ERROR

VARIABLES
    s,       \* the sessions
    grp,     \* external: the group: its generation, members, owner of the partition
    brk,     \* external: the committed offset, the transactions and the output
    bound    \* what is left of the behaviour's scenario

vars == <<s, grp, brk, bound>>

None == -1
Offsets == 0 .. MaxOffset - 1

At(o) == [dirty |-> o, committed |-> o]
Nil == At(None)

\* The group was joined for the first time.
Init ==
    /\ bound \in Scenarios
    /\ LET first == CHOOSE m \in Sessions : TRUE IN
       s = [m \in Sessions |->
               [ph |-> "idle", ses |-> IF m = first THEN "fetch" ELSE "on", gen |-> 1,
                next |-> None, u |-> Nil, batch |-> {}, txns |-> IF m = first THEN bound.txnsFirst ELSE bound.txns,
                revoked |-> FALSE, lost |-> FALSE, mu |-> FALSE,
                inTxn |-> FALSE, added |-> FALSE, id |-> "ok",
                want |-> FALSE, ok |-> FALSE, post |-> None, req |-> 0, err |-> "nil",
                doubt |-> FALSE, stray |-> FALSE]]
    /\ grp = [gen |-> 1, live |-> Sessions, moving |-> FALSE]
    /\ brk = [stored |-> 0, pend |-> [m \in Sessions |-> None],
              open |-> [m \in Sessions |-> {}], fenced |-> [m \in Sessions |-> FALSE],
              out |-> [o \in Offsets |-> 0]]

Spend(field) == bound[field] > 0 /\ bound' = [bound EXCEPT ![field] = @ - 1]
Put(m, c) == s' = [s EXCEPT ![m] = c]
-----------------------------------------------------------------------------
(* The transaction coordinator. *)

Aborted(b, m) == [b EXCEPT !.open[m] = {}, !.pend[m] = None]

Committed(b, m) ==
    [Aborted(b, m) EXCEPT
        !.stored = IF b.pend[m] = None THEN @ ELSE b.pend[m],
        !.out = [o \in Offsets |-> IF o \in b.open[m] THEN @[o] + 1 ELSE @[o]]]

\* The transaction of m takes too long.
TxnTimeout(m) ==
    /\ brk.open[m] # {} \/ brk.pend[m] # None
    /\ Spend("timeouts")
    /\ brk' = [Aborted(brk, m) EXCEPT !.fenced[m] = TRUE]
    /\ UNCHANGED <<s, grp>>
-----------------------------------------------------------------------------
(* Polling and producing. *)

\* stray (history): what is polled is about to be invalidated, and no flag says so.
Poll(m) ==
    /\ s[m].ph = "idle" /\ s[m].next \in Offsets
    /\ \E to \in s[m].next + 1 .. MaxOffset :
          Put(m, [s[m] EXCEPT !.batch = @ \cup s[m].next .. to - 1, !.next = to, !.u.dirty = to,
                              !.stray = @ \/ (s[m].ses = "lost" /\ ~s[m].lost)])
    /\ UNCHANGED <<grp, brk, bound>>

\* BeginTransaction, with maybeRecoverProducerID: the failures that are modelled are recoverable.
BeginTransaction(c) ==
    [c EXCEPT !.inTxn = TRUE, !.id = IF @ = "failed" THEN "reload" ELSE @]

\* A transaction's first use of the producer ID reloads it: InitProducerID aborts what is open.
ProducerID(b, c, m) ==
    IF c.id = "reload" THEN [Aborted(b, m) EXCEPT !.fenced[m] = FALSE] ELSE b

\* Produce of what was polled, until it is flushed or aborted; a fenced producer ID fails.
Produce(c, m, fails) ==
    LET b == ProducerID(brk, c, m) IN
    IF b.fenced[m] \/ fails
    THEN brk' = b /\ Put(m, [c EXCEPT !.id = "failed", !.added = TRUE, !.batch = {}])
    ELSE /\ brk' = [b EXCEPT !.open[m] = @ \cup c.batch]
         /\ Put(m, [c EXCEPT !.id = "ok", !.added = TRUE, !.batch = {}])

\* Begin, then Produce, then End(TryCommit or TryAbort) to its first lock.
Transact(m) ==
    /\ s[m].ph = "idle" /\ s[m].batch # {} /\ s[m].txns > 0
    /\ \E want, fails \in BOOLEAN :
          /\ want \/ bound.aborts
          /\ IF fails THEN Spend("fails") ELSE UNCHANGED bound
          /\ Produce([BeginTransaction(s[m]) EXCEPT !.ph = "end", !.want = want, !.txns = @ - 1],
                     m, fails)
    /\ UNCHANGED grp
-----------------------------------------------------------------------------
(* End. *)

Failed(c) == c.revoked \/ c.lost

\* The flags and, in post, UncommittedOffsets are read.
ReadFailed(m) ==
    /\ s[m].ph = "end" /\ ~s[m].mu
    /\ Put(m, [s[m] EXCEPT
          !.ok = s[m].want /\ ~Failed(s[m]),
          !.post = IF s[m].u.dirty = s[m].u.committed THEN None ELSE s[m].u.dirty,
          !.ph = IF s[m].want /\ ~Failed(s[m]) THEN "prepare" ELSE "decide"])
    /\ UNCHANGED <<grp, brk, bound>>

\* prepareTxnOffsetCommit takes the generation; addOffsetsToTxn may fail the producer ID.
Prepare(m) ==
    LET b == ProducerID(brk, s[m], m) IN
    /\ s[m].ph = "prepare"
    /\ brk' = b
    /\ IF s[m].id = "failed" \/ (s[m].post # None /\ b.fenced[m])
       THEN Put(m, [s[m] EXCEPT !.id = "failed", !.ok = FALSE, !.ph = "decide"])
       ELSE IF s[m].post = None
       THEN Put(m, [s[m] EXCEPT !.id = "ok", !.ph = "beat"])
       ELSE Put(m, [s[m] EXCEPT !.id = "ok", !.req = s[m].gen, !.added = TRUE, !.ph = "rlock"])
    /\ UNCHANGED <<grp, bound>>

\* waitJoinSyncMu
JoinSyncRLock(m) ==
    /\ s[m].ph = "rlock" /\ s[m].ses \notin {"join", "joining"}
    /\ Put(m, [s[m] EXCEPT !.ph = "commit"])
    /\ UNCHANGED <<grp, brk, bound>>

\* External: the offset commit is part of the transaction if its generation is the group's.
IsCurrent(m, gen) == m \in grp.live /\ gen = grp.gen

\* commitTxn
TxnOffsetCommit(m) ==
    LET ok == IsCurrent(m, s[m].req) /\ ~brk.fenced[m]
    IN  /\ s[m].ph = "commit"
        /\ brk' = IF ok THEN [brk EXCEPT !.pend[m] = s[m].post] ELSE brk
        /\ Put(m, [s[m] EXCEPT !.ok = ok,
                      !.ph = IF m \in grp.live /\ ~brk.fenced[m] THEN "beat" ELSE "decide"])
        /\ UNCHANGED <<grp, bound>>

\* The heartbeat loop runs from the sync until it returns to rejoin, beside fetchOffsets.
Heartbeating == {"fetch", "on", "keep", "revoke", "revoked"}

\* The forced heartbeat returns, or revokedCh or lostCh is closed.
ForcedHeartbeat(m) ==
    /\ s[m].ph = "beat"
    /\ \/ /\ s[m].ses \in Heartbeating
          /\ Put(m, [s[m] EXCEPT !.ok = @ /\ IsCurrent(m, s[m].gen) /\ ~grp.moving,
                                 !.ph = "decide"])
       \/ /\ Failed(s[m])
          /\ Put(m, [s[m] EXCEPT !.ok = FALSE, !.ph = "decide"])
    /\ UNCHANGED <<grp, brk, bound>>

\* failMu is locked and the flags are read again.
Decide(m) ==
    /\ s[m].ph = "decide" /\ ~s[m].mu
    /\ Put(m, [s[m] EXCEPT !.mu = TRUE, !.ok = @ /\ ~Failed(s[m]), !.ph = "ending"])
    /\ UNCHANGED <<grp, brk, bound>>

\* The EndTxn request; an epoch that is fenced fails the producer ID.
EndTxn(m, c) ==
    LET ended == IF c.ok THEN Committed(brk, m) ELSE Aborted(brk, m) IN
    IF brk.fenced[m]
    THEN /\ Put(m, [c EXCEPT !.id = "failed", !.err = "fatal", !.ph = "ended"])
         /\ UNCHANGED <<brk, bound>>
    ELSE \/ /\ Put(m, [c EXCEPT !.err = "nil", !.ph = "ended"])
            /\ brk' = ended /\ UNCHANGED bound
         \/ /\ Put(m, [c EXCEPT !.doubt = TRUE])
            /\ brk' \in {brk, ended} /\ Spend("unknowns")

(***************************************************************************)
(* EndTransaction; End retries it as an abort if the commit could not be   *)
(* attempted, and as it is if the error is unknown.  A retry finds inTxn   *)
(* false.                                                                  *)
(***************************************************************************)
EndTransaction(m) ==
    LET c == [s[m] EXCEPT !.inTxn = FALSE, !.added = FALSE]
        Returns(e) == Put(m, [c EXCEPT !.err = e, !.ph = "ended"])
    IN  /\ s[m].ph = "ending"
        /\ CASE ~s[m].inTxn \/ ~s[m].added ->
                    Returns("nil") /\ UNCHANGED <<brk, bound>>
             [] s[m].inTxn /\ s[m].added /\ s[m].id = "failed" /\ s[m].ok ->
                    Put(m, [c EXCEPT !.ok = FALSE]) /\ UNCHANGED <<brk, bound>>
             [] s[m].inTxn /\ s[m].added /\ s[m].id = "failed" /\ ~s[m].ok ->
                    /\ Put(m, [c EXCEPT !.id = "reload", !.err = "nil", !.ph = "ended"])
                    /\ UNCHANGED <<brk, bound>>
             [] s[m].inTxn /\ s[m].added /\ s[m].id # "failed" ->
                    EndTxn(m, c)
        /\ UNCHANGED grp

\* Mutant of EndedAt: the error of EndTransaction is ignored.
EndedRegardless(m) ==
    /\ s[m].ph = "ended"
    /\ Put(m, [s[m] EXCEPT !.post = IF s[m].ok THEN @ ELSE s[m].u.committed, !.ph = "set"])
    /\ UNCHANGED <<grp, brk, bound>>

\* What to continue from: the new commit, or CommittedOffsets as they are now.
EndedAt(m) ==
    /\ s[m].ph = "ended"
    /\ Put(m, [s[m] EXCEPT
          !.ok = @ /\ s[m].err = "nil",
          !.post = IF s[m].ok /\ s[m].err = "nil" THEN @ ELSE s[m].u.committed,
          !.ph = "set"])
    /\ UNCHANGED <<grp, brk, bound>>

\* setOffsets moves a partition that is consumed, unless it is there already.
SetOffsets(m) ==
    LET o == s[m].post
        moved == s[m].next # None /\ (s[m].u = Nil \/ s[m].u.dirty # o)
    IN  /\ s[m].ph = "set"
        /\ Put(m, [s[m] EXCEPT
              !.u = IF o = None THEN @ ELSE At(o),
              !.next = IF o # None /\ moved THEN o ELSE @,
              !.mu = FALSE, !.ph = "reset"])
        /\ UNCHANGED <<grp, brk, bound>>

\* The flags are reset and End returns whether it committed.
ResetFailed(m) ==
    /\ s[m].ph = "reset" /\ ~s[m].mu
    /\ Put(m, [s[m] EXCEPT !.revoked = FALSE, !.lost = FALSE, !.ph = "idle",
                           !.post = None, !.req = 0, !.err = "nil", !.want = FALSE,
                           !.doubt = FALSE])
    /\ UNCHANGED <<grp, brk, bound>>
-----------------------------------------------------------------------------
(* The group. *)

\* External: the group is to rebalance.
Rebalance ==
    /\ ~grp.moving
    /\ Spend("rebalances")
    /\ grp' = [grp EXCEPT !.moving = TRUE]
    /\ UNCHANGED <<s, brk>>

\* External: a member is too slow.
Expel(m) ==
    /\ m \in grp.live
    /\ bound.joining => s[m].ses \in {"keep", "join", "joining"}
    /\ Spend("expels")
    /\ grp' = [grp EXCEPT !.live = @ \ {m}, !.moving = TRUE]
    /\ UNCHANGED <<s, brk>>

(***************************************************************************)
(* A heartbeat returns an error, which cancels fetchOffsets.  An eager     *)
(* member stops fetching, a cooperative one does not.                      *)
(***************************************************************************)
Heartbeat(m) ==
    /\ s[m].ses \in {"fetch", "on"}
    /\ m \notin grp.live \/ grp.moving
    /\ Put(m, IF m \notin grp.live THEN [s[m] EXCEPT !.ses = "lose"]
              ELSE IF bound.cooperative THEN [s[m] EXCEPT !.ses = "keep"]
              ELSE [s[m] EXCEPT !.ses = "revoke", !.next = None])
    /\ UNCHANGED <<grp, brk, bound>>

\* After onRevoked a member joins, unless a heartbeat meanwhile told it that it was dropped.
Rejoining(m) == IF m \in grp.live THEN {"join"} ELSE {"join", "lose"}

\* The session's onRevoked: a cooperative member with nothing to revoke may commit on.
OnRevokedNothing(m) ==
    /\ s[m].ses = "keep" /\ ~s[m].mu
    /\ \E to \in Rejoining(m) : Put(m, [s[m] EXCEPT !.ses = to])
    /\ UNCHANGED <<grp, brk, bound>>

\* Otherwise it may not ...
OnRevoked(m) ==
    /\ s[m].ses = "revoke" /\ ~s[m].mu
    /\ Put(m, [s[m] EXCEPT !.revoked = TRUE, !.ses = "revoked"])
    /\ UNCHANGED <<grp, brk, bound>>

\* ... after which the uncommitted offsets are dropped.
Revoked(m) ==
    /\ s[m].ses = "revoked"
    /\ \E to \in Rejoining(m) : Put(m, [s[m] EXCEPT !.u = Nil, !.ses = to])
    /\ UNCHANGED <<grp, brk, bound>>

\* manageFailWait: the session's onLost ...
OnLost(m) ==
    /\ s[m].ses = "lose" /\ ~s[m].mu
    /\ Put(m, [s[m] EXCEPT !.lost = TRUE, !.ses = "lost"])
    /\ UNCHANGED <<grp, brk, bound>>

\* ... after which fetching stops and the uncommitted offsets are dropped.
Lost(m) ==
    /\ s[m].ses = "lost"
    /\ Put(m, [s[m] EXCEPT !.u = Nil, !.next = None, !.ses = "join"])
    /\ UNCHANGED <<grp, brk, bound>>

\* Mutant of Join: the read lock is held until the forced heartbeat has returned.
JoinAfterBeat(m) ==
    /\ s[m].ses = "join" \/ (s[m].ses = "joining" /\ m \notin grp.live)
    /\ s[m].ph \notin {"commit", "beat"}
    /\ Put(m, [s[m] EXCEPT !.ses = "joining",
                           !.stray = @ \/ (m \notin grp.live /\ s[m].next # None)])
    /\ grp' = [grp EXCEPT !.live = @ \cup {m}, !.moving = TRUE]
    /\ UNCHANGED <<brk, bound>>

(***************************************************************************)
(* joinAndSync waits for offset commits; joining starts a rebalance.  A    *)
(* member whose ID is no longer known joins again without one and without  *)
(* onLost (handleJoinResp); stray (history): it may still consume what it  *)
(* had.                                                                    *)
(***************************************************************************)
Join(m) ==
    /\ s[m].ses = "join" \/ (s[m].ses = "joining" /\ m \notin grp.live)
    /\ s[m].ph # "commit"
    /\ Put(m, [s[m] EXCEPT !.ses = "joining",
                           !.stray = @ \/ (m \notin grp.live /\ s[m].next # None)])
    /\ grp' = [grp EXCEPT !.live = @ \cup {m}, !.moving = TRUE]
    /\ UNCHANGED <<brk, bound>>

\* If it is the sync that finds the ID unknown, joinAndSync fails.
SyncFails(m) ==
    /\ s[m].ses = "joining" /\ m \notin grp.live
    /\ Put(m, [s[m] EXCEPT !.ses = "lose"])
    /\ UNCHANGED <<grp, brk, bound>>

(***************************************************************************)
(* All members have joined and synced; one gets the partition.  If another *)
(* still consumes it (cooperative), that one stops fetching and revokes    *)
(* first.                                                                  *)
(***************************************************************************)
Synced ==
    /\ grp.moving /\ grp.live # {} /\ \A m \in grp.live : s[m].ses = "joining"
    /\ grp' = [grp EXCEPT !.gen = @ + 1, !.moving = FALSE]
    /\ \E owner \in grp.live :
          LET holders == {m \in grp.live : s[m].next # None}
              Session(m) ==
                  IF m \in holders
                  THEN IF m = owner THEN [s[m] EXCEPT !.ses = "on"]
                       ELSE [s[m] EXCEPT !.ses = "revoke", !.next = None]
                  ELSE [s[m] EXCEPT !.ses = IF m = owner /\ holders = {} THEN "fetch" ELSE "on"]
          IN  s' = [m \in Sessions |->
                       IF m \in grp.live THEN [Session(m) EXCEPT !.gen = grp.gen + 1] ELSE s[m]]
    /\ UNCHANGED <<brk, bound>>

\* Mutant of FetchOffsets: an offset that is not stable is used.
FetchUnstable(m) ==
    /\ s[m].ses = "fetch"
    /\ Put(m, [s[m] EXCEPT !.ses = "on", !.next = brk.stored, !.u = At(brk.stored)])
    /\ UNCHANGED <<grp, brk, bound>>

(***************************************************************************)
(* fetchOffsets: with stable offsets, one that a transaction is about to   *)
(* change is waited for.  stray (history): End has read what this replaces *)
(* and is about to set it.                                                 *)
(***************************************************************************)
FetchOffsets(m) ==
    /\ s[m].ses = "fetch"
    /\ bound.stable => \A x \in Sessions : brk.pend[x] = None
    /\ Put(m, [s[m] EXCEPT !.ses = "on", !.next = brk.stored, !.u = At(brk.stored),
                           !.stray = @ \/ s[m].ph = "set"])
    /\ UNCHANGED <<grp, brk, bound>>
-----------------------------------------------------------------------------
End(m) ==
    \/ ReadFailed(m) \/ Prepare(m) \/ JoinSyncRLock(m) \/ TxnOffsetCommit(m)
    \/ ForcedHeartbeat(m) \/ Decide(m) \/ EndTransaction(m) \/ EndedAt(m)
    \/ SetOffsets(m) \/ ResetFailed(m)

Manage(m) ==
    \/ Heartbeat(m) \/ OnRevokedNothing(m) \/ OnRevoked(m) \/ Revoked(m) \/ OnLost(m) \/ Lost(m)
    \/ Join(m) \/ SyncFails(m) \/ FetchOffsets(m)

Event == Rebalance \/ \E m \in Sessions : Expel(m) \/ TxnTimeout(m)

Next ==
    \/ \E m \in Sessions : Poll(m) \/ Transact(m) \/ End(m) \/ Manage(m)
    \/ Synced \/ Event

Spec == Init /\ [][Next]_vars

\* What runs continues to run; the user need not poll or transact.
FairSpec ==
    /\ Spec /\ WF_vars(Synced)
    /\ \A m \in Sessions : WF_vars(End(m)) /\ WF_vars(Manage(m))

-----------------------------------------------------------------------------
Strayed == \E m \in Sessions : s[m].stray

(***************************************************************************)
(* Every input has exactly one committed output if it is before the        *)
(* committed offset, and none otherwise, however rebalances, expulsions,   *)
(* timeouts and failures interleave with End.  Excepted are the ways in    *)
(* which a session goes on with what it no longer holds (history: stray):  *)
(*   - a cooperative member that was dropped, and that its JoinGroup is    *)
(*     the first to tell, joins again without onLost and consumes on;      *)
(*   - End resets the lost flag before assignInvalidateAll, and the user   *)
(*     polls in between;                                                   *)
(*   - End, having read CommittedOffsets, sets them after the member has   *)
(*     lost the partition, got it again and fetched its committed offset.  *)
(***************************************************************************)
ExactlyOnce ==
    Strayed \/ \A o \in Offsets : brk.out[o] = IF o < brk.stored THEN 1 ELSE 0

(***************************************************************************)
(* "If a rebalance occurs at any time before ending a transaction with a   *)
(* commit, this will abort the transaction" (NewGroupTransactSession): the *)
(* same without the exceptions.                                            *)
(***************************************************************************)
AlwaysExactlyOnce ==
    \A o \in Offsets : brk.out[o] = IF o < brk.stored THEN 1 ELSE 0

\* A session that strayed may set the committed offset back.
BrokerCommitted(m) == brk.open[m] = {} /\ (brk.stored >= s[m].post \/ Strayed)

(***************************************************************************)
(* If End is about to return that it committed, the broker did, unless it  *)
(* answered EndTxn with UNKNOWN_SERVER_ERROR (history: doubt).             *)
(***************************************************************************)
CommitIsTrue ==
    \A m \in Sessions : s[m].ph = "reset" /\ s[m].ok /\ ~s[m].doubt => BrokerCommitted(m)

(***************************************************************************)
(* "there is no downside to retrying (even retrying a commit) and seeing   *)
(* if we are successful or if we get a better error" (End): if End returns *)
(* that it committed, the broker did.                                      *)
(***************************************************************************)
RetryIsTrue == \A m \in Sessions : s[m].ph = "reset" /\ s[m].ok => BrokerCommitted(m)

(***************************************************************************)
(* End returns: it does not wait for a heartbeat of a loop that waits for  *)
(* it to join, nor do it and the callbacks wait for each other.  (There    *)
(* are finitely many transactions, so that no session is in End again and  *)
(* again.)                                                                 *)
(***************************************************************************)
EndReturns == []<>(\A m \in Sessions : s[m].ph = "idle")
=============================================================================
