------------------------------ MODULE Consumer ------------------------------
(***************************************************************************)
(* The fetching half of a consumer: the sources' fetch loops (source.go),  *)
(* the consumer session they run in, the manager that limits concurrent    *)
(* fetches, the offset and epoch loads of a session, and the two parties   *)
(* that stop a session and start the next: an assignment, which holds      *)
(* consumer.mu, and a metadata update that migrates cursors, which does    *)
(* not (consumer.go, topics_and_partitions.go).                            *)
(*                                                                         *)
(* A source is a broker's fetch loop, a partition stands for its cursor.   *)
(* Records are the offsets 0 .. bound.end - 1 of a partition's log; the    *)
(* ones in bound.control are control records, which a fetch advances over  *)
(* and never returns.  Sessions are numbered; 0 is noConsumerSession.      *)
(* Once a session is stopped no worker of it is left, so the state inside  *)
(* a session (its workers, its loads, its fetch manager) is kept for the   *)
(* newest one only.                                                        *)
(***************************************************************************)
EXTENDS Integers, FiniteSets, Sequences, FiniteSetsExt, SequencesExt

CONSTANTS
    Sources,         \* brokers
    Partitions,      \* partitions the user may consume
    MaxOffset,       \* bound: the highest offset
    RecheckElapses,  \* whether recheckPreferredReplicaInterval can elapse
    SetTo,           \* bound: the offsets a user sets
    Scenarios        \* bounds: a behaviour keeps within one of them

ASSUME ConsumerAssumption ==
    /\ MaxOffset \in Nat \ {0}
    /\ RecheckElapses \in BOOLEAN
    /\ SetTo \subseteq 0 .. MaxOffset
    /\ Scenarios \subseteq [first : Sources,              \* leads every partition at first
                           sources : SUBSET Sources,     \* the brokers there are
                           parts : SUBSET Partitions,    \* consumed
                           end : 1 .. MaxOffset,         \* the end of every log
                           control : SUBSET (0 .. MaxOffset), \* control records in it
                           ops : SUBSET {"set", "drop"}, \* changes the user makes
                           sessions : Nat,               \* created
                           allowed : Nat,  \* cfg.maxConcurrentFetches, 0 is unbounded
                           faults : Nat,                 \* broker errors and moves
                           pausable : SUBSET Partitions] \* paused, once each

VARIABLES
    session,    \* consumer.session: the stored session, or 0
    sid,        \* the newest session created
    canceled,   \* whether the context of session sid is canceled
    workers,    \* consumerSession.workers of session sid
    lock,       \* who holds sessionChangeMu
    chg,        \* where each session changer is
    op,         \* what each session changer does once the session is stopped
    carried,    \* loads a changer took out of the old session
    load,       \* the offsetLoad of a partition that is being loaded
    waiting,    \* listOrEpochLoadsWaiting
    loading,    \* listOrEpochLoadsLoading
    jobs,       \* the running listOrEpoch goroutines
    on,         \* cursor.source
    leader,     \* topicPartitionData.leader
    usable,     \* cursor.useState
    offset,     \* cursor.offset
    epoch,      \* whether cursor.lastConsumedEpoch >= 0
    using,      \* consumer.usingCursors
    pc,         \* where each source's loopFetch is; "idle" is stateUnstarted
    again,      \* whether fetchState is stateContinueWorking
    at,         \* the session a loop loaded
    rechecks,   \* finished loops that have yet to load the session again
    used,       \* usedOffsets of a source's request, then of its buffered fetch
    next,       \* cursorOffsetNext.offset of a used partition
    buf,        \* bufferedFetch.fetch; <<>> while source.sem is closed
    ready,      \* sourcesReadyForDraining
    mgr,        \* manageFetchConcurrency: not started, running, quitting or gone
    want,       \* wantFetch
    active,     \* activeFetches
    granted,    \* sources whose canFetch holds a doneFetch
    dones,      \* sends pending in doneFetch
    cancels,    \* sources pending in cancelFetchCh
    paused,     \* consumer.paused
    pausedOnce, \* bound, history: partitions that were paused at some time
    assigned,   \* history: what the user consumes
    from,       \* history: where the user asked to consume from
    out,        \* history: offsets polled since
    raced,      \* history: whether a partition was set while it was being loaded
    dropped,    \* history: newest session of which a loop dropped a trigger
    faults,     \* bound: faults so far
    bound       \* the scenario

sessionVars == <<session, sid, canceled, lock>>
changeVars == <<chg, op, carried>>
loadVars == <<load, waiting, loading, jobs>>
placeVars == <<on, leader>>
cursorVars == <<usable, offset, epoch, using>>
loopVars == <<pc, again, at, rechecks, dropped>>
fetchVars == <<used, next, buf, ready>>
managerVars == <<mgr, want, active, granted, dones, cancels>>
pauseVars == <<paused, pausedOnce, bound>>
userVars == <<assigned, from, out, raced>>
vars == <<sessionVars, workers, changeVars, loadVars, placeVars, cursorVars,
          loopVars, fetchVars, managerVars, pauseVars, userVars, faults>>

Changers == {"assign", "meta"}
Nobody == "nobody"
Offsets == 0 .. MaxOffset
NoOp == [kind |-> "none"]
Unloaded == [kind |-> "none", at |-> 0]
Ops ==
    {NoOp}
        \cup [kind : {"set"}, p : Partitions, to : Offsets, ep : BOOLEAN]
        \cup [kind : {"drop"}, ps : SUBSET Partitions]
        \cup [kind : {"move"}, p : Partitions, to : Sources]
Jobs == [pc : {"new", "wait", "load", "backoff"},
         ps : SUBSET Partitions, re : SUBSET Partitions]

Init ==
    /\ bound \in Scenarios
    /\ session = 0 /\ sid = 0 /\ canceled = FALSE /\ workers = 0
    /\ lock = Nobody
    /\ chg = [c \in Changers |-> "idle"]
    /\ op = [c \in Changers |-> NoOp]
    /\ carried = [c \in Changers |-> {}]
    /\ load = [p \in Partitions |-> Unloaded]
    /\ waiting = {} /\ loading = {} /\ jobs = {}
    /\ leader = [p \in Partitions |-> bound.first] /\ on = leader
    /\ usable = {} /\ using = {}
    /\ offset = [p \in Partitions |-> -1]
    /\ epoch = [p \in Partitions |-> FALSE]
    /\ pc = [s \in Sources |-> "idle"]
    /\ again = [s \in Sources |-> FALSE]
    /\ at = [s \in Sources |-> 0]
    /\ rechecks = [s \in Sources |-> 0]
    /\ dropped = [s \in Sources |-> 0]
    /\ used = [s \in Sources |-> {}]
    /\ next = [p \in Partitions |-> 0]
    /\ buf = [s \in Sources |-> <<>>] /\ ready = <<>>
    /\ mgr = "none" /\ want = <<>> /\ active = 0
    /\ granted = {} /\ dones = 0 /\ cancels = {}
    /\ paused = {} /\ pausedOnce = {}
    /\ assigned = {} /\ raced = [p \in Partitions |-> "no"]
    /\ from = [p \in Partitions |-> 0]
    /\ out = [p \in Partitions |-> <<>>]
    /\ faults = 0

(***************************************************************************)
(* What the steps below share: triggering fetch loops, and the manager's   *)
(* grant after each of its events.                                         *)
(***************************************************************************)

\* source.maybeConsume on every source of S: the loops it begins, and the ones
\* that are running and promise to go around again.
begun(S) == [s \in Sources |-> IF s \in S /\ pc[s] = "idle" THEN "load" ELSE pc[s]]

noted(S) == [s \in Sources |-> again[s] \/ (s \in S /\ pc[s] # "idle")]

maybeConsume(S) == pc' = begun(S) /\ again' = noted(S)

\* hardFinish, and the deferred decWorker of a loop that had joined a session.
hardFinish(s) ==
    /\ pc' = [pc EXCEPT ![s] = "idle"]
    /\ again' = [again EXCEPT ![s] = FALSE]

\* The end of the manager's loop, with wantFetch w and activeFetches a: grant a
\* waiting source its fetch, or return if asked to quit and nothing is active.
grant(w, a, quit) ==
    IF w # <<>> /\ (a < bound.allowed \/ bound.allowed = 0)
    THEN /\ want' = Tail(w) /\ active' = a + 1
         /\ granted' = granted \cup {Head(w)}
         /\ mgr' = IF quit THEN "quitting" ELSE "run"
    ELSE /\ want' = w /\ active' = a /\ granted' = granted
         /\ mgr' = IF quit /\ a = 0 THEN "gone" ELSE IF quit THEN "quitting" ELSE "run"

quitting == mgr = "quitting"

(***************************************************************************)
(* The fetch manager (manageFetchConcurrency).  Registering a desire is    *)
(* unbuffered and therefore a step of the source, LoopDesires.             *)
(***************************************************************************)

\* Mutant of ManagerCancel: a grant that is not taken stays active.
ManagerCancelKeeps ==
    /\ mgr # "gone"
    /\ \E s \in cancels :
        /\ cancels' = cancels \ {s}
        /\ grant(SelectSeq(want, LAMBDA x : x # s), active, quitting)
    /\ UNCHANGED <<sessionVars, workers, changeVars, loadVars, placeVars, cursorVars,
                   loopVars, fetchVars, dones, pauseVars, userVars, faults>>

\* A source gave up waiting: it is still in wantFetch, or was granted its fetch.
ManagerCancel ==
    /\ mgr # "gone"
    /\ \E s \in cancels :
        /\ cancels' = cancels \ {s}
        /\ IF s \in Range(want)
           THEN grant(SelectSeq(want, LAMBDA x : x # s), active, quitting)
           ELSE grant(want, active - 1, quitting)
    /\ UNCHANGED <<sessionVars, workers, changeVars, loadVars, placeVars, cursorVars,
                   loopVars, fetchVars, dones, pauseVars, userVars, faults>>

ManagerDone ==
    /\ mgr # "gone" /\ dones > 0
    /\ dones' = dones - 1
    /\ grant(want, active - 1, quitting)
    /\ UNCHANGED <<sessionVars, workers, changeVars, loadVars, placeVars, cursorVars,
                   loopVars, fetchVars, cancels, pauseVars, userVars, faults>>

ManagerQuits ==
    /\ mgr = "run" /\ canceled
    /\ grant(want, active, TRUE)
    /\ UNCHANGED <<sessionVars, workers, changeVars, loadVars, placeVars, cursorVars,
                   loopVars, fetchVars, dones, cancels, pauseVars, userVars, faults>>

(***************************************************************************)
(* A source's loopFetch, up to the request.                                *)
(***************************************************************************)

LoopLoads(s) ==
    /\ pc[s] = "load"
    /\ at' = [at EXCEPT ![s] = session]
    /\ pc' = [pc EXCEPT ![s] = IF session = 0 THEN "none" ELSE "join"]
    /\ UNCHANGED <<sessionVars, workers, changeVars, loadVars, placeVars, cursorVars,
                   again, rechecks, dropped, fetchVars, managerVars, pauseVars,
                   userVars, faults>>

\* Mutant of LoopFindsNone: finish without looking again.
LoopFindsNoneOnce(s) ==
    /\ pc[s] = "none"
    /\ hardFinish(s)
    /\ UNCHANGED <<sessionVars, workers, changeVars, loadVars, placeVars, cursorVars, rechecks,
                   at, dropped, fetchVars, managerVars, pauseVars, userVars, faults>>

\* No session was stored: finish, and only then look again.
LoopFindsNone(s) ==
    /\ pc[s] = "none"
    /\ hardFinish(s)
    /\ rechecks' = [rechecks EXCEPT ![s] = @ + 1]
    /\ UNCHANGED <<sessionVars, workers, changeVars, loadVars, placeVars, cursorVars,
                   at, dropped, fetchVars, managerVars, pauseVars, userVars, faults>>

LoopRechecks(s) ==
    /\ rechecks[s] > 0
    /\ rechecks' = [rechecks EXCEPT ![s] = @ - 1]
    /\ IF session # 0 THEN maybeConsume({s}) ELSE UNCHANGED <<pc, again>>
    /\ UNCHANGED <<sessionVars, workers, changeVars, loadVars, placeVars, cursorVars,
                   at, dropped, fetchVars, managerVars, pauseVars, userVars, faults>>

\* incWorker and the first check of the context.  A loop that finds its session
\* canceled finishes at once; its inc and dec of a stopped session wait for nobody.
LoopJoins(s) ==
    /\ pc[s] = "join"
    /\ IF at[s] = sid /\ ~canceled
       THEN /\ pc' = [pc EXCEPT ![s] = "desire"]
            /\ workers' = workers + 1
            /\ UNCHANGED <<again, dropped>>
       ELSE /\ hardFinish(s)
            /\ dropped' = IF again[s] /\ session # 0
                          THEN [dropped EXCEPT ![s] = sid] ELSE dropped
            /\ UNCHANGED workers
    /\ at' = [at EXCEPT ![s] = 0]
    /\ UNCHANGED <<sessionVars, changeVars, loadVars, placeVars, cursorVars,
                   rechecks, fetchVars, managerVars, pauseVars, userVars, faults>>

\* The context is canceled while the loop waits for source.sem, or for the
\* manager to receive its desire.
LoopCanceled(s) ==
    /\ pc[s] = "desire" /\ canceled
    /\ hardFinish(s)
    /\ workers' = workers - 1
    /\ UNCHANGED <<sessionVars, changeVars, loadVars, placeVars, cursorVars, at,
                   rechecks, dropped, fetchVars, managerVars, pauseVars, userVars, faults>>

\* source.sem is closed while nothing is buffered; only this loop replaces it, so
\* passing it and sending to desireFetch are one step.
LoopDesires(s) ==
    /\ pc[s] = "desire" /\ buf[s] = <<>>
    /\ mgr # "gone"
    /\ pc' = [pc EXCEPT ![s] = "await"]
    /\ grant(Append(want, s), active, quitting)
    /\ UNCHANGED <<sessionVars, workers, changeVars, loadVars, placeVars, cursorVars,
                   again, at, rechecks, dropped, fetchVars, dones, cancels, pauseVars,
                   userVars, faults>>

LoopCancels(s) ==
    /\ pc[s] = "await" /\ canceled
    /\ cancels' = cancels \cup {s}
    /\ granted' = granted \ {s}
    /\ hardFinish(s)
    /\ workers' = workers - 1
    /\ UNCHANGED <<sessionVars, changeVars, loadVars, placeVars, cursorVars, at,
                   rechecks, dropped, fetchVars, mgr, want, active, dones, pauseVars,
                   userVars, faults>>

(***************************************************************************)
(* source.fetch: build a request, wait for it, apply the response.         *)
(***************************************************************************)

\* A loop whose fetch returned: around again if it fetched or was triggered.
maybeFinish(s, fetched, S) ==
    LET more == fetched \/ noted(S)[s]
    IN  /\ pc' = [begun(S) EXCEPT ![s] = IF more THEN "desire" ELSE "idle"]
        /\ again' = [noted(S) EXCEPT ![s] = FALSE]
        /\ workers' = IF more THEN workers ELSE workers - 1

\* createReq: the usable cursors on this source, unless paused.
createReq(s) == {p \in usable \ paused : on[p] = s}

LoopFetches(s) ==
    /\ pc[s] = "await" /\ s \in granted
    /\ granted' = granted \ {s}
    /\ LET req == createReq(s)
       IN  IF req = {}
           THEN /\ dones' = dones + 1
                /\ maybeFinish(s, FALSE, {})
                /\ UNCHANGED <<used, next, usable>>
           ELSE /\ used' = [used EXCEPT ![s] = req]
                /\ next' = [p \in Partitions |-> IF p \in req THEN offset[p] ELSE next[p]]
                /\ usable' = usable \ req
                /\ pc' = [pc EXCEPT ![s] = "fetch"]
                /\ UNCHANGED <<dones, again, workers>>
    /\ UNCHANGED <<sessionVars, changeVars, loadVars, placeVars, offset, epoch, using,
                   at, rechecks, dropped, buf, ready, mgr, want, active, cancels,
                   pauseVars, userVars, faults>>

\* A partition that is not used has no cursorOffsetNext.
Without(Q) == [p \in Partitions |-> IF p \in Q THEN 0 ELSE next[p]]

\* finishUsingAll of a request that is not buffered.
finishUsingAll(s) ==
    /\ usable' = usable \cup used[s]
    /\ used' = [used EXCEPT ![s] = {}]
    /\ next' = Without(used[s])

\* The context is canceled before the response is there.
FetchCanceled(s) ==
    /\ pc[s] = "fetch" /\ canceled
    /\ finishUsingAll(s)
    /\ dones' = dones + 1
    /\ maybeFinish(s, FALSE, {s})
    /\ UNCHANGED <<sessionVars, changeVars, loadVars, placeVars, offset, epoch, using,
                   at, rechecks, dropped, buf, ready, mgr, want, active, granted,
                   cancels, pauseVars, userVars, faults>>

\* A top level fetch session error: nothing of the response is kept.
FetchSessionError(s) ==
    /\ pc[s] = "fetch" /\ faults < bound.faults
    /\ faults' = faults + 1
    /\ finishUsingAll(s)
    /\ dones' = dones + 1
    /\ maybeFinish(s, TRUE, {s})
    /\ UNCHANGED <<sessionVars, changeVars, loadVars, placeVars, offset, epoch, using,
                   at, rechecks, dropped, buf, ready, mgr, want, active, granted,
                   cancels, pauseVars, userVars>>

\* The request failed: allow other fetches, then back off.
FetchFails(s) ==
    /\ pc[s] = "fetch"
    /\ faults < bound.faults \/ canceled
    /\ faults' = IF canceled THEN faults ELSE faults + 1
    /\ dones' = dones + 1
    /\ pc' = [pc EXCEPT ![s] = "backoff"]
    /\ UNCHANGED <<sessionVars, workers, changeVars, loadVars, placeVars, cursorVars,
                   again, at, rechecks, dropped, fetchVars, mgr, want, active, granted,
                   cancels, pauseVars, userVars>>

BackoffEnds(s) ==
    /\ pc[s] = "backoff"
    /\ finishUsingAll(s)
    /\ maybeFinish(s, TRUE, {s})
    /\ UNCHANGED <<sessionVars, changeVars, loadVars, placeVars, offset, epoch, using,
                   at, rechecks, dropped, buf, ready, managerVars, pauseVars,
                   userVars, faults>>

\* What a response says of a partition fetched at offset o: n offsets from o
\* on; a preferred replica; or an error: stripped and retried, kept for the
\* user, out of range (above the log, or below its start), a fenced epoch.
Answers(o) ==
    [kind : {"ok"}, n : 0 .. bound.end - o]
        \cup [kind : {"preferred", "strip", "keep", "above", "below", "fenced"}, n : {0}]

Faulty(r) == {p \in DOMAIN r : r[p].kind # "ok"}

\* Response r in handleReqResp: the partitions that move to another source,
\* those that are reloaded and how, and the fetch.  A source that is not the
\* leader moves its partition back once the recheck interval has elapsed.
Preferred(s, r, p) ==
    IF r[p].kind # "preferred" THEN leader[p]
    ELSE IF bound.sources = {s} THEN s ELSE CHOOSE t \in bound.sources : t # s

Moves(s, r, recheck) ==
    {p \in DOMAIN r : \/ r[p].kind = "preferred"
                      \/ r[p].kind = "below" /\ leader[p] # s
                      \/ r[p].kind # "preferred" /\ p \in recheck}

Reloads(s, r) ==
    {p \in DOMAIN r : \/ r[p].kind = "above"
                      \/ r[p].kind = "below" /\ leader[p] = s
                      \/ r[p].kind = "fenced" /\ epoch[p]}

Reload(s, r, p) ==
    IF r[p].kind # "fenced" /\ leader[p] = s THEN [kind |-> "list", at |-> 0]
                                             ELSE [kind |-> "epoch", at |-> next[p]]

Fetched(r) ==
    SetToSeq({[p |-> p, lo |-> next[p], hi |-> next[p] + r[p].n, err |-> r[p].kind = "keep"] :
                p \in {x \in DOMAIN r : r[x].kind \in {"ok", "keep"}}})

Records(e) == (e.lo .. e.hi - 1) \ bound.control

hasErrorsOrRecords(f) == \E i \in DOMAIN f : f[i].err \/ Records(f[i]) # {}

\* Cursor fields once the partitions of Q are set to their next offset, after
\* fetch f: lastConsumedEpoch changes only with a record.
SetOffset(Q, nxt) == [p \in Partitions |-> IF p \in Q THEN nxt[p] ELSE offset[p]]

SetEpoch(Q, f) ==
    [p \in Partitions |-> \/ epoch[p]
                          \/ p \in Q /\ \E i \in DOMAIN f : f[i].p = p /\ Records(f[i]) # {}]

FetchResponds(s) ==
    /\ pc[s] = "fetch"
    /\ \E r \in [used[s] -> UNION {Answers(next[p]) : p \in used[s]}] :
       \E recheck \in SUBSET {p \in used[s] : RecheckElapses /\ leader[p] # s} :
        LET moves == Moves(s, r, recheck)
            loads == Reloads(s, r)
            rest == used[s] \ (moves \cup loads)
            f == Fetched(r)
            after == [p \in used[s] |-> next[p] + r[p].n]
            kept == hasErrorsOrRecords(f)
            stripped == \A p \in used[s] : r[p].kind = "strip"
            held == kept \/ stripped
            to == [p \in moves |-> Preferred(s, r, p)]
            woken == Range(to) \cup (IF held THEN {} ELSE {s})
        IN  /\ \A p \in used[s] : r[p] \in Answers(next[p])
            /\ faults + Cardinality(Faulty(r)) <= bound.faults
            /\ faults' = faults + Cardinality(Faulty(r))
            /\ next' = [p \in Partitions |-> IF p \notin used[s] THEN next[p]
                                           ELSE IF held /\ p \in rest THEN after[p] ELSE 0]
            /\ on' = [p \in Partitions |-> IF p \in moves THEN to[p] ELSE on[p]]
            /\ load' = [p \in Partitions |-> IF p \in loads THEN Reload(s, r, p) ELSE load[p]]
            /\ jobs' = IF loads = {} THEN jobs
                       ELSE jobs \cup {[pc |-> "new", ps |-> loads, re |-> {}]}
            /\ workers' = IF loads = {} THEN workers ELSE workers + 1
            /\ pc' = [begun(woken) EXCEPT ![s] = IF stripped THEN "backoff" ELSE "desire"]
            /\ again' = [noted(woken) EXCEPT ![s] = stripped /\ @]
            /\ dones' = IF kept THEN dones ELSE dones + 1
            /\ buf' = [buf EXCEPT ![s] = IF kept THEN f ELSE <<>>]
            /\ ready' = IF kept THEN Append(ready, s) ELSE ready
            /\ used' = [used EXCEPT ![s] = IF held THEN rest ELSE {}]
            /\ usable' = usable \cup moves \cup (IF held THEN {} ELSE rest)
            /\ offset' = IF held THEN offset ELSE SetOffset(rest, after)
    /\ UNCHANGED <<sessionVars, changeVars, waiting, loading, leader, epoch, using, at,
                   rechecks, dropped, mgr, want, active, granted, cancels, pauseVars, userVars>>

(***************************************************************************)
(* The user: polling, which holds consumer.mu, pausing and resuming.       *)
(***************************************************************************)

\* Mutant of setting: paused partitions are advanced as well.
settingPaused(done, view) == done

\* The used partitions whose offsets a poll sets; it returns the paused ones to
\* their cursors as they were, and strips them from the fetch.
setting(done, view) == done \ view

\* Poll loads the paused partitions before it locks consumer.mu, so view may be
\* any earlier value of them.
PollFetches ==
    /\ chg["assign"] = "idle" /\ ready # <<>>
    /\ \E view \in SUBSET pausedOnce :
        LET f == FlattenSeq([i \in DOMAIN ready |-> buf[ready[i]]])
            done == UNION {used[s] : s \in Range(ready)}
        IN  /\ usable' = usable \cup done
            /\ next' = Without(done)
            /\ offset' = SetOffset(setting(done, view), next)
            /\ epoch' = SetEpoch(setting(done, view), f)
            /\ out' = [p \in Partitions |->
                 out[p] \o IF p \in done \cap view THEN <<>>
                           ELSE FlattenSeq([i \in DOMAIN f |->
                                  IF f[i].p = p THEN SetToSortSeq(Records(f[i]), <) ELSE <<>>])]
            /\ maybeConsume({on[p] : p \in done})
    /\ used' = [s \in Sources |-> IF s \in Range(ready) THEN {} ELSE used[s]]
    /\ buf' = [s \in Sources |-> <<>>]
    /\ ready' = <<>>
    /\ dones' = dones + Len(ready)
    /\ UNCHANGED <<sessionVars, workers, changeVars, loadVars, placeVars, using, at,
                   rechecks, dropped, mgr, want, active, granted, cancels,
                   pauseVars, assigned, from, raced, faults>>

\* PollRecords(ctx, 1): the first record that is not paused, in the order of
\* sourcesReadyForDraining.  Sources before it are drained; its own source keeps
\* what follows it, and if nothing does it is drained as well.
PollRecords ==
    /\ chg["assign"] = "idle" /\ ready # <<>>
    /\ \E view \in SUBSET pausedOnce :
        LET takable(e) == e.p \notin view /\ Records(e) # {}
            k == SelectInSeq(ready, LAMBDA t : \E i \in DOMAIN buf[t] : takable(buf[t][i]))
            s == ready[k]
            i == SelectInSeq(buf[s], takable)
            e == buf[s][i]
            o == Min(Records(e))
            more == Records(e) # {o}
            rest == (IF more THEN <<[e EXCEPT !.lo = o + 1]>> ELSE <<>>)
                        \o SubSeq(buf[s], i + 1, Len(buf[s]))
            drained == {ready[j] : j \in 1 .. IF rest = <<>> THEN k ELSE k - 1}
            passed == {buf[s][j].p : j \in 1 .. IF more THEN i - 1 ELSE i}
            done == UNION {used[t] : t \in drained} \cup (used[s] \cap passed)
        IN  /\ k # 0 /\ e.p \in used[s]
            /\ usable' = usable \cup done
            /\ next' = Without(done)
            /\ offset' = [SetOffset(setting(done, view), next) EXCEPT ![e.p] = IF more THEN o + 1 ELSE @]
            /\ epoch' = [epoch EXCEPT ![e.p] = TRUE]
            /\ out' = [out EXCEPT ![e.p] = Append(@, o)]
            /\ used' = [t \in Sources |-> used[t] \ done]
            /\ buf' = [t \in Sources |-> IF t \in drained THEN <<>> ELSE IF t = s THEN rest ELSE buf[t]]
            /\ ready' = SelectSeq(ready, LAMBDA t : t \notin drained)
            /\ dones' = dones + Cardinality(drained)
            /\ maybeConsume({on[p] : p \in done})
    /\ UNCHANGED <<sessionVars, workers, changeVars, loadVars, placeVars, using, at,
                   rechecks, dropped, mgr, want, active, granted, cancels,
                   pauseVars, assigned, from, raced, faults>>

PauseFetchPartitions(p) ==
    /\ p \in bound.pausable \ pausedOnce
    /\ paused' = paused \cup {p} /\ pausedOnce' = pausedOnce \cup {p}
    /\ UNCHANGED <<sessionVars, workers, changeVars, loadVars, placeVars, cursorVars,
                   loopVars, fetchVars, managerVars, userVars, faults, bound>>

ResumeFetchPartitions(p) ==
    /\ p \in paused
    /\ paused' = paused \ {p}
    /\ maybeConsume(bound.sources)
    /\ UNCHANGED <<sessionVars, workers, changeVars, loadVars, placeVars, cursorVars,
                   at, rechecks, dropped, fetchVars, managerVars, pausedOnce,
                   userVars, faults, bound>>

(***************************************************************************)
(* Offset and epoch loads (listOrEpoch).                                   *)
(***************************************************************************)

\* Mutant of LoadWaits: a goroutine that leaves its loads to another stays a worker.
LoadWaitsHolds ==
    /\ \E j \in jobs :
        /\ j.pc = "new"
        /\ waiting' = waiting \cup j.ps
        /\ jobs' = IF waiting # {} THEN jobs \ {j}
                   ELSE (jobs \ {j}) \cup {[j EXCEPT !.pc = "wait", !.ps = {}]}
    /\ UNCHANGED <<sessionVars, workers, changeVars, load, loading, placeVars, cursorVars,
                   loopVars, fetchVars, managerVars, pauseVars, userVars, faults>>

\* A new goroutine adds its loads to the ones that wait for metadata; the first
\* one there waits for all.
LoadWaits ==
    /\ \E j \in jobs :
        /\ j.pc = "new"
        /\ waiting' = waiting \cup j.ps
        /\ IF waiting # {}
           THEN jobs' = jobs \ {j} /\ workers' = workers - 1
           ELSE /\ jobs' = (jobs \ {j}) \cup {[j EXCEPT !.pc = "wait", !.ps = {}]}
                /\ UNCHANGED workers
    /\ UNCHANGED <<sessionVars, changeVars, load, loading, placeVars, cursorVars, loopVars,
                   fetchVars, managerVars, pauseVars, userVars, faults>>

LoadCanceledWaiting ==
    /\ canceled
    /\ \E j \in jobs : j.pc = "wait" /\ jobs' = jobs \ {j}
    /\ workers' = workers - 1
    /\ UNCHANGED <<sessionVars, changeVars, load, waiting, loading, placeVars, cursorVars,
                   loopVars, fetchVars, managerVars, pauseVars, userVars, faults>>

\* Metadata was updated (or is fresh): issue the requests.
LoadStarts ==
    /\ \E j \in jobs :
        /\ j.pc = "wait"
        /\ jobs' = (jobs \ {j}) \cup {[j EXCEPT !.pc = "load", !.ps = waiting]}
    /\ loading' = loading \cup waiting
    /\ waiting' = {}
    /\ UNCHANGED <<sessionVars, workers, changeVars, load, placeVars, cursorVars, loopVars,
                   fetchVars, managerVars, pauseVars, userVars, faults>>

\* Mutant of loadReturns: failed loads are dropped.
loadReturnsForgets(j, re) == jobs' = jobs \ {j} /\ workers' = workers - 1

\* A listOrEpoch goroutine that returns with these loads to retry.
loadReturns(j, re) ==
    /\ jobs' = (jobs \ {j}) \cup
         IF re = {} THEN {} ELSE {[pc |-> "backoff", ps |-> {}, re |-> re]}
    /\ workers' = IF re = {} THEN workers - 1 ELSE workers

\* What a load finds: the offset that was listed (the start or the end of the log,
\* or the first one after a time); or the offset whose epoch it validates, or less
\* if the log was truncated.
Loaded(l) == IF l.kind = "list" THEN 0 .. bound.end
             ELSE {o \in Offsets : o = l.at \/ (o < l.at /\ faults < bound.faults)}

\* handleListOrEpochResults for one partition of a job that is loading.
LoadUsed ==
    /\ \E j \in jobs : \E p \in j.ps : \E o \in Loaded(load[p]) :
        /\ j.pc = "load"
        /\ loading' = loading \ {p}
        /\ load' = [load EXCEPT ![p] = Unloaded]
        /\ offset' = [offset EXCEPT ![p] = o]
        /\ epoch' = [epoch EXCEPT ![p] = TRUE]
        /\ usable' = usable \cup {p}
        /\ using' = using \cup {p}
        /\ maybeConsume({on[p]})
        /\ IF j.ps = {p} THEN loadReturns(j, j.re)
           ELSE /\ jobs' = (jobs \ {j}) \cup {[j EXCEPT !.ps = @ \ {p}]}
                /\ UNCHANGED workers
        /\ IF load[p].kind = "epoch" /\ o = load[p].at THEN UNCHANGED <<from, out, faults>>
           ELSE /\ from' = [from EXCEPT ![p] = o]
                /\ out' = [out EXCEPT ![p] = <<>>]
                /\ faults' = IF load[p].kind = "epoch" THEN faults + 1 ELSE faults
    /\ UNCHANGED <<sessionVars, changeVars, waiting, placeVars, at, rechecks, dropped,
                   fetchVars, managerVars, pauseVars, assigned, raced>>

\* A broker's error, or the canceled context's.
LoadFails ==
    /\ faults < bound.faults \/ canceled
    /\ faults' = IF canceled THEN faults ELSE faults + 1
    /\ \E j \in jobs : \E p \in j.ps :
        /\ j.pc = "load"
        /\ loading' = loading \ {p}
        /\ IF j.ps = {p} THEN loadReturns(j, j.re \cup {p})
           ELSE /\ jobs' = (jobs \ {j}) \cup {[j EXCEPT !.ps = @ \ {p}, !.re = @ \cup {p}]}
                /\ UNCHANGED workers
    /\ UNCHANGED <<sessionVars, changeVars, load, waiting, placeVars, cursorVars, loopVars,
                   fetchVars, managerVars, pauseVars, userVars>>

LoadCanceledLoading ==
    /\ canceled
    /\ \E j \in jobs : j.pc = "load" /\ loadReturns(j, j.re)
    /\ UNCHANGED <<sessionVars, changeVars, load, waiting, loading, placeVars, cursorVars,
                   loopVars, fetchVars, managerVars, pauseVars, userVars, faults>>

\* The retry's second is over, or the session is canceled: loadWithSession.
LoadRetries ==
    /\ \E j \in jobs :
        /\ j.pc = "backoff"
        /\ jobs' = (jobs \ {j}) \cup {[pc |-> "new", ps |-> j.re, re |-> {}]}
    /\ UNCHANGED <<sessionVars, workers, changeVars, load, waiting, loading, placeVars,
                   cursorVars, loopVars, fetchVars, managerVars, pauseVars, userVars, faults>>

(***************************************************************************)
(* Changing what is consumed.                                              *)
(***************************************************************************)

\* newConsumerSession, with w workers; its fetch manager is not started yet.
newConsumerSession(w) ==
    /\ sid' = sid + 1 /\ session' = sid + 1
    /\ canceled' = FALSE
    /\ workers' = w
    /\ mgr' = "none" /\ want' = <<>> /\ active' = 0
    /\ granted' = {} /\ dones' = 0 /\ cancels' = {}

\* assignWithoutInvalidating a new partition: consume from an exact offset at
\* once, or load the start offset first.  The session is guarded meanwhile, and
\* the one worker of the guard outlives the start of the load.
AssignNew(p) ==
    /\ chg["assign"] = "idle" /\ lock = Nobody
    /\ p \in bound.parts \ assigned
    /\ assigned' = assigned \cup {p}
    /\ \E l \in {[kind |-> "exact", at |-> 0], [kind |-> "list", at |-> 0],
                 [kind |-> "epoch", at |-> 1]} :
        LET exact == l.kind = "exact"
            added == IF exact THEN 0 ELSE 1
        IN  /\ IF session = 0
               THEN /\ sid < bound.sessions
                    /\ newConsumerSession(added)
               ELSE /\ workers' = workers + added
                    /\ UNCHANGED <<session, sid, canceled, managerVars>>
            /\ from' = [from EXCEPT ![p] = l.at]
            /\ IF exact
               THEN /\ offset' = [offset EXCEPT ![p] = l.at]
                    /\ epoch' = [epoch EXCEPT ![p] = FALSE]
                    /\ usable' = usable \cup {p}
                    /\ using' = using \cup {p}
                    /\ maybeConsume({on[p]})
                    /\ UNCHANGED <<load, jobs>>
               ELSE /\ load' = [load EXCEPT ![p] = l]
                    /\ jobs' = jobs \cup {[pc |-> "new", ps |-> {p}, re |-> {}]}
                    /\ UNCHANGED <<cursorVars, pc, again>>
    /\ UNCHANGED <<lock, changeVars, waiting, loading, placeVars, at, rechecks, dropped,
                   fetchVars, pauseVars, out, raced, faults>>

\* stopSession: lock, cancel the session's context; with no session there is
\* nothing to wait for.
StopSession(c, o) ==
    /\ chg[c] = "idle" /\ lock = Nobody
    /\ sid < bound.sessions
    /\ lock' = c
    /\ op' = [op EXCEPT ![c] = o]
    /\ canceled' = (canceled \/ session # 0)
    /\ chg' = [chg EXCEPT ![c] = IF session = 0 THEN "drain" ELSE "cancel"]
    /\ UNCHANGED <<session, sid, workers, carried, loadVars, placeVars, cursorVars, loopVars,
                   fetchVars, managerVars, pauseVars, userVars>>

SetOffsets ==
    /\ "set" \in bound.ops
    /\ \E p \in using, o \in SetTo, e \in BOOLEAN :
        StopSession("assign", [kind |-> "set", p |-> p, to |-> o, ep |-> e])
    /\ UNCHANGED faults

\* assignInvalidateMatching, and assignInvalidateAll.
Invalidate ==
    /\ "drop" \in bound.ops
    /\ \E ps \in {{p} : p \in assigned} \cup {bound.parts} :
        StopSession("assign", [kind |-> "drop", ps |-> ps])
    /\ UNCHANGED faults

\* A metadata update finds a new leader and migrates the cursor.
LeaderMoves ==
    /\ faults < bound.faults /\ faults' = faults + 1
    /\ session # 0
    /\ \E p \in bound.parts, s \in bound.sources :
        /\ leader[p] # s
        /\ StopSession("meta", [kind |-> "move", p |-> p, to |-> s])

StopStores(c) ==
    /\ chg[c] = "cancel"
    /\ session' = 0
    /\ chg' = [chg EXCEPT ![c] = "drain"]
    /\ UNCHANGED <<sid, canceled, lock, workers, op, carried, loadVars, placeVars, cursorVars,
                   loopVars, fetchVars, managerVars, pauseVars, userVars, faults>>

\* Every buffered fetch is discarded.
discardBuffered ==
    /\ used' = [s \in Sources |-> {}]
    /\ next' = [p \in Partitions |-> 0]
    /\ buf' = [s \in Sources |-> <<>>]
    /\ ready' = <<>>
    /\ dones' = dones + Len(ready)

\* The loads that an assignment carries into the next session.
keepFilter(o, loads) == IF o.kind = "drop" THEN loads \ o.ps ELSE loads

\* Once no worker is left: discard the buffered fetches, take the loads, and make
\* the change.
StopDrains(c) ==
    /\ chg[c] = "drain" /\ workers = 0
    /\ LET o == op[c]
           freed == UNION {used[s] : s \in Sources}
           free == usable \cup freed
           loads == waiting \cup loading
           woken == {on[p] : p \in freed}
           check == o.kind = "move" /\ epoch[o.p]
       IN  /\ carried' = [carried EXCEPT ![c] =
                keepFilter(o, loads) \cup IF check THEN {o.p} ELSE {}]
           /\ usable' = CASE o.kind = "set" -> free
                          [] o.kind = "drop" -> free \ o.ps
                          [] o.kind = "move" -> IF check THEN free \ {o.p} ELSE free
           /\ offset' = [p \in Partitions |->
                CASE o.kind = "set" /\ p = o.p -> o.to
                  [] o.kind = "drop" /\ p \in using \cap o.ps -> -1
                  [] OTHER -> offset[p]]
           /\ epoch' = [p \in Partitions |->
                CASE o.kind = "set" /\ p = o.p -> o.ep
                  [] o.kind = "drop" /\ p \in using \cap o.ps -> FALSE
                  [] OTHER -> epoch[p]]
           /\ using' = IF o.kind = "drop" THEN using \ o.ps ELSE using
           /\ load' = [p \in Partitions |->
                CASE check /\ p = o.p -> [kind |-> "epoch", at |-> offset[p]]
                  [] o.kind = "drop" /\ p \in o.ps -> Unloaded
                  [] OTHER -> load[p]]
           /\ IF o.kind = "move"
              THEN /\ on' = [on EXCEPT ![o.p] = o.to]
                   /\ leader' = [leader EXCEPT ![o.p] = o.to]
                   /\ maybeConsume(woken \cup {o.to})
              ELSE maybeConsume(woken) /\ UNCHANGED placeVars
           /\ assigned' = IF o.kind = "drop" THEN assigned \ o.ps ELSE assigned
           /\ from' = [p \in Partitions |->
                CASE o.kind = "set" /\ p = o.p -> o.to
                  [] o.kind = "drop" /\ p \in o.ps -> 0
                  [] OTHER -> from[p]]
           /\ out' = [p \in Partitions |->
                IF \/ o.kind = "set" /\ p = o.p
                   \/ o.kind = "drop" /\ p \in o.ps
                THEN <<>> ELSE out[p]]
           /\ raced' = [p \in Partitions |->
                CASE o.kind = "set" /\ p \in loads \cap {o.p} ->
                       IF out[p] = <<>> THEN "unpolled" ELSE "polled"
                  [] o.kind = "drop" /\ p \in o.ps -> "no"
                  [] OTHER -> raced[p]]
    /\ waiting' = {} /\ loading' = {}
    /\ discardBuffered
    /\ chg' = [chg EXCEPT ![c] = "start"]
    /\ UNCHANGED <<sessionVars, workers, op, jobs, at, rechecks, dropped, mgr, want,
                   active, granted, cancels, pauseVars, faults>>

\* startNewSession: store the session, holding one worker of it, and unlock.
StartNewSession(c) ==
    /\ chg[c] = "start"
    /\ newConsumerSession(1)
    /\ lock' = Nobody
    /\ chg' = [chg EXCEPT ![c] = "trigger"]
    /\ UNCHANGED <<op, carried, loadVars, placeVars, cursorVars, loopVars, fetchVars,
                   pauseVars, userVars, faults>>

\* Trigger every source; load what was being loaded (loadWithSession); decWorker.
TriggerAll(c) ==
    /\ chg[c] = "trigger"
    /\ maybeConsume(bound.sources)
    /\ jobs' = IF carried[c] = {} THEN jobs
               ELSE jobs \cup {[pc |-> "new", ps |-> carried[c], re |-> {}]}
    /\ workers' = IF carried[c] = {} THEN workers - 1 ELSE workers
    /\ carried' = [carried EXCEPT ![c] = {}]
    /\ op' = [op EXCEPT ![c] = NoOp]
    /\ chg' = [chg EXCEPT ![c] = "idle"]
    /\ UNCHANGED <<sessionVars, load, waiting, loading, placeVars, cursorVars, at, rechecks,
                   dropped, fetchVars, managerVars, pauseVars, userVars, faults>>

LoopStep(s) ==
    \/ LoopLoads(s) \/ LoopFindsNone(s) \/ LoopRechecks(s) \/ LoopJoins(s)
    \/ LoopCanceled(s) \/ LoopDesires(s) \/ LoopCancels(s)
    \/ LoopFetches(s) \/ FetchCanceled(s) \/ FetchFails(s) \/ BackoffEnds(s)
    \/ FetchSessionError(s) \/ FetchResponds(s)

ManagerStep == ManagerCancel \/ ManagerDone \/ ManagerQuits

LoadStep ==
    \/ LoadWaits \/ LoadStarts \/ LoadUsed \/ LoadFails \/ LoadRetries
    \/ LoadCanceledWaiting \/ LoadCanceledLoading

ChangeStep(c) == StopStores(c) \/ StopDrains(c) \/ StartNewSession(c) \/ TriggerAll(c)

UserStep ==
    \/ PollFetches \/ PollRecords
    \/ \E p \in Partitions :
         AssignNew(p) \/ PauseFetchPartitions(p) \/ ResumeFetchPartitions(p)
    \/ SetOffsets \/ Invalidate

Next ==
    \/ \E s \in Sources : LoopStep(s)
    \/ ManagerStep \/ LoadStep
    \/ \E c \in Changers : ChangeStep(c)
    \/ UserStep \/ LeaderMoves

Spec == Init /\ [][Next]_vars

(***************************************************************************)
(* The Go scheduler runs every goroutine, so a loop, a load or the manager *)
(* that can go on does; so does a changer.  A select with two ready cases  *)
(* takes either with equal chance, so a worker that meets a canceled       *)
(* context again and again leaves (strong fairness of the two waits that   *)
(* compete with another ready case).  The user and the brokers owe         *)
(* nothing: no poll, pause, assignment or leader change is assumed.        *)
(***************************************************************************)
FairSpec ==
    /\ Spec
    /\ WF_vars(ManagerStep \/ LoadStep \/ \E s \in Sources : LoopStep(s))
    /\ \A s \in Sources : SF_vars(LoopCanceled(s))
    /\ SF_vars(LoadCanceledLoading)
    /\ \A c \in Changers : WF_vars(ChangeStep(c))

(***************************************************************************)
(* Properties.                                                             *)
(***************************************************************************)

\* Every variable has its type; the sources ready for draining are exactly the ones
\* with a buffered fetch, and only consumed partitions are in usingCursors.
TypeOK ==
    /\ session \in {0, sid} /\ sid \in 0 .. bound.sessions /\ canceled \in BOOLEAN
    /\ workers \in Nat /\ lock \in Changers \cup {Nobody}
    /\ chg \in [Changers -> {"idle", "cancel", "drain", "start", "trigger"}]
    /\ \A c \in Changers : op[c] \in Ops
    /\ carried \in [Changers -> SUBSET Partitions]
    /\ load \in [Partitions -> [kind : {"none", "list", "epoch"}, at : Offsets]]
    /\ waiting \subseteq Partitions /\ loading \subseteq Partitions /\ jobs \subseteq Jobs
    /\ on \in [Partitions -> Sources] /\ leader \in [Partitions -> Sources]
    /\ usable \subseteq Partitions /\ using \subseteq assigned
    /\ offset \in [Partitions -> -1 .. MaxOffset] /\ epoch \in [Partitions -> BOOLEAN]
    /\ pc \in [Sources -> {"idle", "load", "none", "join", "desire", "await",
                           "fetch", "backoff"}]
    /\ again \in [Sources -> BOOLEAN] /\ at \in [Sources -> 0 .. bound.sessions]
    /\ rechecks \in [Sources -> Nat] /\ dropped \in [Sources -> 0 .. bound.sessions]
    /\ used \in [Sources -> SUBSET Partitions] /\ next \in [Partitions -> Offsets]
    /\ \A s \in Sources : \A i \in DOMAIN buf[s] :
         buf[s][i] \in [p : Partitions, lo : Offsets, hi : Offsets, err : BOOLEAN]
    /\ Range(ready) = {s \in Sources : buf[s] # <<>>}
    /\ mgr \in {"none", "run", "quitting", "gone"} /\ Range(want) \subseteq Sources
    /\ active \in Nat /\ granted \subseteq Sources /\ dones \in Nat /\ cancels \subseteq Sources
    /\ paused \subseteq pausedOnce /\ pausedOnce \subseteq bound.pausable
    /\ assigned \subseteq Partitions /\ raced \in [Partitions -> {"no", "unpolled", "polled"}]
    /\ from \in [Partitions -> Offsets] /\ \A p \in Partitions : Range(out[p]) \subseteq Offsets
    /\ faults \in 0 .. bound.faults

\* What was polled of p is every record from where the user asked to consume, in
\* order, each once.
Contiguous(p) ==
    \A i \in DOMAIN out[p] :
        Range(SubSeq(out[p], 1, i)) = (from[p] .. out[p][i]) \ bound.control
            /\ (i > 1 => out[p][i - 1] < out[p][i])

\* Polls return the records of a partition in offset order, none skipped and none
\* twice, from where the user or a reset put the cursor: through canceled and failed
\* fetches, discarded buffers, limited polls, pauses, moves between brokers and
\* sessions (source.fetch, takeBuffered, takeNBuffered, stopSession).  And once an
\* assignment is invalidated, nothing of the partition is polled: not from a buffered
\* fetch, not from a request in flight, not through a load that ends late
\* (assignPartitions after stopSession).  Partitions whose offset was set while it was
\* being loaded are left to SetOffsetsHolds.
InOrder ==
    /\ \A p \in assigned : raced[p] = "no" => Contiguous(p)
    /\ \A p \in Partitions \ assigned : out[p] = <<>>

\* "SetOffsets sets any matching offsets in setOffsets to the given epoch/offset"
\* (consumer.go): after it, polls of a partition that had been consumed start at that
\* offset, also if the partition was being loaded meanwhile.
SetOffsetsHolds == \A p \in assigned : raced[p] # "unpolled" => Contiguous(p)

Places(p) ==
    Cardinality({s \in Sources : p \in used[s]})
    + Cardinality({j \in jobs : p \in j.ps /\ j.pc = "new"})
    + Cardinality({j \in jobs : p \in j.re})
    + Cardinality({c \in Changers : p \in carried[c]})
    + (IF p \in waiting THEN 1 ELSE 0)
    + (IF p \in loading THEN 1 ELSE 0)
    + (IF p \in usable THEN 1 ELSE 0)

\* A consumed partition is in one place: usable, used by one source's request or
\* buffer, or in one load (about to wait, waiting, loading, to be retried, or carried
\* between sessions).  It is never lost, so it is never stuck, and never fetched while
\* it is loaded or by two sources at once; a partition not consumed is in none.  And
\* when stopSession returns, no fetch and no load of the old session runs, so an
\* assignment or a migration changes cursors that nobody uses.
CursorAccounted ==
    /\ \A p \in Partitions : Places(p) = IF p \in assigned THEN 1 ELSE 0
    /\ \A c \in Changers : chg[c] = "start" =>
          /\ jobs = {}
          /\ \A s \in Sources : pc[s] \in {"idle", "load", "none", "join"} /\ used[s] = {}

\* Sources that hold one of the allowed fetches.
Holders ==
    {s \in Sources : pc[s] = "fetch" \/ buf[s] # <<>> \/ (pc[s] = "await" /\ s \in granted)}

\* At most cfg.maxConcurrentFetches sources are fetching or hold a buffered fetch:
\* activeFetches counts the holders and the fetches the manager has yet to hear the
\* end of, through canceled waits in either order; a source waits only while the limit
\* is reached, and nothing is sent to a manager that has returned (sends to doneFetch
\* or cancelFetchCh would then block a worker).
ManagerExact ==
    /\ bound.allowed # 0 => Cardinality(Holders) <= bound.allowed
    /\ active = Cardinality(Holders) + dones + Cardinality(cancels \ Range(want))
    /\ Range(want) \subseteq cancels \/ (bound.allowed # 0 /\ active >= bound.allowed)
    /\ mgr = "gone" => want = <<>> /\ dones = 0 /\ cancels = {}

\* s has no loop although there is a session and its sources have been triggered.
Idle(s) ==
    /\ pc[s] = "idle" /\ rechecks[s] = 0
    /\ session # 0 /\ ~canceled /\ \A c \in Changers : chg[c] # "trigger"

\* "At this point, any source that was not consuming becauase it saw the session was
\* stopped has been notified to potentially start consuming again." (startNewSession):
\* a source without a loop has nothing to fetch.
NoLostTrigger == \A s \in Sources : Idle(s) => createReq(s) = {}

\* The same for a source of which no trigger was dropped by a loop that had loaded the
\* previous session and found it canceled when it joined: with the recheck after
\* hardFinish, no other interleaving of loops, resumes, polls, loads and session
\* changes leaves a source idle with a partition to fetch.
IdleHasNothing == \A s \in Sources : Idle(s) /\ dropped[s] # sid => createReq(s) = {}

\* Stopping a session ends, whatever its workers were doing, and the next one starts:
\* assignments and metadata updates do not hang on a fetch, a load or the manager
\* (stopSession, startNewSession).
StopReturns == \A c \in Changers : chg[c] # "idle" ~> chg[c] = "idle"
=============================================================================
