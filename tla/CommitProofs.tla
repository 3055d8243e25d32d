---------------------------- MODULE CommitProofs ----------------------------
(***************************************************************************)
(* Nothing unprocessed is committed, and no commit falls between join and  *)
(* sync, for any offsets and any number of commits, rebalances and faults. *)
(***************************************************************************)
EXTENDS Commit, TLAPS

Offsets == -1 .. MaxOffset

Commits ==
    [kind : {"auto", "async", "sync", "revoke"},
     ph : {"lock", "wait", "sync", "prior", "issue", "sent", "calling", "unblock", "done"},
     off : Offsets, called : Nat, gen : Nat \cup {-1}, prior : Nat,
     cancel : BOOLEAN, killed : BOOLEAN, ans : {"none", "ok", "canceled", "unknown", "refused"}]

Bounds ==
    [cooperative : BOOLEAN, auto : BOOLEAN, ticks : Nat, asyncs : Nat, syncs : Nat,
     joins : Nat, cancels : Nat, expels : Nat, fails : Nat]

(* The types of the variables.                                             *)
Types ==
    /\ bound \in Bounds
    /\ u \in [dirty : Offsets, head : Offsets, committed : Offsets]
    /\ coms \in Seq(Commits)
    /\ \A i \in 1 .. Len(coms) : coms[i].prior \in 0 .. Len(coms)
    /\ last \in 0 .. Len(coms) /\ blockAuto \in BOOLEAN
    /\ ses \in {"join", "rejoin", "joining", "joined", "failed", "fetch", "on", "away",
                "revoke", "revoking", "revoked"}
    /\ gen \in Nat /\ pos \in Offsets /\ processed \in 0 .. MaxOffset
    /\ wire \in Seq(1 .. Len(coms))
    /\ coord \in [gen : Nat, state : {"preparing", "completing", "stable", "gone"},
                  owner : {"none", "us", "other"}, stored : Offsets]

(* All that is committed, is about to be or may be autocommitted was       *)
(* processed.                                                              *)
OnlyProcessed ==
    /\ coord.stored <= processed
    /\ \A i \in 1 .. Len(coms) : coms[i].off <= processed
    /\ bound.auto => u.head <= processed

(* A commit that has the read lock keeps joinAndSync out, so it has the    *)
(* generation of the member; and that is the coordinator's unless the      *)
(* member was dropped, its join is on the way, or joinAndSync failed.      *)
Fenced ==
    /\ \A i \in 1 .. Len(coms) :
          /\ coms[i].ph \in {"sync", "prior", "issue", "sent"} => ses \notin {"joining", "joined"}
          /\ coms[i].ph \in {"prior", "issue", "sent"} => coms[i].gen = gen
    /\ coord.state = "completing" => ses \in {"joined", "failed", "rejoin"}
    /\ ses = "joined" => coord.state = "completing"
    /\ coord.state # "gone" /\ ses \notin {"joining", "failed", "rejoin"} => coord.gen = gen

(* The inductive invariant.                                                *)
IInv == Types /\ OnlyProcessed /\ Fenced

(* It is preserved, and no commit is refused.                              *)
Kept == IInv' /\ \A i \in 1 .. Len(coms) : coms'[i].ans = "refused" => coms[i].ans = "refused"

-----------------------------------------------------------------------------
(* Sequences over a larger set.                                            *)
LEMMA SeqMonotonic ==
    ASSUME NEW S, NEW T, S \subseteq T, NEW q \in Seq(S)
    PROVE  q \in Seq(T)
  OBVIOUS

(* A sequence is a function.                                               *)
LEMMA LenProperties ==
    ASSUME NEW S, NEW q \in Seq(S)
    PROVE  Len(q) \in Nat /\ DOMAIN q = 1 .. Len(q) /\ q \in [1 .. Len(q) -> S]
  OBVIOUS

(* Its elements.                                                           *)
LEMMA ElementOfSeq ==
    ASSUME NEW S, NEW q \in Seq(S), NEW i \in 1 .. Len(q)
    PROVE  q[i] \in S
  OBVIOUS

(* One element is replaced.                                                *)
LEMMA ExceptSeq ==
    ASSUME NEW S, NEW q \in Seq(S), NEW i \in 1 .. Len(q), NEW e \in S
    PROVE  LET x == [q EXCEPT ![i] = e]
           IN x \in Seq(S) /\ Len(x) = Len(q) /\ \A j \in 1 .. Len(q) : x[j] = IF j = i THEN e ELSE q[j]
  OBVIOUS

(* The first element, and the rest.                                        *)
LEMMA HeadTailProperties ==
    ASSUME NEW S, NEW q \in Seq(S), q # <<>>
    PROVE  /\ Head(q) \in S /\ Tail(q) \in Seq(S) /\ Len(Tail(q)) = Len(q) - 1
           /\ \A i \in 1 .. Len(Tail(q)) : Tail(q)[i] = q[i + 1]
  OBVIOUS

(* One more element.                                                       *)
LEMMA AppendProperties ==
    ASSUME NEW S, NEW q \in Seq(S), NEW e \in S
    PROVE  /\ Append(q, e) \in Seq(S) /\ Append(q, e) # <<>> /\ Len(Append(q, e)) = Len(q) + 1
           /\ \A i \in 1 .. Len(q) : Append(q, e)[i] = q[i]
           /\ Append(q, e)[Len(q) + 1] = e
  OBVIOUS

-----------------------------------------------------------------------------
(* One commit moves on; the others stay as they are.                       *)
LEMMA Replaced ==
    ASSUME Types, NEW i \in 1 .. Len(coms), NEW c \in Commits, Com(i, c)
    PROVE  /\ coms' \in Seq(Commits) /\ Len(coms') = Len(coms)
           /\ \A j \in 1 .. Len(coms) : coms'[j] = IF j = i THEN c ELSE coms[j]
  BY ExceptSeq DEF Types, Com

(* A commit is added; the others stay as they are.                         *)
LEMMA Added ==
    ASSUME Types, NEW c \in Commits, coms' = Append(coms, c)
    PROVE  /\ coms' \in Seq(Commits) /\ Len(coms') = Len(coms) + 1
           /\ \A j \in 1 .. Len(coms) + 1 : coms'[j] = IF j = Len(coms) + 1 THEN c ELSE coms[j]
  BY AppendProperties DEF Types

(* The first state satisfies the invariant.                                *)
LEMMA InitIInv == Init => IInv
<1> SUFFICES ASSUME Init PROVE IInv
  OBVIOUS
<1>1. Types
  <2>1. bound \in Bounds
    BY CommitAssumption DEF Init, Bounds
  <2>2. coms = <<>> /\ wire = <<>> /\ coms \in Seq(Commits) /\ wire \in Seq(1 .. Len(coms))
        /\ Len(coms) = 0
    BY DEF Init
  <2>3. /\ u \in [dirty : Offsets, head : Offsets, committed : Offsets]
        /\ pos \in Offsets /\ processed \in 0 .. MaxOffset
        /\ coord \in [gen : Nat, state : {"preparing", "completing", "stable", "gone"},
                     owner : {"none", "us", "other"}, stored : Offsets]
    BY CommitAssumption DEF Init, Nil, Offsets
  <2>4. last = 0 /\ blockAuto \in BOOLEAN /\ ses = "join" /\ gen = 0
    BY DEF Init
  <2> QED BY <2>1, <2>2, <2>3, <2>4 DEF Types
<1>2. Len(coms) = 0 /\ coord.stored = 0 /\ processed = 0 /\ u.head = -1 /\ coord.gen = gen
      /\ coord.state = "preparing" /\ ses = "join"
  BY DEF Init, Nil
<1> QED BY <1>1, <1>2 DEF IInv, OnlyProcessed, Fenced

-----------------------------------------------------------------------------
(* What a commit may become, whatever its goroutine or its request did.    *)
Moves(i, c) ==
    /\ c \in Commits
    /\ c.off = coms[i].off /\ c.prior \in 0 .. Len(coms)
    /\ c.ans = "refused" => coms[i].ans = "refused"
    /\ c.ph \in {"sync", "prior", "issue", "sent"} => ses \notin {"joining", "joined"}
    /\ c.ph \in {"prior", "issue", "sent"} => c.gen = gen

(* A commit as it is.                                                      *)
LEMMA Still ==
    ASSUME IInv, NEW i \in 1 .. Len(coms)
    PROVE  Moves(i, coms[i])
<1>1. coms[i] \in Commits /\ coms[i].prior \in 0 .. Len(coms)
  BY ElementOfSeq DEF IInv, Types
<1>2. Fenced
  BY DEF IInv
<1> QED BY <1>1, <1>2 DEF Moves, Fenced

(* A commit moves on, and the rest is kept within the invariant.           *)
LEMMA Moved ==
    ASSUME IInv, NEW i \in 1 .. Len(coms), NEW c, Moves(i, c), Com(i, c),
           UNCHANGED <<ses, gen, pos, processed>>, bound' \in Bounds, bound'.auto = bound.auto,
           u' \in [dirty : Offsets, head : Offsets, committed : Offsets],
           bound.auto => u'.head <= processed,
           last' \in 0 .. Len(coms), blockAuto' \in BOOLEAN, wire' \in Seq(1 .. Len(coms)),
           coord' = coord
    PROVE  Kept
<1>1. coms' \in Seq(Commits) /\ Len(coms') = Len(coms)
      /\ \A j \in 1 .. Len(coms) : coms'[j] = IF j = i THEN c ELSE coms[j]
  BY Replaced DEF IInv, Moves
<1>2. Types'
  BY <1>1 DEF IInv, Types, Moves
<1>3. OnlyProcessed'
  BY <1>1 DEF IInv, OnlyProcessed, Moves
<1>4. Fenced'
  BY <1>1 DEF IInv, Fenced, Moves
<1>5. \A j \in 1 .. Len(coms) : coms'[j].ans = "refused" => coms[j].ans = "refused"
  BY <1>1 DEF Moves
<1> QED BY <1>2, <1>3, <1>4, <1>5 DEF IInv, Kept

(* A step of a commit's goroutine.                                         *)
LEMMA GoroutineIInv ==
    ASSUME IInv, NEW i \in 1 .. Len(coms), Goroutine(i)
    PROVE  Kept
<1>0. coms[i] \in Commits /\ Moves(i, coms[i])
  BY Still DEF Moves
<1> DEFINE Rest ==
             /\ bound \in Bounds /\ u \in [dirty : Offsets, head : Offsets, committed : Offsets]
             /\ bound.auto => u.head <= processed
             /\ last \in 0 .. Len(coms) /\ blockAuto \in BOOLEAN /\ wire \in Seq(1 .. Len(coms))
             /\ Len(coms) \in Nat /\ gen \in Nat
<1>rest. Rest
  BY LenProperties DEF IInv, Types, OnlyProcessed
<1>1. CASE TryJoinSyncRLock(i)
  <2> DEFINE c == [coms[i] EXCEPT !.ph = IF CanRLock THEN "sync" ELSE "wait"]
  <2>1. Moves(i, c)
    BY <1>0 DEF Commits, Moves, CanRLock
  <2> QED BY <1>1, <2>1, <1>rest, Moved DEF TryJoinSyncRLock
<1>2. CASE JoinSyncRLock(i)
  <2> DEFINE c == [coms[i] EXCEPT !.ph = "sync"]
  <2>1. Moves(i, c)
    BY <1>0, <1>2 DEF JoinSyncRLock, Commits, Moves, CanRLock
  <2> QED BY <1>2, <2>1, <1>rest, Moved DEF JoinSyncRLock
<1>3. CASE JoinSyncCanceled(i)
  <2> DEFINE c == [coms[i] EXCEPT !.ph = "done", !.ans = "canceled"]
  <2>1. Moves(i, c)
    BY <1>0 DEF Commits, Moves
  <2> QED BY <1>3, <2>1, <1>rest, Moved DEF JoinSyncCanceled
<1>4. CASE Begin(i)
  <2>1. CASE coms[i].off = Empty
    <3> DEFINE c == [coms[i] EXCEPT !.ph = "calling", !.ans = "ok"]
    <3>1. Moves(i, c)
      BY <1>0 DEF Commits, Moves
    <3> QED BY <1>4, <2>1, <3>1, <1>rest, Moved DEF Begin
  <2>2. CASE coms[i].off # Empty
    <3>1. last \in Nat /\ last \in 0 .. Len(coms) /\ gen \in Nat
      BY <1>rest
    <3>2. Latest(coms[i]) \in Commits
      BY <1>0, <3>1 DEF Latest, Commits
    <3>3. Moves(i, Latest(coms[i]))
      BY <1>0, <1>4, <3>1, <3>2 DEF Begin, Moves, Latest, Commits
    <3> QED BY <1>4, <2>2, <3>1, <3>3, <1>rest, Moved DEF Begin
  <2> QED BY <2>1, <2>2
<1>5. CASE CancelPrior(i)
  <2> DEFINE j == coms[i].prior
             c == [coms[j] EXCEPT !.cancel = TRUE]
  <2>1. j \in 1 .. Len(coms)
    BY <1>0, <1>5, <1>rest DEF CancelPrior, PriorDone, Moves
  <2>2. coms[j] \in Commits /\ Moves(j, coms[j])
    BY <2>1, Still DEF Moves
  <2>3. Moves(j, c)
    BY <2>2 DEF Commits, Moves
  <2>4. Com(j, c)
    BY <1>5, <2>1, <2>2 DEF CancelPrior, Com
  <2> QED BY <1>5, <2>1, <2>3, <2>4, <1>rest, Moved DEF CancelPrior
<1>6. CASE Prior(i)
  <2> DEFINE c == [coms[i] EXCEPT !.ph = "issue"]
  <2>1. Moves(i, c)
    BY <1>0, <1>6 DEF Prior, Commits, Moves
  <2> QED BY <1>6, <2>1, <1>rest, Moved DEF Prior
<1>7. CASE Issue(i)
  <2>1. CASE Canceled(coms[i])
    <3> DEFINE c == [coms[i] EXCEPT !.ph = "calling", !.ans = "canceled"]
    <3>1. Moves(i, c)
      BY <1>0 DEF Commits, Moves
    <3> QED BY <1>7, <2>1, <3>1, <1>rest, Moved DEF Issue
  <2>2. CASE ~Canceled(coms[i])
    <3> DEFINE c == [coms[i] EXCEPT !.ph = "sent"]
    <3>1. Moves(i, c)
      BY <1>0, <1>7 DEF Issue, Commits, Moves
    <3>2. wire' = Append(wire, i) /\ wire \in Seq(1 .. Len(coms))
      BY <1>7, <2>2, <1>rest DEF Issue
    <3>3. wire' \in Seq(1 .. Len(coms))
      BY <3>2, AppendProperties
    <3> QED BY <1>7, <2>2, <3>1, <3>3, <1>rest, Moved DEF Issue
  <2> QED BY <2>1, <2>2
<1>8. CASE Abandon(i)
  <2> DEFINE c == [coms[i] EXCEPT !.ph = "calling", !.ans = "canceled"]
  <2>1. Moves(i, c)
    BY <1>0 DEF Commits, Moves
  <2> QED BY <1>8, <2>1, <1>rest, Moved DEF Abandon
<1>9. CASE Answered(i)
  <2> DEFINE c == [coms[i] EXCEPT !.ph = "calling"]
  <2>1. Moves(i, c)
    BY <1>0 DEF Commits, Moves
  <2>2. /\ u' \in [dirty : Offsets, head : Offsets, committed : Offsets]
        /\ bound.auto => u'.head <= processed
    BY <1>0, <1>9, CommitAssumption
       DEF Answered, UpdateCommitted, Max2, IInv, Types, OnlyProcessed, Commits, Offsets
  <2> QED BY <1>9, <2>1, <2>2, <1>rest, Moved DEF Answered
<1>10. CASE OnDone(i)
  <2> DEFINE c == [coms[i] EXCEPT !.ph = IF coms[i].kind = "auto" THEN "done" ELSE "unblock"]
  <2>1. Moves(i, c)
    BY <1>0 DEF Commits, Moves
  <2> QED BY <1>10, <2>1, <1>rest, Moved DEF OnDone
<1>11. CASE Unblock(i)
  <2> DEFINE c == [coms[i] EXCEPT !.ph = "done"]
  <2>1. Moves(i, c)
    BY <1>0 DEF Commits, Moves
  <2> QED BY <1>11, <2>1, <1>rest, Moved DEF Unblock
<1> QED
  BY <1>1, <1>2, <1>3, <1>4, <1>5, <1>6, <1>7, <1>8, <1>9, <1>10, <1>11 DEF Goroutine

-----------------------------------------------------------------------------
(* A budget is spent: what is configured stays.                            *)
LEMMA Spent ==
    ASSUME bound \in Bounds,
           NEW f \in {"ticks", "asyncs", "syncs", "joins", "cancels", "expels", "fails"}, Spend(f)
    PROVE  /\ bound' \in Bounds
           /\ bound'.auto = bound.auto
<1>1. CASE f = "ticks"
  BY <1>1 DEF Bounds, Spend
<1>2. CASE f = "asyncs"
  BY <1>2 DEF Bounds, Spend
<1>3. CASE f = "syncs"
  BY <1>3 DEF Bounds, Spend
<1>4. CASE f = "joins"
  BY <1>4 DEF Bounds, Spend
<1>5. CASE f = "cancels"
  BY <1>5 DEF Bounds, Spend
<1>6. CASE f = "expels"
  BY <1>6 DEF Bounds, Spend
<1>7. CASE f = "fails"
  BY <1>7 DEF Bounds, Spend
<1> QED BY <1>1, <1>2, <1>3, <1>4, <1>5, <1>6, <1>7

(* What a commit may be when it is made.                                   *)
Made(c, done) ==
    /\ c \in Commits
    /\ c.off <= done /\ c.prior \in 0 .. Len(coms) /\ c.ans = "none"
    /\ c.ph \in {"lock", "prior"}
    /\ c.ph = "prior" => ses \notin {"joining", "joined"} /\ c.gen = gen

(* A commit is made, and the rest is kept within the invariant.            *)
LEMMA CommitMade ==
    ASSUME IInv, NEW c, Made(c, processed'), coms' = Append(coms, c),
           UNCHANGED <<u, gen, wire, coord>>,
           bound' \in Bounds,
           bound'.auto = bound.auto, blockAuto' \in BOOLEAN,
           processed' \in 0 .. MaxOffset, processed' >= processed,
           last' \in 0 .. Len(coms) + 1, pos' \in Offsets,
           ses' = ses \/ (ses = "revoke" /\ ses' = "revoking")
    PROVE  Kept
<1>1. coms' \in Seq(Commits) /\ Len(coms') = Len(coms) + 1 /\ Len(coms) \in Nat
      /\ \A j \in 1 .. Len(coms) + 1 : coms'[j] = IF j = Len(coms) + 1 THEN c ELSE coms[j]
  BY Added, LenProperties DEF IInv, Made, Types
<1>2. \A j \in 1 .. Len(coms) : coms[j].off \in Int /\ coms[j].prior \in 0 .. Len(coms)
  <2>1. \A j \in 1 .. Len(coms) : coms[j] \in Commits /\ coms[j].prior \in 0 .. Len(coms)
    BY ElementOfSeq DEF IInv, Types
  <2> QED BY <2>1 DEF Commits, Offsets
<1>3. Types'
  <2>1. wire' \in Seq(1 .. Len(coms'))
    <3>1. wire \in Seq(1 .. Len(coms)) /\ 1 .. Len(coms) \subseteq 1 .. Len(coms')
      <4>1. wire \in Seq(1 .. Len(coms))
        BY DEF IInv, Types
      <4> QED BY <1>1, <4>1
    <3> QED BY <3>1, SeqMonotonic
  <2>2. \A j \in 1 .. Len(coms') : coms'[j].prior \in 0 .. Len(coms')
    BY <1>1, <1>2 DEF Made
  <2> QED BY <1>1, <2>1, <2>2 DEF IInv, Types
<1>4. OnlyProcessed'
  <2>1. coord.stored \in Int /\ processed \in Int /\ processed' \in Int /\ u.head \in Int
    BY DEF IInv, Types, Offsets
  <2> QED BY <1>1, <1>2, <2>1 DEF IInv, OnlyProcessed, Made
<1>5. Fenced'
  BY <1>1 DEF IInv, Fenced, Made
<1>6. \A j \in 1 .. Len(coms) : coms'[j].ans = "refused" => coms[j].ans = "refused"
  BY <1>1
<1> QED BY <1>3, <1>4, <1>5, <1>6 DEF IInv, Kept

Uncommits == [dirty : Offsets, head : Offsets, committed : Offsets]
Coords ==
    [gen : Nat, state : {"preparing", "completing", "stable", "gone"},
     owner : {"none", "us", "other"}, stored : Offsets]
Phases ==
    {"join", "rejoin", "joining", "joined", "failed", "fetch", "on", "away",
     "revoke", "revoking", "revoked"}

(* No commit moves, and the rest is kept within the invariant.             *)
LEMMA NoneMoved ==
    ASSUME IInv, UNCHANGED <<coms, last, blockAuto, wire>>,
           u' \in Uncommits, pos' \in Offsets, ses' \in Phases, gen' \in Nat, coord' \in Coords,
           bound' \in Bounds, bound'.auto = bound.auto,
           processed' \in 0 .. MaxOffset, processed' >= processed,
           bound.auto => u'.head <= processed', coord'.stored <= processed', Fenced'
    PROVE  Kept
<1>1. Types'
  BY DEF IInv, Types, Uncommits, Phases, Coords
<1>2. \A j \in 1 .. Len(coms) : coms[j].off \in Int
  <2>1. \A j \in 1 .. Len(coms) : coms[j] \in Commits
    BY ElementOfSeq DEF IInv, Types
  <2> QED BY <2>1 DEF Commits, Offsets
<1>3. OnlyProcessed'
  <2>1. processed \in Int /\ processed' \in Int /\ \A j \in 1 .. Len(coms) : coms[j].off <= processed
    BY DEF IInv, Types, OnlyProcessed
  <2>2. \A j \in 1 .. Len(coms) : coms[j].off <= processed'
    BY <1>2, <2>1
  <2> QED BY <2>2 DEF OnlyProcessed
<1> QED BY <1>1, <1>3 DEF IInv, Kept

(* The coordinator's next generation.                                      *)
LEMMA Advanced ==
    ASSUME coord \in Coords
    PROVE  /\ NextGeneration \in Coords /\ NextGeneration.stored = coord.stored
           /\ NextGeneration.gen = coord.gen + 1 /\ NextGeneration.state = "completing"
           /\ coord.gen + 1 \in Nat
<1>1. coord.gen + 1 \in Nat
  BY DEF Coords
<1>2. NextGeneration = [coord EXCEPT !.gen = coord.gen + 1, !.state = "completing"]
  BY DEF NextGeneration, Coords
<1> QED BY <1>1, <1>2 DEF Coords

(* The coordinator has an assignment.                                      *)
LEMMA AssignedOK ==
    ASSUME coord \in Coords, NEW mine \in BOOLEAN
    PROVE  /\ Assigned(mine) \in Coords /\ Assigned(mine).stored = coord.stored
           /\ Assigned(mine).gen = coord.gen /\ Assigned(mine).state = "stable"
<1>1. PICK o \in {"none", "us", "other"} :
         Assigned(mine) = [coord EXCEPT !.state = "stable", !.owner = o]
  BY DEF Assigned
<1> QED BY <1>1 DEF Coords

(* A poll, a call of the user, a tick or an event of the group.            *)
LEMMA EventIInv ==
    ASSUME IInv, Event
    PROVE  Kept
<1>0. /\ u \in Uncommits /\ pos \in Offsets /\ processed \in 0 .. MaxOffset /\ Len(coms) \in Nat
      /\ last \in 0 .. Len(coms) /\ blockAuto \in BOOLEAN
      /\ ses \in Phases /\ gen \in Nat /\ bound \in Bounds /\ coord \in Coords
      /\ coord.stored <= processed /\ Fenced
      /\ bound.auto => u.head <= processed
  BY LenProperties DEF IInv, Types, OnlyProcessed, Uncommits, Phases, Coords
<1>1. CASE Undirty
  <2>1. /\ u' \in Uncommits
        /\ processed' \in 0 .. MaxOffset /\ processed' >= processed
        /\ bound.auto => u'.head <= processed'
        /\ coord.stored <= processed'
    BY <1>0, <1>1, CommitAssumption DEF Undirty, Max2, Uncommits, Offsets, Coords
  <2>2. Fenced'
    BY <1>0, <1>1 DEF Undirty, Fenced
  <2> QED BY <1>0, <1>1, <2>1, <2>2, NoneMoved DEF Undirty
<1>2. CASE Fill
  <2>1. u' \in Uncommits /\ pos' \in Offsets /\ (bound.auto => u'.head <= processed)
    <3>1. PICK to \in pos + 1 .. MaxOffset :
             pos' = to /\ u' = [u EXCEPT !.dirty = to, !.head = IF bound.auto THEN @ ELSE to]
      BY <1>2 DEF Fill
    <3>2. to \in Offsets
      BY <1>2, CommitAssumption DEF Fill, Offsets
    <3> QED BY <1>0, <3>1, <3>2 DEF Uncommits
  <2>2. Fenced'
    BY <1>0, <1>2 DEF Fill, Fenced
  <2> QED BY <1>0, <1>2, <2>1, <2>2, NoneMoved DEF Fill
<1>3. ASSUME NEW k \in {"async", "sync"}, NEW f \in {"asyncs", "syncs"}, Call(k, f)
      PROVE  Kept
  <2>1. processed' \in 0 .. MaxOffset /\ processed' >= processed /\ u.dirty <= processed'
    BY <1>0, <1>3, CommitAssumption DEF Call, Max2, Uncommits, Offsets
  <2>2. Made(New(k, "lock", u.dirty), processed')
    BY <1>0, <2>1 DEF Made, New, Commits, Uncommits
  <2>3. bound' \in Bounds /\ bound'.auto = bound.auto
    BY <1>0, <1>3, Spent DEF Call
  <2>4. /\ UNCHANGED <<u, gen, wire, coord>> /\ ses' = ses /\ pos' \in Offsets
        /\ last' \in 0 .. Len(coms) + 1 /\ blockAuto' \in BOOLEAN
        /\ coms' = Append(coms, New(k, "lock", u.dirty))
    BY <1>0, <1>3 DEF Call
  <2> QED BY <2>1, <2>2, <2>3, <2>4, CommitMade
<1>4. CASE AutoCommit
  <2> DEFINE c == Latest(New("auto", "prior", u.head))
  <2>1. u.head \in Offsets /\ last \in Nat
    BY <1>0 DEF Uncommits
  <2>2. c \in Commits
    BY <1>0, <2>1 DEF New, Latest, Commits
  <2>3. Made(c, processed')
    BY <1>0, <1>4, <2>2 DEF AutoCommit, Made, New, Latest, CanRLock
  <2>4. bound' \in Bounds /\ bound'.auto = bound.auto
    BY <1>0, <1>4, Spent DEF AutoCommit
  <2>5. last' \in 0 .. Len(coms) + 1
    BY <1>0, <1>4, <2>2, Added DEF AutoCommit, IInv
  <2>6. /\ UNCHANGED <<u, gen, wire, coord>> /\ ses' = ses /\ pos' \in Offsets
        /\ blockAuto' \in BOOLEAN /\ processed' \in 0 .. MaxOffset /\ processed' >= processed
        /\ coms' = Append(coms, c)
    BY <1>0, <1>4 DEF AutoCommit
  <2> QED BY <2>3, <2>4, <2>5, <2>6, CommitMade
<1>5. CASE Rebalance
  <2>1. bound' \in Bounds /\ bound'.auto = bound.auto
    BY <1>0, <1>5, Spent DEF Rebalance
  <2>2. ses' \in Phases /\ coord' \in Coords /\ coord'.stored = coord.stored
    BY <1>0, <1>5 DEF Rebalance, Ses, Phases, Coords
  <2>3. Fenced'
    BY <1>0, <1>5 DEF Rebalance, Ses, Fenced, Coords
  <2> QED BY <1>0, <1>5, <2>1, <2>2, <2>3, NoneMoved DEF Rebalance
<1>6. CASE Expel
  <2>1. bound' \in Bounds /\ bound'.auto = bound.auto
    BY <1>0, <1>6, Spent DEF Expel
  <2>2. coord' \in Coords /\ coord'.stored = coord.stored
    <3>1. coord' = [gen |-> coord.gen + 1, state |-> "gone", owner |-> "other",
                    stored |-> coord.stored]
      BY <1>0, <1>6 DEF Expel, Coords
    <3> QED BY <1>0, <3>1 DEF Coords
  <2>3. Fenced'
    BY <1>0, <1>6 DEF Expel, Fenced, Coords
  <2> QED BY <1>0, <1>6, <2>1, <2>2, <2>3, NoneMoved DEF Expel
<1>7. CASE OtherCommits
  <2>1. /\ processed' \in 0 .. MaxOffset /\ processed' >= processed
        /\ coord' \in Coords /\ coord'.stored <= processed'
        /\ bound.auto => u.head <= processed'
    BY <1>0, <1>7, CommitAssumption DEF OtherCommits, Max2, Coords, Uncommits, Offsets
  <2>2. Fenced'
    BY <1>0, <1>7 DEF OtherCommits, Fenced, Coords
  <2> QED BY <1>0, <1>7, <2>1, <2>2, NoneMoved DEF OtherCommits
<1>8. ASSUME NEW i \in 1 .. Len(coms), CancelContext(i)
      PROVE  Kept
  <2> DEFINE c == [coms[i] EXCEPT !.killed = TRUE]
  <2>1. coms[i] \in Commits /\ Moves(i, coms[i])
    BY Still DEF Moves
  <2>2. Moves(i, c)
    BY <2>1 DEF Commits, Moves
  <2>3. bound' \in Bounds /\ bound'.auto = bound.auto
    BY <1>0, <1>8, Spent DEF CancelContext
  <2> QED BY <1>0, <1>8, <2>2, <2>3, Moved DEF CancelContext, IInv, Types, Uncommits
<1>9. CASE SyncRebalances
  <2>1. bound' \in Bounds /\ bound'.auto = bound.auto
    BY <1>0, <1>9, Spent DEF SyncRebalances
  <2>2. ses' \in Phases /\ coord' \in Coords /\ coord'.stored = coord.stored
    BY <1>0, <1>9 DEF SyncRebalances, Ses, Phases, Coords
  <2>3. Fenced'
    BY <1>0, <1>9 DEF SyncRebalances, Ses, Fenced, Coords
  <2> QED BY <1>0, <1>9, <2>1, <2>2, <2>3, NoneMoved DEF SyncRebalances
<1>10. CASE JoinFails
  <2>1. bound' \in Bounds /\ bound'.auto = bound.auto
    BY <1>0, <1>10, Spent DEF JoinFails
  <2>2. ses' = "failed" /\ gen' \in Nat /\ coord' \in Coords /\ coord'.stored = coord.stored
    BY <1>0, <1>10, Advanced DEF JoinFails, Ses
  <2>3. Fenced'
    BY <1>0, <1>10, <2>2 DEF JoinFails, Fenced
  <2> QED BY <1>0, <1>10, <2>1, <2>2, <2>3, NoneMoved DEF JoinFails, Phases
<1>11. CASE SyncFails
  <2>1. bound' \in Bounds /\ bound'.auto = bound.auto
    BY <1>0, <1>11, Spent DEF SyncFails
  <2>2. ses' = "failed" /\ coord' \in Coords /\ coord'.stored = coord.stored
    BY <1>0, <1>11, AssignedOK DEF SyncFails, Ses
  <2>3. Fenced'
    BY <1>0, <1>11, <2>2 DEF SyncFails, Fenced
  <2> QED BY <1>0, <1>11, <2>1, <2>2, <2>3, NoneMoved DEF SyncFails, Phases
<1> QED
  <2>1. DOMAIN coms = 1 .. Len(coms)
    BY LenProperties DEF IInv, Types
  <2> QED BY <1>1, <1>2, <1>3, <1>4, <1>5, <1>6, <1>7, <1>8, <1>9, <1>10, <1>11, <2>1
          DEF Event, CommitOffsets, CommitOffsetsSync

(* The coordinator answers a commit.  One that the client waits for has    *)
(* the coordinator's generation, and finds no group that is completing.    *)
LEMMA HandleCommitIInv ==
    ASSUME IInv, HandleCommit
    PROVE  /\ IInv'
           /\ \A j \in 1 .. Len(coms) :
                 coms[j].ans # "refused" /\ coms'[j].ans = "refused" => ses \in {"failed", "rejoin"}
<1> DEFINE i == Head(wire)
           c == coms[i]
           ok == coord.state \in {"stable", "preparing"} /\ c.gen = coord.gen
           ans == IF ok THEN "ok" ELSE IF coord.state = "gone" THEN "unknown" ELSE "refused"
           d == IF c.ph = "sent" THEN [c EXCEPT !.ans = ans] ELSE c
<1>1. /\ wire # <<>> /\ wire' = Tail(wire) /\ Com(i, d)
      /\ coord' = IF ok THEN [coord EXCEPT !.stored = c.off] ELSE coord
      /\ UNCHANGED <<u, last, blockAuto, ses, gen, pos, processed, bound>>
  BY DEF HandleCommit
<1>2. wire \in Seq(1 .. Len(coms))
  BY DEF IInv, Types
<1>3. i \in 1 .. Len(coms) /\ wire' \in Seq(1 .. Len(coms))
  BY <1>1, <1>2, HeadTailProperties
<1>4. c \in Commits
  BY <1>3, ElementOfSeq DEF IInv, Types
<1>5. c = coms[i] /\ \A j \in 1 .. Len(coms) : Moves(j, coms[j])
  BY Still
<1>6. d \in Commits /\ d.off = c.off /\ d.prior = c.prior /\ d.ph = c.ph /\ d.gen = c.gen
  BY <1>4 DEF Commits
<1>7. c.ans # "refused" /\ d.ans = "refused" => ses \in {"failed", "rejoin"}
  <2>1. CASE c.ph = "sent"
    <3>1. coord.state # "gone" /\ ses \notin {"failed", "rejoin"} => ok
      BY <1>3, <2>1 DEF IInv, Types, Fenced
    <3> QED BY <1>4, <2>1, <3>1 DEF Commits
  <2>2. CASE c.ph # "sent"
    BY <2>2
  <2> QED BY <2>1, <2>2
<1>8. /\ coms' \in Seq(Commits) /\ Len(coms') = Len(coms)
      /\ \A j \in 1 .. Len(coms) : coms'[j] = IF j = i THEN d ELSE coms[j]
  BY <1>1, <1>3, <1>6, Replaced DEF IInv
<1>9. /\ coord' \in Coords /\ coord'.gen = coord.gen /\ coord'.state = coord.state
      /\ coord'.stored <= processed
  <2>1. coord \in Coords /\ processed \in 0 .. MaxOffset /\ c.off <= processed
        /\ coord.stored <= processed
    BY <1>3 DEF IInv, Types, OnlyProcessed, Coords
  <2>2. c.off \in Offsets
    BY <1>4, <2>1 DEF Commits, Offsets
  <2> QED BY <1>1, <2>1, <2>2 DEF Coords
<1> HIDE DEF d, c, i
<1>10. Types'
  <2>1. \A j \in 1 .. Len(coms) : coms'[j].prior \in 0 .. Len(coms)
    BY <1>6, <1>8, <1>5 DEF Moves
  <2> QED BY <1>1, <1>3, <1>8, <1>9, <2>1 DEF IInv, Types, Coords
<1>11. OnlyProcessed'
  <2>1. \A j \in 1 .. Len(coms) : coms'[j].off <= processed
    BY <1>6, <1>8, <1>5 DEF IInv, OnlyProcessed
  <2> QED BY <1>1, <1>8, <1>9, <2>1 DEF IInv, OnlyProcessed
<1>12. Fenced'
  BY <1>1, <1>3, <1>6, <1>8, <1>9, <1>5 DEF IInv, Fenced
<1> QED BY <1>5, <1>7, <1>8, <1>10, <1>11, <1>12 DEF IInv

(* A step of the manage goroutine.                                         *)
LEMMA SessionIInv ==
    ASSUME IInv, Session
    PROVE  Kept
<1>0. /\ u \in Uncommits /\ pos \in Offsets /\ processed \in 0 .. MaxOffset /\ Len(coms) \in Nat
      /\ last \in 0 .. Len(coms) /\ blockAuto \in BOOLEAN
      /\ ses \in Phases /\ gen \in Nat /\ bound \in Bounds /\ coord \in Coords
      /\ coord.stored <= processed /\ Fenced
      /\ bound.auto => u.head <= processed
      /\ DOMAIN coms = 1 .. Len(coms)
  BY LenProperties DEF IInv, Types, OnlyProcessed, Uncommits, Phases, Coords
<1>1. CASE JoinLocked
  <2>1. ses' \in Phases /\ coord' \in Coords /\ coord'.stored = coord.stored
    BY <1>0, <1>1 DEF JoinLocked, Ses, Phases, Coords
  <2>2. Fenced'
    BY <1>0, <1>1 DEF JoinLocked, Ses, Readers, Fenced, Coords
  <2> QED BY <1>0, <1>1, <2>1, <2>2, NoneMoved DEF JoinLocked
<1>2. CASE Joined
  <2>1. ses' \in Phases /\ gen' \in Nat /\ coord' \in Coords /\ coord'.stored = coord.stored
        /\ coord'.gen = gen' /\ coord'.state = "completing"
    BY <1>0, <1>2, Advanced DEF Joined, Ses, Phases
  <2>2. Fenced'
    BY <1>0, <1>2, <2>1 DEF Joined, Ses, Fenced
  <2> QED BY <1>0, <1>2, <2>1, <2>2, NoneMoved DEF Joined
<1>3. CASE Synced
  <2>1. ses' \in Phases \ {"joining", "joined"} /\ coord' \in Coords
        /\ coord'.stored = coord.stored /\ coord'.gen = coord.gen /\ coord'.state = "stable"
    <3>1. coord' \in Coords /\ coord'.stored = coord.stored /\ coord'.gen = coord.gen
          /\ coord'.state = "stable"
      BY <1>0, <1>3, AssignedOK DEF Synced
    <3>2. pos >= 0 \/ pos < 0
      BY <1>0, CommitAssumption DEF Offsets
    <3>3. ses' \in {"on", "revoke", "fetch", "away"}
      BY <1>3, <3>2 DEF Synced, Ses
    <3> QED BY <3>1, <3>3 DEF Phases
  <2>2. Fenced'
    <3>1. UNCHANGED <<coms, gen>> /\ ses = "joined"
      BY <1>3 DEF Synced
    <3> QED BY <1>0, <2>1, <3>1 DEF Fenced
  <2> QED BY <1>0, <1>3, <2>1, <2>2, NoneMoved DEF Synced
<1>4. CASE FetchOffsets
  <2>1. ses' \in Phases /\ pos' \in Offsets /\ u' \in Uncommits /\ u'.head <= processed
    BY <1>0, <1>4 DEF FetchOffsets, Ses, At, Phases, Uncommits, Coords
  <2>2. Fenced'
    BY <1>0, <1>4 DEF FetchOffsets, Ses, Fenced
  <2> QED BY <1>0, <1>4, <2>1, <2>2, NoneMoved DEF FetchOffsets
<1>5. CASE Revoke
  <2>0. pos' \in Offsets
    BY <1>5, CommitAssumption DEF Revoke, Offsets
  <2>1. CASE bound.auto
    <3> DEFINE c == New("revoke", "lock", Uncommitted(u.head))
    <3>1. Uncommitted(u.head) \in Offsets /\ Uncommitted(u.head) <= processed
      BY <1>0, <2>1, CommitAssumption DEF Uncommitted, Empty, Uncommits, Offsets
    <3>2. c \in Commits
      BY <1>0, <3>1 DEF New, Commits
    <3>3. Made(c, processed')
      BY <1>0, <1>5, <3>1, <3>2 DEF Revoke, Made, New
    <3>4. /\ UNCHANGED <<u, gen, wire, coord, bound>> /\ ses = "revoke" /\ ses' = "revoking"
          /\ last' \in 0 .. Len(coms) + 1 /\ blockAuto' \in BOOLEAN
          /\ processed' \in 0 .. MaxOffset /\ processed' >= processed
          /\ coms' = Append(coms, c)
      BY <1>0, <1>5, <2>1 DEF Revoke, Ses
    <3> QED BY <1>0, <2>0, <3>3, <3>4, CommitMade
  <2>2. CASE ~bound.auto
    <3>1. ses' \in Phases
      BY <1>5, <2>2 DEF Revoke, Ses, Phases
    <3>2. Fenced'
      BY <1>0, <1>5, <2>2 DEF Revoke, Ses, Fenced
    <3> QED BY <1>0, <1>5, <2>0, <2>2, <3>1, <3>2, NoneMoved DEF Revoke
  <2> QED BY <2>1, <2>2
<1>6. CASE RevokeReturns
  <2>1. ses' \in Phases
    BY <1>6 DEF RevokeReturns, Ses, Phases
  <2>2. Fenced'
    BY <1>0, <1>6 DEF RevokeReturns, Ses, Fenced
  <2> QED BY <1>0, <1>6, <2>1, <2>2, NoneMoved DEF RevokeReturns
<1>7. CASE Revoked
  <2>1. ses' \in Phases /\ u' \in Uncommits /\ u'.head <= processed
    BY <1>0, <1>7, CommitAssumption DEF Revoked, Ses, Nil, Phases, Uncommits, Offsets
  <2>2. Fenced'
    BY <1>0, <1>7 DEF Revoked, Ses, Fenced
  <2> QED BY <1>0, <1>7, <2>1, <2>2, NoneMoved DEF Revoked
<1>8. CASE Lost
  <2>1. ses' \in Phases /\ pos' \in Offsets /\ u' \in Uncommits /\ u'.head <= processed
    BY <1>0, <1>8, CommitAssumption DEF Lost, Ses, Nil, Phases, Uncommits, Offsets
  <2>2. Fenced'
    BY <1>0, <1>8 DEF Lost, Ses, Fenced
  <2> QED BY <1>0, <1>8, <2>1, <2>2, NoneMoved DEF Lost
<1> QED
  BY <1>1, <1>2, <1>3, <1>4, <1>5, <1>6, <1>7, <1>8 DEF Session

-----------------------------------------------------------------------------
(* Every state satisfies the invariant.                                    *)
THEOREM IInvAlways == Spec => []IInv
<1>1. IInv /\ [Next]_vars => IInv'
  <2> SUFFICES ASSUME IInv, [Next]_vars PROVE IInv'
    OBVIOUS
  <2>1. DOMAIN coms = 1 .. Len(coms)
    BY LenProperties DEF IInv, Types
  <2>2. CASE UNCHANGED vars
    BY <2>2 DEF vars, IInv, Types, OnlyProcessed, Fenced
  <2> QED BY <2>1, <2>2, GoroutineIInv, SessionIInv, HandleCommitIInv, EventIInv DEF Next, Kept
<1> QED BY <1>1, InitIInv, PTL DEF Spec

(* The variables have their types; in particular a commit waits for an     *)
(* existing one.                                                           *)
THEOREM TypeOKAlways == Spec => []TypeOK
<1>1. IInv => TypeOK
  <2> SUFFICES ASSUME IInv PROVE TypeOK
    OBVIOUS
  <2>1. DOMAIN coms = 1 .. Len(coms)
        /\ \A i \in 1 .. Len(coms) : coms[i] \in Commits /\ coms[i].prior \in 0 .. Len(coms)
    BY LenProperties, ElementOfSeq DEF IInv, Types
  <2>2. \A i \in 1 .. Len(coms) : coms[i].off \in -1 .. MaxOffset
    BY <2>1 DEF Commits, Offsets
  <2> QED BY <2>1, <2>2 DEF IInv, Types, TypeOK, Offsets
<1> QED BY <1>1, IInvAlways, PTL

(* Nothing is committed before it was processed, by autocommits, by the    *)
(* user or by a revoke, however they overlap with polls, rebalances and    *)
(* cancellations.                                                          *)
THEOREM AtLeastOnceAlways == Spec => []AtLeastOnce
<1>1. IInv => AtLeastOnce
  BY DEF IInv, OnlyProcessed, AtLeastOnce
<1> QED BY <1>1, IInvAlways, PTL

(* A commit that the client waits for is not refused because of its        *)
(* generation or a group between join and sync unless joinAndSync failed:  *)
(* the lock that commits share and joinAndSync takes alone                 *)
(* (noCommitDuringJoinAndSync) suffices.                                   *)
THEOREM NeverRefusedAlways == Spec => NeverRefused
<1> DEFINE Refused == \A i \in DOMAIN coms :
             coms[i].ans # "refused" /\ coms'[i].ans = "refused" => ses \in {"failed", "rejoin"}
<1>1. IInv /\ [Next]_vars => [Refused]_vars
  <2> SUFFICES ASSUME IInv, Next PROVE Refused
    BY DEF vars
  <2>1. DOMAIN coms = 1 .. Len(coms)
    BY LenProperties DEF IInv, Types
  <2> QED BY <2>1, GoroutineIInv, SessionIInv, HandleCommitIInv, EventIInv DEF Next, Kept
<1> HIDE DEF Refused
<1>2. Spec => [][Refused]_vars
  BY <1>1, IInvAlways, PTL DEF Spec
<1> QED BY <1>2 DEF Refused, NeverRefused
=============================================================================
