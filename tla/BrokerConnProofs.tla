-------------------------- MODULE BrokerConnProofs --------------------------
(***************************************************************************)
(* Promises are called once and responses come without gaps, for any       *)
(* number of requests, connections and faults.                             *)
(***************************************************************************)
EXTENDS BrokerConn, TLAPS

ToSet(s) == {s[i] : i \in DOMAIN s}
Increasing(s) == \A i, j \in 1 .. Len(s) : i < j => s[i] < s[j]

(* The requests whose promise was called; with an error; without one.      *)
Called(o) == {o[i].req : i \in 1 .. Len(o)}
Failed(o) == {o[i].req : i \in {j \in 1 .. Len(o) : ~o[j].ok}}
Answered(o) == {o[i].req : i \in {j \in 1 .. Len(o) : o[j].ok}}

(* handleReqs has not yet written the request, nor called its promise; it  *)
(* holds a connection.                                                     *)
Early == {"load", "dial", "store", "ready", "sasl", "dead"}
Connected == {"store", "ready", "sasl", "wait", "kill"}

Cxns ==
    [dead : BOOLEAN, closing : BOOLEAN, resps : Seq(Nat), respsDead : BOOLEAN,
     rd : {"off", "read", "next", "kill", "dead"}, hung : BOOLEAN,
     sent : Seq(Nat), wire : Seq(Nat), in : Seq(Nat)]

Handlers == [ph : Early \cup {"off", "wait", "kill", "next"}, c : Nat, retried : BOOLEAN]

(* The types of the variables.                                             *)
Types ==
    /\ reqs \in Seq(Nat) /\ kind \in Seq(Kinds)
    /\ h \in Handlers
    /\ h.ph \in Connected => h.c \in 1 .. Len(cxns)
    /\ cxns \in Seq(Cxns)
    /\ cur \in [Kinds -> 0 .. Len(cxns)]
    /\ out \in Seq([req : Nat, ok : BOOLEAN])

(* The ring of requests: they were issued in its order, and only the head  *)
(* may have its promise called.                                            *)
Queued ==
    /\ Increasing(reqs) /\ ToSet(reqs) \subseteq 1 .. Len(kind)
    /\ reqs = <<>> <=> h.ph = "off"
    /\ \A r \in ToSet(reqs) : r \in Called(out) => r = Req /\ h.ph \in {"next", "kill"}

(* One connection: what is due was sent, and only the head of what is due  *)
(* may have its promise called; the rest is as in NoGap, and a failure     *)
(* leads to the connection's end.                                          *)
CxnOK(x, o) ==
    /\ Increasing(x.sent) /\ Increasing(x.resps)
    /\ ToSet(x.resps) \subseteq ToSet(x.sent)
    /\ x.rd = "off" <=> x.resps = <<>>
    /\ \A r \in ToSet(x.resps) :
          r \in Called(o) <=> x.rd \in {"next", "kill"} /\ r = Head(x.resps)
    /\ x.closing \/ x.respsDead \/ x.rd = "dead" => x.dead
    /\ x.dead => x.in = <<>>
    /\ \A r \in ToSet(x.sent) : r \in Failed(o) => x.dead \/ x.rd = "kill"
    /\ \A r, s \in ToSet(x.sent) : r < s /\ s \in Answered(o) => r \in Answered(o)

(* The connections and the ring of requests: what was written is older     *)
(* than what is queued, is written to one connection, and its promise was  *)
(* called, is due, or is about to be queued by waitResp.                   *)
Older ==
    \A c \in 1 .. Len(cxns) : \A s \in ToSet(cxns[c].sent) :
        /\ s \in 1 .. Len(kind)
        /\ \A r \in ToSet(reqs) : s < r \/ (s = r /\ r = Req /\ h.ph \in {"wait", "next"})
        /\ s \in Called(out) \/ s \in ToSet(cxns[c].resps) \/ (h.ph = "wait" /\ s = Req)

Apart ==
    \A c, d \in 1 .. Len(cxns) : c # d => ToSet(cxns[c].sent) \cap ToSet(cxns[d].sent) = {}

Waiting ==
    h.ph = "wait" => Req \in ToSet(cxns[h.c].sent) /\ Req \notin ToSet(cxns[h.c].resps)

Written == Older /\ Apart /\ Waiting

(* The inductive invariant.                                                *)
IInv ==
    /\ Types /\ Queued /\ Written
    /\ \A c \in 1 .. Len(cxns) : CxnOK(cxns[c], out)
    /\ Called(out) \subseteq 1 .. Len(kind)
    /\ PromisedOnce

-----------------------------------------------------------------------------
(* A sequence is a function.                                               *)
LEMMA LenProperties ==
    ASSUME NEW S, NEW q \in Seq(S)
    PROVE  Len(q) \in Nat /\ DOMAIN q = 1 .. Len(q) /\ q \in [1 .. Len(q) -> S]
  OBVIOUS

(* Its elements.                                                           *)
LEMMA ElementOfSeq ==
    ASSUME NEW S, NEW q \in Seq(S), NEW i \in 1 .. Len(q)
    PROVE  q[i] \in S
  OBVIOUS

(* The empty sequence, and any other.                                      *)
LEMMA EmptySeq ==
    ASSUME NEW S
    PROVE  <<>> \in Seq(S) /\ Len(<<>>) = 0 /\ \A q \in Seq(S) : q # <<>> => Len(q) \in Nat \ {0}
  OBVIOUS

(* One element is replaced.                                                *)
LEMMA ExceptSeq ==
    ASSUME NEW S, NEW q \in Seq(S), NEW i \in 1 .. Len(q), NEW e \in S
    PROVE  LET x == [q EXCEPT ![i] = e]
           IN x \in Seq(S) /\ Len(x) = Len(q) /\ \A j \in 1 .. Len(q) : x[j] = IF j = i THEN e ELSE q[j]
  OBVIOUS

(* The first element, and the rest.                                        *)
LEMMA HeadTailProperties ==
    ASSUME NEW S, NEW q \in Seq(S), q # <<>>
    PROVE  /\ Head(q) \in S /\ Tail(q) \in Seq(S) /\ Len(Tail(q)) = Len(q) - 1
           /\ \A i \in 1 .. Len(Tail(q)) : Tail(q)[i] = q[i + 1]
  OBVIOUS

(* One more element.                                                       *)
LEMMA AppendProperties ==
    ASSUME NEW S, NEW q \in Seq(S), NEW e \in S
    PROVE  /\ Append(q, e) \in Seq(S) /\ Append(q, e) # <<>> /\ Len(Append(q, e)) = Len(q) + 1
           /\ \A i \in 1 .. Len(q) : Append(q, e)[i] = q[i]
           /\ Append(q, e)[Len(q) + 1] = e
  OBVIOUS

-----------------------------------------------------------------------------
(* A ring whose numbers increase: what dropPeek leaves.                    *)
LEMMA Dropped ==
    ASSUME NEW s \in Seq(Nat), s # <<>>, Increasing(s)
    PROVE  /\ Tail(s) \in Seq(Nat) /\ Increasing(Tail(s))
           /\ ToSet(Tail(s)) = ToSet(s) \ {Head(s)}
           /\ Head(s) \in ToSet(s) /\ Head(s) \in Nat
           /\ \A x \in ToSet(s) : Head(s) <= x
           /\ Tail(s) = <<>> <=> Len(s) = 1
<1>1. /\ Head(s) = s[1] /\ Head(s) \in Nat /\ Tail(s) \in Seq(Nat) /\ Len(s) \in Nat \ {0}
      /\ Len(Tail(s)) = Len(s) - 1 /\ DOMAIN s = 1 .. Len(s) /\ DOMAIN Tail(s) = 1 .. Len(s) - 1
      /\ \A i \in 1 .. Len(s) - 1 : Tail(s)[i] = s[i + 1]
      /\ \A i \in 1 .. Len(s) : s[i] \in Nat
  BY HeadTailProperties, LenProperties, EmptySeq, ElementOfSeq
<1>2. Increasing(Tail(s))
  BY <1>1 DEF Increasing
<1>3. Head(s) \in ToSet(s)
  BY <1>1 DEF ToSet
<1>4. \A x \in ToSet(s) : Head(s) <= x
  BY <1>1 DEF ToSet, Increasing
<1>5. ASSUME NEW x \in ToSet(s), x # Head(s)
      PROVE  x \in ToSet(Tail(s))
  <2>1. PICK i \in 1 .. Len(s) : x = s[i]
    BY <1>1 DEF ToSet
  <2>2. i # 1 /\ i - 1 \in 1 .. Len(s) - 1 /\ Tail(s)[i - 1] = s[i]
    BY <1>1, <1>5, <2>1
  <2> QED BY <1>1, <2>1, <2>2, Zenon DEF ToSet
<1>6. ASSUME NEW x \in ToSet(Tail(s))
      PROVE  x \in ToSet(s) /\ x # Head(s)
  <2>1. PICK i \in 1 .. Len(s) - 1 : x = s[i + 1]
    BY <1>1 DEF ToSet
  <2> QED BY <1>1, <2>1 DEF ToSet, Increasing
<1>7. Tail(s) = <<>> <=> Len(s) = 1
  <2>1. Tail(s) # <<>> => Len(Tail(s)) # 0
    BY <1>1, EmptySeq
  <2>2. Tail(s) = <<>> => Len(Tail(s)) = 0
    BY EmptySeq, Zenon
  <2> QED BY <1>1, <2>1, <2>2
<1>8. ToSet(Tail(s)) = ToSet(s) \ {Head(s)}
  BY <1>5, <1>6, Zenon
<1> QED BY <1>1, <1>2, <1>3, <1>4, <1>7, <1>8, Zenon

(* A larger number is pushed.                                              *)
LEMMA PushedOn ==
    ASSUME NEW s \in Seq(Nat), NEW x \in Nat, Increasing(s), \A y \in ToSet(s) : y < x
    PROVE  /\ Append(s, x) \in Seq(Nat) /\ Increasing(Append(s, x))
           /\ ToSet(Append(s, x)) = ToSet(s) \cup {x}
           /\ Append(s, x) # <<>>
           /\ Head(Append(s, x)) = IF s = <<>> THEN x ELSE Head(s)
<1>1. /\ Append(s, x) \in Seq(Nat) /\ Len(s) \in Nat
      /\ Len(Append(s, x)) = Len(s) + 1 /\ DOMAIN s = 1 .. Len(s)
      /\ DOMAIN Append(s, x) = 1 .. Len(s) + 1
      /\ \A i \in 1 .. Len(s) : Append(s, x)[i] = s[i]
      /\ Append(s, x)[Len(s) + 1] = x
      /\ \A i \in 1 .. Len(s) : s[i] \in Nat
  BY AppendProperties, LenProperties, ElementOfSeq
<1>2. \A i \in 1 .. Len(s) : s[i] < x
  BY <1>1 DEF ToSet
<1>3. Increasing(Append(s, x))
  BY <1>1, <1>2 DEF Increasing
<1>4. ToSet(Append(s, x)) = ToSet(s) \cup {x}
  <2>1. ASSUME NEW y \in ToSet(Append(s, x)) PROVE y \in ToSet(s) \cup {x}
    BY <1>1 DEF ToSet
  <2>2. ASSUME NEW y \in ToSet(s) PROVE y \in ToSet(Append(s, x))
    BY <1>1 DEF ToSet
  <2>3. x \in ToSet(Append(s, x))
    BY <1>1 DEF ToSet
  <2> QED BY <2>1, <2>2, <2>3
<1>5. Append(s, x) # <<>> /\ Head(Append(s, x)) = IF s = <<>> THEN x ELSE Head(s)
  <2>1. Append(s, x) # <<>> /\ Head(Append(s, x)) = Append(s, x)[1]
    <3>1. ASSUME NEW t \in Seq(Nat), Len(t) > 0 PROVE t # <<>> /\ Head(t) = t[1]
      BY <3>1
    <3>2. Append(s, x) \in Seq(Nat) /\ Len(Append(s, x)) > 0
      BY <1>1
    <3> QED BY <3>1, <3>2, Zenon
  <2>2. CASE s = <<>>
    BY <1>1, <2>1, <2>2
  <2>3. CASE s # <<>>
    <3>1. Len(s) # 0
      BY <2>3, EmptySeq
    <3>2. 1 \in 1 .. Len(s) /\ Head(s) = s[1]
      BY <1>1, <2>3, <3>1
    <3> QED BY <1>1, <2>1, <2>3, <3>2
  <2> QED BY <2>2, <2>3
<1> QED BY <1>1, <1>3, <1>4, <1>5

(* A sequence has no elements if it is empty.                              *)
LEMMA NoElements == ToSet(<<>>) = {} /\ Increasing(<<>>)
  BY DEF ToSet, Increasing

(* What a call of a promise adds to those that were called.                *)
LEMMA Calls ==
    ASSUME NEW r \in Nat, NEW ok \in BOOLEAN, out \in Seq([req : Nat, ok : BOOLEAN]),
           out' = Promised(r, ok)
    PROVE  /\ out' \in Seq([req : Nat, ok : BOOLEAN])
           /\ Called(out') = Called(out) \cup {r}
           /\ Failed(out') = IF ok THEN Failed(out) ELSE Failed(out) \cup {r}
           /\ Answered(out') = IF ok THEN Answered(out) \cup {r} ELSE Answered(out)
           /\ PromisedOnce /\ r \notin Called(out) => PromisedOnce'
<1> DEFINE e == [req |-> r, ok |-> ok]
           n == Len(out) + 1
<1>0. e \in [req : Nat, ok : BOOLEAN] /\ e.req = r /\ e.ok = ok
  OBVIOUS
<1>1. /\ out' \in Seq([req : Nat, ok : BOOLEAN]) /\ Len(out) \in Nat
      /\ Len(out') = n /\ out'[n] = e
      /\ \A i \in 1 .. Len(out) : out'[i] = out[i]
  BY <1>0, AppendProperties, LenProperties DEF Promised
<1>2. /\ n \in 1 .. Len(out') /\ n \notin 1 .. Len(out)
      /\ 1 .. Len(out') = (1 .. Len(out)) \cup {n}
  BY <1>1
<1> HIDE DEF e, n
<1>3. \A i \in 1 .. Len(out') : IF i = n THEN out'[i].req = r /\ out'[i].ok = ok
                                          ELSE i \in 1 .. Len(out) /\ out'[i] = out[i]
  BY <1>0, <1>1, <1>2, Zenon
<1>4. Called(out') = Called(out) \cup {r}
  <2>1. ASSUME NEW x \in Called(out') PROVE x \in Called(out) \cup {r}
    BY <1>3 DEF Called
  <2>2. ASSUME NEW x \in Called(out) PROVE x \in Called(out')
    BY <1>1, <1>2 DEF Called
  <2>3. r \in Called(out')
    BY <1>2, <1>3 DEF Called
  <2> QED BY <2>1, <2>2, <2>3, Zenon
<1>5. Failed(out') = IF ok THEN Failed(out) ELSE Failed(out) \cup {r}
  <2>1. ASSUME NEW x \in Failed(out') PROVE x \in Failed(out) \/ (~ok /\ x = r)
    BY <1>3 DEF Failed
  <2>2. ASSUME NEW x \in Failed(out) PROVE x \in Failed(out')
    BY <1>1, <1>2 DEF Failed
  <2>3. ~ok => r \in Failed(out')
    BY <1>2, <1>3 DEF Failed
  <2> QED BY <2>1, <2>2, <2>3, Zenon
<1>6. Answered(out') = IF ok THEN Answered(out) \cup {r} ELSE Answered(out)
  <2>1. ASSUME NEW x \in Answered(out') PROVE x \in Answered(out) \/ (ok /\ x = r)
    BY <1>3 DEF Answered
  <2>2. ASSUME NEW x \in Answered(out) PROVE x \in Answered(out')
    BY <1>1, <1>2 DEF Answered
  <2>3. ok => r \in Answered(out')
    BY <1>2, <1>3, Zenon DEF Answered
  <2> QED BY <2>1, <2>2, <2>3, Zenon
<1>7. ASSUME PromisedOnce, r \notin Called(out) PROVE PromisedOnce'
  <2>1. \A i \in 1 .. Len(out) : out[i].req # r
    BY <1>7 DEF Called
  <2> QED BY <1>2, <1>3, <1>7, <2>1 DEF PromisedOnce
<1> QED BY <1>1, <1>4, <1>5, <1>6, <1>7

(* A promise was called either with an error or without.                   *)
LEMMA EitherWay ==
    ASSUME out \in Seq([req : Nat, ok : BOOLEAN])
    PROVE  Called(out) = Failed(out) \cup Answered(out)
  BY DEF Called, Failed, Answered

-----------------------------------------------------------------------------
(* A connection changes without its promises.                              *)
Quiet(x, y) ==
    /\ x.sent = y.sent /\ x.resps = y.resps /\ x.rd = y.rd
    /\ y.dead => x.dead
    /\ x.closing \/ x.respsDead => x.dead
    /\ x.dead => x.in = <<>>

(* Such a change keeps a connection within the invariant.                  *)
LEMMA QuietCxn ==
    ASSUME NEW x, NEW y, NEW o, CxnOK(y, o), Quiet(x, y)
    PROVE  CxnOK(x, o)
  BY DEF CxnOK, Quiet

(* So does a call of a promise of another connection, or of none.          *)
LEMMA OtherCxn ==
    ASSUME NEW y, CxnOK(y, out), NEW r \in Nat, r \notin ToSet(y.sent),
           NEW ok \in BOOLEAN, out \in Seq([req : Nat, ok : BOOLEAN]), out' = Promised(r, ok)
    PROVE  CxnOK(y, out')
<1>1. /\ Called(out') = Called(out) \cup {r}
      /\ Failed(out') = IF ok THEN Failed(out) ELSE Failed(out) \cup {r}
      /\ Answered(out') = IF ok THEN Answered(out) \cup {r} ELSE Answered(out)
  BY Calls
<1> QED BY <1>1 DEF CxnOK

(* One connection changes.                                                 *)
LEMMA OneCxn ==
    ASSUME cxns \in Seq(Cxns), NEW c \in 1 .. Len(cxns), NEW x \in Cxns,
           cxns' = [cxns EXCEPT ![c] = x]
    PROVE  /\ cxns' \in Seq(Cxns) /\ Len(cxns') = Len(cxns)
           /\ \A d \in 1 .. Len(cxns) : cxns'[d] = IF d = c THEN x ELSE cxns[d]
  BY ExceptSeq

(* The types of a connection.                                              *)
LEMMA CxnTypes ==
    ASSUME cxns \in Seq(Cxns), NEW c \in 1 .. Len(cxns)
    PROVE  /\ cxns[c] \in Cxns
           /\ cxns[c].sent \in Seq(Nat) /\ cxns[c].resps \in Seq(Nat)
           /\ ToSet(cxns[c].sent) \subseteq Nat /\ ToSet(cxns[c].resps) \subseteq Nat
<1>1. cxns[c] \in Cxns
  BY ElementOfSeq
<1>2. cxns[c].sent \in Seq(Nat) /\ cxns[c].resps \in Seq(Nat)
  BY <1>1 DEF Cxns
<1>3. ASSUME NEW s \in Seq(Nat) PROVE ToSet(s) \subseteq Nat
  BY LenProperties, ElementOfSeq DEF ToSet
<1> QED BY <1>1, <1>2, <1>3

(* The head of the ring of requests.                                       *)
LEMMA ReqIs ==
    ASSUME IInv, h.ph # "off"
    PROVE  /\ Req \in Nat /\ Req \in ToSet(reqs) /\ Req \in 1 .. Len(kind)
           /\ \A r \in ToSet(reqs) : Req <= r
           /\ kind[Req] \in Kinds
<1>1. reqs \in Seq(Nat) /\ reqs # <<>> /\ Increasing(reqs) /\ ToSet(reqs) \subseteq 1 .. Len(kind)
  BY DEF IInv, Types, Queued
<1>2. Req \in Nat /\ Req \in ToSet(reqs) /\ \A r \in ToSet(reqs) : Req <= r
  BY <1>1, Dropped DEF Req
<1>3. Req \in 1 .. Len(kind)
  BY <1>1, <1>2
<1>4. kind[Req] \in Kinds
  BY <1>3, ElementOfSeq DEF IInv, Types
<1> QED BY <1>2, <1>3, <1>4

(* The ring of requests stays; handleReqs goes on with its head, or gives  *)
(* the connection up.                                                      *)
LEMMA QuietStep ==
    ASSUME IInv, UNCHANGED <<reqs, kind, out>>,
           h' \in Handlers, h'.ph \in Connected => h'.c \in 1 .. Len(cxns),
           cxns' \in Seq(Cxns), cur' \in [Kinds -> 0 .. Len(cxns)], Len(cxns') = Len(cxns),
           \A c \in 1 .. Len(cxns) : Quiet(cxns'[c], cxns[c]),
           \/ h'.ph = h.ph /\ h'.c = h.c
           \/ h.ph \in Early /\ h'.ph \in Early
           \/ h.ph = "kill" /\ h'.ph = "next"
    PROVE  IInv'
<1>1. Types'
  BY DEF IInv, Types
<1>2. Queued'
  BY DEF IInv, Queued, Req, Early
<1>3. Written'
  <2>1. \A c \in 1 .. Len(cxns) : cxns'[c].sent = cxns[c].sent /\ cxns'[c].resps = cxns[c].resps
    BY DEF Quiet
  <2>2. h.ph = "wait" => h.c \in 1 .. Len(cxns)
    BY DEF IInv, Types, Connected
  <2> QED BY <2>1, <2>2, Zenon DEF IInv, Written, Older, Apart, Waiting, Req, Early
<1>4. \A c \in 1 .. Len(cxns') : CxnOK(cxns'[c], out')
  BY QuietCxn DEF IInv
<1> QED BY <1>1, <1>2, <1>3, <1>4 DEF IInv, PromisedOnce

(* handleReqs calls the promise of a request it has not written.           *)
LEMMA PromiseStep ==
    ASSUME IInv, UNCHANGED <<reqs, kind>>, NEW ok \in BOOLEAN, out' = Promised(Req, ok),
           h.ph \in Early, h' \in Handlers, h'.ph \in {"next", "kill"},
           h'.ph \in Connected => h'.c \in 1 .. Len(cxns),
           cxns' \in Seq(Cxns), cur' \in [Kinds -> 0 .. Len(cxns)], Len(cxns') = Len(cxns),
           \A c \in 1 .. Len(cxns) : Quiet(cxns'[c], cxns[c])
    PROVE  IInv'
<1>0. /\ Req \in Nat /\ Req \in ToSet(reqs) /\ Req \in 1 .. Len(kind)
      /\ out \in Seq([req : Nat, ok : BOOLEAN])
      /\ Req \notin Called(out)
      /\ \A c \in 1 .. Len(cxns) : Req \notin ToSet(cxns[c].sent)
  <2>1. /\ Req \in Nat /\ Req \in ToSet(reqs) /\ Req \in 1 .. Len(kind)
    BY ReqIs DEF Early
  <2>2. Req \notin Called(out)
    BY <2>1 DEF IInv, Queued, Early
  <2>3. \A c \in 1 .. Len(cxns) : Req \notin ToSet(cxns[c].sent)
    BY <2>1 DEF IInv, Written, Older, Apart, Waiting, Early
  <2> QED BY <2>1, <2>2, <2>3 DEF IInv, Types
<1>1. /\ out' \in Seq([req : Nat, ok : BOOLEAN]) /\ Called(out') = Called(out) \cup {Req}
      /\ PromisedOnce'
  BY <1>0, Calls DEF IInv
<1>2. Types'
  BY <1>1 DEF IInv, Types
<1>3. Queued'
  BY <1>1 DEF IInv, Queued, Req, Early
<1>4. Written'
  <2>1. \A c \in 1 .. Len(cxns) : cxns'[c].sent = cxns[c].sent /\ cxns'[c].resps = cxns[c].resps
    BY DEF Quiet
  <2> QED BY <1>1, <2>1, Zenon DEF IInv, Written, Older, Apart, Waiting, Req, Early
<1>5. \A c \in 1 .. Len(cxns') : CxnOK(cxns'[c], out')
  <2>1. \A c \in 1 .. Len(cxns) : CxnOK(cxns[c], out')
    BY <1>0, OtherCxn DEF IInv
  <2> QED BY <2>1, QuietCxn
<1> QED BY <1>0, <1>1, <1>2, <1>3, <1>4, <1>5 DEF IInv

-----------------------------------------------------------------------------
(* The first state satisfies the invariant.                                *)
LEMMA InitIInv == Init => IInv
<1> SUFFICES ASSUME Init PROVE IInv
  OBVIOUS
<1>1. /\ reqs = <<>> /\ h \in Handlers /\ h.ph = "off" /\ cur = [k \in Kinds |-> 0]
      /\ cxns = <<>> /\ kind = <<>> /\ out = <<>>
      /\ Len(reqs) = 0 /\ Len(cxns) = 0 /\ Len(kind) = 0 /\ Len(out) = 0
  BY EmptySeq DEF Init, Handlers
<1>2. Types
  BY <1>1 DEF Types, Connected
<1>3. Queued /\ Written
  BY <1>1, NoElements DEF Queued, Written, Older, Apart, Waiting
<1>4. Called(out) = {}
  BY <1>1 DEF Called
<1> QED BY <1>1, <1>2, <1>3, <1>4 DEF IInv, PromisedOnce

(* do: the request is queued, or refused because the broker is dead.       *)
LEMMA DoIInv ==
    ASSUME IInv, NEW k \in Kinds, Do(k)
    PROVE  IInv'
<1> DEFINE n == Len(kind) + 1
<1>0. /\ reqs \in Seq(Nat) /\ kind \in Seq(Kinds) /\ h \in Handlers /\ Increasing(reqs)
      /\ out \in Seq([req : Nat, ok : BOOLEAN]) /\ Len(kind) \in Nat
      /\ ToSet(reqs) \subseteq 1 .. Len(kind) /\ Called(out) \subseteq 1 .. Len(kind)
      /\ UNCHANGED <<cur, cxns>>
  BY LenProperties DEF IInv, Types, Queued, Do
<1>1. kind' \in Seq(Kinds) /\ Len(kind') = n
  BY <1>0, AppendProperties DEF Do
<1>2. n \in Nat /\ n \notin ToSet(reqs) /\ n \notin Called(out) /\ \A r \in ToSet(reqs) : r < n
  BY <1>0
<1>3. \A c \in 1 .. Len(cxns) : \A s \in ToSet(cxns[c].sent) : s < n /\ s \in 1 .. Len(kind')
  <2> SUFFICES ASSUME NEW c \in 1 .. Len(cxns), NEW s \in ToSet(cxns[c].sent)
               PROVE  s < n /\ s \in 1 .. Len(kind')
    OBVIOUS
  <2>1. s \in Nat
    BY CxnTypes DEF IInv, Types
  <2>2. s \in 1 .. Len(kind)
    BY DEF IInv, Written, Older, Apart, Waiting
  <2> QED BY <1>0, <1>1, <2>1, <2>2
<1> HIDE DEF n
<1>4. CASE b.dead
  <2>1. out' = Promised(n, FALSE) /\ UNCHANGED <<reqs, h>>
    BY <1>4 DEF Do, n
  <2>2. /\ out' \in Seq([req : Nat, ok : BOOLEAN]) /\ Called(out') = Called(out) \cup {n}
        /\ PromisedOnce'
    BY <1>0, <1>2, <2>1, Calls, Zenon DEF IInv
  <2>3. Types'
    BY <1>0, <1>1, <2>1, <2>2, Zenon DEF IInv, Types
  <2>4. Queued'
    <3>1. ToSet(reqs') \subseteq 1 .. Len(kind')
      BY <1>0, <1>1, <2>1 DEF n
    <3> QED BY <1>2, <2>1, <2>2, <3>1, Zenon DEF IInv, Queued, Req
  <2>5. Written'
    BY <1>0, <1>3, <2>1, <2>2, Zenon DEF IInv, Written, Older, Apart, Waiting, Req
  <2>6. \A c \in 1 .. Len(cxns') : CxnOK(cxns'[c], out')
    <3>1. \A c \in 1 .. Len(cxns) : n \notin ToSet(cxns[c].sent)
      BY <1>2, <1>3
    <3> QED BY <1>0, <1>2, <2>1, <3>1, OtherCxn, Zenon DEF IInv
  <2> QED BY <1>0, <1>1, <2>2, <2>3, <2>4, <2>5, <2>6 DEF IInv, n
<1>5. CASE ~b.dead
  <2>1. /\ reqs' = Append(reqs, n) /\ UNCHANGED out
        /\ h' = IF reqs = <<>> THEN [Off EXCEPT !.ph = "load"] ELSE h
    BY <1>5 DEF Do, n
  <2>2. /\ reqs' \in Seq(Nat) /\ Increasing(reqs') /\ ToSet(reqs') = ToSet(reqs) \cup {n}
        /\ reqs' # <<>> /\ Req' = IF reqs = <<>> THEN n ELSE Req
    BY <1>0, <1>2, <2>1, PushedOn DEF Req
  <2>3. /\ h' \in Handlers /\ h'.ph # "off"
        /\ reqs # <<>> => h' = h
        /\ reqs = <<>> => h'.ph = "load"
    BY <1>0, <2>1, Zenon DEF IInv, Queued, Off, Handlers, Early
  <2>4. Types'
    BY <1>0, <1>1, <2>1, <2>2, <2>3 DEF IInv, Types, Connected
  <2>5. Queued'
    BY <1>0, <1>1, <1>2, <2>1, <2>2, <2>3 DEF IInv, Queued, n
  <2>6. Written'
    <3>1. reqs = <<>> => ToSet(reqs) = {}
      BY NoElements
    <3>2. h.ph = "wait" => reqs # <<>>
      BY DEF IInv, Queued
    <3>3. ASSUME NEW c \in 1 .. Len(cxns), NEW s \in ToSet(cxns[c].sent)
          PROVE  /\ \A r \in ToSet(reqs') :
                       s < r \/ (s = r /\ r = Req' /\ h'.ph \in {"wait", "next"})
                 /\ s \in Called(out) \/ s \in ToSet(cxns[c].resps) \/ (h'.ph = "wait" /\ s = Req')
      <4>1. CASE reqs = <<>>
        BY <1>3, <2>2, <3>1, <3>2, <4>1 DEF IInv, Written, Older, Apart, Waiting
      <4>2. CASE reqs # <<>>
        <5>1. h' = h /\ Req' = Req
          BY <2>2, <2>3, <4>2
        <5> QED BY <1>3, <2>2, <5>1, Zenon DEF IInv, Written, Older, Apart, Waiting
      <4> QED BY <4>1, <4>2
    <3>4. h'.ph = "wait" => h.ph = "wait" /\ h'.c = h.c /\ Req' = Req
      BY <2>2, <2>3
    <3> QED BY <1>0, <1>3, <2>1, <3>3, <3>4, Zenon DEF IInv, Written, Older, Apart, Waiting
  <2>7. \A c \in 1 .. Len(cxns') : CxnOK(cxns'[c], out')
    BY <1>0, <2>1 DEF IInv
  <2> QED BY <1>0, <1>1, <2>1, <2>4, <2>5, <2>6, <2>7 DEF IInv, PromisedOnce, n
<1> QED BY <1>4, <1>5

(* The next request.                                                       *)
LEMMA NextReqIInv ==
    ASSUME IInv, NextReq
    PROVE  IInv'
<1>0. /\ reqs \in Seq(Nat) /\ reqs # <<>> /\ Increasing(reqs) /\ h.ph = "next"
      /\ UNCHANGED <<cur, cxns, kind, out>> /\ reqs' = Tail(reqs)
  BY DEF IInv, Types, Queued, NextReq
<1>1. /\ reqs' \in Seq(Nat) /\ Increasing(reqs') /\ ToSet(reqs') = ToSet(reqs) \ {Req}
      /\ reqs' = <<>> <=> Len(reqs) = 1
  BY <1>0, Dropped DEF Req
<1>2. h' \in Handlers /\ h'.ph \in {"off", "load", "dead"} /\ (h'.ph = "off" <=> Len(reqs) = 1)
  BY Zenon DEF NextReq, HandleNext, Off, Handlers, Early
<1>3. Types'
  BY <1>0, <1>1, <1>2 DEF IInv, Types, Connected
<1>4. Queued'
  BY <1>0, <1>1, <1>2 DEF IInv, Queued
<1>5. Written'
  BY <1>0, <1>1, <1>2, Zenon DEF IInv, Written, Older, Apart, Waiting
<1>6. \A c \in 1 .. Len(cxns') : CxnOK(cxns'[c], out')
  BY <1>0 DEF IInv
<1> QED BY <1>0, <1>3, <1>4, <1>5, <1>6 DEF IInv, PromisedOnce

-----------------------------------------------------------------------------
(* A connection that stays as it is.                                       *)
LEMMA SameCxns ==
    ASSUME IInv, UNCHANGED cxns
    PROVE  /\ cxns' \in Seq(Cxns) /\ Len(cxns') = Len(cxns)
           /\ \A c \in 1 .. Len(cxns) : Quiet(cxns'[c], cxns[c])
  BY Zenon DEF IInv, Types, CxnOK, Quiet

(* One connection changes without its promises.                            *)
LEMMA OneQuiet ==
    ASSUME IInv, NEW c \in 1 .. Len(cxns), NEW x \in Cxns, Quiet(x, cxns[c]),
           cxns' = [cxns EXCEPT ![c] = x]
    PROVE  /\ cxns' \in Seq(Cxns) /\ Len(cxns') = Len(cxns)
           /\ \A d \in 1 .. Len(cxns) : Quiet(cxns'[d], cxns[d])
<1>1. cxns \in Seq(Cxns) /\ \A d \in 1 .. Len(cxns) : Quiet(cxns[d], cxns[d])
  BY DEF IInv, Types, CxnOK, Quiet
<1> QED BY <1>1, OneCxn

(* A connection dies.                                                      *)
LEMMA DiedCxn ==
    ASSUME IInv, NEW c \in 1 .. Len(cxns)
    PROVE  /\ Died(cxns, c) \in Seq(Cxns) /\ Len(Died(cxns, c)) = Len(cxns)
           /\ \A d \in 1 .. Len(cxns) : Quiet(Died(cxns, c)[d], cxns[d])
           /\ \A d \in 1 .. Len(cxns) : d # c => Died(cxns, c)[d] = cxns[d]
           /\ Died(cxns, c)[c].dead
<1>0. /\ cxns \in Seq(Cxns) /\ cxns[c] \in Cxns
      /\ \A d \in 1 .. Len(cxns) : Quiet(cxns[d], cxns[d])
  BY CxnTypes DEF IInv, Types, CxnOK, Quiet
<1>1. CASE cxns[c].dead
  BY <1>0, <1>1 DEF Died
<1>2. CASE ~cxns[c].dead
  <2> DEFINE x == [cxns[c] EXCEPT !.dead = TRUE, !.closing = TRUE, !.in = <<>>]
             n == [cxns EXCEPT ![c] = x]
  <2>1. x \in Cxns /\ Quiet(x, cxns[c]) /\ x.dead
    <3>1. x \in Cxns
      <4>1. <<>> \in Seq(Nat)
        OBVIOUS
      <4> QED BY <1>0, <4>1, Zenon DEF Cxns
    <3>2. /\ x.sent = cxns[c].sent /\ x.resps = cxns[c].resps /\ x.rd = cxns[c].rd
          /\ x.dead /\ x.in = <<>>
      BY <1>0 DEF Cxns
    <3> QED BY <3>1, <3>2 DEF Quiet
  <2>2. Died(cxns, c) = n
    BY <1>0, <1>2, LenProperties, Zenon DEF Died, Cxns
  <2>3. n \in Seq(Cxns) /\ Len(n) = Len(cxns)
        /\ \A d \in 1 .. Len(cxns) : n[d] = IF d = c THEN x ELSE cxns[d]
    <3> HIDE DEF x
    <3> QED BY <1>0, <2>1, ExceptSeq
  <2> HIDE DEF x, n
  <2> QED BY <1>0, <2>1, <2>2, <2>3
<1> QED BY <1>1, <1>2

(* handleReqs before a request is written.                                 *)
LEMMA EarlyIInv ==
    ASSUME IInv, \/ BrokerDead \/ LoadConnection \/ DialFails \/ StoreConnection
                 \/ Reauth \/ Reauthed \/ ReauthFails \/ NotWritten \/ WriteFails
                 \/ KillAfterWrite
    PROVE  IInv'
<1>0. /\ h \in Handlers
      /\ h.ph \in Connected => h.c \in 1 .. Len(cxns)
      /\ cur \in [Kinds -> 0 .. Len(cxns)] /\ cxns \in Seq(Cxns)
  BY DEF IInv, Types
<1>1. CASE BrokerDead
  <2>1. h.ph \in Early /\ h' \in Handlers /\ h'.ph = "next" /\ h'.ph \notin Connected
    BY <1>1, Zenon DEF BrokerDead, HandleNext, Off, Handlers, Early, Connected
  <2>2. UNCHANGED <<reqs, kind, cur, cxns>> /\ out' = Promised(Req, FALSE)
    BY <1>1 DEF BrokerDead
  <2> QED BY <1>0, <2>1, <2>2, SameCxns, PromiseStep, Zenon
<1>2. CASE LoadConnection
  <2>1. h.ph = "load" /\ UNCHANGED <<reqs, kind, cur, cxns, out>>
    BY <1>2 DEF LoadConnection
  <2>2. cur[kind[Req]] \in 0 .. Len(cxns)
    BY <1>0, <2>1, ReqIs
  <2>3. h' \in Handlers /\ h'.ph \in {"ready", "dial"} /\ (h'.ph = "ready" => h'.c \in 1 .. Len(cxns))
    <3> DEFINE c == cur[kind[Req]]
    <3>1. \/ h' = [h EXCEPT !.ph = "ready", !.c = c] /\ c # 0
          \/ h' = [h EXCEPT !.ph = "dial"]
      BY <1>2 DEF LoadConnection
    <3>2. c \in Nat /\ (c # 0 => c \in 1 .. Len(cxns))
      BY <1>0, <2>2, LenProperties
    <3> HIDE DEF c
    <3> QED BY <1>0, <3>1, <3>2, Zenon DEF Handlers, Early
  <2>4. h.ph \in Early /\ h'.ph \in Early /\ (h'.ph \in Connected => h'.c \in 1 .. Len(cxns))
    BY <2>1, <2>3 DEF Early, Connected
  <2> QED BY <1>0, <2>1, <2>3, <2>4, SameCxns, QuietStep
<1>3. CASE DialFails
  <2>1. h.ph \in Early /\ UNCHANGED <<reqs, kind, cur, cxns>>
    BY <1>3 DEF DialFails, Early
  <2>2. CASE h' = [h EXCEPT !.ph = "load", !.retried = TRUE] /\ UNCHANGED out
    <3>1. h' \in Handlers /\ h'.ph \in Early /\ h'.ph \notin Connected
      BY <1>0, <2>2, Zenon DEF Handlers, Early, Connected
    <3> QED BY <1>0, <2>1, <2>2, <3>1, SameCxns, QuietStep
  <2>3. CASE out' = Promised(Req, FALSE) /\ HandleNext("next")
    <3>1. h' \in Handlers /\ h'.ph = "next" /\ h'.ph \notin Connected
      BY <2>3, Zenon DEF HandleNext, Off, Handlers, Connected
    <3> QED BY <1>0, <2>1, <2>3, <3>1, SameCxns, PromiseStep, Zenon
  <2> QED BY <1>3, <2>2, <2>3, Zenon DEF DialFails
<1>4. CASE StoreConnection
  <2>1. h.ph = "store" /\ UNCHANGED <<reqs, kind, cxns, out>> /\ h' = [h EXCEPT !.ph = "ready"]
        /\ cur' = [cur EXCEPT ![kind[Req]] = h.c]
    BY <1>4 DEF StoreConnection
  <2>2. h' \in Handlers /\ h.ph \in Early /\ h'.ph \in Early /\ h.ph \in Connected /\ h'.c = h.c
    BY <1>0, <2>1 DEF Handlers, Early, Connected
  <2>3. cur' \in [Kinds -> 0 .. Len(cxns)]
    <3>1. h.c \in 0 .. Len(cxns)
      BY <1>0, <2>2
    <3> QED BY <1>0, <2>1, <3>1, Zenon
  <2> QED BY <1>0, <2>1, <2>2, <2>3, SameCxns, QuietStep
<1>5. CASE Reauth
  <2> DEFINE x == [cxns[h.c] EXCEPT !.wire = Append(@, Sasl)]
  <2>1. h.ph = "ready" /\ UNCHANGED <<reqs, kind, cur, out>> /\ h' = [h EXCEPT !.ph = "sasl"]
        /\ cxns' = [cxns EXCEPT ![h.c] = x]
    BY <1>5 DEF Reauth
  <2>2. h' \in Handlers /\ h.ph \in Early /\ h'.ph \in Early /\ h.ph \in Connected /\ h'.c = h.c
    BY <1>0, <2>1, Zenon DEF Handlers, Early, Connected
  <2>3. cxns[h.c] \in Cxns /\ CxnOK(cxns[h.c], out)
    BY <1>0, <2>2, CxnTypes DEF IInv
  <2>4. x \in Cxns /\ Quiet(x, cxns[h.c])
    <3>1. Append(cxns[h.c].wire, Sasl) \in Seq(Nat)
      BY <2>3, AppendProperties DEF Cxns, Sasl
    <3> QED BY <2>3, <3>1, Zenon DEF Cxns, Quiet, CxnOK
  <2> HIDE DEF x
  <2> QED BY <1>0, <2>1, <2>2, <2>4, OneQuiet, QuietStep, Zenon
<1>6. CASE Reauthed
  <2> DEFINE x == [cxns[h.c] EXCEPT !.in = Tail(@)]
  <2>1. h.ph = "sasl" /\ UNCHANGED <<reqs, kind, cur, out>> /\ h' = [h EXCEPT !.ph = "ready"]
        /\ cxns' = [cxns EXCEPT ![h.c] = x] /\ cxns[h.c].in # <<>>
    BY <1>6 DEF Reauthed
  <2>2. h' \in Handlers /\ h.ph \in Early /\ h'.ph \in Early /\ h.ph \in Connected /\ h'.c = h.c
    BY <1>0, <2>1 DEF Handlers, Early, Connected
  <2>3. cxns[h.c] \in Cxns /\ CxnOK(cxns[h.c], out)
    BY <1>0, <2>2, CxnTypes DEF IInv
  <2>4. x \in Cxns /\ Quiet(x, cxns[h.c])
    <3>1. Tail(cxns[h.c].in) \in Seq(Nat)
      BY <2>1, <2>3, HeadTailProperties DEF Cxns
    <3> QED BY <2>1, <2>3, <3>1, Zenon DEF Cxns, Quiet, CxnOK
  <2> HIDE DEF x
  <2> QED BY <1>0, <2>1, <2>2, <2>4, OneQuiet, QuietStep, Zenon
<1>7. CASE ReauthFails
  <2>1. h.ph \in Early /\ h.ph \in Connected /\ UNCHANGED <<reqs, kind, cur>>
        /\ cxns' = Died(cxns, h.c)
    BY <1>7 DEF ReauthFails, Early, Connected
  <2>2. CASE h' = [h EXCEPT !.ph = "load", !.retried = TRUE] /\ UNCHANGED out
    <3>1. h' \in Handlers /\ h'.ph \in Early /\ h'.ph \notin Connected
      BY <1>0, <2>2, Zenon DEF Handlers, Early, Connected
    <3> QED BY <1>0, <2>1, <2>2, <3>1, DiedCxn, QuietStep
  <2>3. CASE out' = Promised(Req, FALSE) /\ HandleNext("next")
    <3>1. h' \in Handlers /\ h'.ph = "next" /\ h'.ph \notin Connected
      BY <2>3, Zenon DEF HandleNext, Off, Handlers, Connected
    <3> QED BY <1>0, <2>1, <2>3, <3>1, DiedCxn, PromiseStep, Zenon
  <2> QED BY <1>7, <2>2, <2>3, Zenon DEF ReauthFails
<1>8. CASE NotWritten
  <2>1. h.ph \in Early /\ h' \in Handlers /\ h'.ph = "next" /\ h'.ph \notin Connected
    BY <1>8, Zenon DEF NotWritten, HandleNext, Off, Handlers, Early, Connected
  <2>2. UNCHANGED <<reqs, kind, cur, cxns>> /\ out' = Promised(Req, FALSE)
    BY <1>8 DEF NotWritten
  <2> QED BY <1>0, <2>1, <2>2, SameCxns, PromiseStep, Zenon
<1>9. CASE WriteFails
  <2>1. UNCHANGED <<reqs, kind, cur, cxns>> /\ out' = Promised(Req, FALSE)
        /\ h.ph = "ready" /\ h' = [h EXCEPT !.ph = "kill"]
    BY <1>9 DEF WriteFails, AfterWriteErr
  <2>2. h.ph \in Early /\ h.ph \in Connected /\ h' \in Handlers /\ h'.ph = "kill" /\ h'.c = h.c
    BY <1>0, <2>1 DEF Handlers, Early, Connected
  <2> QED BY <1>0, <2>1, <2>2, SameCxns, PromiseStep, Zenon
<1>10. CASE KillAfterWrite
  <2>1. h.ph = "kill" /\ h.ph \in Connected /\ h' \in Handlers /\ h'.ph = "next" /\ h'.ph \notin Connected
    BY <1>10, Zenon DEF KillAfterWrite, HandleNext, Off, Handlers, Connected
  <2>2. UNCHANGED <<reqs, kind, cur, out>> /\ cxns' = Died(cxns, h.c)
    BY <1>10 DEF KillAfterWrite
  <2> QED BY <1>0, <2>1, <2>2, DiedCxn, QuietStep
<1> QED BY <1>1, <1>2, <1>3, <1>4, <1>5, <1>6, <1>7, <1>8, <1>9, <1>10

(* A connection is opened.                                                 *)
LEMMA DialIInv ==
    ASSUME IInv, Dial
    PROVE  IInv'
<1>0. /\ h \in Handlers /\ h.ph = "dial" /\ cxns \in Seq(Cxns) /\ Len(cxns) \in Nat
      /\ cxns' = Append(cxns, NewCxn) /\ UNCHANGED <<reqs, cur, kind, out>>
      /\ h' = [h EXCEPT !.ph = "store", !.c = Len(cxns) + 1]
  BY LenProperties DEF IInv, Types, Dial
<1>1. NewCxn \in Cxns
  BY DEF NewCxn, Cxns
<1>2. /\ cxns' \in Seq(Cxns) /\ Len(cxns') = Len(cxns) + 1
      /\ \A c \in 1 .. Len(cxns) : cxns'[c] = cxns[c]
      /\ cxns'[Len(cxns) + 1] = NewCxn
  BY <1>0, <1>1, AppendProperties
<1>3. h' \in Handlers /\ h'.ph = "store" /\ h'.c = Len(cxns) + 1
  <2>1. Len(cxns) + 1 \in Nat
    BY <1>0
  <2> QED BY <1>0, <2>1, Zenon DEF Handlers, Early
<1>4. \A c \in 1 .. Len(cxns') : c \in 1 .. Len(cxns) \/ cxns'[c] = NewCxn
  BY <1>0, <1>2
<1>5. ToSet(NewCxn.sent) = {} /\ NewCxn.sent = <<>> /\ NewCxn.resps = <<>>
  BY NoElements DEF NewCxn
<1>6. Types'
  <2>1. cur' \in [Kinds -> 0 .. Len(cxns')]
    <3>1. 0 .. Len(cxns) \subseteq 0 .. Len(cxns')
      BY <1>0, <1>2
    <3>2. cur \in [Kinds -> 0 .. Len(cxns)]
      BY DEF IInv, Types
    <3> QED BY <1>0, <3>1, <3>2
  <2>2. h'.c \in 1 .. Len(cxns')
    BY <1>0, <1>2, <1>3
  <2> QED BY <1>0, <1>2, <1>3, <2>1, <2>2 DEF IInv, Types
<1>7. Queued'
  BY <1>0, <1>3 DEF IInv, Queued, Req
<1>8. Written'
  <2>1. Older'
    BY <1>0, <1>2, <1>3, <1>4, <1>5, Zenon DEF IInv, Written, Older, Req
  <2>2. Apart'
    BY <1>2, <1>4, <1>5, Zenon DEF IInv, Written, Apart
  <2> QED BY <1>3, <2>1, <2>2 DEF Written, Waiting
<1>9. \A c \in 1 .. Len(cxns') : CxnOK(cxns'[c], out')
  <2>1. CxnOK(NewCxn, out)
    BY NoElements DEF CxnOK, NewCxn
  <2> QED BY <1>0, <1>2, <1>4, <2>1 DEF IInv
<1> QED BY <1>0, <1>6, <1>7, <1>8, <1>9 DEF IInv, PromisedOnce

(* A request is written; without acks its promise is called at once.       *)
LEMMA WriteRequestIInv ==
    ASSUME IInv, WriteRequest
    PROVE  IInv'
<1>0. /\ h \in Handlers /\ h.ph = "ready" /\ h.ph \in Early /\ h.c \in 1 .. Len(cxns)
      /\ cxns \in Seq(Cxns) /\ cur \in [Kinds -> 0 .. Len(cxns)] /\ UNCHANGED <<reqs, cur, kind>>
  BY DEF IInv, Types, WriteRequest, Connected, Early
<1>1. CASE kind[Req] = NoAcks
  <2>1. h' \in Handlers /\ h'.ph = "next" /\ h'.ph \notin Connected
    <3>1. HandleNext("next")
      BY <1>1 DEF WriteRequest
    <3> QED BY <3>1, Zenon DEF HandleNext, Off, Handlers, Connected
  <2>2. UNCHANGED cxns /\ out' = Promised(Req, TRUE)
    BY <1>1 DEF WriteRequest
  <2> QED BY <1>0, <2>1, <2>2, SameCxns, PromiseStep, Zenon
<1>2. CASE kind[Req] # NoAcks
  <2> DEFINE y == cxns[h.c]
             x == [y EXCEPT !.sent = Append(@, Req), !.wire = Append(@, Req)]
  <2>1. /\ Req \in Nat /\ Req \in ToSet(reqs) /\ Req \in 1 .. Len(kind)
        /\ \A r \in ToSet(reqs) : Req <= r
    BY <1>0, ReqIs
  <2>2. y \in Cxns /\ y.sent \in Seq(Nat) /\ ToSet(y.sent) \subseteq Nat /\ CxnOK(y, out)
    BY <1>0, CxnTypes DEF IInv
  <2>3. Req \notin Called(out) /\ Req \notin Failed(out) /\ Req \notin Answered(out)
    <3>1. Req \notin Called(out)
      BY <1>0, <2>1 DEF IInv, Queued
    <3> QED BY <3>1, EitherWay DEF IInv, Types
  <2>4. \A c \in 1 .. Len(cxns) : \A s \in ToSet(cxns[c].sent) : s < Req
    BY <1>0, <2>1, Zenon DEF IInv, Written, Older, Apart, Waiting
  <2>5. /\ Append(y.sent, Req) \in Seq(Nat) /\ Increasing(Append(y.sent, Req))
        /\ ToSet(Append(y.sent, Req)) = ToSet(y.sent) \cup {Req}
    BY <1>0, <2>1, <2>2, <2>4, PushedOn DEF CxnOK
  <2>6. cxns' = [cxns EXCEPT ![h.c] = x] /\ h' = [h EXCEPT !.ph = "wait"] /\ UNCHANGED out
    <3>1. /\ cxns' = [cxns EXCEPT ![h.c].sent = Append(@, Req), ![h.c].wire = Append(@, Req)]
          /\ h' = [h EXCEPT !.ph = "wait"] /\ UNCHANGED out
      BY <1>2 DEF WriteRequest
    <3> QED BY <1>0, <2>2, <3>1, LenProperties, Zenon DEF Cxns
  <2>7. x \in Cxns
    <3>1. Append(y.wire, Req) \in Seq(Nat)
      BY <2>1, <2>2, AppendProperties DEF Cxns
    <3> QED BY <2>2, <2>5, <3>1, Zenon DEF Cxns
  <2>8. /\ x.sent = Append(y.sent, Req) /\ x.resps = y.resps /\ x.rd = y.rd /\ x.dead = y.dead
        /\ x.closing = y.closing /\ x.respsDead = y.respsDead /\ x.in = y.in
    BY <2>2 DEF Cxns
  <2> HIDE DEF x
  <2>9. /\ cxns' \in Seq(Cxns) /\ Len(cxns') = Len(cxns)
        /\ \A d \in 1 .. Len(cxns) : cxns'[d] = IF d = h.c THEN x ELSE cxns[d]
    BY <1>0, <2>6, <2>7, OneCxn
  <2>10. h' \in Handlers /\ h'.ph = "wait" /\ h'.c = h.c
    BY <1>0, <2>6 DEF Handlers
  <2>11. Types'
    BY <1>0, <2>6, <2>9, <2>10 DEF IInv, Types
  <2>12. Queued'
    BY <1>0, <2>3, <2>6, <2>10 DEF IInv, Queued, Req
  <2>13. CxnOK(x, out)
    <3>1. \A r \in ToSet(x.sent) : r \in Failed(out) => x.dead \/ x.rd = "kill"
      BY <2>2, <2>3, <2>5, <2>8 DEF CxnOK
    <3>2. \A r, s \in ToSet(x.sent) : r < s /\ s \in Answered(out) => r \in Answered(out)
      <4>1. \A s \in ToSet(y.sent) : ~(Req < s)
        BY <1>0, <2>1, <2>2, <2>4
      <4> QED BY <2>2, <2>3, <2>5, <2>8, <4>1 DEF CxnOK
    <3> QED BY <2>2, <2>5, <2>8, <3>1, <3>2 DEF CxnOK
  <2>14. Written'
    <3>1. \A c \in 1 .. Len(cxns) : Req \notin ToSet(cxns[c].sent)
      BY <2>1, <2>4
    <3>2. ToSet(cxns[h.c].resps) \subseteq ToSet(cxns[h.c].sent)
      BY <2>2 DEF CxnOK
    <3>3. \A c \in 1 .. Len(cxns) :
             /\ ToSet(cxns'[c].sent) = IF c = h.c THEN ToSet(cxns[c].sent) \cup {Req}
                                                  ELSE ToSet(cxns[c].sent)
             /\ cxns'[c].resps = cxns[c].resps
      BY <2>5, <2>8, <2>9, Zenon
    <3>4. Older'
      <4>1. ASSUME NEW c \in 1 .. Len(cxns), NEW s \in ToSet(cxns'[c].sent)
            PROVE  /\ s \in 1 .. Len(kind)
                   /\ \A r \in ToSet(reqs) : s < r \/ (s = r /\ r = Req)
                   /\ s \in Called(out) \/ s \in ToSet(cxns[c].resps) \/ s = Req
        <5>1. CASE s \in ToSet(cxns[c].sent)
          BY <1>0, <5>1 DEF IInv, Written, Older
        <5>2. CASE s = Req
          BY <2>1, <5>2
        <5> QED BY <3>3, <5>1, <5>2, Zenon
      <4> QED BY <1>0, <2>6, <2>9, <2>10, <3>3, <4>1, Zenon DEF Older, Req
    <3>5. Apart'
      <4> SUFFICES ASSUME NEW c \in 1 .. Len(cxns), NEW d \in 1 .. Len(cxns), c # d,
                          NEW s \in ToSet(cxns'[c].sent), s \in ToSet(cxns'[d].sent)
                   PROVE  FALSE
        BY <2>9, Zenon DEF Apart
      <4>1. c # h.c \/ d # h.c
        OBVIOUS
      <4>2. s # Req
        BY <3>1, <3>3, <4>1, Zenon
      <4>3. s \in ToSet(cxns[c].sent) \cap ToSet(cxns[d].sent)
        BY <3>3, <4>2, Zenon
      <4> QED BY <4>3, Zenon DEF IInv, Written, Apart
    <3>6. Waiting'
      <4>1. Req \in ToSet(cxns'[h.c].sent) /\ Req \notin ToSet(cxns'[h.c].resps)
        BY <1>0, <3>1, <3>2, <3>3, Zenon
      <4> QED BY <1>0, <2>10, <4>1 DEF Waiting, Req
    <3> QED BY <3>4, <3>5, <3>6 DEF Written
  <2>15. \A c \in 1 .. Len(cxns') : CxnOK(cxns'[c], out')
    BY <2>6, <2>9, <2>13 DEF IInv
  <2> QED BY <1>0, <2>6, <2>11, <2>12, <2>14, <2>15 DEF IInv, PromisedOnce
<1> QED BY <1>1, <1>2

(* The promise of a written request is queued for handleResps, or called   *)
(* because the connection is dead.                                         *)
LEMMA WaitRespIInv ==
    ASSUME IInv, WaitResp
    PROVE  IInv'
<1> DEFINE y == cxns[h.c]
<1>0. /\ h.ph = "wait" /\ h.c \in 1 .. Len(cxns) /\ cxns \in Seq(Cxns)
      /\ UNCHANGED <<reqs, cur, kind>> /\ HandleNext("next")
      /\ out \in Seq([req : Nat, ok : BOOLEAN])
  BY DEF IInv, Types, WaitResp, Connected
<1>1. h' \in Handlers /\ h'.ph = "next"
  BY <1>0, Zenon DEF HandleNext, Off, Handlers
<1>2. /\ Req \in Nat /\ Req \in ToSet(reqs) /\ Req \in 1 .. Len(kind)
      /\ Req \notin Called(out) /\ Req \in ToSet(y.sent) /\ Req \notin ToSet(y.resps)
  <2>1. Req \in Nat /\ Req \in ToSet(reqs) /\ Req \in 1 .. Len(kind)
    BY <1>0, ReqIs
  <2> QED BY <1>0, <2>1 DEF IInv, Queued, Written, Waiting
<1>3. y \in Cxns /\ y.resps \in Seq(Nat) /\ ToSet(y.resps) \subseteq Nat /\ CxnOK(y, out)
  BY <1>0, CxnTypes DEF IInv
<1>4. CASE y.respsDead
  <2>1. out' = Promised(Req, FALSE) /\ UNCHANGED cxns
    BY <1>4 DEF WaitResp, Refused
  <2>2. /\ out' \in Seq([req : Nat, ok : BOOLEAN]) /\ Called(out') = Called(out) \cup {Req}
        /\ Failed(out') = Failed(out) \cup {Req} /\ Answered(out') = Answered(out)
        /\ PromisedOnce'
    BY <1>0, <1>2, <2>1, Calls, Zenon DEF IInv
  <2>3. Types'
    BY <1>0, <1>1, <2>1, <2>2, Zenon DEF IInv, Types, Connected
  <2>4. Queued'
    BY <1>0, <1>1, <2>2 DEF IInv, Queued, Req
  <2>5. Written'
    BY <1>0, <1>1, <2>1, <2>2, Zenon DEF IInv, Written, Older, Apart, Waiting, Req
  <2>6. CxnOK(y, out')
    BY <1>2, <1>3, <1>4, <2>2 DEF CxnOK
  <2>7. \A c \in 1 .. Len(cxns') : CxnOK(cxns'[c], out')
    <3> SUFFICES ASSUME NEW c \in 1 .. Len(cxns), c # h.c PROVE CxnOK(cxns[c], out')
      BY <2>1, <2>6, Zenon
    <3>1. Req \notin ToSet(cxns[c].sent)
      BY <1>0, <1>2, Zenon DEF IInv, Written, Apart
    <3> QED BY <1>0, <1>2, <2>1, <3>1, OtherCxn, Zenon DEF IInv
  <2> QED BY <1>0, <1>2, <2>2, <2>3, <2>4, <2>5, <2>7 DEF IInv
<1>5. CASE ~y.respsDead
  <2> DEFINE x == [y EXCEPT !.resps = Append(@, Req), !.rd = IF y.resps = <<>> THEN "read" ELSE @]
  <2>1. cxns' = [cxns EXCEPT ![h.c] = x] /\ UNCHANGED out
    <3>1. cxns' = Pushed(h.c, Req) /\ UNCHANGED out
      BY <1>5 DEF WaitResp
    <3> QED BY <1>0, <1>3, <3>1, LenProperties, Zenon DEF Pushed, Cxns
  <2>2. \A r \in ToSet(y.resps) : r < Req
    <3> SUFFICES ASSUME NEW r \in ToSet(y.resps) PROVE r < Req
      OBVIOUS
    <3>1. r \in ToSet(y.sent) /\ r # Req
      BY <1>2, <1>3 DEF CxnOK
    <3> QED BY <1>0, <1>2, <3>1, Zenon DEF IInv, Written, Older
  <2>3. /\ Append(y.resps, Req) \in Seq(Nat) /\ Increasing(Append(y.resps, Req))
        /\ ToSet(Append(y.resps, Req)) = ToSet(y.resps) \cup {Req}
        /\ Append(y.resps, Req) # <<>>
        /\ Head(Append(y.resps, Req)) = IF y.resps = <<>> THEN Req ELSE Head(y.resps)
    BY <1>2, <1>3, <2>2, PushedOn, Zenon DEF CxnOK
  <2>4. x \in Cxns
    BY <1>3, <2>3, Zenon DEF Cxns
  <2>5. /\ x.sent = y.sent /\ x.resps = Append(y.resps, Req) /\ x.dead = y.dead
        /\ x.rd = IF y.resps = <<>> THEN "read" ELSE y.rd
        /\ x.closing = y.closing /\ x.respsDead = y.respsDead /\ x.in = y.in
    BY <1>3 DEF Cxns
  <2> HIDE DEF x
  <2>6. /\ cxns' \in Seq(Cxns) /\ Len(cxns') = Len(cxns)
        /\ \A d \in 1 .. Len(cxns) : cxns'[d] = IF d = h.c THEN x ELSE cxns[d]
    BY <1>0, <2>1, <2>4, OneCxn
  <2>7. Types'
    BY <1>0, <1>1, <2>1, <2>6 DEF IInv, Types, Connected
  <2>8. Queued'
    BY <1>0, <1>1, <2>1 DEF IInv, Queued, Req
  <2>9. \A c \in 1 .. Len(cxns) :
           /\ cxns'[c].sent = cxns[c].sent
           /\ ToSet(cxns'[c].resps) = IF c = h.c THEN ToSet(cxns[c].resps) \cup {Req}
                                                 ELSE ToSet(cxns[c].resps)
    BY <2>3, <2>5, <2>6, Zenon
  <2>10. Older'
    <3> SUFFICES ASSUME NEW c \in 1 .. Len(cxns), NEW s \in ToSet(cxns[c].sent)
                 PROVE  /\ s \in 1 .. Len(kind)
                        /\ \A r \in ToSet(reqs) : s < r \/ (s = r /\ r = Req)
                        /\ s \in Called(out) \/ s \in ToSet(cxns'[c].resps)
      BY <1>0, <1>1, <2>1, <2>6, <2>9, Zenon DEF Older, Req
    <3>1. s = Req => c = h.c
      BY <1>0, <1>2, Zenon DEF IInv, Written, Apart
    <3> QED BY <1>0, <2>9, <3>1, Zenon DEF IInv, Written, Older
  <2>11. Written'
    BY <1>1, <2>6, <2>9, <2>10, Zenon DEF IInv, Written, Apart, Waiting
  <2>12. CxnOK(x, out)
    <3>1. \A r \in ToSet(x.resps) :
             r \in Called(out) <=> x.rd \in {"next", "kill"} /\ r = Head(x.resps)
      <4>1. CASE y.resps = <<>>
        <5>1. ToSet(x.resps) = {Req} /\ x.rd = "read"
          BY <2>3, <2>5, <4>1, NoElements
        <5> QED BY <1>2, <5>1
      <4>2. CASE y.resps # <<>>
        <5>1. Head(y.resps) \in ToSet(y.resps)
          BY <1>3, <4>2, Dropped DEF CxnOK
        <5> QED BY <1>2, <1>3, <2>3, <2>5, <4>2, <5>1 DEF CxnOK
      <4> QED BY <4>1, <4>2
    <3>2. x.rd # "off" /\ x.resps # <<>> /\ ToSet(x.resps) \subseteq ToSet(x.sent)
      BY <1>2, <1>3, <2>3, <2>5, Zenon DEF CxnOK
    <3>3. (x.rd = "dead" => y.rd = "dead") /\ (y.rd = "kill" => x.rd = "kill")
      BY <1>3, <2>5 DEF CxnOK
    <3> QED BY <1>3, <2>3, <2>5, <3>1, <3>2, <3>3, Zenon DEF CxnOK
  <2>13. \A c \in 1 .. Len(cxns') : CxnOK(cxns'[c], out')
    BY <2>1, <2>6, <2>12 DEF IInv
  <2> QED BY <1>0, <2>1, <2>7, <2>8, <2>11, <2>13 DEF IInv, PromisedOnce
<1> QED BY <1>4, <1>5

-----------------------------------------------------------------------------
(* handleResps of one connection goes on, without a call.                  *)
LEMMA RespStep ==
    ASSUME IInv, NEW c \in 1 .. Len(cxns), NEW x \in Cxns, cxns' = [cxns EXCEPT ![c] = x],
           UNCHANGED <<reqs, h, cur, kind, out>>, CxnOK(x, out), x.sent = cxns[c].sent,
           ToSet(x.resps) \subseteq ToSet(cxns[c].resps),
           \A r \in ToSet(cxns[c].resps) : r \in ToSet(x.resps) \/ r \in Called(out)
    PROVE  IInv'
<1>1. /\ cxns' \in Seq(Cxns) /\ Len(cxns') = Len(cxns)
      /\ \A d \in 1 .. Len(cxns) : cxns'[d] = IF d = c THEN x ELSE cxns[d]
  BY OneCxn DEF IInv, Types
<1>2. Types' /\ Queued'
  BY <1>1 DEF IInv, Types, Queued, Req
<1>3. \A d \in 1 .. Len(cxns) :
         /\ cxns'[d].sent = cxns[d].sent
         /\ ToSet(cxns'[d].resps) \subseteq ToSet(cxns[d].resps)
         /\ \A r \in ToSet(cxns[d].resps) : r \in ToSet(cxns'[d].resps) \/ r \in Called(out)
  BY <1>1
<1>4. Older'
  BY <1>1, <1>3 DEF IInv, Written, Older, Req
<1>5. Apart'
  BY <1>1, <1>3 DEF IInv, Written, Apart
<1>6. Waiting'
  BY <1>1, <1>3 DEF IInv, Types, Connected, Written, Waiting, Req
<1>7. \A d \in 1 .. Len(cxns') : CxnOK(cxns'[d], out')
  BY <1>1 DEF IInv
<1> QED BY <1>2, <1>4, <1>5, <1>6, <1>7 DEF IInv, Written, PromisedOnce

(* handleResps of one connection calls the promise it is at.               *)
LEMMA RespPromiseStep ==
    ASSUME IInv, NEW c \in 1 .. Len(cxns), NEW x \in Cxns, cxns' = [cxns EXCEPT ![c] = x],
           UNCHANGED <<reqs, h, cur, kind>>, NEW ok \in BOOLEAN,
           out' = Promised(Head(cxns[c].resps), ok), cxns[c].rd \in {"read", "dead"},
           CxnOK(x, out'), x.sent = cxns[c].sent, x.resps = cxns[c].resps
    PROVE  IInv'
<1> DEFINE r == Head(cxns[c].resps)
<1>1. /\ cxns' \in Seq(Cxns) /\ Len(cxns') = Len(cxns)
      /\ \A d \in 1 .. Len(cxns) : cxns'[d] = IF d = c THEN x ELSE cxns[d]
  BY OneCxn DEF IInv, Types
<1>2. /\ r \in Nat /\ r \in ToSet(cxns[c].resps) /\ r \in ToSet(cxns[c].sent)
      /\ r \notin Called(out) /\ out \in Seq([req : Nat, ok : BOOLEAN])
  <2>1. cxns[c].resps \in Seq(Nat) /\ CxnOK(cxns[c], out)
    BY CxnTypes DEF IInv, Types
  <2>2. r \in Nat /\ r \in ToSet(cxns[c].resps)
    BY <2>1, Dropped DEF CxnOK
  <2> QED BY <2>1, <2>2, Zenon DEF CxnOK, IInv, Types
<1>3. h.ph = "wait" => r # Req
  BY <1>2, Zenon DEF IInv, Types, Connected, Written, Apart, Waiting
<1> HIDE DEF r
<1>4. /\ out' \in Seq([req : Nat, ok : BOOLEAN]) /\ Called(out') = Called(out) \cup {r}
      /\ PromisedOnce'
  BY <1>2, Calls, Zenon DEF IInv, r
<1>5. Types'
  BY <1>1, <1>4 DEF IInv, Types
<1>6. r \in 1 .. Len(kind) /\ (r \in ToSet(reqs) => r = Req /\ h.ph = "next")
  <2>1. r \in 1 .. Len(kind)
    BY <1>2 DEF IInv, Written, Older
  <2> QED BY <1>2, <1>3, <2>1 DEF IInv, Written, Older
<1>7. Queued'
  BY <1>4, <1>6 DEF IInv, Queued, Req
<1>8. Written'
  <2>1. \A d \in 1 .. Len(cxns) : cxns'[d].sent = cxns[d].sent /\ cxns'[d].resps = cxns[d].resps
    BY <1>1
  <2>2. Older'
    <3> SUFFICES ASSUME NEW d \in 1 .. Len(cxns), NEW s \in ToSet(cxns[d].sent)
                 PROVE  /\ s \in 1 .. Len(kind)
                        /\ \A q \in ToSet(reqs) : s < q \/ (s = q /\ q = Req /\ h.ph \in {"wait", "next"})
                        /\ s \in Called(out') \/ s \in ToSet(cxns[d].resps) \/ (h.ph = "wait" /\ s = Req)
      BY <1>1, <2>1 DEF Older, Req
    <3>1. Older
      BY DEF IInv, Written
    <3> QED BY <1>4, <3>1, Zenon DEF Older
  <2>3. Apart'
    BY <1>1, <2>1, Zenon DEF IInv, Written, Apart
  <2>4. Waiting'
    BY <2>1 DEF IInv, Types, Connected, Written, Waiting, Req
  <2> QED BY <2>2, <2>3, <2>4 DEF Written
<1>9. \A d \in 1 .. Len(cxns') : CxnOK(cxns'[d], out')
  <2> SUFFICES ASSUME NEW d \in 1 .. Len(cxns), d # c PROVE CxnOK(cxns[d], out')
    BY <1>1
  <2>1. r \notin ToSet(cxns[d].sent)
    BY <1>2, Zenon DEF IInv, Written, Apart
  <2> QED BY <1>2, <2>1, OtherCxn DEF IInv, r
<1> QED BY <1>4, <1>5, <1>6, <1>7, <1>8, <1>9 DEF IInv

(* A step of handleResps.                                                  *)
LEMMA RespsIInv ==
    ASSUME IInv, NEW c \in 1 .. Len(cxns), HandleResps(c)
    PROVE  IInv'
<1> DEFINE y == cxns[c]
           r == Head(y.resps)
<1>0. /\ y \in Cxns /\ y.resps \in Seq(Nat) /\ y.sent \in Seq(Nat) /\ CxnOK(y, out)
      /\ cxns \in Seq(Cxns) /\ DOMAIN cxns = 1 .. Len(cxns)
      /\ out \in Seq([req : Nat, ok : BOOLEAN])
      /\ ToSet(y.sent) \subseteq Nat
  BY CxnTypes, LenProperties DEF IInv, Types
<1>1. ASSUME y.rd # "off"
      PROVE  /\ r \in Nat /\ r \in ToSet(y.resps) /\ r \in ToSet(y.sent)
             /\ \A s \in ToSet(y.resps) : r <= s
             /\ Tail(y.resps) \in Seq(Nat) /\ Increasing(Tail(y.resps))
             /\ ToSet(Tail(y.resps)) = ToSet(y.resps) \ {r}
             /\ Tail(y.resps) = <<>> <=> Len(y.resps) = 1
  <2>1. y.resps # <<>> /\ Increasing(y.resps) /\ ToSet(y.resps) \subseteq ToSet(y.sent)
    BY <1>0, <1>1 DEF CxnOK
  <2> QED BY <1>0, <2>1, Dropped, Zenon
<1>2. ASSUME NEW ok \in BOOLEAN, out' = Promised(r, ok), y.rd # "off"
      PROVE  /\ Called(out') = Called(out) \cup {r}
             /\ Failed(out') = IF ok THEN Failed(out) ELSE Failed(out) \cup {r}
             /\ Answered(out') = IF ok THEN Answered(out) \cup {r} ELSE Answered(out)
  BY <1>0, <1>1, <1>2, Calls, Zenon
<1>3. CASE ReadResponse(c)
  <2> DEFINE x == [y EXCEPT !.in = Tail(@), !.rd = "next"]
  <2>1. /\ y.rd = "read" /\ y.in # <<>> /\ out' = Promised(r, TRUE)
        /\ UNCHANGED <<reqs, h, cur, kind>>
        /\ cxns' = [cxns EXCEPT ![c].in = Tail(@), ![c].rd = "next"]
    BY <1>3 DEF ReadResponse
  <2>2. cxns' = [cxns EXCEPT ![c] = x]
    BY <1>0, <2>1, Zenon DEF Cxns
  <2>3. x \in Cxns
    <3>1. Tail(y.in) \in Seq(Nat)
      BY <1>0, <2>1, HeadTailProperties DEF Cxns
    <3> QED BY <1>0, <3>1, Zenon DEF Cxns
  <2>4. /\ x.sent = y.sent /\ x.resps = y.resps /\ x.dead = y.dead /\ x.rd = "next"
        /\ x.closing = y.closing /\ x.respsDead = y.respsDead
    BY <1>0 DEF Cxns
  <2>5. ~y.dead /\ r \notin Failed(out)
    <3>1. ~y.dead
      BY <1>0, <2>1 DEF CxnOK
    <3> QED BY <1>0, <1>1, <2>1, <3>1 DEF CxnOK
  <2> HIDE DEF x
  <2>6. ASSUME NEW s \in ToSet(y.sent), s < r PROVE s \in Answered(out)
    <3>1. s \notin ToSet(y.resps)
      <4>1. s \in Nat /\ r \in Nat /\ ~(r <= s)
        BY <1>0, <1>1, <2>1, <2>6
      <4> QED BY <1>1, <2>1, <4>1
    <3>2. ~(h.ph = "wait" /\ s = Req)
      <4> SUFFICES ASSUME h.ph = "wait", s = Req PROVE FALSE
        OBVIOUS
      <4>1. Req \in ToSet(reqs) /\ Req \in Nat
        BY ReqIs
      <4>2. r < Req \/ r = Req
        BY <1>1, <2>1, <4>1 DEF IInv, Written, Older
      <4> QED BY <1>1, <2>1, <2>6, <4>1, <4>2
    <3>3. s \in Called(out)
      BY <3>1, <3>2 DEF IInv, Written, Older
    <3>4. s \notin Failed(out)
      BY <1>0, <2>1, <2>5 DEF CxnOK
    <3> QED BY <1>0, <3>3, <3>4, EitherWay
  <2>7. CxnOK(x, out')
    <3>1. Called(out') = Called(out) \cup {r} /\ Failed(out') = Failed(out)
          /\ Answered(out') = Answered(out) \cup {r}
      BY <1>2, <2>1, Zenon
    <3>2. \A s, t \in ToSet(y.sent) : s < t /\ t \in Answered(out') => s \in Answered(out')
      BY <1>0, <2>6, <3>1 DEF CxnOK
    <3> QED BY <1>0, <1>1, <2>1, <2>4, <2>5, <3>1, <3>2, Zenon DEF CxnOK
  <2> QED BY <2>1, <2>2, <2>3, <2>4, <2>7, RespPromiseStep, Zenon
<1>4. CASE ReadFails(c)
  <2> DEFINE x == [y EXCEPT !.rd = "kill", !.in = IF @ = <<>> THEN @ ELSE Tail(@)]
  <2>1. /\ y.rd = "read" /\ out' = Promised(r, FALSE)
        /\ UNCHANGED <<reqs, h, cur, kind>> /\ cxns' = AfterReadErr(c)
    BY <1>4 DEF ReadFails
  <2>2. cxns' = [cxns EXCEPT ![c] = x]
    BY <1>0, <2>1, Zenon DEF Cxns, AfterReadErr
  <2>3. x \in Cxns
    <3>1. y.in # <<>> => Tail(y.in) \in Seq(Nat)
      BY <1>0, HeadTailProperties DEF Cxns
    <3> QED BY <1>0, <3>1, Zenon DEF Cxns
  <2>4. /\ x.sent = y.sent /\ x.resps = y.resps /\ x.dead = y.dead /\ x.rd = "kill"
        /\ x.closing = y.closing /\ x.respsDead = y.respsDead
        /\ y.in = <<>> => x.in = <<>>
    BY <1>0 DEF Cxns
  <2> HIDE DEF x
  <2>5. CxnOK(x, out')
    <3>1. Called(out') = Called(out) \cup {r} /\ Answered(out') = Answered(out)
      BY <1>2, <2>1, Zenon
    <3> QED BY <1>0, <1>1, <2>1, <2>4, <3>1, Zenon DEF CxnOK
  <2> QED BY <2>1, <2>2, <2>3, <2>4, <2>5, RespPromiseStep, Zenon
<1>5. CASE KillAfterRead(c)
  <2> DEFINE z == Died(cxns, c)
             x == [z[c] EXCEPT !.rd = "next"]
  <2>1. y.rd = "kill" /\ UNCHANGED <<reqs, h, cur, kind, out>>
        /\ cxns' = [z EXCEPT ![c].rd = "next"]
    BY <1>5 DEF KillAfterRead
  <2>2. z[c] \in Cxns /\ Quiet(z[c], y) /\ z[c].dead
    BY DiedCxn, ElementOfSeq
  <2>3. x \in Cxns /\ x.sent = y.sent /\ x.resps = y.resps /\ x.rd = "next" /\ x.dead /\ x.in = <<>>
    BY <2>2, Zenon DEF Cxns, Quiet
  <2>4. cxns' = [cxns EXCEPT ![c] = x]
    <3>1. cxns' = [z EXCEPT ![c] = x]
      BY <2>1
    <3>2. z = [cxns EXCEPT ![c] = z[c]]
      <4>1. CASE y.dead
        BY <1>0, <4>1, LenProperties DEF Died
      <4>2. CASE ~y.dead
        BY <1>0, <4>2, LenProperties, Zenon DEF Died
      <4> QED BY <4>1, <4>2
    <3> HIDE DEF z
    <3> QED BY <1>0, <3>1, <3>2, Zenon
  <2> HIDE DEF z, x
  <2>5. CxnOK(x, out)
    BY <1>0, <2>1, <2>3 DEF CxnOK
  <2> QED BY <2>1, <2>3, <2>4, <2>5, RespStep, Zenon
<1>6. CASE NextResp(c)
  <2> DEFINE rd == IF Len(y.resps) = 1 THEN "off" ELSE IF y.respsDead THEN "dead" ELSE "read"
             x == [y EXCEPT !.resps = Tail(@), !.rd = rd]
  <2>1. y.rd = "next" /\ UNCHANGED <<reqs, h, cur, kind, out>>
        /\ cxns' = [cxns EXCEPT ![c].resps = Tail(@), ![c].rd = rd]
    BY <1>6 DEF NextResp
  <2>2. cxns' = [cxns EXCEPT ![c] = x]
    BY <1>0, <2>1, Zenon DEF Cxns
  <2>3. x \in Cxns
    BY <1>0, <1>1, <2>1, Zenon DEF Cxns
  <2>4. /\ x.sent = y.sent /\ x.resps = Tail(y.resps) /\ x.dead = y.dead /\ x.rd = rd
        /\ x.closing = y.closing /\ x.respsDead = y.respsDead /\ x.in = y.in
    BY <1>0 DEF Cxns
  <2> HIDE DEF x
  <2>5. CxnOK(x, out)
    BY <1>0, <1>1, <2>1, <2>4, Zenon DEF CxnOK
  <2>6. r \in Called(out)
    BY <1>0, <1>1, <2>1 DEF CxnOK
  <2>7. /\ ToSet(x.resps) \subseteq ToSet(y.resps)
        /\ \A s \in ToSet(y.resps) : s \in ToSet(x.resps) \/ s \in Called(out)
    BY <1>1, <2>1, <2>4, <2>6
  <2> QED BY <2>1, <2>2, <2>3, <2>4, <2>5, <2>7, RespStep, Zenon
<1>7. CASE CxnDead(c)
  <2> DEFINE x == [y EXCEPT !.rd = "next"]
  <2>1. /\ y.rd = "dead" /\ out' = Promised(r, FALSE)
        /\ UNCHANGED <<reqs, h, cur, kind>> /\ cxns' = [cxns EXCEPT ![c] = x]
    BY <1>7 DEF CxnDead
  <2>2. x \in Cxns
    BY <1>0, Zenon DEF Cxns
  <2>3. /\ x.sent = y.sent /\ x.resps = y.resps /\ x.dead = y.dead /\ x.rd = "next"
        /\ x.closing = y.closing /\ x.respsDead = y.respsDead /\ x.in = y.in
    BY <1>0 DEF Cxns
  <2> HIDE DEF x
  <2>4. CxnOK(x, out')
    <3>1. Called(out') = Called(out) \cup {r} /\ Answered(out') = Answered(out)
      BY <1>2, <2>1, Zenon
    <3> QED BY <1>0, <1>1, <2>1, <2>3, <3>1, Zenon DEF CxnOK
  <2> QED BY <2>1, <2>2, <2>3, <2>4, RespPromiseStep, Zenon
<1> QED BY <1>3, <1>4, <1>5, <1>6, <1>7 DEF HandleResps

(* Deaths, closes and answers of one connection.                           *)
LEMMA PeerIInv ==
    ASSUME IInv, NEW c \in 1 .. Len(cxns),
           RespsDie(c) \/ Discard(c) \/ Reap(c) \/ PeerAnswers(c) \/ PeerCloses(c)
    PROVE  IInv'
<1> DEFINE y == cxns[c]
<1>0. /\ y \in Cxns /\ CxnOK(y, out) /\ cxns \in Seq(Cxns)
      /\ h \in Handlers /\ (h.ph \in Connected => h.c \in 1 .. Len(cxns))
      /\ cur \in [Kinds -> 0 .. Len(cxns)]
  BY CxnTypes DEF IInv, Types
<1>1. UNCHANGED <<reqs, h, cur, kind, out>>
  BY DEF RespsDie, Discard, Reap, PeerAnswers, PeerCloses
<1>2. ASSUME NEW x \in Cxns, Quiet(x, y), cxns' = [cxns EXCEPT ![c] = x] PROVE IInv'
  BY <1>0, <1>1, <1>2, OneQuiet, QuietStep, Zenon
<1>3. ASSUME cxns' = Died(cxns, c) PROVE IInv'
  BY <1>0, <1>1, <1>3, DiedCxn, QuietStep
<1>4. CASE RespsDie(c)
  <2> DEFINE x == [y EXCEPT !.closing = FALSE, !.respsDead = TRUE]
  <2>1. cxns' = [cxns EXCEPT ![c] = x] /\ y.closing
    <3>1. cxns' = [cxns EXCEPT ![c].closing = FALSE, ![c].respsDead = TRUE] /\ y.closing
      BY <1>4 DEF RespsDie
    <3> QED BY <1>0, <3>1, LenProperties, Zenon DEF Cxns
  <2>2. x \in Cxns /\ Quiet(x, y)
    BY <1>0, <2>1, Zenon DEF Cxns, Quiet, CxnOK
  <2> HIDE DEF x
  <2> QED BY <1>2, <2>1, <2>2, Zenon
<1>5. CASE Discard(c) \/ Reap(c)
  BY <1>3, <1>5 DEF Discard, Reap
<1>6. CASE PeerAnswers(c)
  <2> DEFINE x == [y EXCEPT !.wire = Tail(@), !.in = Append(@, Head(y.wire))]
  <2>1. cxns' = [cxns EXCEPT ![c] = x] /\ ~y.dead /\ y.wire # <<>>
    <3>1. /\ cxns' = [cxns EXCEPT ![c].wire = Tail(@), ![c].in = Append(@, Head(cxns[c].wire))]
          /\ ~y.dead /\ y.wire # <<>>
      BY <1>6 DEF PeerAnswers
    <3> QED BY <1>0, <3>1, LenProperties, Zenon DEF Cxns
  <2>2. x \in Cxns /\ Quiet(x, y)
    <3>1. y.wire \in Seq(Nat) /\ y.in \in Seq(Nat)
      BY <1>0 DEF Cxns
    <3>2. Tail(y.wire) \in Seq(Nat) /\ Append(y.in, Head(y.wire)) \in Seq(Nat)
      BY <2>1, <3>1, HeadTailProperties, AppendProperties
    <3>3. x \in Cxns
      BY <1>0, <3>2, Zenon DEF Cxns
    <3>4. /\ x.sent = y.sent /\ x.resps = y.resps /\ x.rd = y.rd /\ x.dead = y.dead
          /\ x.closing = y.closing /\ x.respsDead = y.respsDead
      BY <1>0 DEF Cxns
    <3> HIDE DEF x
    <3> QED BY <1>0, <2>1, <3>3, <3>4 DEF Quiet, CxnOK
  <2> HIDE DEF x
  <2> QED BY <1>2, <2>1, <2>2, Zenon
<1>7. CASE PeerCloses(c)
  <2> DEFINE x == [y EXCEPT !.hung = TRUE]
  <2>1. cxns' = [cxns EXCEPT ![c] = x]
    BY <1>7 DEF PeerCloses
  <2>2. x \in Cxns /\ Quiet(x, y)
    BY <1>0, Zenon DEF Cxns, Quiet, CxnOK
  <2> HIDE DEF x
  <2> QED BY <1>2, <2>1, <2>2, Zenon
<1> QED BY <1>4, <1>5, <1>6, <1>7

(* stopForever, in its two steps.                                          *)
LEMMA StopIInv ==
    ASSUME IInv, StopForever \/ StopConnections
    PROVE  IInv'
<1>0. /\ UNCHANGED <<reqs, h, cur, kind, out>> /\ cxns \in Seq(Cxns)
      /\ h \in Handlers /\ (h.ph \in Connected => h.c \in 1 .. Len(cxns))
      /\ cur \in [Kinds -> 0 .. Len(cxns)] /\ DOMAIN cxns = 1 .. Len(cxns) /\ Len(cxns) \in Nat
  BY LenProperties DEF IInv, Types, StopForever, StopConnections
<1>1. CASE StopForever
  BY <1>0, <1>1, SameCxns, QuietStep DEF StopForever
<1>2. CASE StopConnections
  <2>1. /\ DOMAIN cxns' = 1 .. Len(cxns)
        /\ \A c \in 1 .. Len(cxns) : cxns'[c] = Died(cxns, c)[c] \/ cxns'[c] = cxns[c]
    BY <1>0, <1>2 DEF StopConnections
  <2>2. \A c \in 1 .. Len(cxns) : Quiet(cxns'[c], cxns[c]) /\ cxns'[c] \in Cxns
    <3> SUFFICES ASSUME NEW c \in 1 .. Len(cxns) PROVE Quiet(cxns'[c], cxns[c]) /\ cxns'[c] \in Cxns
      OBVIOUS
    <3>1. Quiet(Died(cxns, c)[c], cxns[c]) /\ Died(cxns, c)[c] \in Cxns
      BY DiedCxn, ElementOfSeq
    <3>2. Quiet(cxns[c], cxns[c]) /\ cxns[c] \in Cxns
      BY <1>0, CxnTypes DEF IInv, CxnOK, Quiet
    <3> QED BY <2>1, <3>1, <3>2
  <2>3. cxns' \in Seq(Cxns) /\ Len(cxns') = Len(cxns)
    <3>1. cxns' \in [1 .. Len(cxns) -> Cxns]
      BY <1>2, <1>0, <2>1, <2>2 DEF StopConnections
    <3> QED BY <1>0, <3>1
  <2> QED BY <1>0, <2>2, <2>3, QuietStep
<1> QED BY <1>1, <1>2

-----------------------------------------------------------------------------
(* Every state satisfies the invariant.                                    *)
THEOREM IInvAlways == Spec => []IInv
<1>1. IInv /\ [Next]_vars => IInv'
  <2> SUFFICES ASSUME IInv, [Next]_vars PROVE IInv'
    OBVIOUS
  <2>1. DOMAIN cxns = 1 .. Len(cxns)
    BY LenProperties DEF IInv, Types
  <2>2. CASE UNCHANGED vars
    BY <2>2, Zenon DEF vars, IInv, Types, Queued, Written, Older, Apart, Waiting, Req, PromisedOnce
  <2>3. CASE Handle \/ Reauth \/ NotWritten
    BY <2>3, NextReqIInv, EarlyIInv, DialIInv, WriteRequestIInv, WaitRespIInv DEF Handle
  <2>4. ASSUME NEW c \in 1 .. Len(cxns), Cxn(c) \/ Discard(c) \/ Reap(c) \/ PeerCloses(c)
        PROVE  IInv'
    BY <2>4, RespsIInv, PeerIInv DEF Cxn
  <2> QED BY <2>1, <2>2, <2>3, <2>4, DoIInv, StopIInv DEF Next
<1> QED BY <1>1, InitIInv, PTL DEF Spec

(* The promise of a request is called at most once, whatever the dials,    *)
(* writes, reads, logins, deaths and stops.                                *)
THEOREM PromisedOnceAlways == Spec => []PromisedOnce
<1>1. IInv => PromisedOnce
  BY DEF IInv
<1> QED BY <1>1, IInvAlways, PTL

(* Once a request written to a connection failed, none written to it later *)
(* is answered.                                                            *)
THEOREM NoGapAlways == Spec => []NoGap
<1>1. IInv => NoGap
  <2> SUFFICES ASSUME IInv, NEW c \in DOMAIN cxns,
                      NEW i \in 1 .. Len(cxns[c].sent), NEW j \in 1 .. Len(cxns[c].sent), i < j,
                      \E k \in 1 .. Len(out) : out[k].req = cxns[c].sent[j] /\ out[k].ok
               PROVE  \E k \in 1 .. Len(out) : out[k].req = cxns[c].sent[i] /\ out[k].ok
    BY DEF NoGap
  <2>1. c \in 1 .. Len(cxns) /\ cxns[c].sent \in Seq(Nat) /\ CxnOK(cxns[c], out)
    BY CxnTypes, LenProperties, Zenon DEF IInv, Types
  <2>2. cxns[c].sent[i] \in ToSet(cxns[c].sent) /\ cxns[c].sent[j] \in ToSet(cxns[c].sent)
    BY <2>1, LenProperties DEF ToSet
  <2>3. cxns[c].sent[i] < cxns[c].sent[j]
    BY <2>1 DEF CxnOK, Increasing
  <2>4. cxns[c].sent[j] \in Answered(out)
    BY DEF Answered
  <2>5. cxns[c].sent[i] \in Answered(out)
    BY <2>1, <2>2, <2>3, <2>4 DEF CxnOK
  <2> QED BY <2>5 DEF Answered
<1> QED BY <1>1, IInvAlways, PTL
=============================================================================
