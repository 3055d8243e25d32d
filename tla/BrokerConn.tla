----------------------------- MODULE BrokerConn -----------------------------
(***************************************************************************)
(* A broker and its connections (broker.go): requests are queued in the    *)
(* ring reqs and handled one at a time by handleReqs, which opens a        *)
(* connection if there is none, writes the request, and queues its promise *)
(* in the connection's ring resps; handleResps reads the responses of one  *)
(* connection in order.  A connection dies when a read or a write fails,   *)
(* when it is reaped as idle and when the broker is stopped, and whoever   *)
(* finds it dead must still call the promises.                             *)
(*                                                                         *)
(* Requests are numbered; kind says which of the broker's connections one  *)
(* is written to.  The rings are used by what RingQueue says of them: a    *)
(* push to a dead ring is refused, and what was accepted is handled.       *)
(***************************************************************************)
EXTENDS Naturals, Sequences

CONSTANTS
    Kinds,        \* the broker's connections, cxnNormal, cxnProduce, ...
    NoAcks,       \* the kind whose requests have no response (acks = 0), if any
    Scenarios     \* what a behaviour may do: see Init

VARIABLES
    reqs, h,      \* the ring reqs (its head is being handled) and handleReqs
    b,            \* the broker: dead, and stopForever's progress
    cur,          \* cxnNormal, cxnProduce ...: indexes of cxns, 0 is nil
    cxns,         \* every connection ever opened
    kind,         \* history: the kind of each request issued so far
    out,          \* history: the promises called, with an error or not
    bound         \* what is left of the scenario

vars == <<reqs, h, b, cur, cxns, kind, out, bound>>

(***************************************************************************)
(* A scenario: reqs, the requests issued; faults, how often a dial, write, *)
(* read or reauthentication fails or the peer closes; cancels, reaps,      *)
(* stops, reauths, how often these happen.                                 *)
(***************************************************************************)
Init ==
    /\ bound \in Scenarios
    /\ reqs = <<>> /\ h = [ph |-> "off", c |-> 0, retried |-> FALSE]
    /\ b = [dead |-> FALSE, stopping |-> FALSE]
    /\ cur = [k \in Kinds |-> 0]
    /\ cxns = <<>> /\ kind = <<>> /\ out = <<>>

\* resps and respsDead are the ring, sent every request written; wire is what
\* the peer has still to answer and in what the client has still to read.  A
\* connection is closing from its close to the death of its ring.
NewCxn == [dead |-> FALSE, closing |-> FALSE, resps |-> <<>>, respsDead |-> FALSE,
           rd |-> "off", hung |-> FALSE, sent |-> <<>>, wire |-> <<>>, in |-> <<>>]

Sasl == 0
Spend(field) == bound[field] > 0 /\ bound' = [bound EXCEPT ![field] = @ - 1]
Promised(r, ok) == Append(out, [req |-> r, ok |-> ok])
Died(cs, c) == IF cs[c].dead THEN cs
               ELSE [cs EXCEPT ![c].dead = TRUE, ![c].closing = TRUE, ![c].in = <<>>]
Req == Head(reqs)
Off == [ph |-> "off", c |-> 0, retried |-> FALSE]
-----------------------------------------------------------------------------
(* do, handleReqs and handleReq *)

Do(k) ==
    /\ Spend("reqs")
    /\ kind' = Append(kind, k)
    /\ IF b.dead
       THEN out' = Promised(Len(kind) + 1, FALSE) /\ UNCHANGED <<reqs, h>>
       ELSE /\ reqs' = Append(reqs, Len(kind) + 1)
            /\ h' = IF reqs = <<>> THEN [Off EXCEPT !.ph = "load"] ELSE h
            /\ UNCHANGED out
    /\ UNCHANGED <<b, cur, cxns>>

HandleNext(ph) == h' = [Off EXCEPT !.ph = ph]

\* dropPeek, and the next request.
NextReq ==
    /\ h.ph = "next"
    /\ reqs' = Tail(reqs)
    /\ HandleNext(IF Len(reqs) = 1 THEN "off" ELSE IF b.dead THEN "dead" ELSE "load")
    /\ UNCHANGED <<b, cur, cxns, kind, out, bound>>

BrokerDead ==
    /\ h.ph = "dead"
    /\ out' = Promised(Req, FALSE) /\ HandleNext("next")
    /\ UNCHANGED <<reqs, b, cur, cxns, kind, bound>>

LoadConnection ==
    /\ h.ph = "load"
    /\ LET c == cur[kind[Req]] IN
       h' = IF c # 0 /\ ~cxns[c].dead THEN [h EXCEPT !.ph = "ready", !.c = c]
                                      ELSE [h EXCEPT !.ph = "dial"]
    /\ UNCHANGED <<reqs, b, cur, cxns, kind, out, bound>>

\* connect or init fails: retried once if the error is retryable.
DialFails ==
    /\ h.ph = "dial" /\ Spend("faults")
    /\ \/ ~h.retried /\ h' = [h EXCEPT !.ph = "load", !.retried = TRUE] /\ UNCHANGED out
       \/ out' = Promised(Req, FALSE) /\ HandleNext("next")
    /\ UNCHANGED <<reqs, b, cur, cxns, kind>>

Dial ==
    /\ h.ph = "dial"
    /\ cxns' = Append(cxns, NewCxn)
    /\ h' = [h EXCEPT !.ph = "store", !.c = Len(cxns) + 1]
    /\ UNCHANGED <<reqs, b, cur, kind, out, bound>>

StoreConnection ==
    /\ h.ph = "store"
    /\ cur' = [cur EXCEPT ![kind[Req]] = h.c]
    /\ h' = [h EXCEPT !.ph = "ready"]
    /\ UNCHANGED <<reqs, b, cxns, kind, out, bound>>

\* The SASL session expired: sasl writes on the connection and reads from it,
\* on this goroutine, while handleResps may be reading.  A frame is taken whole
\* by one of them: what two interleaved reads of one frame give is an error
\* for each, like a frame of another request.
Reauth ==
    /\ h.ph = "ready" /\ ~cxns[h.c].dead
    /\ Spend("reauths")
    /\ cxns' = [cxns EXCEPT ![h.c].wire = Append(@, Sasl)]
    /\ h' = [h EXCEPT !.ph = "sasl"]
    /\ UNCHANGED <<reqs, b, cur, kind, out>>

Reauthed ==
    /\ h.ph = "sasl" /\ cxns[h.c].in # <<>> /\ Head(cxns[h.c].in) = Sasl
    /\ cxns' = [cxns EXCEPT ![h.c].in = Tail(@)]
    /\ h' = [h EXCEPT !.ph = "ready"]
    /\ UNCHANGED <<reqs, b, cur, kind, out, bound>>

\* sasl fails, by reading a frame that is not its own too: the connection dies;
\* a rejected login is retried on a new one.
ReauthFails ==
    /\ h.ph = "sasl"
    /\ \/ /\ cxns[h.c].in # <<>>
          /\ IF Head(cxns[h.c].in) = Sasl THEN Spend("faults") ELSE UNCHANGED bound
       \/ (cxns[h.c].dead \/ cxns[h.c].hung) /\ UNCHANGED bound
    /\ cxns' = Died(cxns, h.c)
    /\ \/ ~h.retried /\ h' = [h EXCEPT !.ph = "load", !.retried = TRUE] /\ UNCHANGED out
       \/ out' = Promised(Req, FALSE) /\ HandleNext("next")
    /\ UNCHANGED <<reqs, b, cur, kind>>

\* The request is not written: its context is done, or no version of it fits.
NotWritten ==
    /\ h.ph = "ready" /\ Spend("cancels")
    /\ out' = Promised(Req, FALSE) /\ HandleNext("next")
    /\ UNCHANGED <<reqs, b, cur, cxns, kind>>

WriteRequest ==
    /\ h.ph = "ready" /\ ~cxns[h.c].dead
    /\ IF kind[Req] = NoAcks
       THEN out' = Promised(Req, TRUE) /\ HandleNext("next") /\ UNCHANGED cxns
       ELSE /\ cxns' = [cxns EXCEPT ![h.c].sent = Append(@, Req), ![h.c].wire = Append(@, Req)]
            /\ h' = [h EXCEPT !.ph = "wait"] /\ UNCHANGED out
    /\ UNCHANGED <<reqs, b, cur, kind, bound>>

AfterWriteErrNot == [h EXCEPT !.ph = "wait"]
AfterWriteErr == [h EXCEPT !.ph = "kill"]

\* The connection is closed, or the write fails or is canceled.
WriteFails ==
    /\ h.ph = "ready"
    /\ IF cxns[h.c].dead \/ cxns[h.c].hung THEN UNCHANGED bound ELSE Spend("faults")
    /\ out' = Promised(Req, FALSE)
    /\ h' = AfterWriteErr
    /\ UNCHANGED <<reqs, b, cur, cxns, kind>>

KillAfterWrite ==
    /\ h.ph = "kill"
    /\ cxns' = Died(cxns, h.c) /\ HandleNext("next")
    /\ UNCHANGED <<reqs, b, cur, kind, out, bound>>

Pushed(c, r) ==
    [cxns EXCEPT ![c].resps = Append(@, r),
                 ![c].rd = IF cxns[c].resps = <<>> THEN "read" ELSE @]

RefusedSilently(r) == out
Refused(r) == Promised(r, FALSE)

WaitResp ==
    /\ h.ph = "wait"
    /\ IF cxns[h.c].respsDead
       THEN out' = Refused(Req) /\ UNCHANGED cxns
       ELSE cxns' = Pushed(h.c, Req) /\ UNCHANGED out
    /\ HandleNext("next")
    /\ UNCHANGED <<reqs, b, cur, kind, bound>>
-----------------------------------------------------------------------------
(* handleResps, handleResp, die and discard *)

\* If the body does not parse, the promise gets that error with the response and
\* the connection lives on.
ReadResponse(c) ==
    /\ cxns[c].rd = "read" /\ cxns[c].in # <<>> /\ Head(cxns[c].in) = Head(cxns[c].resps)
    /\ out' = Promised(Head(cxns[c].resps), TRUE)
    /\ cxns' = [cxns EXCEPT ![c].in = Tail(@), ![c].rd = "next"]
    /\ UNCHANGED <<reqs, h, b, cur, kind, bound>>

AfterReadErrNot(c) == [cxns EXCEPT ![c].rd = "next", ![c].in = IF @ = <<>> THEN @ ELSE Tail(@)]
AfterReadErr(c) == [cxns EXCEPT ![c].rd = "kill", ![c].in = IF @ = <<>> THEN @ ELSE Tail(@)]

\* The connection is closed, the frame is another's, or (a fault) it times out
\* or its size or header is malformed.
ReadFails(c) ==
    /\ cxns[c].rd = "read"
    /\ IF \/ cxns[c].dead \/ (cxns[c].hung /\ cxns[c].in = <<>>)
          \/ cxns[c].in # <<>> /\ Head(cxns[c].in) # Head(cxns[c].resps)
       THEN UNCHANGED bound
       ELSE Spend("faults")
    /\ out' = Promised(Head(cxns[c].resps), FALSE)
    /\ cxns' = AfterReadErr(c)
    /\ UNCHANGED <<reqs, h, b, cur, kind>>

KillAfterRead(c) ==
    /\ cxns[c].rd = "kill"
    /\ cxns' = [Died(cxns, c) EXCEPT ![c].rd = "next"]
    /\ UNCHANGED <<reqs, h, b, cur, kind, out, bound>>

NextResp(c) ==
    /\ cxns[c].rd = "next"
    /\ cxns' = [cxns EXCEPT ![c].resps = Tail(@),
                            ![c].rd = IF Len(cxns[c].resps) = 1 THEN "off"
                                      ELSE IF cxns[c].respsDead THEN "dead" ELSE "read"]
    /\ UNCHANGED <<reqs, h, b, cur, kind, out, bound>>

CxnDead(c) ==
    /\ cxns[c].rd = "dead"
    /\ out' = Promised(Head(cxns[c].resps), FALSE)
    /\ cxns' = [cxns EXCEPT ![c].rd = "next"]
    /\ UNCHANGED <<reqs, h, b, cur, kind, bound>>

\* The second half of die: after the close, the ring of responses dies.
RespsDie(c) ==
    /\ cxns[c].closing
    /\ cxns' = [cxns EXCEPT ![c].closing = FALSE, ![c].respsDead = TRUE]
    /\ UNCHANGED <<reqs, h, b, cur, kind, out, bound>>

\* discard, the reader of a connection without responses, sees the peer close.
Discard(c) ==
    /\ NoAcks \in Kinds /\ cur[NoAcks] = c
    /\ cxns[c].hung /\ ~cxns[c].dead
    /\ cxns' = Died(cxns, c)
    /\ UNCHANGED <<reqs, h, b, cur, kind, out, bound>>
-----------------------------------------------------------------------------
(* stopForever, reapConnections, and the peer *)

StopForever ==
    /\ ~b.dead /\ Spend("stops")
    /\ b' = [dead |-> TRUE, stopping |-> TRUE]
    /\ UNCHANGED <<reqs, h, cur, cxns, kind, out>>

StopConnections ==
    /\ b.stopping
    /\ b' = [b EXCEPT !.stopping = FALSE]
    /\ cxns' = [c \in DOMAIN cxns |-> IF \E k \in Kinds : cur[k] = c THEN Died(cxns, c)[c] ELSE cxns[c]]
    /\ UNCHANGED <<reqs, h, cur, kind, out, bound>>

\* No read is under way and none is due; a connection that has just been
\* stored has never been read from or written to, and is idle too.
Reap(c) ==
    /\ \E k \in Kinds : cur[k] = c
    /\ ~cxns[c].dead /\ cxns[c].rd = "off"
    /\ ~(h.c = c /\ h.ph \in {"sasl", "wait"})
    /\ Spend("reaps")
    /\ cxns' = Died(cxns, c)
    /\ UNCHANGED <<reqs, h, b, cur, kind, out>>

PeerAnswers(c) ==
    /\ ~cxns[c].dead /\ ~cxns[c].hung /\ cxns[c].wire # <<>>
    /\ cxns' = [cxns EXCEPT ![c].wire = Tail(@), ![c].in = Append(@, Head(cxns[c].wire))]
    /\ UNCHANGED <<reqs, h, b, cur, kind, out, bound>>

PeerCloses(c) ==
    /\ ~cxns[c].dead /\ ~cxns[c].hung /\ Spend("faults")
    /\ cxns' = [cxns EXCEPT ![c].hung = TRUE]
    /\ UNCHANGED <<reqs, h, b, cur, kind, out>>
-----------------------------------------------------------------------------
Handle == \/ NextReq \/ BrokerDead \/ LoadConnection \/ DialFails \/ Dial \/ StoreConnection
          \/ Reauthed \/ ReauthFails \/ WriteRequest \/ WriteFails \/ KillAfterWrite \/ WaitResp
HandleResps(c) == ReadResponse(c) \/ ReadFails(c) \/ KillAfterRead(c) \/ NextResp(c) \/ CxnDead(c)
Cxn(c) == HandleResps(c) \/ RespsDie(c) \/ PeerAnswers(c)

Next ==
    \/ \E k \in Kinds : Do(k)
    \/ Handle \/ Reauth \/ NotWritten \/ StopForever \/ StopConnections
    \/ \E c \in DOMAIN cxns : Cxn(c) \/ Discard(c) \/ Reap(c) \/ PeerCloses(c)

Spec == Init /\ [][Next]_vars

\* Goroutines are scheduled, and a peer that keeps the connection answers (or
\* the read times out, which is one more way for the read to end).
FairSpec == Spec /\ WF_vars(Handle) /\ \A c \in 1..4 : WF_vars(c \in DOMAIN cxns /\ Cxn(c))
-----------------------------------------------------------------------------
(***************************************************************************)
(* A request's promise is called at most once, whoever calls it: do,       *)
(* handleReqs, waitResp or handleResps, on a connection that dies under    *)
(* them.                                                                   *)
(***************************************************************************)
PromisedOnce == \A i, j \in 1..Len(out) : out[i].req = out[j].req => i = j

(***************************************************************************)
(* Requests written to one connection are answered in order and without    *)
(* gaps: once one has failed without its response, none written after it   *)
(* on the same connection gets a response.  The producer's sequence        *)
(* numbers rest on this.                                                   *)
(***************************************************************************)
NoGap ==
    LET Ok(r) == \E i \in 1..Len(out) : out[i].req = r /\ out[i].ok IN
    \A c \in DOMAIN cxns : \A i, j \in 1..Len(cxns[c].sent) :
        i < j /\ Ok(cxns[c].sent[j]) => Ok(cxns[c].sent[i])

(***************************************************************************)
(* do eventually calls the promise, "once a the request either fails or is *)
(* responded to (with failure or not)".                                    *)
(***************************************************************************)
AllPromised == \A r \in 1..3 : (r <= Len(kind)) ~> (\E i \in 1..Len(out) : out[i].req = r)

(***************************************************************************)
(* "handleResps serially handles all broker responses for an single        *)
(* connection": no other goroutine takes a response of a connection.       *)
(***************************************************************************)
SerialReads == h.ph = "sasl" => cxns[h.c].rd # "read"

(***************************************************************************)
(* stopForever "permanently disables this broker": when it is done and     *)
(* nothing is left to handle, no connection of the broker is open.         *)
(***************************************************************************)
StoppedIsClosed ==
    b.dead /\ ~b.stopping /\ h.ph = "off" /\ (\A c \in DOMAIN cxns : cxns[c].rd = "off")
        => \A c \in DOMAIN cxns : cxns[c].dead
=============================================================================
