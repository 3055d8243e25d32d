------------------------------- MODULE MCSink -------------------------------
(* Instances of Sink.                                                      *)
EXTENDS Sink, TLC

CONSTANTS s1, s2, p1, p2

(* All partitions start on one sink.                                       *)
OneLeader == [p \in Partitions |-> s1]

(* Each on its own.                                                        *)
TwoLeaders == (p1 :> s1) @@ (p2 :> s2)

(* How many records there are: of the second partition none or one.        *)
Three == [p \in Partitions |-> IF p = p1 THEN 3 ELSE 0]
Two == [p \in Partitions |-> IF p = p1 THEN 2 ELSE 0]
TwoAndOne == [p \in Partitions |-> IF p = p1 THEN 2 ELSE 1]

Calm == [stop |-> FALSE, limits |-> FALSE, kinds |-> {}, faults |-> 1, recs |-> Three, epochs |-> 0, seq |-> 0]

(* Connections die, brokers refuse or do not answer, the leader moves:     *)
(* first contact, and after so many records that the numbers wrap.         *)
Fresh == [Calm EXCEPT !.kinds = {"conn", "ghost", "move", "notEnoughReplicas", "missing", "dial"}]
Faulty == [Calm EXCEPT !.faults = 2, !.seq = MaxInt32 - 1,
    !.kinds = {"conn", "ghost", "move", "notEnoughReplicasAfterAppend", "notEnoughReplicas"}]

(* Records fail on limits, but no connection is lost.                      *)
Limited == [Calm EXCEPT !.limits = TRUE,
    !.kinds = {"dial", "move", "loadErr", "initPid", "initPidDenied", "notEnoughReplicas",
               "unknownTopicOrPartition", "messageTooLarge"}]
LimitedTwice == [Limited EXCEPT !.faults = 2, !.seq = MaxInt32 - 1,
    !.kinds = {"move", "notEnoughReplicas", "messageTooLarge"}]

Checked == {Fresh, Faulty, Limited, LimitedTwice}

(* A log loses its end, or retention deletes it, with the faults of        *)
(* connections and brokers, from sequence 0 or just before it wraps.       *)
Recovering ==
    {[Calm EXCEPT !.stop = b, !.epochs = 2, !.seq = IF b THEN MaxInt32 - 1 ELSE 0,
         !.kinds = {"lose", "truncate", "conn", "ghost", "move", "notEnoughReplicas", "missing", "dial"}]
        : b \in BOOLEAN}

(* Two such faults, or records that fail on limits.                        *)
RecoveringTwice ==
    {[Calm EXCEPT !.stop = b, !.epochs = 3, !.seq = MaxInt32 - 1, !.recs = Two, !.faults = 2,
         !.kinds = {"lose", "truncate", "conn", "ghost"}] : b \in BOOLEAN}
RecoveringLimited ==
    {[Calm EXCEPT !.stop = b, !.epochs = 3, !.seq = MaxInt32 - 1, !.recs = Two, !.limits = TRUE, !.faults = 2,
         !.kinds = {"lose", "truncate", "notEnoughReplicas"}] : b \in BOOLEAN}

(* The same while a partition on another sink shares the epoch.            *)
Sharing ==
    {[Calm EXCEPT !.stop = b, !.epochs = 3, !.seq = MaxInt32 - 1, !.recs = TwoAndOne,
         !.kinds = IF b THEN {"lose"} ELSE {"lose", "truncate"}] : b \in BOOLEAN}

Losing == Recovering \cup RecoveringTwice \cup RecoveringLimited \cup Sharing

(* Limits, and lost responses.                                             *)
Reuse == {[Calm EXCEPT !.limits = TRUE, !.recs = Two, !.faults = 2, !.kinds = {"conn", "notEnoughReplicas"}]}

(* Data loss on one of two partitions.                                     *)
Bumped == {[Calm EXCEPT !.epochs = 2, !.recs = [p \in Partitions |-> 3], !.kinds = {"lose"}]}
=============================================================================
