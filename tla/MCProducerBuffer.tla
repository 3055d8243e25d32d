-------------------------- MODULE MCProducerBuffer --------------------------
(* Instances of ProducerBuffer.                                            *)
EXTENDS ProducerBuffer

CONSTANTS a, b, c, f1

(* Small records, and one that needs the room of two.                      *)
MixedSizes == [r \in Records |-> IF r = b THEN 2 ELSE 1]
=============================================================================
