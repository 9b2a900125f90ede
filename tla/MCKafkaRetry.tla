---------------------------- MODULE MCKafkaRetry ----------------------------
(* Instances of KafkaRetry for TLC. *)
EXTENDS KafkaRetry, TLC

CONSTANTS m1, m2

\* The second message has no value.
JsonAndNull == m1 :> "json" @@ m2 :> "null"
=============================================================================
