---------------------------- MODULE MCKmsclient ----------------------------
(* A small instance of Kmsclient for TLC: one goroutine fills both         *)
(* variables from the secret, the path another gives for one is invalid.   *)
EXTENDS Kmsclient

CONSTANTS t1, t2, s1, v1, v2

PathMaps == [t \in Thread |-> [v \in Var |-> IF t = t2 /\ v = v2 THEN Invalid ELSE s1]]
=============================================================================
