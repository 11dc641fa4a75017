----------------------------- MODULE MCZkQuorum -----------------------------
(* Small instances of ZkQuorum for TLC. *)
EXTENDS ZkQuorum, TLC

(* The client treats all nodes alike, and no key is the right one. *)
Symmetry == {n @@ k : n \in Permutations(Node), k \in Permutations(Key)}
=============================================================================
