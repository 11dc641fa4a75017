--------------------------- MODULE MCSecretStore ---------------------------
(* Small instances of SecretStore for TLC. *)
EXTENDS SecretStore, TLC

(* Requests have no order and no identity in the code. *)
ReqSymmetry == Permutations(Req)
=============================================================================
