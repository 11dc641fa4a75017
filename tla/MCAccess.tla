------------------------------ MODULE MCAccess ------------------------------
(* A small instance of Access for TLC: genuine tokens of two keys, one     *)
(* that names another key than the one that signed it, one without a kid,  *)
(* one that ends while the clock runs and asks for another org than its    *)
(* owner's, and one of the owner "admin", without an admin's role, on a    *)
(* route for admins.                                                       *)
EXTENDS Access, TLC

Good(k) ==
  [alg |-> "RS", kid |-> k, by |-> k, nbf |-> 0, exp |-> MaxTime + 1, iss |-> "iam",
   aud |-> {"kms"}, sub |-> "svc", owner |-> "acme", admin |-> FALSE, org |-> "acme"]

One == CHOOSE k \in Kid : TRUE

RequestSet ==
  {Good(k) : k \in Kid}
    \cup {[Good(One) EXCEPT !.by = CHOOSE k \in Kid : k # One],
          [Good(One) EXCEPT !.kid = Nil],
          [Good(One) EXCEPT !.exp = 2, !.org = "other"],
          [Good(One) EXCEPT !.owner = "admin", !.org = Nil]}

Symmetry == Permutations(Thread)
=============================================================================
