----------------------------- MODULE MCKmsFetch -----------------------------
(* A small instance of KmsFetch for TLC: two names for three entries, the  *)
(* first name twice.                                                       *)
EXTENDS KmsFetch

CONSTANTS s1, s2, n1, n2

ThreeEntries == << [name |-> n1, secret |-> s1], [name |-> n2, secret |-> s2],
                   [name |-> n1, secret |-> s2] >>
=============================================================================
