---------------------------- MODULE MCSecretKeys ----------------------------
(* A small instance of SecretKeys for TLC: two orgs of which one's name    *)
(* begins with the other's, and a path below an org whose last segment is  *)
(* also the first segment of an environment.                               *)
EXTENDS SecretKeys

OrgSet    == {"acme", "acmefoo"}
CallerSet == {[owner |-> "acme", admin |-> FALSE], [owner |-> "", admin |-> TRUE]}
Acme      == <<"brand", "acme">>
PathSet   == {Acme, Acme \o <<"eu">>, <<"brand", "acmefoo">>}
EnvSet    == {Empty, <<"default">>, <<"eu", "default">>}
NameSet   == {<<"K">>}
RestSet   == {p \o n : p \in PathSet, n \in NameSet} \cup {<<"K">>, Acme \o <<"..", "K">>}
PrefixSet == {Empty, <<"">> \o Empty, Acme \o Empty, Acme \o <<"eu">>, <<"brand">>,
              <<"brand", "acmefoo">>}
ArgSet    == {Acme \o <<"K">>, Acme \o <<"eu", "K">>, <<"">> \o Acme \o <<"K">>, <<"K">>, <<"", "K">>}
LongerSet == {<<"acme", "acmefoo">>}
=============================================================================
