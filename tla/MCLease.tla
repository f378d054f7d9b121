------------------------------- MODULE MCLease -------------------------------
(* An instance of Lease for TLC: scopes that overlap as a file and a        *)
(* pattern, as two patterns, through a serialized resource, and not at all. *)
EXTENDS Lease, TLC

CONSTANTS t1, t2

MCTasks == {t1, t2}
MCFiles == {<<"src", "a">>, <<"src", "b">>, <<"lib", "x">>, <<"lib", "a">>}
MCScopes == {{<<"src", Star>>}, {<<"src", "b">>}, {<<Globstar, "a">>}, {<<"lib", "x">>}}
MCSerialized == {<<"lib", Globstar>>}

Symmetry == Permutations(MCTasks)
=============================================================================
