--------------------------- MODULE MCStateVersions ---------------------------
(* Small instances of StateVersions.                                        *)
EXTENDS StateVersions, TLC

CONSTANTS i1, i2, q1, q2

\* A free name, and the default name of the second fork.
MCNames == {<<"named", 1>>, <<"branch", 2>>}

\* Neither items nor queries are told apart.
MCSymmetry == Permutations(Items) \cup Permutations(Queries)
=============================================================================
