------------------------------- MODULE MCSharing -------------------------------
\* Instances of AccessPolicy with Vault for TLC.
EXTENDS Vault, TLC

CONSTANTS a, k1, k2, d1, d2

\* The root and one scope below it.
MCScope == {<<>>, <<a>>}

Symmetry == Permutations({k1, k2}) \cup Permutations({d1, d2})

===============================================================================
