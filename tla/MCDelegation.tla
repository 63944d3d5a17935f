------------------------------ MODULE MCDelegation ------------------------------
\* Instances of Delegation for TLC.
EXTENDS Delegation

CONSTANTS a, b, o1, o2, p1, p2

\* "/", "/a", "/a/b" and the sibling "/b" whose name is that of a grandchild.
TreeScopes == {<<>>, <<a>>, <<a, b>>, <<b>>}

\* "/" and "/a": enough to have a key above and one at the scope.
FlatScopes == {<<>>, <<a>>}

===============================================================================
