-------------------------------- MODULE MCMemory -------------------------------
\* Instances of Memory for TLC.
EXTENDS Memory, TLC

CONSTANTS o1, o2, v1, v2, c1, c2, c3

Symmetry == Permutations({o1, o2}) \cup Permutations(Copy)

A == <<"/", "a">>
AA == <<"/", "a", "a">>
AB == <<"/", "a", "/", "b">>
K == <<"k">>

\* Key names with a slash and with a colon.
OddNames == {<<A, <<"b", "/", "k">>>>, <<A, <<"k", ":", "k">>>>}

\* The root, a scope, one below it, and the empty key name at a sibling that
\* shares its first letters.
MCName == {<<RootText, K>>, <<A, K>>, <<AB, K>>, <<AA, <<>>>>} \cup OddNames

Given(name, content) == [name |-> name, content |-> content]

\* A new value after another one for the same pair, a scope that is refused,
\* a pair the session may not see, and nothing.
MCBatch == {
    <<Given(<<A, K>>, v1), Given(<<A, K>>, v2)>>,
    <<Given(<<<<"a">>, K>>, v1), Given(<<AB, K>>, v1)>>,
    <<Given(<<RootText, K>>, v2)>>, <<>> }

===============================================================================
