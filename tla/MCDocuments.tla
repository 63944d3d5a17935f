------------------------------- MODULE MCDocuments -------------------------------
\* Instances of Documents for TLC.
EXTENDS Documents

CONSTANTS a, o1, o2, n1, long, p1, p2

\* The names are one path, as "a" and "./a"; what is at p2 is to be left alone.
DocPathOf == [n \in {n1, long} |-> p1]

\* "/" and "/a".
DocScopes == {<<>>, <<a>>}

\* The keys of the author, and one of the other owner's.
DocKeys == {CliKey(o1, s) : s \in DocScopes} \cup {CliKey(o2, <<a>>)}

\* No recipient, keys of the author for "/" and "/a", and the other owner's.
DocRecipients ==
    {{}, {CliKey(o1, Root).secret, CliKey(o1, <<a>>).secret}, {CliKey(o2, <<a>>).secret}}

StreamOf == <<a>>

\* The keys of "/" and of the stream's scope, and one of the other owner's.
StreamKeys == {CliKey(o1, Root), CliKey(o1, <<a>>), CliKey(o2, <<a>>)}

===============================================================================
