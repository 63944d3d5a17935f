------------------------------ MODULE ScopeTexts ------------------------------
(***************************************************************************)
(* The string operations on scopes (rok-core/src/keys/scope.rs) and the    *)
(* filter by scope of the storage backends.  A text is a sequence of       *)
(* characters.  ScopeStrings checks these operations against the view of a *)
(* scope as its list of components; Memory names stored entries with them. *)
(***************************************************************************)
EXTENDS Naturals, Sequences, SequencesExt, FiniteSets, FiniteSetsExt

CONSTANTS
    Letter,     \* characters a segment may have (alphanumeric, '-', '_')
    Other       \* characters it may not have

Char == Letter \cup Other \cup {"/"}

ASSUME LetterAssumption == Letter \cap (Other \cup {"/"}) = {}

RootText == <<"/">>

\* A slip: runs of slashes inside the path are let through.
ValidWithGaps(path) ==
    /\ path # <<>>
    /\ path[1] = "/"
    /\ Len(path) > 1 => Last(path) # "/"
    /\ \A i \in 2..Len(path) : path[i] \in Letter \cup {"/"}

\* Scope::new accepts the path.
Valid(path) ==
    /\ path # <<>>
    /\ path[1] = "/"
    /\ Len(path) > 1 => Last(path) # "/"
    /\ \A i \in 1..(Len(path) - 1) : ~(path[i] = "/" /\ path[i + 1] = "/")
    /\ \A i \in 2..Len(path) : path[i] \in Letter \cup {"/"}

\* A slip: the byte after the prefix is not looked at, so "/a" covers "/ab".
IsAncestorByPrefixOnly(s, d) == s = RootText \/ IsPrefix(s, d)

\* Scope::is_ancestor_of
IsAncestorText(s, d) ==
    \/ s = RootText
    \/ s = d
    \/ IsPrefix(s, d) /\ Len(d) > Len(s) /\ d[Len(s) + 1] = "/"

\* A slip: the slash after the prefix is forgotten.
InListByPrefixOnly(prefix, s) == prefix = RootText \/ IsPrefix(prefix, s)

\* The filter of StorageBackend::list, in both backends: an entry of scope s
\* is among those listed for a prefix.
InList(prefix, s) == s = prefix \/ IsPrefix(Append(prefix, "/"), s) \/ prefix = RootText

\* The positions of the slashes, in order.
Slashes(s) ==
    LET at == {i \in 1..Len(s) : s[i] = "/"}
    IN  [n \in 1..Cardinality(at) |->
            CHOOSE i \in at : Cardinality({j \in at : j <= i}) = n]

\* Scope::components: what lies between one slash and the next.
Components(s) ==
    IF s = RootText THEN <<>>
    ELSE LET cut == Append(Slashes(s), Len(s) + 1)
         IN  [n \in 1..(Len(cut) - 1) |-> SubSeq(s, cut[n] + 1, cut[n + 1] - 1)]

\* A slip: the root is given a depth of one.
DepthOfSlashes(s) == Cardinality({i \in 1..Len(s) : s[i] = "/"})

\* Scope::depth
Depth(s) == IF s = RootText THEN 0 ELSE Cardinality({i \in 1..Len(s) : s[i] = "/"})

\* Where a character stands last, if it is there at all.
LastOf(char, text) == Max({i \in DOMAIN text : text[i] = char})

\* A slip: the slash stays on the parent.
ParentWithSlash(s) == SubSeq(s, 1, LastOf("/", s))

\* Scope::parent, where there is one.
Parent(s) ==
    LET pos == LastOf("/", s)
    IN  IF pos = 1 THEN RootText ELSE SubSeq(s, 1, pos - 1)

ValidSegment(segment) == segment # <<>> /\ \A i \in DOMAIN segment : segment[i] \in Letter

\* Scope::child, for a valid segment.
Child(s, segment) ==
    (IF s = RootText THEN RootText ELSE Append(s, "/")) \o segment

===============================================================================
