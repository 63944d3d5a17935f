-------------------------------- MODULE Scopes --------------------------------
(***************************************************************************)
(* Hierarchical scopes (rok-core/src/keys/scope.rs), seen as the sequence  *)
(* of their path components: Root is "/", <<"a", "b">> is "/a/b".  That    *)
(* the string operations of the code and this view agree is checked, text  *)
(* by text, in ScopeStrings.                                               *)
(***************************************************************************)
EXTENDS Naturals, Sequences, SequencesExt

CONSTANTS
    Segment,   \* the path components in use
    Scope      \* the scopes in use: a set of sequences of components

Root == <<>>

\* Scope::is_ancestor_of: a scope is its own ancestor, Root is everyone's.
IsAncestorOf(s, d) == IsPrefix(s, d)

\* The guard of derive_child and of derive_child_read_secret.
IsProperDescendant(d, s) == IsAncestorOf(s, d) /\ s # d

\* The scope path made of the first n components of s (derive.rs joins
\* child_components[..=i] and puts "/" in front).
PathPrefix(s, n) == SubSeq(s, 1, n)

ASSUME ScopeAssumption ==
    /\ Scope \subseteq Seq(Segment)
    /\ Root \in Scope
    /\ \A s \in Scope : \A n \in 0..Len(s) : PathPrefix(s, n) \in Scope

\* The scopes below which s lies, from the outermost one to s itself.
PathTo(s) == [n \in 1..Len(s) |-> PathPrefix(s, n)]

===============================================================================
