----------------------------- MODULE ScopeStrings -----------------------------
(***************************************************************************)
(* The string operations of ScopeTexts at work: a program types texts,     *)
(* turns them into scopes and walks up and down the tree                   *)
(* (rok-core/src/keys/scope.rs).                                           *)
(*                                                                         *)
(* This module justifies Scopes, where a scope is its list of components.  *)
(***************************************************************************)
EXTENDS ScopeTexts

CONSTANT
    MaxText     \* bound: length of a text

ASSUME MaxTextAssumption == MaxText \in Nat \ {0}

VARIABLES
    text,       \* the text last typed
    scope       \* the scope held, as its string

vars == <<text, scope>>

-------------------------------------------------------------------------------
Init == text = <<>> /\ scope = RootText

Type(c) ==
    /\ Len(text) < MaxText
    /\ text' = Append(text, c)
    /\ UNCHANGED scope

Clear == text # <<>> /\ text' = <<>> /\ UNCHANGED scope

\* Scope::new, when it accepts the text.
NewScope == Valid(text) /\ scope' = text /\ UNCHANGED text

\* Scope::parent, when there is one.
GoUp == scope # RootText /\ scope' = Parent(scope) /\ UNCHANGED text

\* Scope::child, when it accepts the text as a segment.
GoDown ==
    /\ ValidSegment(text)
    /\ Len(Child(scope, text)) <= MaxText
    /\ scope' = Child(scope, text)
    /\ UNCHANGED text

Next == (\E c \in Char : Type(c)) \/ Clear \/ NewScope \/ GoUp \/ GoDown

Spec == Init /\ [][Next]_vars

-------------------------------------------------------------------------------
(* Properties *)

\* What the first n of a list of components look like, for every n.
Paths(components) ==
    LET path[n \in 0..Len(components)] ==
            IF n = 0 THEN <<>> ELSE path[n - 1] \o <<"/">> \o components[n]
    IN  path

\* The path a list of components stands for.
Path(components) ==
    IF components = <<>> THEN RootText ELSE Paths(components)[Len(components)]

\* The well-formed paths: those of lists of segments.  A text of MaxText
\* characters holds at most MaxText \div 2 segments.
WellFormedPaths ==
    {Path(components) : components \in
        BoundedSeq(BoundedSeq(Letter, MaxText - 1) \ {<<>>}, MaxText \div 2)}

\* Scope::new accepts exactly the well-formed paths, and every scope reached by
\* new, parent and child is one (scope.rs:25-68, 107-143).
ScopesAreWellFormed ==
    /\ Valid(text) <=> text \in WellFormedPaths
    /\ scope \in WellFormedPaths

\* A scope and its list of components determine each other, and depth counts
\* them (scope.rs:88-104).
ComponentsDetermineScope ==
    /\ Path(Components(scope)) = scope
    /\ Depth(scope) = Len(Components(scope))

\* The ancestor test on strings is the prefix test on components: siblings that
\* share leading letters are kept apart (scope.rs:74-84).
AncestorIsComponentPrefix ==
    Valid(text) =>
        /\ IsAncestorText(scope, text) <=> IsPrefix(Components(scope), Components(text))
        /\ IsAncestorText(text, scope) <=> IsPrefix(Components(text), Components(scope))

\* Listing by scope prefix, which the storage backends decide for themselves,
\* selects exactly the scopes a key of that scope can read
\* (storage/mod.rs:134-141, fileverse.rs:251-254, scope.rs:74-84).
ListingMatchesAccess ==
    Valid(text) => (InList(scope, text) <=> IsAncestorText(scope, text))

\* Going up removes the last component, going down adds one
\* (scope.rs:107-143).
MovesAreByOneComponent ==
    [][/\ GoUp => Components(scope') = Front(Components(scope))
       /\ GoDown => Components(scope') = Append(Components(scope), text)]_vars

===============================================================================
