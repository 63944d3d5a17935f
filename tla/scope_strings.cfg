CONSTANTS
    Letter = {"a", "b"}
    Other = {"."}
    MaxText = 5
SPECIFICATION Spec
INVARIANTS
    ScopesAreWellFormed
    ComponentsDetermineScope
    AncestorIsComponentPrefix
    ListingMatchesAccess
PROPERTY MovesAreByOneComponent
