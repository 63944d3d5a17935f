CONSTANTS
    a = a
    k1 = k1
    k2 = k2
    d1 = d1
    d2 = d2
    None = None
    NoExpiry = NoExpiry
    Segment = {a}
    Scope <- MCScope
    Key = {k1, k2}
    Doc = {d1, d2}
    Expiry = {0, 1}
    MaxTime = 2
    MaxGrants = 2
    MaxRekeys = 2
SYMMETRY Symmetry
SPECIFICATION Spec
INVARIANT
    ExpiryHonoured
