CONSTANTS
    a = a
    b = b
    o1 = o1
    o2 = o2
    p1 = p1
    p2 = p2
    NoParent = NoParent
    Segment = {a, b}
    Scope <- TreeScopes
    Owner = {o1, o2}
    Principal = {o1, o2, p1}
    Nonce = {1}
    MaxKeys = 2
    MaxExports = 1
    MaxEnvelopes = 2
    MaxRecipients = 1
SPECIFICATION Spec
INVARIANTS
    KeysAreCanonical
    ReadIffAuthorised
    Confinement
    IInv
    ListedKeyDecrypts
    SignersHadAccess
