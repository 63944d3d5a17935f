CONSTANTS
    c1 = c1
    c2 = c2
    c3 = c3
    t1 = t1
    t2 = t2
    v1 = v1
    v2 = v2
    None = None
    Client = {c1, c2}
    Title = {t1}
    Content = {v1, v2}
    MaxFaults = 0
    MaxCalls = 2
SPECIFICATION Spec
INVARIANTS
    UniqueTitles
