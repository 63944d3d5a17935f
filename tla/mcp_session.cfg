CONSTANTS
    k1 = k1
    k2 = k2
    k3 = k3
    owner = owner
    agent = agent
    garbled = garbled
    None = None
    Call = {k1, k2, k3}
    OwnerCred = {owner}
    AgentCred = {agent, garbled}
    Garbled = {garbled}
    AgentScope <- KeysForSub
    InitialDisk = {None, owner, garbled}
    MaxWrites = 1
    MaxRestarts = 1
    MaxEntries = 2
SPECIFICATION Spec
SYMMETRY CallSymmetry
INVARIANTS
    IInv
    OneSessionPerCall
    CountNeverOverstates
    SetupSurvivesRestart
PROPERTIES
    OnlyOwnersStore
