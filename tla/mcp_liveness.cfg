CONSTANTS
    k1 = k1
    k2 = k2
    k3 = k3
    owner = owner
    agent = agent
    garbled = garbled
    None = None
    Call = {k1, k2, k3}
    OwnerCred = {owner}
    AgentCred = {agent}
    Garbled = {}
    AgentScope <- KeysForSub
    InitialDisk = {owner}
    MaxWrites = 0
    MaxRestarts = 0
    MaxEntries = 2
SPECIFICATION FairSpec
PROPERTIES
    CallsFinish
