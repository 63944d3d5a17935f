SPECIFICATION Spec
CONSTANTS
    a = a  o1 = o1  o2 = o2  n1 = n1  long = long  p1 = p1  p2 = p2
    Segment = {a}
    Scope <- DocScopes
    Owner = {o1, o2}
    NoParent = NoParent
    Nonce = {1, 2}
    Name = {n1, long}
    LongName = long
    Width = 3
    Unreadable = Unreadable
    Author = o1
    Keys <- DocKeys
    Recipients <- DocRecipients
    Single = Single
    Path = {p1, p2}
    PathOf <- DocPathOf
    Nothing = Nothing
    MaxWrites = 1
    MaxCommands = 1
    MaxRekeys = 1
    MaxSections = 2
    Producer = o1
    StreamScope <- StreamOf
    Consumer <- StreamKeys
    MaxConsumers = 2
    MaxChunks = 2
INVARIANTS
    TypeOK
    WrittenFileReadsBack
    CutFilesYieldAPrefix
    DecryptSectionsIsComplete
    DisclosureIsExact
    RekeyIsLocal
    ReadersAreConsumersWithKeys
