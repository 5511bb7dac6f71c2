CONSTANTS
    Labels = {1, 2}
    BadLabel = BadLabel
    Images = {i1, i2}
    NoImage = NoImage
    Ports = {p0, p1}
    EmptyPorts = p0
    NoPorts = NoPorts
    Metas = {m1}
    Gone = Gone
    NoRequest = NoRequest
    NoAnswer = NoAnswer
    Clients = {c1, c2}
    Calls <- MixedCalls
    MaxRevision = 3
SPECIFICATION Spec
SYMMETRY ClientSymmetry
INVARIANTS
    TypeOK
    TopFollowsNewest
    VersionsIdentified
    RevisionIdentifiesVersions
    ConflictIsReal
PROPERTIES
    KeepsOneVersion
    OnlyCheckedVersionsRemoved
    ImplementsAtomic
