CONSTANTS
    Ids = {o1, o2}
    Users = {u1, u2}
    Nobody = Nobody
    Batches <- ShortBatches
    MaxFaults = 0
SPECIFICATION Spec
SYMMETRY IdSymmetry
INVARIANTS
    AllOrNone
