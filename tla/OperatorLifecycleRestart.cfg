CONSTANTS
    Ids = {o1, o2}
    Users = {u1}
    Nobody = Nobody
    Batches <- Singles
    MaxFaults = 2
SPECIFICATION FairSpec
PROPERTIES
    RestartRepairs
