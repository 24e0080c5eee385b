CONSTANTS
    Users = {u1}
    Labels = {l1}
    Chunks = {d1}
    MaxStores = 1
SPECIFICATION TrackerFairSpec
PROPERTIES NothingStaysStuck
