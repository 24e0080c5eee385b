CONSTANTS
    Users = {u1, u2}
    Labels = {l1}
    Chunks = {d1}
    MaxStores = 1
SPECIFICATION TrackerSpec
PROPERTIES NeverBackToLoaded
