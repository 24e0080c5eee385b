\* Two tasks and one transaction.
CONSTANTS
    Users = {u1, u2}
    Labels = {l1}
    Chunks = {d1}
    MaxStores = 1
SPECIFICATION TrackerFairSpec
INVARIANTS MapIsTruthful
PROPERTIES RecoveryFinishes
