SPECIFICATION Spec
CONSTANTS
    Targets = {"x", "y"}
    Subs = {"a", "b", "c"}
    Buckets = 2
    Bucket <- MCBucket
    Outputs <- MCOutputs
    Faults = {"mv", "missing", "send", "early", "late"}
    MaxScans = 3
INVARIANTS NothingNewIsMissed NoLeftoverWithoutCrash
PROPERTY ImplementsMonitor
