SPECIFICATION FairSpec
CONSTANTS
    Units = {u1}
    LeaseIds = {l1, l2, l3}
    Ttl = 2
    Examples = 2
    MaxTime = 4
    MaxLaunches = 3
    None = None
INVARIANTS AppliedOnce StoredIsTrue OneLeaseTrail DoneIsDelivered
PROPERTIES LaunchEnds
CHECK_DEADLOCK FALSE
