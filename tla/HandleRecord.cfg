\* Four requests and one release.
SPECIFICATION FairSpec
CONSTANTS
    u1 = u1  u2 = u2  u3 = u3  u4 = u4
    Users = {u1, u2, u3, u4}
INVARIANT LeaseIsValid
PROPERTIES ImplementsOwnership ImplementsOwnershipFairly
CHECK_DEADLOCK FALSE
