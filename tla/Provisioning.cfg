\* deploy and teardown in any order, two functions, two keys, two faults.
SPECIFICATION Spec
CONSTANTS
    Fns = {f1, f2}
    MaxKeys = 2
    MaxFaults = 2
INVARIANTS
    Deployed
    LeftoversReported
    DeployFailsForAReason
PROPERTIES
    TeardownConverges
