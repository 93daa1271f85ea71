\* One fault is enough for a deploy to wire its functions to a dying key.
SPECIFICATION Spec
CONSTANTS
    Fns = {f1}
    MaxKeys = 2
    MaxFaults = 1
INVARIANT DeployedKeyUsable
