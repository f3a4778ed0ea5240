CONSTANTS
    Active <- MCActive
    MaxEdits = 1
    MaxFaults = 1
SPECIFICATION Spec
INVARIANT Inductive
PROPERTIES
    StableUntilNewSpec
    Provisioned
    StatusMirrored
