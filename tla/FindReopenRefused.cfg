SPECIFICATION Spec
CONSTANTS
    k1 = k1
    k2 = k2
    Any = Any
    MaxSlaves = 3
    Kinds <- TwoKinds
    Configured <- FirstTwo
    Expected <- ExpectK1
    UserSm <- SecondSm
    GroupCfg <- TwoGroups
INVARIANT UnnamedNeverRefused
