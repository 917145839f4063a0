\* A stop and a start while the sampler sleeps.
SPECIFICATION Spec
CONSTANTS
    Samplers = {t1, t2}
    Keys <- TwoKeys
    TargetSets <- GatewayComesAndGoes
    Window = 2
    MaxEvents = 2
    MaxSamples = 3
    Faults = {}
INVARIANT OneSampler
CHECK_DEADLOCK FALSE
