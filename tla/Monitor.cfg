\* Two starts, a window and a deque of events that overflow.
SPECIFICATION Spec
CONSTANTS
    Samplers = {t1, t2}
    Keys <- TwoKeys
    TargetSets <- GatewayComesAndGoes
    Window = 2
    MaxEvents = 1
    MaxSamples = 3
    Faults = {"targets", "sample"}
INVARIANTS TypeOK OutagesMatchSamples EventsMatchSamples OneLateSample RunningIsSampled
PROPERTIES StopIsNoticed
CHECK_DEADLOCK FALSE
