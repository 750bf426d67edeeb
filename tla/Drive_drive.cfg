SPECIFICATION Spec
CONSTANTS
    Switches <- MCSwitches
    PushButtons <- MCPushButtons
    Repeating <- MCRepeating
    Delay = 1
    Interval = 0
    Configs <- MCConfigs
    RetryLimit = 1
INVARIANT AccHasTarget
PROPERTIES OneStepLatency BrakesInTime PressCounted StepEnds
CHECK_DEADLOCK FALSE
