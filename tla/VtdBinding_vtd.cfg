SPECIFICATION Spec
CONSTANTS
    Agents <- MCAgents
    OsiAgents <- MCOsiAgents
    Strangers <- MCStrangers
    Scenarios <- MCScenarios
    RetryAttempts = 2
    WaitTries = 1
    OsiForms <- MCForms
    MockMount = "overwrite_none"
    OsiThreshold = 2
    MaxStep = 2
    MaxEvents = 2
INVARIANTS FrameAligned VehiclesCounted
PROPERTY ConnectReturns
CHECK_DEADLOCK FALSE
