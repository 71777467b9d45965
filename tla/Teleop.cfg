SPECIFICATION TeleopSpec
CONSTANTS
    ControllerTimeout = 1
    KeyboardTimeout = 1
    MinSetpoint = 1
    MaxSetpoint = 2
    InitialSetpoint = 1
INVARIANTS Inv NothingWithoutRelease InhibitedUntilRelease
