SPECIFICATION FairSpec
CONSTANTS
    Period = 2
    CmdUnit = 4
    LinearX <- MCLinearX
    NonFinite = NonFinite
    CmdTimeout = 2
    IoAttempts = 3
    BootChannels <- MCBootChannels
    NoReversal = NoReversal
    MaxInFlight = 2
    MaxFaults = 2
    AgeCap = 13
INVARIANTS
    DriveMatchesLastCommand
    ReportedDirectionIsHardware
    KernelAcceptsEveryWrite
    StaleDriveBounded
    StopLeavesBrake
PROPERTIES
    DirChangesOnlyUndriven
    SilenceStopsMotor
