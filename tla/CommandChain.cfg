SPECIFICATION Spec
CONSTANTS
    NotFinite = NotFinite
    None = None
    MinSpeed = 2
    MaxSpeed = 3
    EffortPerSpeed = 1
    EffortIntercept = 0
    OutputMax = 5
    IntegratorBound = 1
    NavTimeout = 1
    EncoderTimeout = 2
    MotionTimeout = 1
    Recent = 1
    MaxDt = 2
    SlipRatio = 2
    SlipExcess = 1
    SlipQualification = 1
    MaxGain = 1
    TeleopTimeout = 1
    MotorTimeout = 1
    NavSpeeds <- MCNavSpeeds
    WheelSpeeds = {0, 5}
    GroundSpeeds = {0}
    Directions <- MCDirections
    OperatorEffort = 2
INVARIANT Inv
PROPERTY LearnsOnlyItsOwn
