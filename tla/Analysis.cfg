SPECIFICATION Spec
CONSTANTS
    None = None
    Topics = {"odometry", "status"}
    Retained = {"odometry"}
    Times = {1, 2}
    MaxMessages = 3
    MaxFiles = 2
    Commands <- MCCommands
    CommandSteps = {0, 1, 2}
    MaxCommands = 5
    Throttles = {1, 2, 3, 4}
    Speeds = {1, 3, 5}
    PlateauSpeeds = {0, 1, 3}
    Gains = {1, 2}
    MaxEvents = 7
    Rates <- MCRates
    RateSteps = {0, 1, 2, 3}
    MaxRates = 3
    GridSteps = {1, 2}
    MaxRuns = 5
    Circle = 60
    Tolerance = 1
    MaxReadings = 8
    Measurements = {0, 1, 5, 18, 32, 45, 49, 50, 52, 53, 54}
    StepsTaken <- MCStepsTaken
    MaxSamples = 3
    Drives <- MCDrives
    Rolls <- MCRolls
    Spans <- MCSpans
    MaxDrives = 3
    MaxMoments = 5
    MotionThreshold = 2
    MinSamples = 2
    ZeroTolerance = 0
    Spread = 1
    GapLimit = 1
    MinNeutral = 1
    MinDuration = 2
    Settling = 1
    PlateauGap = 2
    MinPlateau = 1
    MaxTransition = 3
    MinStep = 2
    Exclusion = 3
    MaxGap = 2
INVARIANTS
    BagIsWhatIsLeft SegmentsAreTrue PointsAreTrue TuningIsTrue SeriesAreTrue ScansAreTrue
CHECK_DEADLOCK FALSE
