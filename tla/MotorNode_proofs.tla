-------------------------- MODULE MotorNode_proofs --------------------------
(***************************************************************************)
(* Proofs about MotorNode and Teleop, for every value of their constants.  *)
(***************************************************************************)
EXTENDS MotorNode, Teleop, SequenceTheorems, TLAPS

\* A command's duty is a duty of the configured period.
LEMMA CommandRange ==
    ASSUME NEW x \in LinearX \cup {NonFinite}
    PROVE  /\ MapMotorCommand(x).direction \in {-1, 0, 1}
           /\ MapMotorCommand(x).duty \in 0..Period
<1>1. CASE x = NonFinite
  BY <1>1, MotorAssumption DEF MapMotorCommand
<1>2. CASE x # NonFinite
  <2>1. x \in Int
    BY <1>2, MotorAssumption
  <2>2. Magnitude(x) \in 0..CmdUnit
    BY <2>1, MotorAssumption DEF Magnitude
  <2>3. \A m \in 0..CmdUnit : (m * Period) \div CmdUnit \in 0..Period
    <3> TAKE m \in 0..CmdUnit
    <3>1. m * Period \in Nat /\ m * Period <= CmdUnit * Period
      BY MotorAssumption
    <3>2. (CmdUnit * Period) \div CmdUnit = Period
      BY MotorAssumption
    <3> QED  BY <3>1, <3>2, MotorAssumption
  <2> QED  BY <1>2, <2>1, <2>2, <2>3 DEF MapMotorCommand
<1> QED  BY <1>1, <1>2

-----------------------------------------------------------------------------
(* Type correctness *)

\* The stationary gate runs only with a reversal to apply.
GateHasReversal == pc \in {"e_zero", "e_dir"} => pending \in Reversals

TypeInv == TypeOK /\ GateHasReversal

LEMMA TypeInit == Init => TypeInv
<1> SUFFICES ASSUME Init PROVE TypeInv
  OBVIOUS
<1> USE DEF Init, Lines, DIR_FORWARD, DIR_REVERSE
<1>1. pwm \in Channels
  BY MotorAssumption
<1>2. samples \in Seq(BOOLEAN)
  OBVIOUS
<1> QED
  BY <1>1, <1>2 DEF TypeInv, TypeOK, GateHasReversal, Labels

LEMMA TypeStep == TypeInv /\ [Next]_vars => TypeInv'
<1> SUFFICES ASSUME TypeInv, [Next]_vars PROVE TypeInv'
  OBVIOUS
<1> USE MotorAssumption DEF TypeInv, TypeOK, GateHasReversal, Labels, InitLabels,
    HandlerLabels, StopLabels, Lines, DIR_FORWARD, DIR_REVERSE, Goto, hardware,
    control, clocks
<1>1. CASE Launch
  BY <1>1 DEF Launch
<1>2. CASE InitStep
  <2> USE DEF Channels
  <2>1. CASE InitRead
    BY <2>1 DEF InitRead
  <2>2. CASE InitHotPolarity \/ InitServo
    BY SMTT(30), <2>2 DEF InitHotPolarity, InitServo
  <2>3. CASE InitHotZero
    BY <2>3 DEF InitHotZero, WriteDuty
  <2>4. CASE InitFirstPeriod
    BY <2>4 DEF InitFirstPeriod, WritePeriod
  <2>10. CASE InitPeriod
    BY <2>10 DEF InitPeriod, WritePeriod
  <2>11. CASE InitDuty
    BY <2>11 DEF InitDuty, WriteDuty
  <2>5. CASE InitPolarity
    BY ZenonT(40), <2>5 DEF InitPolarity
  <2>6. CASE InitShrink
    BY SMTT(30), <2>6 DEF InitShrink, WriteDuty
  <2>7. CASE InitDir
    BY <2>7 DEF InitDir
  <2>8. CASE InitEnable
    BY <2>8 DEF InitEnable
  <2>9. CASE InitVerify
    <3>1. <<>> \in Seq(BOOLEAN)
      OBVIOUS
    <3>2. /\ pc' = "spin" /\ tries' = 0 /\ age' = 0
          /\ timedOut' = FALSE /\ wdDue' = FALSE
          /\ published' = latch /\ lastDir' = 0 /\ samples' = <<>>
          /\ UNCHANGED <<arg, pwm, dirLine, hwDir, latch, pending, faults>>
      BY <2>9, Zenon DEF InitVerify
    <3> QED  BY <3>1, <3>2
  <2> QED
    BY <1>2, <2>1, <2>2, <2>3, <2>4, <2>5, <2>6, <2>7, <2>8, <2>9, <2>10, <2>11
    DEF InitStep
<1>3. CASE \E x \in LinearX \cup {NonFinite} : OnCmd(x)
  <2> PICK x \in LinearX \cup {NonFinite} : OnCmd(x)
    BY <1>3
  <2> DEFINE d == MapMotorCommand(x).direction
             u == MapMotorCommand(x).duty
  <2>1. d \in {-1, 0, 1} /\ u \in Nat
    BY CommandRange
  <2>2. LineOf(d) \in Lines
    BY DEF LineOf
  <2>4. SetMotor(d, u)
    BY DEF OnCmd
  <2> HIDE DEF d, u
  <2>5. arg' \in Nat
    BY <2>1, <2>4 DEF SetMotor
  <2>6. pending' \in Reversals \cup {NoReversal}
    BY <2>1, <2>2, <2>4 DEF SetMotor, Reversals
  <2>7. UNCHANGED <<hardware, hwDir, latch, wdDue, published, samples, faults>> /\ lastDir' = d
        /\ pc' = "c_duty" /\ tries' = 0 /\ age' = 0 /\ timedOut' = FALSE
    BY DEF OnCmd, d
  <2> QED  BY <2>1, <2>5, <2>6, <2>7
<1>4. CASE \E s \in BOOLEAN : EncoderPublish(s)
  <2> PICK s \in BOOLEAN : EncoderPublish(s)
    BY <1>4
  <2>1. samples' \in Seq(BOOLEAN)
    <3>1. samples' = Append(samples, s)
      BY DEF EncoderPublish
    <3> QED  BY <3>1, AppendProperties, Zenon
  <2>2. UNCHANGED <<pc, arg, hardware, control, clocks, tries, published, lastDir, faults>>
    BY DEF EncoderPublish
  <2> QED  BY <2>1, <2>2
<1>5. CASE OnEncoderState
  <2>1. samples # <<>> /\ samples' = Tail(samples)
    BY <1>5 DEF OnEncoderState
  <2>2. samples' \in Seq(BOOLEAN)
    BY <2>1, HeadTailProperties, Zenon
  <2>3. /\ \/ pending # NoReversal /\ pc' = "e_zero" /\ tries' = 0 /\ arg' = pending.duty
           \/ UNCHANGED <<pc, tries, arg>>
        /\ UNCHANGED <<hardware, control, clocks, published, lastDir, faults>>
    BY <1>5, Zenon DEF OnEncoderState, Goto
  <2> QED  BY <2>2, <2>3 DEF Reversals
<1>6. CASE Watchdog
  <2>1. CASE age > CmdTimeout
    <3>1. /\ pc' = "w_zero" /\ tries' = 0 /\ wdDue' = FALSE /\ pending' = NoReversal
          /\ UNCHANGED <<arg, pwm, dirLine, hwDir, latch, age, timedOut, published,
                         lastDir, samples, faults>>
      BY <1>6, <2>1, Zenon DEF Watchdog
    <3> QED  BY <3>1
  <2>2. CASE ~(age > CmdTimeout)
    BY <1>6, <2>2 DEF Watchdog
  <2> QED  BY <2>1, <2>2
<1>7. CASE HandlerStep
  <2>1. CASE CmdDuty
    BY <2>1 DEF CmdDuty, WriteDuty, Channels
  <2>5. CASE EncoderZero
    BY <2>5 DEF EncoderZero, WriteDuty, Channels
  <2>6. CASE EncoderDuty
    BY <2>6 DEF EncoderDuty, WriteDuty, Channels
  <2>2. CASE CmdServo
    BY <2>2 DEF CmdServo
  <2>3. CASE EncoderDir
    BY <2>3 DEF EncoderDir, Reversals, SignOf
  <2>4. CASE WatchdogZero
    BY <2>4 DEF WatchdogZero, WriteDuty, Channels
  <2> QED  BY <1>7, <2>1, <2>2, <2>3, <2>4, <2>5, <2>6 DEF HandlerStep
<1>8. CASE StopStep
  <2>1. CASE StopDuty
    BY <2>1 DEF StopDuty, WriteDuty, Channels
  <2>2. CASE StopServo
    BY <2>2 DEF StopServo
  <2> QED  BY <1>8, <2>1, <2>2 DEF StopStep
<1>9. CASE Raise \/ Crash
  BY SMTT(30), <1>9 DEF Raise, Crash
<1>10. CASE Tick
  BY <1>10 DEF Tick, Older
<1>11. CASE IoRetry
  BY <1>11 DEF IoRetry, Older
<1>12. CASE UNCHANGED vars
  BY <1>12 DEF vars
<1> QED
  BY <1>1, <1>2, <1>3, <1>4, <1>5, <1>6, <1>7, <1>8, <1>9, <1>10, <1>11, <1>12
  DEF Next, Environment

\* Every variable keeps its type in every behaviour of the node.
THEOREM TypeCorrect == Spec => []TypeOK
<1>1. TypeInv => TypeOK
  BY DEF TypeInv
<1> QED  BY <1>1, TypeInit, TypeStep, PTL DEF Spec

-----------------------------------------------------------------------------
(* The control invariant: what each label of a handler knows of the        *)
(* hardware.  The safety properties speak of states between handlers, so   *)
(* none of them is inductive by itself.                                    *)

Running == HandlerLabels \cup StopLabels \cup {"spin"}

\* The channel as initialize_pwm leaves it step by step.
ChannelInv ==
    /\ ChannelOK(pwm)
    /\ pc \in {"i_hot_zero", "i_hot_polarity"} => pwm.enabled
    /\ pc \in {"i_first_period", "i_polarity", "i_shrink"} => ~pwm.enabled
    /\ pc = "i_first_period" => pwm.period = 0 /\ arg = 0
    /\ pc = "i_hot_polarity" => pwm.duty = 0
    /\ pc \in {"i_polarity", "i_shrink", "i_period", "i_duty"} => pwm.period # 0
    /\ pc = "i_polarity" /\ arg = 0 => pwm.period = Period
    /\ pc \in {"i_shrink", "i_period", "i_duty"} => pwm.normal
    /\ pc = "i_period" => pwm.duty <= Period
    /\ pc \in {"i_period", "i_duty"} /\ pwm.enabled => pwm.duty = 0
    /\ pc = "i_duty" => pwm.period = Period
    /\ pc \in {"i_servo", "i_dir", "i_enable", "i_verify"} =>
          pwm.normal /\ pwm.period = Period /\ pwm.duty = 0
    /\ pc = "i_verify" => pwm.enabled
    /\ pc \in Running => pwm.normal /\ pwm.period = Period /\ pwm.enabled
    /\ pc = "s_servo" => pwm.duty = 0

\* The node's picture of the line.
LineInv ==
    /\ pc \in Running \cup {"i_enable", "i_verify"} =>
          hwDir = dirLine /\ latch = SignOf(dirLine)
    /\ pc \in {"i_enable", "i_verify", "e_duty", "w_zero"} => pending = NoReversal
    /\ pc \in {"spin", "c_duty", "c_servo", "e_zero", "e_dir", "w_zero", "s_servo"} =>
          published = SignOf(dirLine)

\* A pending reversal, the duty that waits to be written, and the last command.
DriveInv ==
    /\ pc \in Running /\ pending # NoReversal =>
          /\ pending \in Reversals
          /\ pending.dir # dirLine
          /\ pending.duty <= Period
          /\ lastDir = SignOf(pending.dir)
          /\ IF pc = "c_duty" THEN arg = 0 ELSE pwm.duty = 0
    /\ pc \in {"e_zero", "e_dir"} => pending # NoReversal /\ arg = pending.duty
    /\ pc \in {"c_duty", "e_duty"} => arg <= Period
    /\ pc \in {"e_dir", "e_duty"} => pwm.duty = 0
    /\ pc = "c_duty" /\ arg > 0 => lastDir = SignOf(dirLine)
    /\ pc = "e_duty" => lastDir = SignOf(dirLine)
    /\ pc \in {"spin", "c_servo", "w_zero", "e_zero"} /\ pwm.duty > 0 =>
          lastDir = SignOf(dirLine)

ControlInv == TypeInv /\ ChannelInv /\ LineInv /\ DriveInv

\* What a running node with that invariant can be driving on.
TimeInv ==
    LET R == RetryTicks
        Late == IF CmdTimeout + 1 > 2 * R THEN CmdTimeout + 1 ELSE 2 * R
        Live == pwm.duty > 0 \/ pending # NoReversal
    IN  /\ tries <= R
        /\ pc = "spin" /\ ~wdDue /\ Live => age <= CmdTimeout
        /\ pc = "spin" /\ pending # NoReversal => age <= Late
        /\ pc = "spin" /\ pwm.duty > 0 => age <= Late + 2 * R
        /\ pc = "c_duty" => age <= tries
        /\ pc = "c_duty" /\ tries > 0 => wdDue
        /\ pc = "c_servo" => age <= R + tries
        /\ pc = "c_servo" /\ age > 0 => wdDue
        /\ pc = "e_zero" => age <= Late + tries
        /\ pc = "e_dir" => age <= Late + R
        /\ pc = "e_duty" => age <= Late + R + tries
        /\ pc \in {"e_zero", "e_dir", "e_duty"} /\ age > CmdTimeout => wdDue
        /\ pc = "w_zero" /\ pwm.duty > 0 => age <= Late + 2 * R + tries
        /\ pc = "s_duty" /\ pwm.duty > 0 => age <= Late + 3 * R + tries

LEMMA ControlInit == Init => ControlInv
<1> SUFFICES ASSUME Init PROVE ControlInv
  OBVIOUS
<1>1. ChannelOK(pwm)
  BY MotorAssumption DEF Init
<1> QED
  BY <1>1, TypeInit DEF Init, ControlInv, ChannelInv, LineInv, DriveInv, Running,
     HandlerLabels, StopLabels

LEMMA ControlStep == ControlInv /\ [Next]_vars => ControlInv'
<1> SUFFICES ASSUME ControlInv, [Next]_vars
             PROVE  ChannelInv' /\ LineInv' /\ DriveInv'
  BY TypeStep DEF ControlInv
<1>0. TypeOK /\ TypeOK'
  BY TypeStep DEF ControlInv, TypeInv
<1>t. /\ arg \in Nat /\ pwm \in Channels /\ dirLine \in Lines /\ hwDir \in Lines
      /\ pending \in Reversals \cup {NoReversal}
  BY <1>0 DEF TypeOK
<1> USE MotorAssumption, <1>t DEF ControlInv, ChannelInv, LineInv, DriveInv, Running,
    HandlerLabels, StopLabels, Goto, hardware, control, clocks, ChannelOK,
    Channels, Lines, DIR_FORWARD, DIR_REVERSE
<1>1. CASE Launch
  BY <1>1 DEF Launch
<1>2. CASE InitRead
  BY <1>2 DEF InitRead
<1>3. CASE InitHotZero
  BY <1>3 DEF InitHotZero, WriteDuty, AcceptsDuty
<1>4. CASE InitHotPolarity
  BY <1>4 DEF InitHotPolarity
<1>5. CASE InitFirstPeriod
  BY <1>5 DEF InitFirstPeriod, WritePeriod, AcceptsPeriod
<1>6. CASE InitPolarity
  BY <1>6 DEF InitPolarity, AcceptsPolarity
<1>7. CASE InitShrink
  BY <1>7 DEF InitShrink, WriteDuty, AcceptsDuty
<1>8. CASE InitPeriod
  BY <1>8 DEF InitPeriod, WritePeriod, AcceptsPeriod
<1>9. CASE InitDuty
  BY <1>9 DEF InitDuty, WriteDuty, AcceptsDuty
<1>10. CASE InitServo
  BY <1>10 DEF InitServo
<1>11. CASE InitDir
  BY <1>11 DEF InitDir, SignOf
<1>12. CASE InitEnable
  BY <1>12 DEF InitEnable, AcceptsEnable
<1>13. CASE InitVerify
  BY <1>13 DEF InitVerify
<1>14. CASE \E x \in LinearX \cup {NonFinite} : OnCmd(x)
  <2> PICK x \in LinearX \cup {NonFinite} : OnCmd(x)
    BY <1>14
  <2> DEFINE d == MapMotorCommand(x).direction
             u == MapMotorCommand(x).duty
  <2>1. d \in {-1, 0, 1} /\ u \in 0..Period
    BY CommandRange
  <2>2. /\ pc = "spin" /\ pc' = "c_duty" /\ lastDir' = d /\ SetMotor(d, u)
        /\ UNCHANGED <<pwm, dirLine, hwDir, latch, published>>
    BY DEF OnCmd
  <2> HIDE DEF d, u
  <2>3. ChannelInv' /\ LineInv'
    BY <2>2
  <2>4. CASE d # 0 /\ LineOf(d) # hwDir
    BY <2>1, <2>2, <2>4 DEF SetMotor, LineOf, SignOf, Reversals
  <2>5. CASE ~(d # 0 /\ LineOf(d) # hwDir)
    BY <2>1, <2>2, <2>5 DEF SetMotor, LineOf, SignOf
  <2> QED  BY <2>3, <2>4, <2>5
<1>15. CASE OnEncoderState
  BY <1>15 DEF OnEncoderState
<1>16. CASE Watchdog
  BY <1>16 DEF Watchdog
<1>17. CASE CmdDuty
  BY <1>17 DEF CmdDuty, WriteDuty, AcceptsDuty
<1>18. CASE CmdServo
  BY <1>18 DEF CmdServo
<1>19. CASE EncoderZero
  BY <1>19 DEF EncoderZero, WriteDuty, AcceptsDuty
<1>20. CASE EncoderDir
  BY <1>20 DEF EncoderDir, SignOf
<1>21. CASE EncoderDuty
  BY <1>21 DEF EncoderDuty, WriteDuty, AcceptsDuty
<1>22. CASE WatchdogZero
  BY <1>22 DEF WatchdogZero, WriteDuty, AcceptsDuty
<1>23. CASE StopDuty
  BY <1>23 DEF StopDuty, WriteDuty, AcceptsDuty
<1>24. CASE StopServo
  BY <1>24 DEF StopServo
<1>25. CASE Raise
  BY <1>25 DEF Raise
<1>26. CASE Crash
  BY <1>26 DEF Crash
<1>27. CASE Tick
  BY <1>27 DEF Tick
<1>28. CASE IoRetry
  BY <1>28 DEF IoRetry
<1>29. CASE \E s \in BOOLEAN : EncoderPublish(s)
  BY <1>29 DEF EncoderPublish
<1>30. CASE UNCHANGED vars
  BY <1>30 DEF vars
<1> QED
  BY <1>1, <1>2, <1>3, <1>4, <1>5, <1>6, <1>7, <1>8, <1>9, <1>10, <1>11,
     <1>12, <1>13, <1>14, <1>15, <1>16, <1>17, <1>18, <1>19, <1>20, <1>21,
     <1>22, <1>23, <1>24, <1>25, <1>26, <1>27, <1>28, <1>29, <1>30
  DEF Next, Environment, InitStep, HandlerStep, StopStep

LEMMA ControlCorrect == Spec => []ControlInv
  BY ControlInit, ControlStep, PTL DEF Spec

\* While the node waits for work the motor drives only in the direction of the
\* last command: no cancelled reversal is ever applied (_set_motor, _watchdog).
THEOREM DriveFollowsCommand == Spec => []DriveMatchesLastCommand
<1>1. ControlInv => DriveMatchesLastCommand
  BY DEF ControlInv, ChannelInv, DriveInv, DriveMatchesLastCommand, Driven, Running
<1> QED  BY <1>1, ControlCorrect, PTL

\* A pending reversal holds the brake until it is applied or cancelled.
THEOREM PendingReversalBrakes == Spec => []PendingHoldsBrake
<1>1. ControlInv => PendingHoldsBrake
  BY DEF ControlInv, ChannelInv, DriveInv, PendingHoldsBrake, Driven, Running
<1> QED  BY <1>1, ControlCorrect, PTL

\* Between handlers /motor/direction and the mirrors tell the line's level.
THEOREM DirectionReportIsHardware == Spec => []ReportedDirectionIsHardware
<1>1. ControlInv => ReportedDirectionIsHardware
  BY DEF ControlInv, LineInv, ReportedDirectionIsHardware, Running
<1> QED  BY <1>1, ControlCorrect, PTL

\* stop() leaves the brake on and tells the level of the line, whichever access
\* of whichever handler raised.
THEOREM StopIsSafe == Spec => []StopLeavesBrake
<1>1. ControlInv => StopLeavesBrake
  BY DEF ControlInv, ChannelInv, LineInv, StopLeavesBrake, Driven, Running, StopLabels
<1> QED  BY <1>1, ControlCorrect, PTL

\* No sysfs write of initialize_pwm, of a handler or of stop is one that the
\* kernel rejects.
THEOREM WritesAccepted == Spec => []KernelAcceptsEveryWrite
<1>1. ControlInv => KernelAcceptsEveryWrite
  BY MotorAssumption
  DEF ControlInv, ChannelInv, DriveInv, TypeInv, TypeOK, Channels, Lines,
      GateHasReversal, Reversals,
      KernelAcceptsEveryWrite, AcceptsDuty, AcceptsPeriod, AcceptsPolarity,
      AcceptsEnable, ChannelOK, Running, HandlerLabels, StopLabels
<1> QED  BY <1>1, ControlCorrect, PTL

\* The DIR line changes only while the bridge is not driven, through crashes
\* and restarts: both places that set it come after a zero duty write.
THEOREM DirectionSafety == Spec => DirChangesOnlyUndriven
<1>1. ControlInv /\ [Next]_vars => [dirLine' # dirLine => ~Driven /\ ~Driven']_vars
  <2> SUFFICES ASSUME ControlInv, [Next]_vars, dirLine' # dirLine
               PROVE  ~Driven /\ ~Driven'
    BY DEF vars
  <2>1. InitDir \/ EncoderDir
    BY DEF Next, Environment, InitStep, HandlerStep, StopStep, vars, hardware,
       Launch, InitRead, InitHotZero, InitHotPolarity, InitFirstPeriod,
       InitPolarity, InitShrink, InitPeriod, InitDuty, InitServo, InitEnable,
       InitVerify, OnCmd, EncoderPublish, OnEncoderState, Watchdog, CmdDuty,
       CmdServo, EncoderZero, EncoderDuty, WatchdogZero, StopDuty, StopServo,
       Raise, Crash, Tick, IoRetry
  <2>2. pwm' = pwm /\ pwm.duty = 0 /\ pwm.normal
    BY <2>1 DEF InitDir, EncoderDir, ControlInv, ChannelInv, DriveInv, Running,
       HandlerLabels
  <2> QED  BY <2>2 DEF Driven
<1> QED  BY <1>1, ControlCorrect, PTL DEF Spec, DirChangesOnlyUndriven

-----------------------------------------------------------------------------
(* Stale drive *)

LEMMA TimeInit == Init => TimeInv
  BY MotorAssumption DEF Init, TimeInv, RetryTicks

LEMMA TimeStep == ControlInv /\ TimeInv /\ [Next]_vars => TimeInv'
<1> SUFFICES ASSUME ControlInv, TimeInv, [Next]_vars PROVE TimeInv'
  OBVIOUS
<1> DEFINE R == RetryTicks
           Late == IF CmdTimeout + 1 > 2 * R THEN CmdTimeout + 1 ELSE 2 * R
<1>t. /\ age \in Nat /\ tries \in Nat /\ pwm \in Channels /\ wdDue \in BOOLEAN
      /\ R \in Nat /\ IoAttempts = R + 1
      /\ Late \in Nat /\ CmdTimeout + 1 <= Late /\ 2 * R <= Late /\ CmdTimeout \in Nat
  BY MotorAssumption DEF ControlInv, TypeInv, TypeOK, RetryTicks
<1> USE <1>t DEF TimeInv, Goto, hardware, control, clocks, Channels
<1>1. CASE Launch
  BY <1>1 DEF Launch
<1>2. CASE InitRead
  BY <1>2 DEF InitRead
<1>3. CASE InitHotZero
  BY <1>3 DEF InitHotZero, WriteDuty
<1>4. CASE InitHotPolarity
  BY <1>4 DEF InitHotPolarity
<1>5. CASE InitFirstPeriod
  BY <1>5 DEF InitFirstPeriod, WritePeriod
<1>6. CASE InitPolarity
  BY <1>6 DEF InitPolarity
<1>7. CASE InitShrink
  BY <1>7 DEF InitShrink, WriteDuty
<1>8. CASE InitPeriod
  BY <1>8 DEF InitPeriod, WritePeriod
<1>9. CASE InitDuty
  BY <1>9 DEF InitDuty, WriteDuty
<1>10. CASE InitServo
  BY <1>10 DEF InitServo
<1>11. CASE InitDir
  BY <1>11 DEF InitDir
<1>12. CASE InitEnable
  BY <1>12 DEF InitEnable
<1>13. CASE InitVerify
  BY <1>13 DEF InitVerify
<1>14. CASE \E x \in LinearX \cup {NonFinite} : OnCmd(x)
  <2>1. pc' = "c_duty" /\ age' = 0 /\ tries' = 0
    BY <1>14 DEF OnCmd
  <2> QED  BY <2>1
<1>15. CASE OnEncoderState
  <2>1. /\ \/ pending # NoReversal /\ pc' = "e_zero" /\ tries' = 0
           \/ UNCHANGED <<pc, tries>>
        /\ pc = "spin"
        /\ UNCHANGED <<hardware, control, clocks, faults>>
    BY <1>15, Zenon DEF OnEncoderState, Goto
  <2> QED  BY <2>1
<1>16. CASE Watchdog
  BY <1>16 DEF Watchdog
<1>17. CASE CmdDuty
  BY <1>17 DEF CmdDuty, WriteDuty
<1>18. CASE CmdServo
  BY <1>18 DEF CmdServo
<1>19. CASE EncoderZero
  BY <1>19 DEF EncoderZero, WriteDuty
<1>20. CASE EncoderDir
  BY <1>20 DEF EncoderDir
<1>21. CASE EncoderDuty
  BY <1>21 DEF EncoderDuty, WriteDuty, ControlInv, LineInv
<1>22. CASE WatchdogZero
  BY <1>22 DEF WatchdogZero, WriteDuty, ControlInv, LineInv
<1>23. CASE StopDuty
  BY <1>23 DEF StopDuty, WriteDuty
<1>24. CASE StopServo
  BY <1>24 DEF StopServo
<1>25. CASE Raise
  BY <1>25 DEF Raise, Running, HandlerLabels
<1>26. CASE Crash
  BY <1>26 DEF Crash
<1>27. CASE Tick
  <2>1. CASE pc = "down"
    BY <1>27, <2>1 DEF Tick, Older
  <2>2. CASE pc = "spin" /\ ~wdDue
    <3>1. wdDue'
      BY <1>27, <2>2, Zenon DEF Tick
    <3>2. UNCHANGED <<pc, tries, pwm, pending>> /\ age' = Older
      BY <1>27, Zenon DEF Tick, hardware, control
    <3>3. Older <= age + 1 /\ Older \in Nat
      BY DEF Older
    <3>4. pwm.duty > 0 \/ pending # NoReversal => age <= CmdTimeout
      BY <2>2
    <3>5. pwm.duty \in Nat
      OBVIOUS
    <3> QED  BY <2>2, <3>1, <3>2, <3>3, <3>4, <3>5
  <2> QED  BY <1>27, <2>1, <2>2 DEF Tick
<1>28. CASE IoRetry
  BY <1>28 DEF IoRetry, Older, PwmLabels, InitLabels, HandlerLabels, StopLabels
<1>29. CASE \E s \in BOOLEAN : EncoderPublish(s)
  BY <1>29 DEF EncoderPublish
<1>30. CASE UNCHANGED vars
  BY <1>30 DEF vars
<1> QED
  BY <1>1, <1>2, <1>3, <1>4, <1>5, <1>6, <1>7, <1>8, <1>9, <1>10, <1>11,
     <1>12, <1>13, <1>14, <1>15, <1>16, <1>17, <1>18, <1>19, <1>20, <1>21,
     <1>22, <1>23, <1>24, <1>25, <1>26, <1>27, <1>28, <1>29, <1>30
  DEF Next, Environment, InitStep, HandlerStep, StopStep

\* A running node never drives on a command older than the bound: the timeout
\* and a watchdog period, or two accesses of retries, and the retries of the
\* four PWM accesses that stand before the zero write.
THEOREM StaleDriveIsBounded == Spec => []StaleDriveBounded
<1>1. ControlInv /\ TimeInv => StaleDriveBounded
  BY MotorAssumption
  DEF ControlInv, ChannelInv, DriveInv, TypeInv, TypeOK, Channels, TimeInv,
      StaleDriveBounded, Driven, DriveAgeBound, RetryTicks, Running,
      HandlerLabels, StopLabels
<1>2. Spec => []TimeInv
  BY TimeInit, TimeStep, ControlCorrect, PTL DEF Spec
<1> QED  BY <1>1, <1>2, ControlCorrect, PTL

-----------------------------------------------------------------------------
(* Teleop: nobody resumes motion without a fresh act. *)

Controllers ==
    [ buttons : SUBSET Buttons, inhibited : BOOLEAN, throttle : BOOLEAN,
      reverse : BOOLEAN, manual : -1..1, dpad : BOOLEAN, live : BOOLEAN,
      age : 0..(ControllerTimeout + 1) ]

Keyboards ==
    [ valid : BOOLEAN, mode : Modes, throttle : -1..1, requested : BOOLEAN,
      ready : BOOLEAN, armed : BOOLEAN, suppress : BOOLEAN,
      suppressArmed : BOOLEAN, rearmReady : BOOLEAN, age : 0..(KeyboardTimeout + 1) ]

-----------------------------------------------------------------------------
(* The inductive invariant: what each history variable says of the state.  *)

\* A controller with a button held has been heard.
OnlyTheLiveHold == controller.buttons # {} => controller.live

\* Motion that lost its authority is still requested, and is not armed.
SpentIsDisarmed == spent => keyboard.requested /\ ~keyboard.armed

\* Autonomy is let through, or may be, only after a state without autonomy.
SilenceIsReleased == keyboard.suppressArmed \/ keyboard.rearmReady => released

\* X held with R1 has left its inhibition, as long as the controller was heard.
OverlapInhibits ==
    overlapped /\ ~quiet => controller.inhibited /\ controller.age <= ControllerTimeout

Latches ==
    /\ OnlyTheLiveHold
    /\ SpentIsDisarmed
    /\ SilenceIsReleased
    /\ OverlapInhibits

IInv == TeleopTypeOK /\ Latches /\ CommandIsFresh /\ NothingWithoutRelease /\ InhibitedUntilRelease

-----------------------------------------------------------------------------
(* What is published (publish_cmd), and from what. *)

LEMMA SetpointRange ==
    ASSUME NEW value \in Int
    PROVE  Clamped(value) \in MinSetpoint..MaxSetpoint
BY TeleopAssumption DEF Clamped, ValidFixedThrottle

\* The keyboard's branch: motion is armed and requested, silence is armed, and
\* nothing of fixed throttle.
LEMMA KeyboardBranch ==
    ASSUME NEW k \in Keyboards, NEW idle \in {"fixed_throttle_inhibited", "brake"},
           NEW o, o = FromKeyboard(k, idle)
    PROVE  /\ o.mode = "keyboard_motion" => k.valid /\ k.requested /\ k.armed
           /\ o.silent => k.suppressArmed
           /\ o.mode # "fixed_throttle"
           /\ o.command # 0 => o.mode = "keyboard_motion"
<1> USE DEF Says, Silence, Keyboards
<1>1. CASE k.valid /\ Brakes(k)
  BY <1>1 DEF FromKeyboard
<1>2. CASE ~(k.valid /\ Brakes(k)) /\ k.suppress /\ k.suppressArmed
  BY <1>2 DEF FromKeyboard
<1>3. CASE ~(k.valid /\ Brakes(k)) /\ ~(k.suppress /\ k.suppressArmed)
  BY <1>3 DEF FromKeyboard
<1> QED
  BY <1>1, <1>2, <1>3

\* What each published command says of the inputs it was chosen from.
LEMMA OutputSource ==
    ASSUME NEW c \in Controllers, NEW k \in Keyboards, NEW o, o = Output(c, k)
    PROVE  /\ o.mode = "keyboard_motion" => k.valid /\ k.requested /\ k.armed
           /\ o.silent /\ ~Held(c, "L1") => k.suppressArmed
           /\ o.mode = "fixed_throttle" => ~c.inhibited
           /\ o.command # 0 => \/ o.mode = "keyboard_motion"
                               \/ o.mode # "keyboard_motion" /\ c.buttons # {}
<1> DEFINE idle == IF Held(c, "R1") THEN "fixed_throttle_inhibited" ELSE "brake"
<1>1. CASE Held(c, "X")
  BY <1>1 DEF Output, Says, Held
<1>2. CASE ~Held(c, "X") /\ Held(c, "R1") /\ ~c.inhibited
  BY <1>2 DEF Output, Says, Held
<1>3. CASE ~Held(c, "X") /\ ~Held(c, "R1") /\ Held(c, "L1")
  BY <1>3 DEF Output, Silence
<1>4. CASE /\ ~Held(c, "X") /\ ~(Held(c, "R1") /\ ~c.inhibited)
           /\ ~(Held(c, "L1") /\ ~Held(c, "R1"))
  <2>1. o = FromKeyboard(k, idle)
    BY <1>4 DEF Output
  <2>2. idle \in {"fixed_throttle_inhibited", "brake"}
    OBVIOUS
  <2> QED
    BY <2>1, <2>2, KeyboardBranch
<1> QED
  BY <1>1, <1>2, <1>3, <1>4

\* An expired controller holds nothing, a live one is within its timeout.
LEMMA ControllerExpires ==
    ASSUME NEW c \in Controllers, c.buttons # {} => c.live
    PROVE  LET e == ExpiredController(c) IN
           /\ e \in Controllers
           /\ e.buttons # {} => e.live /\ e.age <= ControllerTimeout
           /\ ~ControllerLost(c) => e = c
<1> DEFINE e == ExpiredController(c)
<1>1. CASE ControllerLost(c)
  <2>1. e = [c EXCEPT !.live = FALSE, !.buttons = {}, !.inhibited = FALSE,
                      !.manual = 0, !.throttle = FALSE, !.reverse = FALSE]
    BY <1>1 DEF ExpiredController
  <2>2. DOMAIN c = {"buttons", "inhibited", "throttle", "reverse", "manual", "dpad",
                    "live", "age"}
    BY DEF Controllers
  <2>3. /\ e.buttons = {} /\ e.inhibited = FALSE /\ e.throttle = FALSE
        /\ e.reverse = FALSE /\ e.manual = 0 /\ e.dpad = c.dpad /\ e.live = FALSE
        /\ e.age = c.age
    BY <2>1, <2>2
  <2>4. e = [ buttons |-> {}, inhibited |-> FALSE, throttle |-> FALSE, reverse |-> FALSE,
              manual |-> 0, dpad |-> c.dpad, live |-> FALSE, age |-> c.age ]
    BY <2>1, <2>2
  <2>5. c.dpad \in BOOLEAN /\ c.age \in 0..(ControllerTimeout + 1)
    BY DEF Controllers
  <2>6. e \in Controllers
    BY <2>4, <2>5 DEF Controllers
  <2> QED
    BY <1>1, <2>3, <2>6
<1>2. CASE ~ControllerLost(c)
  <2>1. e = c
    BY <1>2 DEF ExpiredController
  <2>2. c.live => c.age <= ControllerTimeout
    BY <1>2, TeleopAssumption DEF ControllerLost, Controllers, ValidTimeouts
  <2> QED
    BY <2>1, <2>2
<1> QED
  BY <1>1, <1>2

\* Expiry takes authority and gives none: a valid keyboard is within its
\* timeout, and what disarms the key is what spends it.
LEMMA KeyboardExpires ==
    ASSUME NEW c, NEW k \in Keyboards
    PROVE  LET e == ExpiredKeyboard(c, k) IN
           /\ e \in Keyboards
           /\ e.valid => e.age <= KeyboardTimeout
           /\ e.requested = k.requested
           /\ e.armed => k.armed
           /\ e.suppressArmed => k.suppressArmed
           /\ e.rearmReady = k.rearmReady
           /\ k.requested /\ (ControllerLost(c) \/ KeyboardLost(k)) => ~e.armed
<1> DEFINE held == IF ControllerLost(c) THEN DisarmHeldMotion(k) ELSE k
<1>1. /\ held \in Keyboards
      /\ held.valid = k.valid /\ held.age = k.age /\ held.requested = k.requested
      /\ held.armed => k.armed
      /\ held.suppressArmed = k.suppressArmed /\ held.rearmReady = k.rearmReady
      /\ k.requested /\ ControllerLost(c) => ~held.armed
  BY DEF DisarmHeldMotion, Keyboards
<1>2. ExpiredKeyboard(c, k) = IF KeyboardLost(held) THEN Invalidate(held) ELSE held
  BY DEF ExpiredKeyboard
<1>3. KeyboardLost(held) <=> KeyboardLost(k)
  BY <1>1 DEF KeyboardLost
<1> HIDE DEF held
<1>4. CASE KeyboardLost(held)
  BY <1>1, <1>2, <1>4 DEF Invalidate, Keyboards
<1>5. CASE ~KeyboardLost(held)
  BY <1>1, <1>2, <1>3, <1>5, TeleopAssumption DEF KeyboardLost, Keyboards, ValidTimeouts
<1> QED
  BY <1>4, <1>5

-----------------------------------------------------------------------------
(* A publication. *)

\* Published with inputs whose latches agree with the history as this step
\* leaves it, a command satisfies every property.
LEMMA PublicationIsSound ==
    ASSUME NEW c \in Controllers, NEW k \in Keyboards, PublishCmd(c, k),
           c.buttons # {} => c.live,
           overlapped \in BOOLEAN, quiet \in BOOLEAN,
           overlapped /\ ~quiet => c.inhibited /\ c.age <= ControllerTimeout,
           spent' => /\ k.requested
                     /\ ~k.armed \/ ControllerLost(c) \/ KeyboardLost(k),
           k.suppressArmed \/ k.rearmReady => released'
    PROVE  /\ controller' \in Controllers
           /\ keyboard' \in Keyboards
           /\ overlapped' = overlapped /\ quiet' = quiet
           /\ Latches'
           /\ CommandIsFresh' /\ NothingWithoutRelease' /\ InhibitedUntilRelease'
<1> DEFINE o == Output(controller', keyboard')
<1>1. /\ controller' = ExpiredController(c)
      /\ keyboard' = ExpiredKeyboard(c, k)
      /\ output' = <<o>>
      /\ overlapped' = overlapped /\ quiet' = quiet
  BY DEF PublishCmd
<1>2. /\ controller' \in Controllers
      /\ controller'.buttons # {} => controller'.live /\ controller'.age <= ControllerTimeout
      /\ ~ControllerLost(c) => controller' = c
  BY <1>1, ControllerExpires
<1>3. /\ keyboard' \in Keyboards
      /\ keyboard'.valid => keyboard'.age <= KeyboardTimeout
      /\ keyboard'.requested = k.requested
      /\ keyboard'.armed => k.armed
      /\ keyboard'.suppressArmed => k.suppressArmed
      /\ keyboard'.rearmReady = k.rearmReady
      /\ k.requested /\ (ControllerLost(c) \/ KeyboardLost(k)) => ~keyboard'.armed
  BY <1>1, KeyboardExpires
<1>4. Latches'
  <2>1. OverlapInhibits'
    <3>1. CASE overlapped /\ ~quiet
      <4>1. c.inhibited /\ c.age <= ControllerTimeout
        BY <3>1
      <4>2. c.age \in Int /\ ControllerTimeout \in Int
        BY TeleopAssumption DEF Controllers, ValidTimeouts
      <4>3. ~ControllerLost(c)
        BY <4>1, <4>2 DEF ControllerLost
      <4> QED
        BY <1>2, <4>1, <4>3 DEF OverlapInhibits
    <3>2. CASE ~(overlapped /\ ~quiet)
      BY <1>1, <3>2 DEF OverlapInhibits
    <3> QED
      BY <3>1, <3>2
  <2> QED
    BY <1>1, <1>2, <1>3, <2>1 DEF Latches, OnlyTheLiveHold, SpentIsDisarmed,
       SilenceIsReleased
<1>5. /\ o.mode = "keyboard_motion" => /\ keyboard'.valid /\ keyboard'.requested
                                       /\ keyboard'.armed
      /\ o.silent /\ ~Held(controller', "L1") => keyboard'.suppressArmed
      /\ o.mode = "fixed_throttle" => ~controller'.inhibited
      /\ o.command # 0 => \/ o.mode = "keyboard_motion"
                          \/ o.mode # "keyboard_motion" /\ controller'.buttons # {}
  BY <1>2, <1>3, OutputSource
<1>6. DOMAIN output' = {1} /\ output'[1] = o
  BY <1>1
<1> HIDE DEF o
<1>7. CommandIsFresh'
  BY <1>2, <1>3, <1>5, <1>6 DEF CommandIsFresh, Published
<1>8. NothingWithoutRelease'
  BY <1>3, <1>4, <1>5, <1>6 DEF NothingWithoutRelease, NoResumeWithoutRelease,
     NoSilenceWithoutRelease, Published, Latches, SpentIsDisarmed, SilenceIsReleased
<1>9. InhibitedUntilRelease'
  BY <1>4, <1>5, <1>6 DEF InhibitedUntilRelease, Published, Latches, OverlapInhibits
<1> QED
  BY <1>1, <1>2, <1>3, <1>4, <1>7, <1>8, <1>9

\* A step that publishes nothing satisfies what is said of publications.
LEMMA NothingPublished ==
    ASSUME output' = <<>>
    PROVE  CommandIsFresh' /\ NothingWithoutRelease' /\ InhibitedUntilRelease'
BY DEF CommandIsFresh, NothingWithoutRelease, NoResumeWithoutRelease,
   NoSilenceWithoutRelease, InhibitedUntilRelease, Published

-----------------------------------------------------------------------------
(* The steps. *)

LEMMA InvInit == TeleopInit => IInv
<1> SUFFICES ASSUME TeleopInit PROVE IInv
  OBVIOUS
<1>1. TeleopTypeOK
  <2>1. 0 \in 0..(ControllerTimeout + 1) /\ 0 \in 0..(KeyboardTimeout + 1)
    BY TeleopAssumption DEF ValidTimeouts
  <2>2. controller \in Controllers
    BY <2>1 DEF TeleopInit, Controllers
  <2>3. keyboard \in Keyboards
    BY <2>1 DEF TeleopInit, Keyboards, Modes
  <2>4. setpoint \in MinSetpoint..MaxSetpoint
    BY TeleopAssumption DEF TeleopInit, ValidFixedThrottle
  <2> QED
    BY <2>2, <2>3, <2>4 DEF TeleopInit, TeleopTypeOK, Controllers, Keyboards, history
<1>2. Latches
  BY DEF TeleopInit, Latches, OnlyTheLiveHold, SpentIsDisarmed, SilenceIsReleased, OverlapInhibits
<1>3. CommandIsFresh /\ NothingWithoutRelease /\ InhibitedUntilRelease
  BY DEF TeleopInit, CommandIsFresh, NothingWithoutRelease, NoResumeWithoutRelease,
     NoSilenceWithoutRelease, InhibitedUntilRelease, Published
<1> QED
  BY <1>1, <1>2, <1>3 DEF IInv

\* TeleopTypeOK with the records' sets named.
LEMMA TypeNamed ==
    TeleopTypeOK <=> /\ controller \in Controllers
               /\ setpoint \in MinSetpoint..MaxSetpoint
               /\ keyboard \in Keyboards
               /\ spent \in BOOLEAN /\ released \in BOOLEAN
      /\ overlapped \in BOOLEAN /\ quiet \in BOOLEAN
BY DEF TeleopTypeOK, Controllers, Keyboards, history

LEMMA InvJoy ==
    ASSUME IInv, NEW buttons \in SUBSET Buttons, NEW axes \in Axes,
           NEW direction \in -1..1, OnJoy(buttons, axes, direction)
    PROVE  IInv'
<1> USE DEF IInv
<1>1. /\ controller \in Controllers /\ setpoint \in MinSetpoint..MaxSetpoint
      /\ keyboard \in Keyboards
      /\ spent \in BOOLEAN /\ released \in BOOLEAN
      /\ overlapped \in BOOLEAN /\ quiet \in BOOLEAN
  BY TypeNamed
<1>2. /\ controller' \in Controllers
      /\ controller'.live
      /\ controller'.inhibited = Inhibited(controller, buttons)
      /\ controller'.age = 0
  <2>1. Inhibited(controller, buttons) \in BOOLEAN
    BY <1>1 DEF Inhibited, Controllers
  <2> QED
    <3> DEFINE throttle == IF axes = "short" THEN controller.throttle
                           ELSE axes \in {"throttle", "both"}
               reverse  == axes \in {"reverse", "both"}
               manual   == CASE axes \in {"reverse", "both"} -> -1
                             [] axes = "throttle"            -> 1
                             [] OTHER                        -> 0
    <3>1. controller' = [controller EXCEPT
                           !.buttons = buttons, !.live = TRUE, !.age = 0,
                           !.dpad = direction # 0,
                           !.inhibited = Inhibited(controller, buttons),
                           !.throttle = throttle, !.reverse = reverse, !.manual = manual]
      BY DEF OnJoy
    <3>2. throttle \in BOOLEAN /\ reverse \in BOOLEAN
      <4>1. controller.throttle \in BOOLEAN
        BY <1>1 DEF Controllers
      <4>2. CASE axes = "short"
        BY <4>1, <4>2
      <4>3. CASE axes # "short"
        BY <4>3
      <4> QED
        BY <4>2, <4>3
    <3>3. manual \in -1..1
      BY DEF Axes
    <3>4. 0 \in 0..(ControllerTimeout + 1)
      BY TeleopAssumption DEF ValidTimeouts
    <3> HIDE DEF throttle, reverse, manual
    <3> QED
      BY <1>1, <2>1, <3>1, <3>2, <3>3, <3>4 DEF Controllers
<1>3. setpoint' \in MinSetpoint..MaxSetpoint
  <2>1. setpoint + direction \in Int
    BY <1>1, TeleopAssumption DEF ValidFixedThrottle
  <2> QED
    BY <1>1, <2>1, SetpointRange DEF OnJoy, Dpad
<1>4. /\ keyboard' \in Keyboards
      /\ keyboard'.requested = keyboard.requested
      /\ keyboard'.armed => keyboard.armed /\ (buttons # {} => ~keyboard.requested)
      /\ buttons = {} => keyboard' = keyboard
      /\ buttons # {} => ~keyboard'.suppressArmed /\ ~keyboard'.rearmReady
  BY <1>1 DEF OnJoy, DisarmHeldMotion, Keyboards
<1>5. /\ output' = <<>>
      /\ spent' = (spent \/ (buttons # {} /\ keyboard.requested))
      /\ released' = (released /\ buttons = {})
      /\ overlapped' = ("R1" \in buttons /\ (overlapped \/ "X" \in buttons))
      /\ quiet' = (overlapped' /\ quiet /\ "X" \notin buttons)
  BY DEF OnJoy
<1>6. Latches'
  <2>1. OverlapInhibits'
    <3>1. controller'.age <= ControllerTimeout
      BY <1>2, TeleopAssumption DEF ValidTimeouts
    <3>2. overlapped' /\ ~quiet' => Inhibited(controller, buttons)
      BY <1>1, <1>5 DEF Latches, OverlapInhibits, Inhibited
    <3> QED
      BY <1>2, <3>1, <3>2 DEF OverlapInhibits
  <2> QED
    BY <1>1, <1>2, <1>4, <1>5, <2>1 DEF Latches, OnlyTheLiveHold, SpentIsDisarmed,
       SilenceIsReleased
<1>7. TeleopTypeOK'
  <2>1. /\ spent' \in BOOLEAN /\ released' \in BOOLEAN
        /\ overlapped' \in BOOLEAN /\ quiet' \in BOOLEAN
    BY <1>5
  <2> QED
    BY <1>2, <1>3, <1>4, <2>1 DEF TeleopTypeOK, Controllers, Keyboards, history
<1> QED
  BY <1>5, <1>6, <1>7, NothingPublished

\* The autonomy latch opens only with a state that withdraws the request.
LEMMA SuppressedLatch ==
    ASSUME NEW k \in Keyboards, NEW m \in KeyboardStates
    PROVE  LET s == Suppressed(k, m) IN
           /\ s \in Keyboards
           /\ s.suppressArmed \/ s.rearmReady =>
                k.suppressArmed \/ k.rearmReady \/ ~Suppresses(m)
           /\ s.requested = k.requested /\ s.armed = k.armed /\ s.age = k.age
<1>1. Brakes(m) => ~Suppresses(m)
  BY DEF KeyboardStates, Modes, Brakes, Suppresses
<1>2. CASE Brakes(m)
  BY <1>1, <1>2 DEF Suppressed, Keyboards
<1>3. CASE ~Brakes(m) /\ ~Suppresses(m)
  BY <1>3 DEF Suppressed, Keyboards
<1>4. CASE ~Brakes(m) /\ Suppresses(m)
  BY <1>4 DEF Suppressed, Keyboards
<1> QED
  BY <1>2, <1>3, <1>4

\* The motion latch: a pressed key is armed only if it was, or was not pressed.
LEMMA MovedLatch ==
    ASSUME NEW k \in Keyboards, NEW m \in KeyboardStates
    PROVE  LET s == Moved(k, m) IN
           /\ s \in Keyboards
           /\ s.requested = Moves(m)
           /\ s.armed => k.armed \/ ~k.requested
           /\ s.suppressArmed = k.suppressArmed /\ s.rearmReady = k.rearmReady
<1>1. Moves(m) \in BOOLEAN /\ Suppresses(m) \in BOOLEAN
  BY DEF Moves, Suppresses
<1>2. m.mode \in Modes /\ m.throttle \in -1..1
  BY DEF KeyboardStates
<1> QED
  BY <1>1, <1>2 DEF Moved, Keyboards

LEMMA InvalidateLatch ==
    ASSUME NEW k \in Keyboards
    PROVE  LET s == Invalidate(k) IN
           /\ s \in Keyboards
           /\ s.requested = k.requested /\ ~s.armed /\ ~s.suppressArmed
           /\ s.rearmReady = k.rearmReady
BY DEF Invalidate, Keyboards

LEMMA InvKeyboard ==
    ASSUME IInv, NEW m \in KeyboardStates, OnKeyboard(m)
    PROVE  IInv'
<1> DEFINE fresh == [keyboard EXCEPT !.age = 0]
           heard == Suppressed(fresh, m)
<1>1. /\ controller \in Controllers /\ setpoint \in MinSetpoint..MaxSetpoint
      /\ keyboard \in Keyboards
      /\ spent \in BOOLEAN /\ released \in BOOLEAN
      /\ overlapped \in BOOLEAN /\ quiet \in BOOLEAN
      /\ Latches
  BY TypeNamed DEF IInv
<1>2. /\ fresh \in Keyboards
      /\ fresh.requested = keyboard.requested /\ fresh.armed = keyboard.armed
      /\ fresh.suppressArmed = keyboard.suppressArmed
      /\ fresh.rearmReady = keyboard.rearmReady
  BY <1>1, TeleopAssumption DEF Keyboards, ValidTimeouts
<1> HIDE DEF fresh
<1>3. /\ heard \in Keyboards
      /\ heard.suppressArmed \/ heard.rearmReady =>
           keyboard.suppressArmed \/ keyboard.rearmReady \/ ~Suppresses(m)
      /\ heard.requested = keyboard.requested /\ heard.armed = keyboard.armed
  BY <1>2, SuppressedLatch
<1>4. /\ spent' = IF m.valid THEN spent /\ Moves(m)
                             ELSE spent \/ (keyboard.requested /\ ~Suppresses(m))
      /\ released' = (released \/ ~Suppresses(m))
      /\ setpoint' = setpoint
  BY DEF OnKeyboard
<1>5. /\ spent' \in BOOLEAN /\ released' \in BOOLEAN
      /\ m.valid \in BOOLEAN /\ Moves(m) \in BOOLEAN
      /\ Suppresses(m) \in BOOLEAN /\ Brakes(m) \in BOOLEAN
  <2>1. /\ m.valid \in BOOLEAN /\ Moves(m) \in BOOLEAN
        /\ Suppresses(m) \in BOOLEAN /\ Brakes(m) \in BOOLEAN
    BY DEF Moves, Suppresses, Brakes, KeyboardStates
  <2>2. keyboard.requested \in BOOLEAN
    BY <1>1 DEF Keyboards
  <2> QED
    BY <1>1, <1>4, <2>1, <2>2
<1>6. heard.suppressArmed \/ heard.rearmReady => released'
  BY <1>1, <1>3, <1>4 DEF Latches, SilenceIsReleased
<1>7. /\ ~m.valid /\ ~Suppresses(m) => PublishCmd(controller, Invalidate(heard))
      /\ ~m.valid /\ Suppresses(m) =>
           /\ keyboard' = [heard EXCEPT !.valid = FALSE, !.suppress = TRUE]
           /\ output' = <<>> /\ UNCHANGED <<controller, overlapped, quiet>>
      /\ m.valid /\ Brakes(m) => PublishCmd(controller, Moved(heard, m))
      /\ m.valid /\ ~Brakes(m) =>
           /\ keyboard' = Moved(heard, m)
           /\ output' = <<>> /\ UNCHANGED <<controller, overlapped, quiet>>
  <2>1. fresh = [keyboard EXCEPT !.age = 0]
    BY DEF fresh
  <2> QED
    BY <1>5, <2>1 DEF OnKeyboard
<1> HIDE DEF heard
<1>8. /\ Moved(heard, m) \in Keyboards
      /\ Moved(heard, m).requested = Moves(m)
      /\ Moved(heard, m).armed => heard.armed \/ ~heard.requested
      /\ Moved(heard, m).suppressArmed = heard.suppressArmed
      /\ Moved(heard, m).rearmReady = heard.rearmReady
  BY <1>3, MovedLatch
<1>9. CASE ~m.valid /\ ~Suppresses(m)
  <2> DEFINE k == Invalidate(heard)
  <2>1. /\ k \in Keyboards
        /\ k.requested = keyboard.requested /\ ~k.armed /\ ~k.suppressArmed
        /\ k.rearmReady = heard.rearmReady
    BY <1>3, InvalidateLatch
  <2>2. PublishCmd(controller, k)
    BY <1>7, <1>9
  <2> HIDE DEF k
  <2>3. spent' => k.requested /\ ~k.armed
    BY <1>1, <1>4, <1>9, <2>1 DEF Latches, SpentIsDisarmed
  <2>4. k.suppressArmed \/ k.rearmReady => released'
    BY <1>6, <2>1
  <2> QED
    BY <1>1, <1>4, <1>5, <2>1, <2>2, <2>3, <2>4, PublicationIsSound, TypeNamed
    DEF IInv, Latches, OnlyTheLiveHold, OverlapInhibits, TeleopTypeOK, Controllers, Keyboards,
        history
<1>10. CASE ~m.valid /\ Suppresses(m)
  <2>1. /\ keyboard' = [heard EXCEPT !.valid = FALSE, !.suppress = TRUE]
        /\ output' = <<>> /\ UNCHANGED <<controller, overlapped, quiet>>
    BY <1>7, <1>10
  <2>2. /\ keyboard' \in Keyboards
        /\ keyboard'.requested = keyboard.requested /\ keyboard'.armed = keyboard.armed
        /\ keyboard'.suppressArmed = heard.suppressArmed
        /\ keyboard'.rearmReady = heard.rearmReady
    BY <1>3, <2>1 DEF Keyboards
  <2>3. Latches'
    BY <1>1, <1>4, <1>6, <1>10, <2>1, <2>2 DEF Latches, OnlyTheLiveHold,
       SpentIsDisarmed, SilenceIsReleased, OverlapInhibits
  <2>4. TeleopTypeOK'
    BY <1>1, <1>4, <1>5, <2>1, <2>2 DEF TeleopTypeOK, Controllers, Keyboards, history
  <2> QED
    BY <2>1, <2>3, <2>4, NothingPublished DEF IInv
<1>11. CASE m.valid /\ Brakes(m)
  <2> DEFINE k == Moved(heard, m)
  <2>1. PublishCmd(controller, k)
    BY <1>7, <1>11
  <2>2. ~spent'
    BY <1>4, <1>11 DEF Moves
  <2>3. k \in Keyboards /\ (k.suppressArmed \/ k.rearmReady => released')
    BY <1>6, <1>8
  <2> HIDE DEF k
  <2> QED
    BY <1>1, <1>4, <1>5, <2>1, <2>2, <2>3, PublicationIsSound
    DEF IInv, Latches, OnlyTheLiveHold, OverlapInhibits, TeleopTypeOK, Controllers, Keyboards,
        history
<1>12. CASE m.valid /\ ~Brakes(m)
  <2>1. /\ keyboard' = Moved(heard, m)
        /\ output' = <<>> /\ UNCHANGED <<controller, overlapped, quiet>>
    BY <1>7, <1>12
  <2>2. spent' => keyboard'.requested /\ ~keyboard'.armed
    BY <1>1, <1>3, <1>4, <1>8, <1>12, <2>1 DEF Latches, SpentIsDisarmed
  <2>3. Latches'
    BY <1>1, <1>6, <1>8, <2>1, <2>2 DEF Latches, OnlyTheLiveHold,
       SpentIsDisarmed, SilenceIsReleased, OverlapInhibits
  <2>4. TeleopTypeOK'
    <3>1. /\ controller' \in Controllers /\ setpoint' \in MinSetpoint..MaxSetpoint
          /\ keyboard' \in Keyboards /\ overlapped' \in BOOLEAN /\ quiet' \in BOOLEAN
      BY <1>1, <1>4, <1>8, <2>1
    <3> QED
      BY <1>5, <3>1 DEF TeleopTypeOK, Controllers, Keyboards, history
  <2> QED
    BY <2>1, <2>3, <2>4, NothingPublished DEF IInv
<1> QED
  BY <1>5, <1>9, <1>10, <1>11, <1>12

LEMMA InvBadKeyboard ==
    ASSUME IInv, OnBadKeyboard
    PROVE  IInv'
<1>1. /\ controller \in Controllers /\ setpoint \in MinSetpoint..MaxSetpoint
      /\ keyboard \in Keyboards
      /\ spent \in BOOLEAN /\ released \in BOOLEAN
      /\ overlapped \in BOOLEAN /\ quiet \in BOOLEAN
      /\ Latches
  BY TypeNamed DEF IInv
<1>2. /\ [keyboard EXCEPT !.age = 0] \in Keyboards
      /\ [keyboard EXCEPT !.age = 0].requested = keyboard.requested
      /\ [keyboard EXCEPT !.age = 0].rearmReady = keyboard.rearmReady
  BY <1>1, TeleopAssumption DEF Keyboards, ValidTimeouts
<1>3. /\ keyboard' \in Keyboards
      /\ keyboard'.requested = keyboard.requested /\ ~keyboard'.armed
      /\ ~keyboard'.suppressArmed /\ keyboard'.rearmReady = keyboard.rearmReady
  BY <1>2, InvalidateLatch DEF OnBadKeyboard
<1>4. /\ output' = <<>> /\ spent' = (spent \/ keyboard.requested)
      /\ UNCHANGED <<controller, setpoint, released, overlapped, quiet>>
  BY DEF OnBadKeyboard
<1>5. Latches'
  BY <1>1, <1>3, <1>4 DEF Latches, OnlyTheLiveHold, SpentIsDisarmed,
     SilenceIsReleased, OverlapInhibits
<1>6. TeleopTypeOK'
  <2>1. spent' \in BOOLEAN
    BY <1>4
  <2> QED
    BY <1>1, <1>3, <1>4, <2>1 DEF TeleopTypeOK, Controllers, Keyboards, history
<1> QED
  BY <1>4, <1>5, <1>6, NothingPublished DEF IInv

LEMMA InvTimer ==
    ASSUME IInv, Timer
    PROVE  IInv'
<1>1. /\ controller \in Controllers /\ setpoint \in MinSetpoint..MaxSetpoint
      /\ keyboard \in Keyboards
      /\ spent \in BOOLEAN /\ released \in BOOLEAN
      /\ overlapped \in BOOLEAN /\ quiet \in BOOLEAN
      /\ Latches
  BY TypeNamed DEF IInv
<1>2. /\ PublishCmd(controller, keyboard)
      /\ spent' = (spent \/ (/\ keyboard.requested
                             /\ ControllerLost(controller) \/ KeyboardLost(keyboard)))
      /\ released' = released /\ setpoint' = setpoint
  BY DEF Timer
<1>3. /\ spent' => /\ keyboard.requested
                   /\ \/ ~keyboard.armed \/ ControllerLost(controller)
                      \/ KeyboardLost(keyboard)
      /\ keyboard.suppressArmed \/ keyboard.rearmReady => released'
      /\ controller.buttons # {} => controller.live
      /\ overlapped /\ ~quiet => controller.inhibited /\ controller.age <= ControllerTimeout
  BY <1>1, <1>2 DEF Latches, OnlyTheLiveHold, SpentIsDisarmed, SilenceIsReleased,
     OverlapInhibits
<1>4. spent' \in BOOLEAN /\ released' \in BOOLEAN
  BY <1>1, <1>2
<1>5. /\ controller' \in Controllers /\ keyboard' \in Keyboards
      /\ overlapped' = overlapped /\ quiet' = quiet
      /\ Latches'
      /\ CommandIsFresh' /\ NothingWithoutRelease' /\ InhibitedUntilRelease'
  BY <1>1, <1>2, <1>3, PublicationIsSound
<1>6. TeleopTypeOK'
  BY <1>1, <1>2, <1>4, <1>5 DEF TeleopTypeOK, Controllers, Keyboards, history
<1> QED
  BY <1>5, <1>6 DEF IInv

LEMMA InvTick ==
    ASSUME IInv, TeleopTick
    PROVE  IInv'
<1>1. /\ controller \in Controllers /\ setpoint \in MinSetpoint..MaxSetpoint
      /\ keyboard \in Keyboards
      /\ spent \in BOOLEAN /\ released \in BOOLEAN
      /\ overlapped \in BOOLEAN /\ quiet \in BOOLEAN
      /\ Latches
  BY TypeNamed DEF IInv
<1>2. /\ output' = <<>> /\ setpoint' = setpoint
      /\ spent' = spent /\ released' = released /\ overlapped' = overlapped
      /\ quiet' = (quiet \/ (overlapped /\ controller'.age > ControllerTimeout))
  BY DEF TeleopTick
<1>3. /\ controller' \in Controllers
      /\ controller'.buttons = controller.buttons /\ controller'.live = controller.live
      /\ controller'.inhibited = controller.inhibited
  BY <1>1, TeleopAssumption DEF TeleopTick, Controllers, ValidTimeouts
<1>4. /\ keyboard' \in Keyboards
      /\ keyboard'.requested = keyboard.requested /\ keyboard'.armed = keyboard.armed
      /\ keyboard'.suppressArmed = keyboard.suppressArmed
      /\ keyboard'.rearmReady = keyboard.rearmReady
  BY <1>1, TeleopAssumption DEF TeleopTick, Keyboards, ValidTimeouts
<1>5. Latches'
  <2>1. OverlapInhibits'
    <3>1. controller'.age \in Int /\ ControllerTimeout \in Int
      BY <1>3, TeleopAssumption DEF Controllers, ValidTimeouts
    <3>2. CASE controller'.age > ControllerTimeout
      BY <1>1, <1>2, <3>2 DEF OverlapInhibits
    <3>3. CASE ~(controller'.age > ControllerTimeout)
      <4>1. controller'.age <= ControllerTimeout
        BY <3>1, <3>3
      <4>2. overlapped' /\ ~quiet' => controller.inhibited
        BY <1>1, <1>2, <3>3 DEF Latches, OverlapInhibits
      <4> QED
        BY <1>3, <4>1, <4>2 DEF OverlapInhibits
    <3> QED
      BY <3>2, <3>3
  <2> QED
    BY <1>1, <1>2, <1>3, <1>4, <2>1 DEF Latches, OnlyTheLiveHold, SpentIsDisarmed,
       SilenceIsReleased
<1>6. TeleopTypeOK'
  BY <1>1, <1>2, <1>3, <1>4 DEF TeleopTypeOK, Controllers, Keyboards, history
<1> QED
  BY <1>2, <1>5, <1>6, NothingPublished DEF IInv

LEMMA InvStep == IInv /\ [TeleopNext]_teleopVars => IInv'
<1> SUFFICES ASSUME IInv, [TeleopNext]_teleopVars PROVE IInv'
  OBVIOUS
<1>1. CASE UNCHANGED teleopVars
  BY <1>1 DEF teleopVars, history, IInv, TeleopTypeOK, Latches, OnlyTheLiveHold, SpentIsDisarmed,
     SilenceIsReleased, OverlapInhibits, CommandIsFresh, NothingWithoutRelease,
     NoResumeWithoutRelease, NoSilenceWithoutRelease, InhibitedUntilRelease, Published
<1>2. CASE \E buttons \in SUBSET Buttons, axes \in Axes, direction \in -1..1 :
              OnJoy(buttons, axes, direction)
  BY <1>2, InvJoy
<1>3. CASE \E m \in KeyboardStates : OnKeyboard(m)
  BY <1>3, InvKeyboard
<1> QED
  BY <1>1, <1>2, <1>3, InvBadKeyboard, InvTimer, InvTick DEF TeleopNext

-----------------------------------------------------------------------------
(* The theorems. *)

LEMMA Invariance == TeleopSpec => []IInv
<1>1. TeleopInit => IInv
  BY InvInit
<1>2. IInv /\ [TeleopNext]_teleopVars => IInv'
  BY InvStep
<1> QED
  BY <1>1, <1>2, PTL DEF TeleopSpec

\* The shape of the inputs and latches, and no command that moves the car on an
\* input older than its timeout (_expire_inputs before every publication).
THEOREM FreshAndTyped == TeleopSpec => []Inv
<1>1. IInv => Inv
  BY DEF IInv, Inv
<1> QED
  BY <1>1, Invariance, PTL

\* A motion key that lost its authority does not move the car before it is
\* released, and autonomy is not let through after a button before the keyboard
\* withdrew its request (on_joy, on_keyboard, _expire_inputs).
THEOREM NoResumption == TeleopSpec => []NothingWithoutRelease
<1>1. IInv => NothingWithoutRelease
  BY DEF IInv
<1> QED
  BY <1>1, Invariance, PTL

\* Fixed throttle stays off after X was held with R1, until R1 is released or the
\* controller was silent for longer than its timeout
\* (fixed_throttle_inhibited_until_r1_release, _expire_inputs).
THEOREM InhibitionLasts == TeleopSpec => []InhibitedUntilRelease
<1>1. IInv => InhibitedUntilRelease
  BY DEF IInv
<1> QED
  BY <1>1, Invariance, PTL

=============================================================================
