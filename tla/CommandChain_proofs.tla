------------------------- MODULE CommandChain_proofs -------------------------
(***************************************************************************)
(* Proofs about CommandChain, for every value of its constants.            *)
(***************************************************************************)
EXTENDS CommandChain, TLAPS

Mine == [effort : Int, age : Age(Recent)] \cup {None}

Origins == [who : {"nav", "operator", "none"}, sign : {-1, 1}, age : Age(OriginCap)]

\* The variables TypeOK says nothing about.
RestTyped ==
    /\ offered \in Mine /\ selected \in Mine
    /\ alive \in BOOLEAN /\ stepped \in BOOLEAN
    /\ echo \in Seq(Int)
    /\ origin \in Origins
    /\ ownAge \in Age(Recent + 1)
    /\ slipFor \in 0..(SlipQualification + 1)
    /\ stepsOnKi \in 0..2

-----------------------------------------------------------------------------
(* The inductive invariant: what each history variable says of the state.  *)

\* The command behind an effort is no older than the effort, but for the time
\* Nav2's command was repeated.
EffortAges ==
    effort # 0 => origin.age <= effortAge + (IF origin.who = "nav" THEN NavTimeout ELSE 0)

\* No sample has been used since Ki was written, or none but the first.
KiCountsSamples ==
    /\ stepsOnKi = 0 => previous = None
    /\ stepsOnKi < 2 => integrator = 0

\* The mux has forwarded the adapter since what the adapter hears of it, unless
\* that is the operator's.
EchoIsOwn ==
    \A i \in 1..Len(echo) : echo[i] = OperatorEffort \/ ownAge = 0

SelectedIsOwn ==
    selected # None => selected.effort = OperatorEffort \/ ownAge <= selected.age

\* A wheel seen to spin at every step has been timed as long as it was seen.
SlipIsTimed ==
    slipFor > 0 =>
        /\ slipAge # None
        /\ IF stepped THEN slipFor <= slipAge + 1
                      ELSE slipFor <= slipAge \/ slipAge = SlipQualification

IInv ==
    /\ TypeOK /\ RestTyped
    /\ EffortAges /\ EffortKeepsSign /\ KiCountsSamples
    /\ EchoIsOwn /\ SelectedIsOwn
    /\ SlipIsTimed

-----------------------------------------------------------------------------
(* The numbers of a step. *)

LEMMA WithinRange ==
    ASSUME NEW x \in Int, NEW low \in Int, NEW high \in Int, low <= high
    PROVE  Within(x, low, high) \in low..high
BY DEF Within, Smaller, Larger

LEMMA ConfigNumbers ==
    /\ MinSpeed \in Nat /\ MaxSpeed \in Nat /\ MinSpeed <= MaxSpeed
    /\ EffortPerSpeed \in Nat /\ EffortIntercept \in Int
    /\ OutputMax \in Nat /\ IntegratorBound \in Nat
    /\ NavTimeout \in Nat /\ EncoderTimeout \in Nat /\ MotionTimeout \in Nat
    /\ Recent \in Nat /\ MaxDt \in Nat /\ SlipQualification \in Nat
    /\ MaxGain \in Nat \ {0}
    /\ TeleopTimeout \in Nat /\ MotorTimeout \in Nat
    /\ None \notin Int /\ NotFinite \notin Int
    /\ OperatorEffort \in Int
BY AdapterAssumption, ChainAssumption DEF ValidConfig

\* The magnitudes a driving step computes with, for any feedback.
LEMMA StepNumbers ==
    ASSUME TypeOK, Drives
    PROVE  /\ CommandSign \in {-1, 1}
           /\ SpeedError \in Int
           /\ Feedforward \in Int /\ Proportional \in Int
           /\ command.age <= NavTimeout
<1>1. command \in [speed : NavSpeeds, age : Age(NavTimeout)]
  BY DEF TypeOK, Drives, Commanded
<1>2. command.speed \in Int
  BY <1>1, ChainAssumption DEF Drives
<1>3. CommandSign \in {-1, 1}
  BY <1>2 DEF CommandSign
<1>4. EffectiveSpeed \in Int
  <2>1. Magnitude(command.speed) \in Int
    BY <1>2 DEF Magnitude
  <2>2. Within(Magnitude(command.speed), MinSpeed, MaxSpeed) \in MinSpeed..MaxSpeed
    <3>1. MinSpeed \in Int /\ MaxSpeed \in Int /\ MinSpeed <= MaxSpeed
      BY ConfigNumbers
    <3> QED
      BY <2>1, <3>1, WithinRange
  <2> QED
    BY <2>2, ConfigNumbers DEF EffectiveSpeed
<1>5. Measured \in Int
  <2>1. CASE encoder = None \/ encoder.speed = NotFinite
    BY <2>1 DEF Measured
  <2>2. CASE encoder # None /\ encoder.speed # NotFinite
    <3>1. encoder.speed \in WheelSpeeds
      BY <2>2 DEF TypeOK
    <3>2. encoder.speed \in Int
      BY <3>1, <2>2, ChainAssumption
    <3> QED
      BY <2>2, <3>2 DEF Measured, Magnitude
  <2> QED
    BY <2>1, <2>2
<1>6. SpeedError \in Int
  BY <1>4, <1>5 DEF SpeedError
<1>7. Feedforward \in Int
  BY <1>4, ConfigNumbers DEF Feedforward
<1>8. Proportional \in Int
  <2>1. kp \in Int
    BY ConfigNumbers DEF TypeOK
  <2> QED
    BY <1>6, <2>1 DEF Proportional
<1>9. command.age <= NavTimeout
  BY DEF Drives, Commanded
<1> QED
  BY <1>3, <1>6, <1>7, <1>8, <1>9

\* The integrator stays in its bound.
LEMMA IntegratorRange ==
    ASSUME TypeOK, Drives
    PROVE  Integrated \in -IntegratorBound..IntegratorBound
<1>1. CASE FreezeReason # "none"
  BY <1>1 DEF Integrated, TypeOK
<1>2. CASE FreezeReason = "none"
  <2>1. DtValid
    BY <1>2 DEF FreezeReason
  <2>2. Dt \in Int
    BY <2>1, ConfigNumbers DEF DtValid
  <2>3. ki \in Int /\ integrator \in Int
    BY ConfigNumbers DEF TypeOK
  <2>4. ki * SpeedError * Dt \in Int
    BY <2>2, <2>3, StepNumbers
  <2>5. Candidate \in -IntegratorBound..IntegratorBound
    <3>1. integrator + ki * SpeedError * Dt \in Int
      BY <2>3, <2>4
    <3>2. /\ -IntegratorBound \in Int /\ IntegratorBound \in Int
          /\ -IntegratorBound <= IntegratorBound
      BY ConfigNumbers
    <3> QED
      BY <3>1, <3>2, WithinRange DEF Candidate
  <2> QED
    BY <1>2, <2>5 DEF Integrated
<1> QED
  BY <1>1, <1>2

\* The effort has the command's sign, or is zero, and respects the authority.
LEMMA EffortRange ==
    ASSUME TypeOK, Drives
    PROVE  /\ Effort \in -OutputMax..OutputMax
           /\ Effort * CommandSign \in 0..OutputMax
<1> DEFINE w == Within(Feedforward + Proportional + Integrated, 0, OutputMax)
<1>1. Feedforward + Proportional + Integrated \in Int
  BY StepNumbers, IntegratorRange, ConfigNumbers
<1>2. w \in 0..OutputMax
  <2>1. 0 \in Int /\ OutputMax \in Int /\ 0 <= OutputMax
    BY ConfigNumbers
  <2> QED
    BY <1>1, <2>1, WithinRange
<1>3. Effort = CommandSign * w
  BY DEF Effort
<1>4. CommandSign \in {-1, 1}
  BY StepNumbers
<1> HIDE DEF w
<1>5. CASE CommandSign = 1
  BY <1>2, <1>3, <1>5, ConfigNumbers
<1>6. CASE CommandSign = -1
  BY <1>2, <1>3, <1>6, ConfigNumbers
<1> QED
  BY <1>4, <1>5, <1>6

\* What it takes to integrate.
LEMMA IntegrationGate ==
    ASSUME TypeOK, RestTyped, Integrated # integrator
    PROVE  /\ ~Spins
           /\ previous # None
           /\ offered # None /\ selected # None /\ selected.age <= Recent
           /\ offered.effort = selected.effort
<1>1. FreezeReason = "none"
  BY DEF Integrated
<1>2. ~Spins /\ ArbitrationKnown /\ OutputSelected /\ DtValid
  BY <1>1 DEF FreezeReason
<1>3. previous # None
  <2>1. Dt # 0
    BY <1>2, ConfigNumbers DEF DtValid
  <2> QED
    BY <2>1 DEF Dt
<1> QED
  BY <1>2, <1>3 DEF ArbitrationKnown, OutputSelected

-----------------------------------------------------------------------------
(* A period passes. *)

LEMMA OlderRange ==
    ASSUME NEW timeout \in Nat, NEW age \in Age(timeout)
    PROVE  /\ Older(age, timeout) \in Age(timeout)
           /\ age <= timeout => Older(age, timeout) = age + 1
           /\ age > timeout => Older(age, timeout) = age
BY DEF Older, Age, Stale

\* A remembered output grows older or is forgotten.
LEMMA MineAges ==
    ASSUME NEW x \in Mine
    PROVE  LET y == IF x = None \/ x.age > Recent THEN None ELSE [x EXCEPT !.age = @ + 1]
           IN  /\ y \in Mine
               /\ y # None => /\ x # None /\ x.age \in 0..Recent
                              /\ y.age = x.age + 1 /\ y.effort = x.effort
<1>1. CASE x = None
  BY <1>1 DEF Mine
<1>2. CASE x # None
  <2>1. x \in [effort : Int, age : Age(Recent)]
    BY <1>2 DEF Mine
  <2>2. x.effort \in Int /\ x.age \in 0..(Recent + 1)
    BY <2>1 DEF Age, Stale
  <2>3. CASE x.age > Recent
    BY <1>2, <2>3 DEF Mine
  <2>4. CASE ~(x.age > Recent)
    <3> DEFINE y == [x EXCEPT !.age = @ + 1]
    <3>1. x.age \in 0..Recent /\ x.age + 1 \in Age(Recent)
      BY <2>2, <2>4, ConfigNumbers DEF Age, Stale
    <3>2. y.age = x.age + 1 /\ y.effort = x.effort
      BY <2>1
    <3>3. y \in [effort : Int, age : Age(Recent)]
      BY <2>1, <3>1
    <3> HIDE DEF y
    <3>4. y \in Mine
      BY <3>3 DEF Mine
    <3> QED
      BY <1>2, <2>4, <3>1, <3>2, <3>4 DEF y
  <2> QED
    BY <2>3, <2>4
<1> QED
  BY <1>1, <1>2

LEMMA TickTypes ==
    ASSUME TypeOK, RestTyped, Tick
    PROVE  TypeOK' /\ RestTyped'
<1> DEFINE aged(x, timeout) == IF x = None \/ x.age > timeout THEN None
                               ELSE [x EXCEPT !.age = @ + 1]
           later(age) == IF age = None THEN None ELSE Older(age, StampCap)
<1>1. /\ command' = aged(command, NavTimeout)
      /\ encoder' = aged(encoder, Larger(EncoderTimeout, Recent))
      /\ motion' = aged(motion, MotionTimeout)
      /\ offered' = aged(offered, Recent) /\ selected' = aged(selected, Recent)
      /\ sampled' = later(sampled) /\ previous' = later(previous)
      /\ slipAge' = IF slipAge = None THEN None ELSE Smaller(slipAge + 1, SlipQualification)
      /\ UNCHANGED <<integrator, kp, ki>>
  BY DEF Tick, AdapterTick
<1>2. /\ stepped' = FALSE
      /\ teleopAge' = Older(teleopAge, TeleopTimeout)
      /\ effortAge' = Older(effortAge, MotorTimeout)
      /\ origin' = [origin EXCEPT !.age = IF effort = 0 THEN 0 ELSE Older(@, OriginCap)]
      /\ ownAge' = Older(ownAge, Recent + 1)
      /\ UNCHANGED <<alive, echo, effort, slipFor, stepsOnKi>>
  BY DEF Tick
<1>3. command' \in [speed : NavSpeeds, age : Age(NavTimeout)] \cup {None}
  BY <1>1, ConfigNumbers DEF TypeOK, Age, Stale
<1>4. encoder' \in [speed : WheelSpeeds, direction : Directions,
                    age : Age(Larger(EncoderTimeout, Recent))] \cup {None}
  <2>1. Larger(EncoderTimeout, Recent) \in Nat
    BY ConfigNumbers DEF Larger
  <2> QED
    BY <1>1, <2>1 DEF TypeOK, Age, Stale
<1>5. motion' \in [speed : GroundSpeeds, age : Age(MotionTimeout)] \cup {None}
  BY <1>1, ConfigNumbers DEF TypeOK, Age, Stale
<1>6. offered' \in Mine /\ selected' \in Mine
  <2>1. offered \in Mine /\ selected \in Mine
    BY DEF RestTyped
  <2> QED
    BY <1>1, <2>1, MineAges
<1>7. {sampled', previous'} \subseteq Age(StampCap) \cup {None}
  <2>1. StampCap \in Nat
    BY ConfigNumbers DEF StampCap
  <2> QED
    BY <1>1, <2>1, OlderRange DEF TypeOK
<1>8. slipAge' \in 0..SlipQualification \cup {None}
  BY <1>1, ConfigNumbers DEF TypeOK, Smaller
<1>9. /\ teleopAge' \in Age(TeleopTimeout) /\ effortAge' \in Age(MotorTimeout)
      /\ ownAge' \in Age(Recent + 1)
  <2>1. Recent + 1 \in Nat
    BY ConfigNumbers
  <2> QED
    BY <1>2, <2>1, ConfigNumbers, OlderRange DEF TypeOK, RestTyped
<1>10. origin' \in Origins
  <2>1. OriginCap \in Nat
    BY ConfigNumbers DEF OriginCap
  <2>2. 0 \in Age(OriginCap)
    BY <2>1 DEF Age, Stale
  <2>3. origin.age \in Age(OriginCap)
    BY DEF RestTyped, Origins
  <2>4. (IF effort = 0 THEN 0 ELSE Older(origin.age, OriginCap)) \in Age(OriginCap)
    BY <2>1, <2>2, <2>3, OlderRange
  <2> QED
    BY <1>2, <2>4 DEF RestTyped, Origins
<1> HIDE DEF aged, later
<1>11. TypeOK'
  BY <1>1, <1>2, <1>3, <1>4, <1>5, <1>7, <1>8, <1>9 DEF TypeOK
<1>12. RestTyped'
  BY <1>1, <1>2, <1>6, <1>9, <1>10 DEF RestTyped
<1> QED
  BY <1>11, <1>12

\* Ages that are compared with one another grow together.
LEMMA TickAges ==
    ASSUME IInv, Tick
    PROVE  EffortAges' /\ EffortKeepsSign' /\ KiCountsSamples' /\ EchoIsOwn' /\ SelectedIsOwn' /\ SlipIsTimed'
<1> USE DEF IInv
<1>1. EffortAges'
  <2>1. CASE effort = 0
    BY <2>1 DEF Tick, EffortAges
  <2>2. CASE effort # 0
    <3>1. effortAge <= MotorTimeout /\ effortAge \in Nat
      <4>1. effortAge \in 0..(MotorTimeout + 1)
        BY DEF TypeOK, Age, Stale
      <4>2. ~(effortAge > MotorTimeout)
        BY <2>2 DEF Tick, Starving
      <4> QED
        BY <4>1, <4>2, ConfigNumbers
    <3>2. effortAge' = effortAge + 1
      BY <3>1 DEF Tick, Older
    <3>3. origin.age \in Nat /\ origin.age <= OriginCap
      BY <2>2, <3>1, ConfigNumbers DEF EffortAges, RestTyped, Origins, Age, Stale, OriginCap
    <3>4. origin' = [origin EXCEPT !.age = @ + 1]
      BY <2>2, <3>3 DEF Tick, Older
    <3>5. origin'.age = origin.age + 1 /\ origin'.who = origin.who
      BY <3>4 DEF RestTyped, Origins
    <3>6. effort' # 0
      BY <2>2 DEF Tick
    <3> QED
      BY <2>2, <3>1, <3>2, <3>3, <3>5, <3>6, ConfigNumbers DEF EffortAges
  <2> QED
    BY <2>1, <2>2
<1>2. KiCountsSamples'
  BY DEF Tick, AdapterTick, KiCountsSamples
<1>3. EchoIsOwn'
  BY DEF Tick, EchoIsOwn
<1>4. SelectedIsOwn'
  <2>1. CASE selected' = None
    BY <2>1 DEF SelectedIsOwn
  <2>2. CASE selected' # None
    <3>1. selected' = IF selected = None \/ selected.age > Recent THEN None
                      ELSE [selected EXCEPT !.age = @ + 1]
      BY DEF Tick, AdapterTick
    <3>2. /\ selected # None /\ selected.age \in 0..Recent
          /\ selected'.age = selected.age + 1 /\ selected'.effort = selected.effort
      BY <2>2, <3>1, MineAges DEF RestTyped
    <3>3. ownAge \in 0..(Recent + 2)
      BY ConfigNumbers DEF RestTyped, Age, Stale
    <3>4. ownAge <= selected.age => ownAge' = ownAge + 1
      <4>1. ownAge' = Older(ownAge, Recent + 1)
        BY DEF Tick
      <4> QED
        BY <3>2, <3>3, <4>1, ConfigNumbers DEF Older
    <3>5. selected.effort = OperatorEffort \/ ownAge <= selected.age
      BY <3>2 DEF SelectedIsOwn
    <3> QED
      BY <3>2, <3>3, <3>4, <3>5 DEF SelectedIsOwn
  <2> QED
    BY <2>1, <2>2
<1>5. SlipIsTimed'
  <2>1. CASE slipFor = 0
    BY <2>1 DEF Tick, SlipIsTimed
  <2>2. CASE slipFor # 0
    <3>1. slipAge # None /\ slipAge \in 0..SlipQualification /\ slipFor \in Nat
      BY <2>2 DEF SlipIsTimed, TypeOK, RestTyped
    <3>2. slipAge' = Smaller(slipAge + 1, SlipQualification) /\ slipFor' = slipFor
          /\ stepped' = FALSE
      BY <3>1 DEF Tick, AdapterTick
    <3>3. IF stepped THEN slipFor <= slipAge + 1
                     ELSE slipFor <= slipAge \/ slipAge = SlipQualification
      BY <2>2, <3>1 DEF SlipIsTimed
    <3>4. slipAge' # None
      BY <3>1, <3>2, ConfigNumbers DEF Smaller
    <3> QED
      BY <3>1, <3>2, <3>3, <3>4, ConfigNumbers DEF SlipIsTimed, Smaller
  <2> QED
    BY <2>1, <2>2 DEF RestTyped
<1>6. EffortKeepsSign'
  <2>1. effort' = effort /\ origin'.who = origin.who /\ origin'.sign = origin.sign
    BY DEF Tick, RestTyped, Origins
  <2> QED
    BY <2>1 DEF EffortKeepsSign
<1> QED
  BY <1>1, <1>2, <1>3, <1>4, <1>5, <1>6

-----------------------------------------------------------------------------
(* The steps. *)

LEMMA InvInit == Init => IInv
<1> SUFFICES ASSUME Init PROVE IInv
  OBVIOUS
<1>1. TypeOK
  <2>1. /\ 0 \in Age(MotorTimeout) /\ Stale(TeleopTimeout) \in Age(TeleopTimeout)
        /\ 0 \in -IntegratorBound..IntegratorBound
        /\ 0 \in -OutputMax..OutputMax
        /\ 1 \in 1..MaxGain /\ MaxGain \in 0..MaxGain
    BY ConfigNumbers DEF Age, Stale
  <2> QED
    BY <2>1 DEF Init, AdapterInit, TypeOK
<1>2. RestTyped
  <2>1. 0 \in Age(OriginCap) /\ Stale(Recent + 1) \in Age(Recent + 1)
    BY ConfigNumbers DEF Age, Stale, OriginCap
  <2>2. <<>> \in Seq(Int)
    OBVIOUS
  <2>3. 0 \in 0..(SlipQualification + 1) /\ 0 \in 0..2
    BY ConfigNumbers
  <2> QED
    BY <2>1, <2>2, <2>3 DEF Init, AdapterInit, RestTyped, Mine, Origins, NoOrigin
<1>3. EffortAges /\ EffortKeepsSign /\ KiCountsSamples /\ EchoIsOwn /\ SelectedIsOwn /\ SlipIsTimed
  BY DEF Init, AdapterInit, EffortAges, EffortKeepsSign, KiCountsSamples, EchoIsOwn, SelectedIsOwn,
     SlipIsTimed
<1> QED
  BY <1>1, <1>2, <1>3 DEF IInv

\* A forwarded message, whoever said it.
LEMMA ForwardTypes ==
    ASSUME RestTyped, NEW value \in Int, NEW who \in {"nav", "operator"},
           NEW sign \in {-1, 1}, who = "nav" /\ value # 0 => value * sign > 0,
           NEW age \in 0..NavTimeout, Forward(value, who, sign, age)
    PROVE  /\ effort' = value /\ effortAge' = 0 /\ effortAge' \in Age(MotorTimeout)
           /\ echo' \in Seq(Int)
           /\ origin' \in Origins
           /\ age <= (IF who = "nav" THEN NavTimeout ELSE 0) => EffortAges'
           /\ EffortKeepsSign'
           /\ Len(echo') = Len(echo) + 1
           /\ \A i \in 1..Len(echo) : echo'[i] = echo[i]
           /\ echo'[Len(echo) + 1] = value
<1>1. echo \in Seq(Int) /\ echo' = Append(echo, value)
  BY DEF Forward, RestTyped
<1>2. /\ echo' \in Seq(Int) /\ Len(echo') = Len(echo) + 1
      /\ \A i \in 1..Len(echo) : echo'[i] = echo[i]
      /\ echo'[Len(echo) + 1] = value
  BY <1>1
<1>3. /\ effort' = value /\ effortAge' = 0 /\ effortAge' \in Age(MotorTimeout)
      /\ origin' = IF value = 0 THEN NoOrigin
                   ELSE [who |-> who, sign |-> sign, age |-> age]
  BY ConfigNumbers DEF Forward, Age, Stale
<1>4. age \in Age(OriginCap) /\ 0 \in Age(OriginCap)
  BY ConfigNumbers DEF OriginCap, Age, Stale
<1>5. origin' \in Origins
  BY <1>3, <1>4 DEF Origins, NoOrigin
<1>6. age <= (IF who = "nav" THEN NavTimeout ELSE 0) => EffortAges'
  BY <1>3, ConfigNumbers DEF EffortAges, NoOrigin
<1>7. EffortKeepsSign'
  BY <1>3 DEF EffortKeepsSign, NoOrigin
<1> QED
  BY <1>2, <1>3, <1>5, <1>6, <1>7

LEMMA InvOperator == ASSUME IInv, Operator PROVE IInv'
<1> USE DEF IInv
<1>1. /\ Forward(OperatorEffort, "operator", 1, 0)
      /\ teleopAge' = 0
      /\ UNCHANGED <<adapterVars, alive, stepped, ownAge, slipFor, stepsOnKi>>
  BY DEF Operator
<1>2. OperatorEffort \in Int /\ 0 \in 0..NavTimeout
  BY ConfigNumbers
<1>3. /\ effort' = OperatorEffort /\ effortAge' = 0 /\ effortAge' \in Age(MotorTimeout)
      /\ echo' \in Seq(Int)
      /\ origin' \in Origins
      /\ EffortAges' /\ EffortKeepsSign'
      /\ Len(echo') = Len(echo) + 1
      /\ \A i \in 1..Len(echo) : echo'[i] = echo[i]
      /\ echo'[Len(echo) + 1] = OperatorEffort
  BY <1>1, <1>2, ForwardTypes
<1>4. TypeOK'
  <2>1. 0 \in Age(TeleopTimeout)
    BY ConfigNumbers DEF Age, Stale
  <2> QED
    BY <1>1, <1>3, <2>1 DEF TypeOK, adapterVars, inputs, control
<1>5. RestTyped'
  BY <1>1, <1>3 DEF RestTyped, adapterVars, inputs
<1>6. KiCountsSamples' /\ SelectedIsOwn' /\ SlipIsTimed'
  BY <1>1 DEF KiCountsSamples, SelectedIsOwn, SlipIsTimed, adapterVars, inputs, control
<1>7. EchoIsOwn'
  <2>1. Len(echo) \in Nat
    BY DEF RestTyped
  <2> QED
    BY <1>1, <1>3, <2>1 DEF EchoIsOwn
<1> QED
  BY <1>3, <1>4, <1>5, <1>6, <1>7

LEMMA InvWatchdog == ASSUME IInv, Watchdog PROVE IInv'
<1> USE DEF IInv
<1>1. /\ effort' = 0 /\ origin' = NoOrigin
      /\ UNCHANGED <<adapterVars, alive, teleopAge, echo, effortAge, stepped,
                     ownAge, slipFor, stepsOnKi>>
  BY DEF Watchdog
<1>2. TypeOK'
  <2>1. 0 \in -OutputMax..OutputMax
    BY ConfigNumbers
  <2> QED
    BY <1>1, <2>1 DEF TypeOK, adapterVars, inputs, control
<1>3. RestTyped'
  <2>1. 0 \in Age(OriginCap)
    BY ConfigNumbers DEF OriginCap, Age, Stale
  <2> QED
    BY <1>1, <2>1 DEF RestTyped, adapterVars, inputs, Origins, NoOrigin
<1>4. /\ EffortAges' /\ EffortKeepsSign' /\ KiCountsSamples' /\ EchoIsOwn' /\ SelectedIsOwn' /\ SlipIsTimed'
  BY <1>1 DEF EffortAges, EffortKeepsSign, KiCountsSamples, EchoIsOwn, SelectedIsOwn, SlipIsTimed,
     adapterVars, inputs, control
<1> QED
  BY <1>2, <1>3, <1>4

\* An input changes the adapter's inputs only.
LEMMA InvHears ==
    ASSUME IInv,
           \/ \E speed \in NavSpeeds : Hears(OnCommand(speed))
           \/ \E speed \in GroundSpeeds : Hears(OnMotion(speed))
           \/ \E speed \in WheelSpeeds, direction \in Directions :
                 Hears(OnEncoder(speed, direction))
    PROVE  IInv'
<1> USE DEF IInv
<1>1. /\ UNCHANGED <<alive, muxVars, stepped, history>>
      /\ UNCHANGED <<selected, control, offered, kp, ki>>
  BY DEF Hears, OnCommand, OnMotion, OnEncoder
<1>2. command' \in [speed : NavSpeeds, age : Age(NavTimeout)] \cup {None}
  <2>1. 0 \in Age(NavTimeout)
    BY ConfigNumbers DEF Age, Stale
  <2> QED
    BY <2>1 DEF TypeOK, Hears, OnCommand, OnMotion, OnEncoder
<1>3. motion' \in [speed : GroundSpeeds, age : Age(MotionTimeout)] \cup {None}
  <2>1. 0 \in Age(MotionTimeout)
    BY ConfigNumbers DEF Age, Stale
  <2> QED
    BY <2>1 DEF TypeOK, Hears, OnCommand, OnMotion, OnEncoder
<1>4. encoder' \in [speed : WheelSpeeds, direction : Directions,
                    age : Age(Larger(EncoderTimeout, Recent))] \cup {None}
  <2>1. 0 \in Age(Larger(EncoderTimeout, Recent))
    BY ConfigNumbers DEF Age, Stale, Larger
  <2> QED
    BY <2>1 DEF TypeOK, Hears, OnCommand, OnMotion, OnEncoder
<1>5. {sampled', previous'} \subseteq Age(StampCap) \cup {None}
  <2>1. 0 \in Age(StampCap)
    BY ConfigNumbers DEF Age, Stale, StampCap
  <2>2. sampled' \in {sampled, 0} /\ previous' = previous
    BY <1>1 DEF Hears, OnCommand, OnMotion, OnEncoder, control
  <2> QED
    BY <2>1, <2>2 DEF TypeOK
<1>6. TypeOK'
  BY <1>1, <1>2, <1>3, <1>4, <1>5 DEF TypeOK, muxVars, control
<1>7. RestTyped'
  BY <1>1 DEF RestTyped, muxVars, history
<1>8. EffortAges' /\ EffortKeepsSign' /\ KiCountsSamples' /\ EchoIsOwn' /\ SelectedIsOwn' /\ SlipIsTimed'
  BY <1>1 DEF EffortAges, EffortKeepsSign, KiCountsSamples, EchoIsOwn, SelectedIsOwn, SlipIsTimed,
     muxVars, history, control
<1> QED
  BY <1>6, <1>7, <1>8

LEMMA InvEcho == ASSUME IInv, Echo PROVE IInv'
<1> USE DEF IInv
<1>1. /\ echo # <<>> /\ echo' = Tail(echo)
      /\ UNCHANGED <<alive, teleopAge, effort, effortAge, stepped, history>>
      /\ UNCHANGED <<command, encoder, sampled, motion, control, offered, kp, ki>>
      /\ \/ selected' = [effort |-> Head(echo), age |-> 0]
         \/ selected' = selected
  BY DEF Echo, OnMuxOutput, adapterVars, inputs
<1>2. /\ echo \in Seq(Int) /\ Len(echo) \in Nat \ {0} /\ Head(echo) = echo[1]
      /\ Head(echo) \in Int /\ echo' \in Seq(Int) /\ Len(echo') = Len(echo) - 1
      /\ \A i \in 1..Len(echo') : echo'[i] = echo[i + 1]
  <2>1. echo \in Seq(Int)
    BY DEF RestTyped
  <2> QED
    BY <1>1, <2>1
<1>3. /\ 1 \in 1..Len(echo)
      /\ \A i \in 1..Len(echo') : i + 1 \in 1..Len(echo)
  BY <1>2
<1>4. ownAge' = ownAge
  BY <1>1 DEF history
<1>5. EchoIsOwn'
  BY <1>2, <1>3, <1>4 DEF EchoIsOwn
<1>6. SelectedIsOwn' /\ selected' \in Mine
  <2>1. CASE selected' = selected
    BY <1>4, <2>1 DEF SelectedIsOwn, RestTyped
  <2>2. CASE selected' = [effort |-> Head(echo), age |-> 0]
    <3>1. Head(echo) = OperatorEffort \/ ownAge = 0
      BY <1>2, <1>3 DEF EchoIsOwn
    <3>2. 0 \in Age(Recent)
      BY ConfigNumbers DEF Age, Stale
    <3> QED
      BY <1>2, <1>4, <2>2, <3>1, <3>2 DEF SelectedIsOwn, Mine
  <2> QED
    BY <1>1, <2>1, <2>2
<1>7. TypeOK'
  BY <1>1 DEF TypeOK, control
<1>8. RestTyped'
  BY <1>1, <1>2, <1>6 DEF RestTyped, history
<1>9. EffortAges' /\ EffortKeepsSign' /\ KiCountsSamples' /\ SlipIsTimed'
  BY <1>1 DEF EffortAges, EffortKeepsSign, KiCountsSamples, SlipIsTimed, history, control
<1> QED
  BY <1>5, <1>6, <1>7, <1>8, <1>9

LEMMA InvWriteGain == ASSUME IInv, WriteGain PROVE IInv'
<1> USE DEF IInv
<1>1. /\ UNCHANGED <<alive, muxVars, stepped, inputs, slipAge, offered>>
      /\ UNCHANGED <<origin, ownAge, slipFor>>
  BY DEF WriteGain, SetIntegralGain, SetProportionalGain, control, history
<1>2. \/ ki' \in 0..MaxGain /\ kp' = kp /\ integrator' = 0 /\ previous' = None
         /\ stepsOnKi' = 0
      \/ kp' \in 1..MaxGain /\ UNCHANGED <<ki, integrator, previous, stepsOnKi>>
  BY DEF WriteGain, SetIntegralGain, SetProportionalGain, control, history
<1>3. 0 \in -IntegratorBound..IntegratorBound /\ 0 \in 0..2
  BY ConfigNumbers
<1>4. TypeOK'
  BY <1>1, <1>2, <1>3 DEF TypeOK, muxVars, inputs
<1>5. RestTyped'
  BY <1>1, <1>2, <1>3 DEF RestTyped, muxVars, inputs
<1>6. KiCountsSamples'
  BY <1>2 DEF KiCountsSamples
<1>7. EffortAges' /\ EffortKeepsSign' /\ EchoIsOwn' /\ SelectedIsOwn' /\ SlipIsTimed'
  BY <1>1 DEF EffortAges, EffortKeepsSign, EchoIsOwn, SelectedIsOwn, SlipIsTimed, muxVars,
     inputs
<1> QED
  BY <1>4, <1>5, <1>6, <1>7

LEMMA InvSilentStep == ASSUME IInv, SilentStep PROVE IInv'
<1> USE DEF IInv
<1>1. /\ stepped' = TRUE /\ slipAge' = None /\ slipFor' = 0
      /\ UNCHANGED <<alive, muxVars, origin, ownAge, stepsOnKi>>
      /\ UNCHANGED <<inputs, previous, integrator, offered, kp, ki>>
  BY DEF SilentStep, StepIsDue, StepSilent
<1>2. 0 \in 0..(SlipQualification + 1)
  BY ConfigNumbers
<1>3. TypeOK'
  BY <1>1 DEF TypeOK, muxVars, inputs
<1>4. RestTyped'
  BY <1>1, <1>2 DEF RestTyped, muxVars, inputs
<1>5. EffortAges' /\ EffortKeepsSign' /\ KiCountsSamples' /\ EchoIsOwn' /\ SelectedIsOwn' /\ SlipIsTimed'
  BY <1>1 DEF EffortAges, EffortKeepsSign, KiCountsSamples, EchoIsOwn, SelectedIsOwn, SlipIsTimed, muxVars,
     inputs
<1> QED
  BY <1>3, <1>4, <1>5

\* What the mux makes of the adapter's message.
LEMMA MuxTypes ==
    ASSUME TypeOK, RestTyped, EffortAges, EchoIsOwn, SelectedIsOwn,
           NEW value \in -OutputMax..OutputMax, Mux(value),
           selected' = selected,
           command # None, command.age <= NavTimeout,
           EffortKeepsSign, value # 0 => value * CommandSign > 0
    PROVE  /\ effort' \in (-OutputMax..OutputMax) \cup {OperatorEffort}
           /\ effortAge' \in Age(MotorTimeout)
           /\ echo' \in Seq(Int)
           /\ origin' \in Origins
           /\ ownAge' \in Age(Recent + 1)
           /\ EffortAges' /\ EffortKeepsSign' /\ EchoIsOwn' /\ SelectedIsOwn'
<1>1. CASE teleopAge <= TeleopTimeout
  <2>1. UNCHANGED <<effort, effortAge, origin, echo, ownAge>>
    BY <1>1 DEF Mux
  <2> QED
    BY <2>1 DEF TypeOK, RestTyped, EffortAges, EffortKeepsSign, EchoIsOwn, SelectedIsOwn
<1>2. CASE ~(teleopAge <= TeleopTimeout)
  <2>1. Forward(value, "nav", CommandSign, command.age) /\ ownAge' = 0
    BY <1>2 DEF Mux
  <2>2. value \in Int /\ command.age \in 0..NavTimeout /\ CommandSign \in {-1, 1}
    BY ConfigNumbers DEF TypeOK, Age, Stale, CommandSign
  <2>3. /\ effort' = value /\ effortAge' \in Age(MotorTimeout)
        /\ echo' \in Seq(Int)
        /\ origin' \in Origins
        /\ EffortAges' /\ EffortKeepsSign'
    BY <2>1, <2>2, ForwardTypes
  <2>4. 0 \in Age(Recent + 1)
    BY ConfigNumbers DEF Age, Stale
  <2>5. EchoIsOwn'
    BY <2>1 DEF EchoIsOwn
  <2>6. SelectedIsOwn'
    <3>1. selected # None => selected.age >= 0
      BY ConfigNumbers DEF RestTyped, Mine, Age, Stale
    <3> QED
      BY <2>1, <3>1 DEF SelectedIsOwn
  <2> QED
    BY <2>1, <2>3, <2>4, <2>5, <2>6
<1> QED
  BY <1>1, <1>2

LEMMA InvBrakeStep == ASSUME IInv, BrakeStep PROVE IInv'
<1> USE DEF IInv
<1>1. /\ stepped' = TRUE /\ slipAge' = None /\ slipFor' = 0
      /\ Mux(0) /\ Brakes
      /\ offered' = [effort |-> 0, age |-> 0]
      /\ UNCHANGED <<alive, teleopAge, stepsOnKi>>
      /\ UNCHANGED <<inputs, previous, integrator, kp, ki>>
  BY DEF BrakeStep, StepIsDue, StepBrake, Offer
<1>2. 0 \in 0..(SlipQualification + 1) /\ 0 \in Age(Recent) /\ 0 \in -OutputMax..OutputMax
  BY ConfigNumbers DEF Age, Stale
<1>3. command # None /\ command.age <= NavTimeout /\ selected' = selected
  BY <1>1 DEF Brakes, Commanded, inputs
<1>4. /\ effort' \in (-OutputMax..OutputMax) \cup {OperatorEffort}
      /\ effortAge' \in Age(MotorTimeout)
      /\ echo' \in Seq(Int)
      /\ origin' \in Origins
      /\ ownAge' \in Age(Recent + 1)
      /\ EffortAges' /\ EffortKeepsSign' /\ EchoIsOwn' /\ SelectedIsOwn'
  BY <1>1, <1>2, <1>3, MuxTypes
<1>5. TypeOK'
  BY <1>1, <1>4 DEF TypeOK, inputs
<1>6. RestTyped'
  <2>1. offered' \in Mine
    BY <1>1, <1>2 DEF Mine
  <2> QED
    BY <1>1, <1>2, <1>4, <2>1 DEF RestTyped, inputs
<1>7. KiCountsSamples' /\ SlipIsTimed'
  BY <1>1 DEF KiCountsSamples, SlipIsTimed
<1> QED
  BY <1>4, <1>5, <1>6, <1>7

LEMMA InvDriveStep == ASSUME IInv, DriveStep PROVE IInv'
<1> USE DEF IInv
<1>1. /\ stepped = FALSE /\ stepped' = TRUE
      /\ Mux(Effort) /\ Drives
      /\ slipAge' = SlipAge /\ previous' = sampled /\ integrator' = Integrated
      /\ offered' = [effort |-> Effort, age |-> 0]
      /\ UNCHANGED <<inputs, kp, ki, alive, teleopAge>>
      /\ slipFor' = IF ~SlipSeen THEN 0 ELSE Smaller(slipFor + 1, SlipQualification + 1)
      /\ stepsOnKi' = Smaller(stepsOnKi + 1, 2)
  BY DEF DriveStep, StepIsDue, StepDrive, Offer, RestTyped
<1>2. /\ Effort \in -OutputMax..OutputMax
      /\ Integrated \in -IntegratorBound..IntegratorBound
  BY <1>1, EffortRange, IntegratorRange
<1>3. command # None /\ command.age <= NavTimeout /\ selected' = selected
  BY <1>1 DEF Drives, Commanded, inputs
<1>4. /\ effort' \in (-OutputMax..OutputMax) \cup {OperatorEffort}
      /\ effortAge' \in Age(MotorTimeout)
      /\ echo' \in Seq(Int)
      /\ origin' \in Origins
      /\ ownAge' \in Age(Recent + 1)
      /\ EffortAges' /\ EffortKeepsSign' /\ EchoIsOwn' /\ SelectedIsOwn'
  <2>1. Effort # 0 => Effort * CommandSign > 0
    <3>1. Effort * CommandSign \in 0..OutputMax /\ Effort \in Int
      BY <1>1, <1>2, EffortRange, ConfigNumbers
    <3>2. CommandSign \in {-1, 1}
      BY DEF CommandSign
    <3> QED
      BY <3>1, <3>2, ConfigNumbers
  <2> QED
    BY <1>1, <1>2, <1>3, <2>1, MuxTypes
<1>5. slipAge' \in 0..SlipQualification \cup {None}
  BY <1>1, ConfigNumbers DEF TypeOK, SlipAge
<1>6. TypeOK'
  BY <1>1, <1>2, <1>4, <1>5 DEF TypeOK, inputs
<1>7. /\ slipFor' \in 0..(SlipQualification + 1) /\ stepsOnKi' \in 0..2
  BY <1>1, ConfigNumbers DEF RestTyped, Smaller
<1>8. RestTyped'
  <2>1. offered' \in Mine
    <3>1. Effort \in Int /\ 0 \in Age(Recent)
      BY <1>2, ConfigNumbers DEF Age, Stale
    <3> QED
      BY <1>1, <3>1 DEF Mine
  <2> QED
    BY <1>1, <1>4, <1>7, <2>1 DEF RestTyped, inputs
<1>9. KiCountsSamples'
  <2>1. CASE stepsOnKi = 0
    <3>1. integrator' = 0
      BY <1>1, <2>1, IntegrationGate DEF KiCountsSamples
    <3> QED
      BY <1>1, <2>1, <3>1 DEF KiCountsSamples, Smaller
  <2>2. CASE stepsOnKi # 0
    BY <1>1, <2>2 DEF KiCountsSamples, Smaller, RestTyped
  <2> QED
    BY <2>1, <2>2
<1>10. SlipIsTimed'
  <2>1. CASE ~SlipSeen
    BY <1>1, <2>1 DEF SlipIsTimed
  <2>2. CASE SlipSeen /\ slipAge = None
    <3>1. slipFor = 0
      BY <2>2 DEF SlipIsTimed, RestTyped
    <3>2. slipAge' = 0 /\ slipFor' = 1
      BY <1>1, <2>2, <3>1, ConfigNumbers DEF SlipAge, Smaller
    <3> QED
      BY <1>1, <3>2, ConfigNumbers DEF SlipIsTimed
  <2>3. CASE SlipSeen /\ slipAge # None
    <3>1. slipAge' = slipAge /\ slipFor' = Smaller(slipFor + 1, SlipQualification + 1)
      BY <1>1, <2>3 DEF SlipAge
    <3>2. slipAge \in 0..SlipQualification /\ slipFor \in Nat
      BY <2>3 DEF TypeOK, RestTyped
    <3>3. slipFor <= slipAge \/ slipAge = SlipQualification
      BY <1>1, <3>2 DEF SlipIsTimed
    <3> QED
      BY <1>1, <2>3, <3>1, <3>2, <3>3, ConfigNumbers DEF SlipIsTimed, Smaller
  <2> QED
    BY <2>1, <2>2, <2>3
<1> QED
  BY <1>4, <1>6, <1>8, <1>9, <1>10

LEMMA InvAdapterEnds == ASSUME IInv, AdapterEnds PROVE IInv'
<1> USE DEF IInv
<1>1. /\ alive' = FALSE /\ Nothing /\ slipFor' = 0 /\ stepsOnKi' = 0
      /\ UNCHANGED <<muxVars, stepped, origin, ownAge>>
  BY DEF AdapterEnds
<1>2. /\ 0 \in -IntegratorBound..IntegratorBound
      /\ 1 \in 1..MaxGain /\ MaxGain \in 0..MaxGain
      /\ 0 \in 0..(SlipQualification + 1) /\ 0 \in 0..2
  BY ConfigNumbers
<1>3. TypeOK'
  BY <1>1, <1>2 DEF Nothing, TypeOK, muxVars
<1>4. RestTyped'
  BY <1>1, <1>2 DEF Nothing, RestTyped, Mine, muxVars
<1>5. EffortAges' /\ EffortKeepsSign' /\ KiCountsSamples' /\ EchoIsOwn' /\ SelectedIsOwn' /\ SlipIsTimed'
  BY <1>1 DEF Nothing, EffortAges, EffortKeepsSign, KiCountsSamples, EchoIsOwn, SelectedIsOwn, SlipIsTimed,
     muxVars
<1> QED
  BY <1>3, <1>4, <1>5

LEMMA InvUnchanged ==
    ASSUME IInv, UNCHANGED <<adapterVars, muxVars, stepped, history>>,
           alive' \in BOOLEAN
    PROVE  IInv'
<1> USE DEF IInv, adapterVars, muxVars, history, inputs, control
<1>1. TypeOK'
  BY DEF TypeOK
<1>2. RestTyped'
  BY DEF RestTyped
<1>3. EffortAges' /\ EffortKeepsSign' /\ KiCountsSamples' /\ EchoIsOwn' /\ SelectedIsOwn' /\ SlipIsTimed'
  BY DEF EffortAges, EffortKeepsSign, KiCountsSamples, EchoIsOwn, SelectedIsOwn, SlipIsTimed
<1> QED
  BY <1>1, <1>2, <1>3

LEMMA InvTick == ASSUME IInv, Tick PROVE IInv'
BY TickTypes, TickAges DEF IInv

LEMMA InvStep == IInv /\ [Next]_vars => IInv'
<1> SUFFICES ASSUME IInv, [Next]_vars PROVE IInv'
  OBVIOUS
<1>1. CASE UNCHANGED vars
  BY <1>1, InvUnchanged DEF vars, IInv, RestTyped
<1>2. CASE AdapterStarts
  BY <1>2, InvUnchanged DEF AdapterStarts
<1> QED
  BY <1>1, <1>2, InvHears, InvEcho, InvOperator, InvWatchdog, InvWriteGain, InvSilentStep,
     InvBrakeStep, InvDriveStep, InvAdapterEnds, InvTick DEF Next

-----------------------------------------------------------------------------
(* The theorems. *)

LEMMA Invariance == Spec => []IInv
<1>1. Init => IInv
  BY InvInit
<1>2. IInv /\ [Next]_vars => IInv'
  BY InvStep
<1> QED
  BY <1>1, <1>2, PTL DEF Spec

\* The chain keeps its shape and the integrator its bound; the motor drives on
\* nothing older than the timeouts on the way allow and, under autonomy, not
\* against the command it comes from; after a write of Ki nothing
\* is integrated before two samples (step, _watchdog, set_controller_gains).
THEOREM NoOldEffort == Spec => []Inv
<1>1. IInv => Inv
  <2> SUFFICES ASSUME IInv PROVE Inv
    OBVIOUS
  <2>1. effortAge \in Age(MotorTimeout)
    BY DEF IInv, TypeOK
  <2>2. origin.age \in Int
    BY ConfigNumbers DEF IInv, RestTyped, Origins, Age, Stale, OriginCap
  <2>3. EffortIsRecent
    BY <2>1, <2>2, ConfigNumbers DEF IInv, EffortAges, EffortIsRecent, Age, Stale
  <2>4. KiStartsOver
    BY DEF IInv, KiCountsSamples, KiStartsOver
  <2> QED
    BY <2>3, <2>4 DEF IInv, Inv
<1> QED
  BY <1>1, Invariance, PTL

\* The integrator moves only on what the mux forwarded of the adapter itself, or
\* of an operator who says the very same, and not once the wheel has spun for
\* the qualification time (_adapter_output_is_selected, _wheelspin_guard).
THEOREM LearnsFromItself == Spec => LearnsOnlyItsOwn
<1> DEFINE Learns == DriveStep /\ integrator' # integrator =>
                       /\ ownAge <= Recent + 1 \/ offered.effort = OperatorEffort
                       /\ ~(slipFor > SlipQualification /\ SlipSeen)
<1>1. IInv /\ [Next]_vars => [Learns]_vars
  <2> SUFFICES ASSUME IInv, DriveStep, integrator' # integrator
               PROVE  /\ ownAge <= Recent + 1 \/ offered.effort = OperatorEffort
                      /\ ~(slipFor > SlipQualification /\ SlipSeen)
    OBVIOUS
  <2>1. /\ ~Spins
        /\ selected # None /\ selected.age <= Recent /\ offered.effort = selected.effort
    BY IntegrationGate DEF IInv, DriveStep, StepDrive
  <2>2. selected.effort = OperatorEffort \/ ownAge <= selected.age
    BY <2>1 DEF IInv, SelectedIsOwn
  <2>3. selected.age \in Int /\ ownAge \in Int
    BY <2>1, ConfigNumbers DEF IInv, RestTyped, Mine, Age, Stale
  <2>4. ownAge <= Recent + 1 \/ offered.effort = OperatorEffort
    BY <2>1, <2>2, <2>3, ConfigNumbers
  <2>5. ~(slipFor > SlipQualification /\ SlipSeen)
    <3> SUFFICES ASSUME slipFor > SlipQualification, SlipSeen PROVE FALSE
      OBVIOUS
    <3>1. slipFor > 0 /\ stepped = FALSE
      BY ConfigNumbers DEF IInv, RestTyped, DriveStep, StepIsDue
    <3>2. slipAge # None /\ (slipFor <= slipAge \/ slipAge = SlipQualification)
      BY <3>1 DEF IInv, SlipIsTimed
    <3>3. slipAge \in 0..SlipQualification /\ slipFor \in Nat
      BY <3>2 DEF IInv, TypeOK, RestTyped
    <3>4. slipAge >= SlipQualification
      BY <3>2, <3>3, ConfigNumbers
    <3> QED
      BY <2>1, <3>2, <3>4 DEF Spins
  <2> QED
    BY <2>4, <2>5
<1> QED
  BY <1>1, Invariance, PTL DEF Spec, LearnsOnlyItsOwn
=============================================================================
