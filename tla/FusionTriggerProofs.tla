------------------------- MODULE FusionTriggerProofs -------------------------
(***************************************************************************)
(* Theorems about FusionTrigger, for any count of sample numbers.          *)
(*                                                                         *)
(* FusionInv says which inputs are of which sample at each place of the    *)
(* IMU thread, and, as long as no notification is lost, what the filter    *)
(* has read by each of its own.                                            *)
(***************************************************************************)
EXTENDS FusionTrigger, TLAPS

\* The inputs between two calls of imu_update(), and in its course.
InputsInv ==
  /\ imu \in {"sleep", "scales", "accel"} => Accel_Vector = G_Dt /\ Gyro_Vector = G_Dt
  /\ imu = "gyro" => Accel_Vector = sample /\ Gyro_Vector = G_Dt
  /\ imu = "dt" => Accel_Vector = sample /\ Gyro_Vector = sample
  /\ imu = "notify" => Accel_Vector = sample /\ Gyro_Vector = sample /\ G_Dt = sample

\* The inputs stay and the filter was free to use them.
Settled == imu \in {"sleep", "scales"} /\ ~late

UsedInv ==
  /\ Settled /\ filter \in {"integrate", "correct"} => used.gyro = G_Dt
  /\ Settled /\ filter = "correct" => used.dt = G_Dt
  /\ Settled /\ filter \in {"test", "wait", "waiting", "exit"} =>
       used.gyro = G_Dt /\ used.dt = G_Dt /\ used.accel = G_Dt

FusionInv == TypeOK /\ InputsInv /\ UsedInv

LEMMA FusionInit == Init => FusionInv
<1> SUFFICES ASSUME Init PROVE FusionInv
  OBVIOUS
<1>1. 0 \in Number
  BY FusionAssumption DEF Number
<1>2. used \in [gyro : Number, dt : Number, accel : Number]
  BY <1>1 DEF Init
<1>3. TypeOK
  BY <1>1, <1>2 DEF Init, TypeOK
<1>4. InputsInv
  BY DEF Init, InputsInv
<1>5. UsedInv
  BY DEF Init, UsedInv, Settled
<1> QED BY <1>3, <1>4, <1>5 DEF FusionInv

LEMMA NextSampleType ==
  ASSUME sample \in Number
  PROVE  NextSample \in Number
<1>1. sample + 1 \in Int /\ Samples \in Int /\ Samples > 0
  BY FusionAssumption DEF Number
<1>2. \A a \in Int : (a % Samples) \in 0 .. Samples - 1
  BY <1>1
<1> QED BY <1>1, <1>2 DEF NextSample, Number

LEMMA FusionTypeStep == TypeOK /\ [Next]_vars => TypeOK'
<1> SUFFICES ASSUME TypeOK, [Next]_vars PROVE TypeOK'
  OBVIOUS
<1>1. CASE Sample
  <2>1. sample' \in Number
    BY <1>1, NextSampleType DEF Sample, TypeOK
  <2> QED BY <1>1, <2>1 DEF Sample, TypeOK, inputs, filterVars, mainVars
<1>2. CASE Scales
  BY <1>2 DEF Scales, TypeOK, inputs, filterVars, mainVars
<1>3. CASE SetAccel \/ SetGyro \/ SetDt
  BY <1>3 DEF SetAccel, SetGyro, SetDt, TypeOK, filterVars, mainVars
<1>4. CASE Notify
  BY <1>4 DEF Notify, Wake, TypeOK, inputs, mainVars
<1>5. CASE LoopTest \/ LoopWait \/ LoopWakesAlone
  BY <1>5 DEF LoopTest, LoopWait, LoopWakesAlone, TypeOK, imuVars, inputs, mainVars
<1>6. CASE Update
  BY <1>6 DEF Update, ReadGyro, ReadDt, ReadAccel, TypeOK, imuVars, inputs, mainVars
<1>7. CASE EndFlag \/ EndJoin
  BY <1>7 DEF EndFlag, EndJoin, TypeOK, imuVars, inputs, filterVars
<1>8. CASE EndNotify
  BY <1>8 DEF EndNotify, Wake, TypeOK, imuVars, inputs
<1>9. CASE UNCHANGED vars
  BY <1>9 DEF vars, imuVars, inputs, filterVars, mainVars, TypeOK
<1> QED BY <1>1, <1>2, <1>3, <1>4, <1>5, <1>6, <1>7, <1>8, <1>9
        DEF Next, Imu, Loop, Main, EndSteps

LEMMA InputsStep == FusionInv /\ [Next]_vars => InputsInv'
<1> SUFFICES ASSUME FusionInv, [Next]_vars PROVE InputsInv'
  OBVIOUS
<1> USE DEF FusionInv, InputsInv
<1>1. CASE Sample \/ Scales
  BY <1>1 DEF Sample, Scales, inputs
<1>2. CASE SetAccel
  BY <1>2 DEF SetAccel
<1>3. CASE SetGyro
  BY <1>3 DEF SetGyro
<1>4. CASE SetDt
  BY <1>4 DEF SetDt
<1>5. CASE Notify
  BY <1>5 DEF Notify, inputs
<1>6. CASE UNCHANGED imuVars
  BY <1>6 DEF imuVars, inputs
<1>7. Loop \/ LoopWakesAlone \/ Main \/ UNCHANGED vars => UNCHANGED imuVars
  BY DEF Loop, LoopTest, LoopWait, LoopWakesAlone, Update, ReadGyro, ReadDt, ReadAccel,
         Main, EndFlag, EndSteps, EndNotify, EndJoin, vars
<1> QED BY <1>1, <1>2, <1>3, <1>4, <1>5, <1>6, <1>7 DEF Next, Imu

LEMMA UsedStep == FusionInv /\ [Next]_vars => UsedInv'
<1> SUFFICES ASSUME FusionInv, [Next]_vars PROVE UsedInv'
  OBVIOUS
<1> USE DEF FusionInv, UsedInv
<1>1. CASE Sample \/ Scales
  BY <1>1 DEF Sample, Scales, Settled, inputs, filterVars
<1>2. CASE SetAccel \/ SetGyro \/ SetDt
  BY <1>2 DEF SetAccel, SetGyro, SetDt, Settled
<1>3. CASE Notify
  BY <1>3 DEF Notify, Wake, Settled
<1>4. CASE LoopTest \/ LoopWait \/ LoopWakesAlone
  BY <1>4 DEF LoopTest, LoopWait, LoopWakesAlone, Settled, imuVars, inputs, TypeOK
<1>5. CASE ReadGyro
  BY <1>5 DEF ReadGyro, Settled, imuVars, inputs, InputsInv, TypeOK
<1>6. CASE ReadDt
  BY <1>6 DEF ReadDt, Settled, imuVars, inputs, TypeOK
<1>7. CASE ReadAccel
  BY <1>7 DEF ReadAccel, Settled, imuVars, inputs, InputsInv, TypeOK
<1>8. CASE EndFlag \/ EndJoin
  BY <1>8 DEF EndFlag, EndJoin, Settled, imuVars, inputs, filterVars
<1>9. CASE EndNotify
  BY <1>9 DEF EndNotify, Wake, Settled, imuVars, inputs
<1>10. CASE UNCHANGED vars
  BY <1>10 DEF vars, imuVars, inputs, filterVars, mainVars, Settled
<1> QED BY <1>1, <1>2, <1>3, <1>4, <1>5, <1>6, <1>7, <1>8, <1>9, <1>10
        DEF Next, Imu, Loop, Update, Main, EndSteps

LEMMA FusionInvariant == Spec => []FusionInv
<1>1. FusionInv /\ [Next]_vars => FusionInv'
  BY FusionTypeStep, InputsStep, UsedStep DEF FusionInv
<1> QED BY <1>1, FusionInit, PTL DEF Spec

\* Every step keeps the types, and the loop is left only when it is told to.
THEOREM FusionTypeCorrect == Spec => []TypeOK
<1>1. FusionInv => TypeOK
  BY DEF FusionInv
<1> QED BY <1>1, FusionInvariant, PTL

\* No lock and no priority is needed for this: unless its last notification
\* is lost, a waiting filter has used the newest sample, all of it.
THEOREM NewestSampleFiltered == Spec => []NewestIsFiltered
<1>1. FusionInv => NewestIsFiltered
  <2> SUFFICES ASSUME FusionInv, filter = "waiting", imu \in {"sleep", "scales"}, ~late
               PROVE  used = [gyro |-> G_Dt, dt |-> G_Dt, accel |-> G_Dt]
    BY DEF NewestIsFiltered
  <2>1. used.gyro = G_Dt /\ used.dt = G_Dt /\ used.accel = G_Dt
    BY DEF FusionInv, UsedInv, Settled
  <2>2. used \in [gyro : Number, dt : Number, accel : Number]
    BY DEF FusionInv, TypeOK
  <2> QED BY <2>1, <2>2
<1> QED BY <1>1, FusionInvariant, PTL
=============================================================================
