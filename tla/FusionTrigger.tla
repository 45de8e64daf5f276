---------------------------- MODULE FusionTrigger ----------------------------
(***************************************************************************)
(* Sensor fusion: the IMU thread (Drotek10dof::loop) takes a sample, puts  *)
(* it into the inputs of the filter (SensorFusion::imu_update) and         *)
(* notifies the thread of BackgroundAction, which runs the filter          *)
(* (ECFClass::update).  No lock protects the inputs, and a notification    *)
(* that does not find the filter waiting is lost.                          *)
(*                                                                         *)
(*   imu     the IMU thread                                                *)
(*   filter  BackgroundAction::loop                                        *)
(*   main    the destructor ~BackgroundAction, at exit                     *)
(*                                                                         *)
(* The threads are scheduled in any way, with or without the priority that *)
(* the IMU thread asks for.                                                *)
(* A sample is a number; what a vector holds is the number of the sample   *)
(* it is from.  Numbers go round in Samples, which is enough to tell       *)
(* neighbours apart.                                                       *)
(***************************************************************************)
EXTENDS Integers

CONSTANT Samples     \* numbers of samples

ASSUME FusionAssumption == Samples \in Nat /\ Samples > 1

VARIABLES
  imu,              \* where the IMU thread is
  sample,           \* the sample in ax .. gz of Drotek10dof
  Accel_Vector, Gyro_Vector, G_Dt,
                    \* the inputs: the samples they are from
  filter,           \* where the background thread is
  used,             \* the inputs the last run of the filter has read
  late,             \* history: the last notification did not find the filter
                    \* waiting
  thread_running,
  main              \* where the destructor is

inputs     == <<Accel_Vector, Gyro_Vector, G_Dt>>
imuVars    == <<imu, sample, inputs>>
filterVars == <<filter, used>>
mainVars   == <<main, thread_running>>
vars == <<imuVars, filterVars, late, mainVars>>

Number == 0 .. Samples - 1
NextSample == (sample + 1) % Samples
-----------------------------------------------------------------------------
(* The IMU thread. *)

\* getMotion6() has returned; signal_imudata calls imu_update(), which reads
\* the scales from the device before it takes the sample.
Sample ==
  /\ imu = "sleep"
  /\ sample' = NextSample
  /\ imu' = "scales"
  /\ UNCHANGED <<inputs, filterVars, late, mainVars>>

Scales ==
  /\ imu = "scales"
  /\ imu' = "accel"
  /\ UNCHANGED <<sample, inputs, filterVars, late, mainVars>>

SetAccel ==
  /\ imu = "accel"
  /\ Accel_Vector' = sample
  /\ imu' = "gyro"
  /\ UNCHANGED <<sample, Gyro_Vector, G_Dt, filterVars, late, mainVars>>

SetGyro ==
  /\ imu = "gyro"
  /\ Gyro_Vector' = sample
  /\ imu' = "dt"
  /\ UNCHANGED <<sample, Accel_Vector, G_Dt, filterVars, late, mainVars>>

\* Mutant of SetDt: the interval goes on while the filter is busy.
SetDtWhenIdle ==
  /\ imu = "dt"
  /\ G_Dt' = IF filter = "waiting" THEN sample ELSE G_Dt
  /\ imu' = "notify"
  /\ UNCHANGED <<sample, Accel_Vector, Gyro_Vector, filterVars, late, mainVars>>

\* The time since the last call, whether the filter has used the last interval
\* or not.
SetDt ==
  /\ imu = "dt"
  /\ G_Dt' = sample
  /\ imu' = "notify"
  /\ UNCHANGED <<sample, Accel_Vector, Gyro_Vector, filterVars, late, mainVars>>

\* Mutant of Wake: nobody is woken.
WakeNobody == filter' = filter

\* notify_all().
Wake == filter' = IF filter = "waiting" THEN "woken" ELSE filter

Notify ==
  /\ imu = "notify"
  /\ Wake
  /\ late' = (filter # "waiting")
  /\ imu' = "sleep"
  /\ UNCHANGED <<sample, inputs, used, mainVars>>
-----------------------------------------------------------------------------
(* BackgroundAction::loop and the filter. *)

\* Mutant of LoopTest: the flag is not looked at again.
LoopTestNever ==
  /\ filter = "test"
  /\ filter' = "wait"
  /\ UNCHANGED <<imuVars, used, late, mainVars>>

LoopTest ==
  /\ filter = "test"
  /\ filter' = IF thread_running THEN "wait" ELSE "exit"
  /\ UNCHANGED <<imuVars, used, late, mainVars>>

LoopWait ==
  /\ filter = "wait"
  /\ filter' = "waiting"
  /\ UNCHANGED <<imuVars, used, late, mainVars>>

\* wait() may return without a notification; nothing asks why it has.
LoopWakesAlone ==
  /\ filter = "waiting"
  /\ filter' = "woken"
  /\ UNCHANGED <<imuVars, used, late, mainVars>>

\* Matrix_update().
ReadGyro ==
  /\ filter = "woken"
  /\ used' = [used EXCEPT !.gyro = Gyro_Vector]
  /\ filter' = "integrate"
  /\ UNCHANGED <<imuVars, late, mainVars>>

ReadDt ==
  /\ filter = "integrate"
  /\ used' = [used EXCEPT !.dt = G_Dt]
  /\ filter' = "correct"
  /\ UNCHANGED <<imuVars, late, mainVars>>

\* Mutant of ReadAccel: the loop is left after one run.
ReadAccelOnce ==
  /\ filter = "correct"
  /\ used' = [used EXCEPT !.accel = Accel_Vector]
  /\ filter' = "exit"
  /\ UNCHANGED <<imuVars, late, mainVars>>

\* Normalize() and Drift_correction().
ReadAccel ==
  /\ filter = "correct"
  /\ used' = [used EXCEPT !.accel = Accel_Vector]
  /\ filter' = "test"
  /\ UNCHANGED <<imuVars, late, mainVars>>
-----------------------------------------------------------------------------
(* ~BackgroundAction. *)

EndFlag ==
  /\ main = "runs"
  /\ thread_running' = FALSE
  /\ main' = "flagged"
  /\ UNCHANGED <<imuVars, filterVars, late>>

EndNotify ==
  /\ main = "flagged"
  /\ Wake
  /\ main' = "joining"
  /\ UNCHANGED <<imuVars, used, late, thread_running>>

EndJoin ==
  /\ main = "joining"
  /\ filter = "exit"
  /\ main' = "gone"
  /\ UNCHANGED <<imuVars, filterVars, late, thread_running>>
-----------------------------------------------------------------------------
\* The IMU thread is started before the fusion is built, and goes on.  There
\* is no sample yet: 0 stands for the inputs of the constructor.
Init ==
  /\ imu = "sleep" /\ sample = 0
  /\ Accel_Vector = 0 /\ Gyro_Vector = 0 /\ G_Dt = 0
  /\ filter = "test" /\ used = [gyro |-> 0, dt |-> 0, accel |-> 0]
  /\ late = FALSE
  /\ thread_running = TRUE
  /\ main = "runs"

\* What the IMU thread does to an object that is gone is undefined, and the
\* end of the model.
Imu ==
  /\ main # "gone"
  /\ \/ Sample \/ Scales \/ SetAccel \/ SetGyro \/ SetDt \/ Notify

Update == ReadGyro \/ ReadDt \/ ReadAccel

Loop == LoopTest \/ LoopWait \/ Update

EndSteps == EndNotify \/ EndJoin

Main == EndFlag \/ EndSteps

Next == Imu \/ Loop \/ LoopWakesAlone \/ Main

Spec == Init /\ [][Next]_vars

\* The IMU thread takes its samples and leaves time for the others.  The
\* program need not end, and no wakeup need be spurious.
FairSpec == Spec /\ WF_vars(Imu) /\ WF_vars(Loop) /\ WF_vars(EndSteps)
-----------------------------------------------------------------------------
TypeOK ==
  /\ imu \in {"sleep", "scales", "accel", "gyro", "dt", "notify"}
  /\ sample \in Number
  /\ Accel_Vector \in Number /\ Gyro_Vector \in Number /\ G_Dt \in Number
  /\ filter \in {"test", "wait", "waiting", "woken", "integrate", "correct", "exit"}
  /\ used \in [gyro : Number, dt : Number, accel : Number]
  /\ late \in BOOLEAN
  /\ thread_running = (main = "runs")
  /\ filter = "exit" => ~thread_running
  /\ main \in {"runs", "flagged", "joining", "gone"}

\* When the filter waits and the last notification has found it waiting, the
\* attitude rests on the newest inputs, all of one sample: a run that mixes
\* samples, or comes too early, is one during which a notification was lost.
NewestIsFiltered ==
  filter = "waiting" /\ imu \in {"sleep", "scales"} /\ ~late =>
    used = [gyro |-> G_Dt, dt |-> G_Dt, accel |-> G_Dt]

\* As long as samples are taken the filter runs again and again, although it
\* may miss any notification.
FilterGoesOn ==
  [](main = "runs") => []<><<ReadAccel>>_vars

\* The destructor returns.  Its own notification may fall between the loop's
\* test and its wait; but the IMU thread, which is destroyed later
\* (main.cpp:39-41), sends another one.
EndReturns ==
  main = "joining" ~> main = "gone"
=============================================================================
