------------------------------ MODULE ImuLoop ------------------------------
(***************************************************************************)
(* The driver of the inertial sensors, Drotek10dof, in brainware.          *)
(*                                                                         *)
(*   imu    Drotek10dof::loop(): takes a sample, runs the handlers of      *)
(*          signal_imudata, does one task of the barometer's conversion    *)
(*   link   datalink_module::loop(), which takes the scaled values         *)
(*                                                                         *)
(* Both call getScaledIMU(), the IMU thread in the handler imu_update().   *)
(* A sample, or a pair of pressure and temperature, is the parity of its   *)
(* number.  What the transfers from the MPU6050 bring is in ImuBus; here   *)
(* they only take time.  Left out are the magnetometer and the timers of   *)
(* the loop: a turn may come at any time.                                  *)
(***************************************************************************)
EXTENDS Integers

CONSTANTS
  Delay,         \* getConversionTime(), in steps of the clock
  Faults,        \* transfers that may fail
  ClockSets      \* times the clock may be set

ASSUME ImuAssumption == Delay \in Nat \ {0} /\ Faults \in Nat /\ ClockSets \in Nat

Threads == {"imu", "link"}

VARIABLES
  place,         \* where each thread is
  mutex,
  ax, gx,        \* the sample
  first, second, \* the two values of one call, as copied by each thread
  baro_task, time_baro,
                 \* time_baro: what is left until then, 0 if it is past
  adc,           \* the barometer: the conversion, what is left of it, and the
                 \* result that can be read
  m_d1, m_d2, pressure, temp,
  history,       \* "spoiled": since the last start of a conversion of the
                 \* pressure a transfer has failed or the clock has been set
  faults, sets   \* how many faults and settings of the clock are left

sampleVars == <<ax, gx>>
baroVars   == <<baro_task, time_baro, adc, m_d1, m_d2, history>>
valueVars  == <<pressure, temp>>
copyVars   == <<first, second>>
vars == <<place, mutex, sampleVars, copyVars, baroVars, valueVars, faults, sets>>

Goto(t, p) == place' = [place EXCEPT ![t] = p]

Lock(t)   == mutex = "free" /\ mutex' = t
Unlock(t) == mutex' = "free"

Fault == faults > 0 /\ faults' = faults - 1
-----------------------------------------------------------------------------
(* getScaledIMU(), getScaledBaro(). *)

\* The two ranges are read from the device before the mutex is taken.
BeginScaledIMU(t, from) ==
  /\ place[t] = from
  /\ Goto(t, "lock")
  /\ UNCHANGED <<mutex, sampleVars, copyVars, baroVars, valueVars, faults, sets>>

\* Mutant of GetterLock: it does not lock.
GetterDoesNotLock(t) ==
  /\ place[t] = "lock"
  /\ Goto(t, "copy ax")
  /\ UNCHANGED <<mutex, sampleVars, copyVars, baroVars, valueVars, faults, sets>>

GetterLock(t) ==
  /\ place[t] = "lock"
  /\ Lock(t)
  /\ Goto(t, "copy ax")
  /\ UNCHANGED <<sampleVars, copyVars, baroVars, valueVars, faults, sets>>

CopyFirst(t, p, v, q) ==
  /\ place[t] = p
  /\ first' = [first EXCEPT ![t] = v]
  /\ Goto(t, q)
  /\ UNCHANGED <<mutex, second, sampleVars, baroVars, valueVars, faults, sets>>

CopySecond(t, p, v) ==
  /\ place[t] = p
  /\ second' = [second EXCEPT ![t] = v]
  /\ Goto(t, "unlock")
  /\ UNCHANGED <<mutex, first, sampleVars, baroVars, valueVars, faults, sets>>

CopyValues(t) ==
  \/ CopyFirst(t, "copy ax", ax, "copy gx") \/ CopySecond(t, "copy gx", gx)
  \/ CopyFirst(t, "copy pressure", pressure, "copy temp") \/ CopySecond(t, "copy temp", temp)

\* The IMU thread goes on to the barometer, the link sleeps.
GetterUnlock(t) ==
  /\ place[t] = "unlock"
  /\ Unlock(t)
  /\ first' = [first EXCEPT ![t] = 0] /\ second' = [second EXCEPT ![t] = 0]
  /\ Goto(t, IF t = "imu" THEN "baro" ELSE "sleep")
  /\ UNCHANGED <<sampleVars, baroVars, valueVars, faults, sets>>

BeginScaledBaro ==
  /\ place["link"] = "sleep"
  /\ Lock("link")
  /\ Goto("link", "copy pressure")
  /\ UNCHANGED <<sampleVars, copyVars, baroVars, valueVars, faults, sets>>

Getter(t) == GetterLock(t) \/ CopyValues(t) \/ GetterUnlock(t)
-----------------------------------------------------------------------------
(* Drotek10dof::loop(): the sample. *)

\* The mutex is held while the sample is read from the device.
BeginLoop ==
  /\ place["imu"] = "sleep"
  /\ Lock("imu")
  /\ Goto("imu", "assign ax")
  /\ UNCHANGED <<sampleVars, copyVars, baroVars, valueVars, faults, sets>>

\* *ax = ... to *gz = ..., also when the read has failed: the values are then 0.
AssignAccel ==
  /\ place["imu"] = "assign ax"
  /\ ax' = 1 - ax
  /\ Goto("imu", "assign gx")
  /\ UNCHANGED <<mutex, gx, copyVars, baroVars, valueVars, faults, sets>>

AssignGyro ==
  /\ place["imu"] = "assign gx"
  /\ gx' = ax
  /\ Goto("imu", "sampled")
  /\ UNCHANGED <<mutex, ax, copyVars, baroVars, valueVars, faults, sets>>

\* Mutant of UnlockSample: the handlers are run with the mutex locked.
SignalLocked ==
  /\ place["imu"] = "sampled"
  /\ Goto("imu", "signal")
  /\ UNCHANGED <<mutex, sampleVars, copyVars, baroVars, valueVars, faults, sets>>

\* signal_imudata() comes after this.
UnlockSample ==
  /\ place["imu"] = "sampled"
  /\ Unlock("imu")
  /\ Goto("imu", "signal")
  /\ UNCHANGED <<sampleVars, copyVars, baroVars, valueVars, faults, sets>>

Sample == BeginLoop \/ AssignAccel \/ AssignGyro \/ UnlockSample
-----------------------------------------------------------------------------
(* The barometer: one task in a turn. *)

Readings == {"D1", "D2", "none"}
Idle == [kind |-> "none", left |-> 0, result |-> "none"]

\* A command that fails goes unnoticed.
StartConversion(kind) ==
  \/ /\ \E n \in 1 .. Delay : adc' = [kind |-> kind, left |-> n, result |-> "none"]
     /\ faults' = faults
     /\ history' = IF kind = "D1" THEN "clean" ELSE history
  \/ /\ Fault
     /\ adc' = adc
     /\ history' = "spoiled"

StartPressure ==
  /\ place["imu"] = "baro" /\ baro_task = 0
  /\ StartConversion("D1")
  /\ time_baro' = Delay
  /\ baro_task' = 1
  /\ Goto("imu", "sleep")
  /\ UNCHANGED <<mutex, sampleVars, copyVars, m_d1, m_d2, valueVars, sets>>

\* Mutant of StartTemperature: baro_task++ is missing.
StartTemperatureAgain ==
  /\ place["imu"] = "baro" /\ baro_task = 2
  /\ StartConversion("D2")
  /\ time_baro' = Delay
  /\ baro_task' = 2
  /\ Goto("imu", "sleep")
  /\ UNCHANGED <<mutex, sampleVars, copyVars, m_d1, m_d2, valueVars, sets>>

StartTemperature ==
  /\ place["imu"] = "baro" /\ baro_task = 2
  /\ StartConversion("D2")
  /\ time_baro' = Delay
  /\ baro_task' = 3
  /\ Goto("imu", "sleep")
  /\ UNCHANGED <<mutex, sampleVars, copyVars, m_d1, m_d2, valueVars, sets>>

StillWaiting ==
  /\ place["imu"] = "baro" /\ baro_task \in {1, 3} /\ time_baro > 0
  /\ Goto("imu", "sleep")
  /\ UNCHANGED <<mutex, sampleVars, copyVars, baroVars, valueVars, faults, sets>>

\* What readConversion(regAddr) returns: "none" stands for the 0 of a
\* converter that is busy or has been read already.  It is 0 also if the
\* transfer has failed, as the -1 of readBytes() counts as true.
ReadConversion(d) ==
  \/ /\ d = adc.result
     /\ adc' = [adc EXCEPT !.result = "none"]
     /\ faults' = faults /\ history' = history
  \/ /\ d = "none"
     /\ Fault
     /\ adc' = adc
     /\ history' = "spoiled"

ReadPressure ==
  /\ place["imu"] = "baro" /\ baro_task = 1 /\ time_baro = 0
  /\ \E d \in Readings : ReadConversion(d) /\ m_d1' = d
  /\ baro_task' = 2
  /\ Goto("imu", "sleep")
  /\ UNCHANGED <<mutex, sampleVars, copyVars, time_baro, m_d2, valueVars, sets>>

\* Mutant of ReadTemperature: time_baro is not awaited.
ReadTemperatureAtOnce ==
  /\ place["imu"] = "baro" /\ baro_task = 3
  /\ \E d \in Readings : ReadConversion(d) /\ m_d2' = d
  /\ Goto("imu", "lock values")
  /\ UNCHANGED <<mutex, sampleVars, copyVars, baro_task, time_baro, m_d1, valueVars, sets>>

ReadTemperature ==
  /\ place["imu"] = "baro" /\ baro_task = 3 /\ time_baro = 0
  /\ \E d \in Readings : ReadConversion(d) /\ m_d2' = d
  /\ Goto("imu", "lock values")
  /\ UNCHANGED <<mutex, sampleVars, copyVars, baro_task, time_baro, m_d1, valueVars, sets>>

LockValues ==
  /\ place["imu"] = "lock values"
  /\ Lock("imu")
  /\ Goto("imu", "pressure")
  /\ UNCHANGED <<sampleVars, copyVars, baroVars, valueVars, faults, sets>>

\* getValues(): its test for readings below 0 finds none.
SetPressure ==
  /\ place["imu"] = "pressure"
  /\ pressure' = 1 - pressure
  /\ Goto("imu", "temp")
  /\ UNCHANGED <<mutex, sampleVars, copyVars, baroVars, temp, faults, sets>>

SetTemp ==
  /\ place["imu"] = "temp"
  /\ temp' = pressure
  /\ Goto("imu", "unlock values")
  /\ UNCHANGED <<mutex, sampleVars, copyVars, baroVars, pressure, faults, sets>>

\* Mutant of UnlockValues: baro_task is counted on.
UnlockValuesCountsOn ==
  /\ place["imu"] = "unlock values"
  /\ Unlock("imu")
  /\ baro_task' = baro_task + 1 /\ time_baro' = 0
  /\ Goto("imu", "sleep")
  /\ UNCHANGED <<sampleVars, copyVars, adc, m_d1, m_d2, history, valueVars, faults, sets>>

\* time_baro is set to now; signal_barodata has no handlers.
UnlockValues ==
  /\ place["imu"] = "unlock values"
  /\ Unlock("imu")
  /\ baro_task' = 0 /\ time_baro' = 0
  /\ Goto("imu", "sleep")
  /\ UNCHANGED <<sampleVars, copyVars, adc, m_d1, m_d2, history, valueVars, faults, sets>>

Baro == StartPressure \/ StillWaiting \/ ReadPressure \/ StartTemperature \/ ReadTemperature
        \/ LockValues \/ SetPressure \/ SetTemp \/ UnlockValues
-----------------------------------------------------------------------------
(* Time. *)

Tick ==
  /\ time_baro > 0 \/ adc.left > 0
  /\ time_baro' = IF time_baro > 0 THEN time_baro - 1 ELSE 0
  /\ adc' = IF adc.left = 0 THEN adc
            ELSE IF adc.left = 1 THEN [kind |-> adc.kind, left |-> 0, result |-> adc.kind]
            ELSE [adc EXCEPT !.left = adc.left - 1]
  /\ UNCHANGED <<place, mutex, sampleVars, copyVars, baro_task, m_d1, m_d2, history,
                 valueVars, faults, sets>>

\* The clock the driver waits by is set forward or back.
SetClock ==
  /\ sets > 0 /\ baro_task \in {1, 3}
  /\ sets' = sets - 1
  /\ time_baro' \in 0 .. 2 * Delay
  /\ history' = "spoiled"
  /\ UNCHANGED <<place, mutex, sampleVars, copyVars, baro_task, adc, m_d1, m_d2,
                 valueVars, faults>>
-----------------------------------------------------------------------------
Init ==
  /\ place = [t \in Threads |-> "sleep"] /\ mutex = "free"
  /\ ax = 0 /\ gx = 0 /\ first = [t \in Threads |-> 0] /\ second = first
  /\ baro_task = 0 /\ time_baro = 0 /\ adc = Idle /\ m_d1 = "none" /\ m_d2 = "none"
  /\ pressure = 0 /\ temp = 0
  /\ history = "clean"
  /\ faults = Faults /\ sets = ClockSets

Imu == Sample \/ Baro \/ BeginScaledIMU("imu", "signal") \/ Getter("imu")

Link == BeginScaledIMU("link", "sleep") \/ BeginScaledBaro \/ Getter("link")

Next == Imu \/ Link \/ Tick \/ SetClock

Spec == Init /\ [][Next]_vars

\* The IMU thread, of the highest priority, gets the mutex when it is free,
\* however often the link takes it; a call of the link comes to its end; time
\* passes.
FairSpec ==
  /\ Spec
  /\ WF_vars(Imu) /\ SF_vars(BeginLoop) /\ SF_vars(GetterLock("imu")) /\ SF_vars(LockValues)
  /\ WF_vars(Getter("link"))
  /\ WF_vars(Tick)
-----------------------------------------------------------------------------
Places ==
  {"sleep", "lock", "copy ax", "copy gx", "copy pressure", "copy temp", "unlock"}
ImuPlaces ==
  {"assign ax", "assign gx", "sampled", "signal", "baro", "lock values", "pressure",
   "temp", "unlock values"}

TypeOK ==
  /\ place \in [Threads -> Places \union ImuPlaces] /\ place["link"] \in Places
  /\ mutex \in {"free"} \union Threads
  /\ ax \in {0, 1} /\ gx \in {0, 1} /\ first \in [Threads -> {0, 1}] /\ second \in [Threads -> {0, 1}]
  /\ baro_task \in 0 .. 3 /\ time_baro \in 0 .. 2 * Delay
  /\ adc \in [kind : {"none", "D1", "D2"}, left : 0 .. Delay, result : {"none", "D1", "D2"}]
  /\ m_d1 \in Readings /\ m_d2 \in Readings
  /\ pressure \in {0, 1} /\ temp \in {0, 1}
  /\ history \in {"clean", "spoiled"} /\ faults \in 0 .. Faults /\ sets \in 0 .. ClockSets

\* What each thread has asked for and has not got yet, and what it has got.
Asked ==
  [t \in Threads |->
     IF place[t] \in {"lock", "copy ax", "copy gx"} THEN "imu"
     ELSE IF place[t] \in {"copy pressure", "copy temp"} THEN "baro"
     ELSE "nothing"]

Got == [t \in Threads |-> IF place[t] = "unlock" THEN <<first[t], second[t]>> ELSE <<>>]

\* Setting gx completes a sample, setting temp a measurement.
Register == INSTANCE SampleRegister WITH imu <- gx, baro <- temp, call <- Asked, answer <- Got

\* A getter returns the sample, or the measurement, that is current while it
\* runs, although its values are set and copied one after the other by two
\* threads (Drotek10dof.cpp:200-315).
ImplementsRegister == Register!Spec

\* A pressure that has not been measured is computed only if a transfer has
\* failed or the clock was set while a conversion was awaited.
BaroIsConverted ==
  place["imu"] = "pressure" => (m_d1 = "D1" /\ m_d2 = "D2") \/ history = "spoiled"

\* Samples go on being taken, and the handlers being run.
SamplesGoOn == []<>(place["imu"] = "signal")

\* Pressures go on being measured, after any faults and settings of the clock.
PressureGoesOn == []<>(place["imu"] = "unlock values")
=============================================================================
