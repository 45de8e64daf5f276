--------------------------- MODULE ImuLoopProofs ---------------------------
(***************************************************************************)
(* Theorems about ImuLoop, for every conversion time and any number of     *)
(* faults and settings of the clock.                                       *)
(*                                                                         *)
(* MutexInv ties the places of the threads to the mutex; with it the       *)
(* sample is whole whenever another thread may look at it (SampleInv), and *)
(* what a thread has copied is of the current one (CopyInv): so a getter   *)
(* answers as SampleRegister does, at its second copy.                     *)
(* BaroInv follows a conversion through the tasks: unless spoiled, it ends *)
(* no later than the wait for it.                                          *)
(***************************************************************************)
EXTENDS ImuLoop, TLAPS

Copying == {"copy ax", "copy gx", "copy pressure", "copy temp", "unlock"}
Holding == Copying \union
  {"assign ax", "assign gx", "sampled", "pressure", "temp", "unlock values"}

MutexInv == \A t \in Threads : place[t] \in Holding <=> mutex = t

SampleInv ==
  /\ place["imu"] # "assign gx" => ax = gx
  /\ place["imu"] = "assign gx" => ax # gx
  /\ place["imu"] # "temp" => pressure = temp
  /\ place["imu"] = "temp" => pressure # temp

CopyInv ==
  \A t \in Threads :
    /\ place[t] = "copy gx" => first[t] = ax
    /\ place[t] = "copy temp" => first[t] = pressure
    /\ place[t] = "unlock" => first[t] = second[t]

PublishingPlaces == {"lock values", "pressure", "temp", "unlock values"}
Publishing == place["imu"] \in PublishingPlaces

\* A conversion that is awaited.
Awaited(kind) ==
  /\ adc.kind = kind /\ adc.left <= time_baro
  /\ adc.left = 0 => adc.result = kind

BaroInv ==
  /\ Publishing => baro_task = 3
  /\ history = "spoiled" \/
       /\ baro_task = 1 => Awaited("D1")
       /\ baro_task \in {2, 3} => m_d1 = "D1"
       /\ baro_task = 3 /\ ~Publishing => Awaited("D2")
       /\ Publishing => m_d2 = "D2"

ImuInv == TypeOK /\ MutexInv /\ SampleInv /\ CopyInv /\ BaroInv

LEMMA ImuInit == Init => ImuInv
<1> SUFFICES ASSUME Init PROVE ImuInv
  OBVIOUS
<1>1. TypeOK
  BY ImuAssumption DEF Init, TypeOK, Threads, Places, ImuPlaces, Readings, Idle
<1>2. MutexInv
  BY DEF Init, MutexInv, Threads, Holding, Copying
<1>3. SampleInv /\ CopyInv
  BY DEF Init, SampleInv, CopyInv, Threads
<1>4. BaroInv
  BY DEF Init, BaroInv, Publishing, PublishingPlaces, Threads
<1> QED BY <1>1, <1>2, <1>3, <1>4 DEF ImuInv
-----------------------------------------------------------------------------
LEMMA Moves ==
  ASSUME TypeOK, NEW t \in Threads, NEW p, Goto(t, p)
  PROVE  /\ place'[t] = p
         /\ \A r \in Threads : r # t => place'[r] = place[r]
         /\ place' = [place EXCEPT ![t] = p]
BY DEF TypeOK, Goto

LEMMA StartKeepsType ==
  ASSUME TypeOK, NEW kind \in {"D1", "D2"}, StartConversion(kind)
  PROVE  /\ adc' \in [kind : {"none", "D1", "D2"}, left : 0 .. Delay,
                     result : {"none", "D1", "D2"}]
         /\ history' \in {"clean", "spoiled"} /\ faults' \in 0 .. Faults
BY ImuAssumption DEF TypeOK, StartConversion, Fault

LEMMA ReadKeepsType ==
  ASSUME TypeOK, NEW d, ReadConversion(d)
  PROVE  /\ adc' \in [kind : {"none", "D1", "D2"}, left : 0 .. Delay,
                     result : {"none", "D1", "D2"}]
         /\ d \in Readings /\ faults' \in 0 .. Faults
         /\ history' \in {"clean", "spoiled"}
BY ImuAssumption DEF TypeOK, ReadConversion, Fault, Readings

PlaceOK == place \in [Threads -> Places \union ImuPlaces] /\ place["link"] \in Places

LEMMA PlaceStep == PlaceOK /\ [Next]_vars => PlaceOK'
<1> SUFFICES ASSUME PlaceOK, [Next]_vars PROVE PlaceOK'
  OBVIOUS
<1>1. ASSUME NEW t \in Threads, NEW p \in Places, Goto(t, p) PROVE PlaceOK'
  BY <1>1 DEF PlaceOK, Goto, Threads
<1>2. ASSUME NEW p \in ImuPlaces, Goto("imu", p) PROVE PlaceOK'
  BY <1>2 DEF PlaceOK, Goto, Threads
<1>3. "imu" \in Threads /\ "link" \in Threads
  BY DEF Threads
<1>4. ASSUME NEW t \in Threads, Getter(t) PROVE PlaceOK'
  <2>1. \/ \E p \in Places : Goto(t, p)
        \/ t = "imu" /\ \E p \in ImuPlaces : Goto("imu", p)
    BY <1>4 DEF Getter, GetterLock, CopyValues, CopyFirst, CopySecond, GetterUnlock,
         Places, ImuPlaces, Threads
  <2> QED BY <1>1, <1>2, <2>1
<1>5. CASE Sample \/ Baro \/ BeginScaledIMU("imu", "signal") \/ BeginScaledIMU("link", "sleep")
           \/ BeginScaledBaro
  <2>1. \/ \E t \in Threads, p \in Places : Goto(t, p)
        \/ \E p \in ImuPlaces : Goto("imu", p)
    BY <1>3, <1>5 DEF Sample, BeginLoop, AssignAccel, AssignGyro, UnlockSample, Baro,
         StartPressure, StillWaiting, ReadPressure, StartTemperature, ReadTemperature,
         LockValues, SetPressure, SetTemp, UnlockValues, BeginScaledIMU, BeginScaledBaro,
         Places, ImuPlaces
  <2> QED BY <1>1, <1>2, <2>1
<1>6. CASE Tick \/ SetClock \/ UNCHANGED vars
  BY <1>6 DEF Tick, SetClock, vars, PlaceOK
<1> QED BY <1>3, <1>4, <1>5, <1>6 DEF Next, Imu, Link

LEMMA TypeStep == TypeOK /\ [Next]_vars => TypeOK'
<1> SUFFICES ASSUME TypeOK, [Next]_vars PROVE TypeOK'
  OBVIOUS
<1>0. PlaceOK'
  BY PlaceStep DEF TypeOK, PlaceOK
<1>a. AssignAccel => ax' \in {0, 1}
  <2>1. ax \in {0, 1}
    BY DEF TypeOK
  <2>2. AssignAccel => ax' = 1 - ax
    BY DEF AssignAccel
  <2> QED BY <2>1, <2>2
<1>b. UnlockValues => baro_task' \in 0 .. 3 /\ time_baro' \in 0 .. 2 * Delay
  <2>1. UnlockValues => baro_task' = 0 /\ time_baro' = 0
    BY DEF UnlockValues
  <2> QED BY <2>1, ImuAssumption
<1> USE <1>0 DEF TypeOK, PlaceOK, sampleVars, copyVars, baroVars, valueVars, Lock, Unlock
<1>1. ASSUME NEW t \in Threads, Getter(t) PROVE TypeOK'
  <2>1. CASE GetterLock(t)
    BY <2>1 DEF GetterLock
  <2>3. CASE CopyValues(t)
    BY <2>3 DEF CopyValues, CopyFirst, CopySecond
  <2>4. CASE GetterUnlock(t)
    BY <2>4 DEF GetterUnlock
  <2> QED BY <1>1, <2>1, <2>3, <2>4 DEF Getter
<1>2. "imu" \in Threads /\ "link" \in Threads
  BY DEF Threads
<1>3. CASE BeginScaledIMU("imu", "signal") \/ BeginScaledIMU("link", "sleep") \/ BeginScaledBaro
  BY <1>2, <1>3 DEF BeginScaledIMU, BeginScaledBaro
<1>4. CASE Sample
  <2>1. CASE BeginLoop
    BY <1>2, <2>1 DEF BeginLoop
  <2>2. CASE AssignAccel
    <3>1. /\ mutex' = mutex /\ gx' = gx /\ faults' = faults /\ sets' = sets
          /\ UNCHANGED <<copyVars, baroVars, valueVars>>
      BY <2>2 DEF AssignAccel
    <3> QED BY <1>a, <2>2, <3>1
  <2>3. CASE AssignGyro
    BY <2>3 DEF AssignGyro
  <2>4. CASE UnlockSample
    BY <2>4 DEF UnlockSample
  <2> QED BY <1>4, <2>1, <2>2, <2>3, <2>4 DEF Sample
<1>5. CASE Baro
  <2>1. CASE StartPressure
    BY <2>1, StartKeepsType, ImuAssumption DEF StartPressure
  <2>2. CASE StartTemperature
    BY <2>2, StartKeepsType, ImuAssumption DEF StartTemperature
  <2>3. CASE ReadPressure
    <3>1. PICK d \in Readings : ReadConversion(d) /\ m_d1' = d
      BY <2>3 DEF ReadPressure, Readings
    <3> QED BY <2>3, <3>1, ReadKeepsType DEF ReadPressure
  <2>4. CASE ReadTemperature
    <3>1. PICK d \in Readings : ReadConversion(d) /\ m_d2' = d
      BY <2>4 DEF ReadTemperature, Readings
    <3> QED BY <2>4, <3>1, ReadKeepsType DEF ReadTemperature
  <2>5. CASE StillWaiting
    BY <2>5 DEF StillWaiting
  <2>6. CASE LockValues
    BY <1>2, <2>6 DEF LockValues
  <2>7. CASE SetPressure
    BY <2>7 DEF SetPressure
  <2>8. CASE SetTemp
    BY <2>8 DEF SetTemp
  <2>9. CASE UnlockValues
    <3>1. /\ mutex' = "free"
          /\ UNCHANGED <<sampleVars, copyVars, adc, m_d1, m_d2, history, valueVars, faults, sets>>
      BY <2>9 DEF UnlockValues
    <3> QED BY <1>b, <2>9, <3>1
  <2> QED BY <1>5, <2>1, <2>2, <2>3, <2>4, <2>5, <2>6, <2>7, <2>8, <2>9 DEF Baro
<1>6. CASE Tick
  BY <1>6, ImuAssumption DEF Tick
<1>7. CASE SetClock
  BY <1>7, ImuAssumption DEF SetClock
<1>8. CASE UNCHANGED vars
  BY <1>8 DEF vars
<1> QED BY <1>1, <1>2, <1>3, <1>4, <1>5, <1>6, <1>7, <1>8 DEF Next, Imu, Link
-----------------------------------------------------------------------------
(* The mutex, and the places that hold it. *)

LEMMA HoldingStep ==
  ASSUME TypeOK, MutexInv, NEW t \in Threads, NEW p, Goto(t, p),
         \/ (place[t] \in Holding <=> p \in Holding) /\ mutex' = mutex
         \/ mutex = "free" /\ mutex' = t /\ p \in Holding
         \/ place[t] \in Holding /\ mutex' = "free" /\ p \notin Holding
  PROVE  MutexInv'
<1>1. place'[t] = p /\ \A r \in Threads : r # t => place'[r] = place[r]
  BY Moves
<1>2. \A r \in Threads : r # "free"
  BY DEF Threads
<1> QED BY <1>1, <1>2 DEF MutexInv

LEMMA MutexStep == TypeOK /\ MutexInv /\ [Next]_vars => MutexInv'
<1> SUFFICES ASSUME TypeOK, MutexInv, [Next]_vars PROVE MutexInv'
  OBVIOUS
<1>1. "imu" \in Threads /\ "link" \in Threads
  BY DEF Threads
<1> DEFINE Change(t, p) ==
      \/ (place[t] \in Holding <=> p \in Holding) /\ mutex' = mutex
      \/ mutex = "free" /\ mutex' = t /\ p \in Holding
      \/ place[t] \in Holding /\ mutex' = "free" /\ p \notin Holding
<1>2. ASSUME NEW t \in Threads, NEW p, Goto(t, p), Change(t, p) PROVE MutexInv'
  BY <1>2, HoldingStep
<1> HIDE DEF Change
<1>3. ASSUME NEW t \in Threads, Getter(t) PROVE MutexInv'
  <2>1. CASE GetterLock(t)
    BY <1>2, <2>1 DEF GetterLock, Lock, Change, Holding, Copying
  <2>2. CASE CopyValues(t)
    BY <1>2, <2>2 DEF CopyValues, CopyFirst, CopySecond, Change, Holding, Copying
  <2>3. CASE GetterUnlock(t)
    <3>1. Change(t, IF t = "imu" THEN "baro" ELSE "sleep")
      BY <2>3 DEF GetterUnlock, Unlock, Change, Holding, Copying
    <3> QED BY <1>2, <2>3, <3>1 DEF GetterUnlock
  <2> QED BY <1>3, <2>1, <2>2, <2>3 DEF Getter
<1>4. CASE BeginScaledIMU("imu", "signal") \/ BeginScaledIMU("link", "sleep") \/ BeginScaledBaro
  BY <1>1, <1>2, <1>4 DEF BeginScaledIMU, BeginScaledBaro, Lock, Change, Holding, Copying
<1>5. CASE Sample
  BY <1>1, <1>2, <1>5 DEF Sample, BeginLoop, AssignAccel, AssignGyro, UnlockSample, Lock,
       Unlock, Change, Holding, Copying
<1>6. CASE Baro
  <2>1. CASE StartPressure \/ StillWaiting \/ StartTemperature
    BY <1>1, <1>2, <2>1 DEF StartPressure, StillWaiting, StartTemperature, Change, Holding,
         Copying
  <2>2. CASE ReadPressure \/ ReadTemperature
    BY <1>1, <1>2, <2>2 DEF ReadPressure, ReadTemperature, Change, Holding, Copying
  <2>3. CASE LockValues \/ SetPressure \/ SetTemp \/ UnlockValues
    BY <1>1, <1>2, <2>3 DEF LockValues, SetPressure, SetTemp, UnlockValues, Lock, Unlock,
         Change, Holding, Copying
  <2> QED BY <1>6, <2>1, <2>2, <2>3 DEF Baro
<1>7. CASE Tick \/ SetClock \/ UNCHANGED vars
  BY <1>7 DEF Tick, SetClock, vars, MutexInv
<1> QED BY <1>1, <1>3, <1>4, <1>5, <1>6, <1>7 DEF Next, Imu, Link
-----------------------------------------------------------------------------
(* The sample and what is copied of it. *)

\* What the IMU thread leaves alone while it does nothing to the sample, the
\* pressure and the temperature.
SampleLeft == UNCHANGED <<sampleVars, valueVars>>

LEMMA LinkLeaves ==
  ASSUME TypeOK, Link PROVE SampleLeft /\ place'["imu"] = place["imu"]
<1>1. "imu" \in Threads /\ "link" \in Threads
  BY DEF Threads
<1>2. CASE BeginScaledIMU("link", "sleep") \/ BeginScaledBaro
  BY <1>1, <1>2, Moves DEF BeginScaledIMU, BeginScaledBaro, SampleLeft
<1>3. CASE Getter("link")
  BY <1>1, <1>3, Moves DEF Getter, GetterLock, CopyValues, CopyFirst, CopySecond, GetterUnlock,
       SampleLeft
<1> QED BY <1>2, <1>3 DEF Link

LEMMA BaroLeaves ==
  ASSUME TypeOK,
         StartPressure \/ StillWaiting \/ ReadPressure \/ StartTemperature \/ ReadTemperature
           \/ LockValues \/ UnlockValues
  PROVE  /\ SampleLeft /\ UNCHANGED copyVars
         /\ place["imu"] \in {"baro", "lock values", "unlock values"}
         /\ place'["imu"] \in {"sleep", "lock values", "pressure"}
         /\ place'["link"] = place["link"]
<1>1. "imu" \in Threads /\ "link" \in Threads /\ "imu" # "link"
  BY DEF Threads
<1>2. CASE StartPressure \/ StillWaiting \/ StartTemperature
  BY <1>1, <1>2, Moves DEF StartPressure, StillWaiting, StartTemperature, SampleLeft
<1>3. CASE ReadPressure \/ ReadTemperature
  BY <1>1, <1>3, Moves DEF ReadPressure, ReadTemperature, SampleLeft
<1>4. CASE LockValues \/ UnlockValues
  BY <1>1, <1>4, Moves DEF LockValues, UnlockValues, SampleLeft
<1> QED BY <1>2, <1>3, <1>4

\* The next number has the other parity.
LEMMA Parity == \A a, b \in {0, 1} : (a = b => 1 - a # b) /\ (a # b => b = 1 - a)
OBVIOUS

LEMMA SampleStep == TypeOK /\ SampleInv /\ [Next]_vars => SampleInv'
<1> SUFFICES ASSUME TypeOK, SampleInv, [Next]_vars PROVE SampleInv'
  OBVIOUS
<1>1. "imu" \in Threads /\ "link" \in Threads
  BY DEF Threads
<1> USE DEF SampleInv, SampleLeft, sampleVars, valueVars
<1>2. CASE Link
  BY <1>2, LinkLeaves
<1>3. CASE Getter("imu") \/ BeginScaledIMU("imu", "signal")
  <2>1. UNCHANGED <<ax, gx, pressure, temp>>
    BY <1>3 DEF Getter, GetterLock, CopyValues, CopyFirst, CopySecond, GetterUnlock,
         BeginScaledIMU
  <2>2. place["imu"] \notin {"assign gx", "temp"}
    BY <1>3 DEF Getter, GetterLock, CopyValues, CopyFirst, CopySecond, GetterUnlock,
         BeginScaledIMU
  <2>3. \E p \in Copying \union {"lock", "baro"} : Goto("imu", p)
    BY <1>3 DEF Getter, GetterLock, CopyValues, CopyFirst, CopySecond, GetterUnlock,
         BeginScaledIMU, Copying
  <2>4. place'["imu"] \notin {"assign gx", "temp"}
    BY <1>1, <2>3, Moves DEF Copying
  <2> QED BY <2>1, <2>2, <2>4
<1>4. CASE Sample
  <2>1. CASE BeginLoop \/ UnlockSample
    <3>1. ax' = gx' /\ pressure' = temp'
      BY <2>1 DEF BeginLoop, UnlockSample
    <3>2. place'["imu"] # "assign gx" /\ place'["imu"] # "temp"
      <4>1. BeginLoop => place'["imu"] = "assign ax"
        BY <1>1, Moves DEF BeginLoop
      <4>2. UnlockSample => place'["imu"] = "signal"
        BY <1>1, Moves DEF UnlockSample
      <4> QED BY <2>1, <4>1, <4>2
    <3> QED BY <3>1, <3>2
  <2>2. CASE AssignAccel
    <3>1. place'["imu"] = "assign gx"
      BY <1>1, <2>2, Moves DEF AssignAccel
    <3>2. ax' # gx'
      <4>1. ax = gx /\ ax' = 1 - ax /\ gx' = gx /\ ax \in {0, 1}
        BY <2>2 DEF AssignAccel, TypeOK
      <4> QED BY <4>1, Parity, Zenon
    <3>3. pressure' = temp'
      BY <2>2 DEF AssignAccel
    <3> QED BY <3>1, <3>2, <3>3
  <2>3. CASE AssignGyro
    <3>1. ax' = gx' /\ pressure' = temp'
      BY <2>3 DEF AssignGyro
    <3>2. place'["imu"] = "sampled"
      BY <1>1, <2>3, Moves DEF AssignGyro
    <3> QED BY <3>1, <3>2
  <2> QED BY <1>4, <2>1, <2>2, <2>3 DEF Sample
<1>5. CASE SetPressure \/ SetTemp
  <2>1. CASE SetPressure
    <3>1. place'["imu"] = "temp"
      BY <1>1, <2>1, Moves DEF SetPressure
    <3>2. pressure' # temp'
      <4>1. pressure = temp /\ pressure' = 1 - pressure /\ temp' = temp /\ pressure \in {0, 1}
        BY <2>1 DEF SetPressure, TypeOK
      <4> QED BY <4>1, Parity, Zenon
    <3>3. ax' = gx'
      BY <2>1 DEF SetPressure
    <3> QED BY <3>1, <3>2, <3>3
  <2>2. CASE SetTemp
    <3>1. ax' = gx' /\ pressure' = temp'
      BY <2>2 DEF SetTemp
    <3>2. place'["imu"] = "unlock values"
      BY <1>1, <2>2, Moves DEF SetTemp
    <3> QED BY <3>1, <3>2
  <2> QED BY <1>5, <2>1, <2>2
<1>6. CASE StartPressure \/ StillWaiting \/ ReadPressure \/ StartTemperature \/ ReadTemperature
           \/ LockValues \/ UnlockValues
  BY <1>6, BaroLeaves
<1>7. CASE Tick \/ SetClock \/ UNCHANGED vars
  BY <1>7 DEF Tick, SetClock, vars
<1> QED BY <1>2, <1>3, <1>4, <1>5, <1>6, <1>7 DEF Next, Imu, Baro

\* Only the IMU thread writes, and it holds the mutex then: nobody is copying.
LEMMA NobodyCopies ==
  ASSUME TypeOK, MutexInv, NEW p \in Holding \ Copying, place["imu"] = p
  PROVE  place["link"] \notin Copying
BY DEF MutexInv, Threads, Holding

LEMMA CopyLeft ==
  ASSUME TypeOK, CopyInv, NEW t \in Threads, NEW p, p \notin {"copy gx", "copy temp", "unlock"},
         Goto(t, p), UNCHANGED <<ax, pressure, first, second>>
  PROVE  CopyInv'
BY Moves DEF CopyInv

LEMMA CopyStep == TypeOK /\ MutexInv /\ SampleInv /\ CopyInv /\ [Next]_vars => CopyInv'
<1> SUFFICES ASSUME TypeOK, MutexInv, SampleInv, CopyInv, [Next]_vars PROVE CopyInv'
  OBVIOUS
<1>1. "imu" \in Threads /\ "link" \in Threads /\ Threads = {"imu", "link"}
  BY DEF Threads
<1>2. ASSUME NEW t \in Threads, GetterLock(t) PROVE CopyInv'
  BY <1>2, CopyLeft DEF GetterLock, sampleVars, copyVars, valueVars
<1>3. ASSUME NEW t \in Threads, GetterUnlock(t) PROVE CopyInv'
  <2>1. place'[t] \in {"baro", "sleep"}
    BY <1>3, Moves DEF GetterUnlock
  <2>2. \A r \in Threads : r # t => place'[r] = place[r]
    BY <1>3, Moves DEF GetterUnlock
  <2>3. \A r \in Threads : r # t => first'[r] = first[r] /\ second'[r] = second[r]
    BY <1>3 DEF GetterUnlock, TypeOK
  <2> QED BY <1>3, <2>1, <2>2, <2>3 DEF CopyInv, GetterUnlock, sampleVars, valueVars
<1>4. ASSUME NEW t \in Threads, CopyValues(t) PROVE CopyInv'
  <2>1. \A r \in Threads : r # t => place'[r] = place[r]
    BY <1>4, Moves DEF CopyValues, CopyFirst, CopySecond
  <2>2. \A r \in Threads : r # t => first'[r] = first[r] /\ second'[r] = second[r]
    BY <1>4 DEF CopyValues, CopyFirst, CopySecond, TypeOK
  <2>3. UNCHANGED <<sampleVars, valueVars>>
    BY <1>4 DEF CopyValues, CopyFirst, CopySecond, sampleVars, valueVars
  <2>4. \A r \in Threads : r # t =>
          /\ place'[r] = "copy gx" => first'[r] = ax'
          /\ place'[r] = "copy temp" => first'[r] = pressure'
          /\ place'[r] = "unlock" => first'[r] = second'[r]
    BY <2>1, <2>2, <2>3 DEF CopyInv, sampleVars, valueVars
  <2>5. place["imu"] \notin {"assign gx", "temp"}
    BY <1>1, <1>4 DEF CopyValues, CopyFirst, CopySecond, MutexInv, Holding, Copying
  <2>6. CASE CopyFirst(t, "copy ax", ax, "copy gx")
    <3>1. place'[t] = "copy gx" /\ first'[t] = ax
      BY <2>6, Moves DEF CopyFirst, TypeOK
    <3> QED BY <2>3, <2>4, <3>1 DEF CopyInv, sampleVars
  <2>7. CASE CopyFirst(t, "copy pressure", pressure, "copy temp")
    <3>1. place'[t] = "copy temp" /\ first'[t] = pressure
      BY <2>7, Moves DEF CopyFirst, TypeOK
    <3> QED BY <2>3, <2>4, <3>1 DEF CopyInv, valueVars
  <2>8. CASE CopySecond(t, "copy gx", gx)
    <3>1. place'[t] = "unlock" /\ first'[t] = first[t] /\ second'[t] = gx
      BY <2>8, Moves DEF CopySecond, TypeOK
    <3>2. first[t] = gx
      BY <2>5, <2>8 DEF CopySecond, CopyInv, SampleInv
    <3> QED BY <2>4, <3>1, <3>2 DEF CopyInv
  <2>9. CASE CopySecond(t, "copy temp", temp)
    <3>1. place'[t] = "unlock" /\ first'[t] = first[t] /\ second'[t] = temp
      BY <2>9, Moves DEF CopySecond, TypeOK
    <3>2. first[t] = temp
      BY <2>5, <2>9 DEF CopySecond, CopyInv, SampleInv
    <3> QED BY <2>4, <3>1, <3>2 DEF CopyInv
  <2> QED BY <1>4, <2>6, <2>7, <2>8, <2>9 DEF CopyValues
<1>5. CASE BeginScaledIMU("imu", "signal") \/ BeginScaledIMU("link", "sleep") \/ BeginScaledBaro
  BY <1>1, <1>5, CopyLeft DEF BeginScaledIMU, BeginScaledBaro, sampleVars, copyVars, valueVars
<1>6. CASE BeginLoop \/ UnlockSample
  BY <1>1, <1>6, CopyLeft DEF BeginLoop, UnlockSample, sampleVars, copyVars, valueVars
<1>7. CASE AssignAccel \/ AssignGyro \/ SetPressure \/ SetTemp
  <2>1. place["link"] \notin Copying
    BY <1>7, NobodyCopies DEF AssignAccel, AssignGyro, SetPressure, SetTemp, Holding, Copying
  <2>2. place'["imu"] \in {"assign gx", "sampled", "temp", "unlock values"}
        /\ place'["link"] = place["link"]
    BY <1>1, <1>7, Moves DEF AssignAccel, AssignGyro, SetPressure, SetTemp
  <2> QED BY <1>1, <2>1, <2>2 DEF CopyInv, Copying
<1>8. CASE StartPressure \/ StillWaiting \/ ReadPressure \/ StartTemperature \/ ReadTemperature
           \/ LockValues \/ UnlockValues
  <2>1. UNCHANGED <<ax, pressure, first, second>>
    BY <1>8, BaroLeaves DEF SampleLeft, sampleVars, copyVars, valueVars
  <2>2. place'["imu"] \notin {"copy gx", "copy temp", "unlock"}
        /\ place'["link"] = place["link"]
    BY <1>8, BaroLeaves
  <2> QED BY <1>1, <2>1, <2>2 DEF CopyInv
<1>9. CASE Tick \/ SetClock \/ UNCHANGED vars
  <2>1. UNCHANGED <<place, ax, pressure, first, second>>
    BY <1>9 DEF Tick, SetClock, vars, sampleVars, copyVars, valueVars
  <2> QED BY <2>1 DEF CopyInv
<1> QED BY <1>1, <1>2, <1>3, <1>4, <1>5, <1>6, <1>7, <1>8, <1>9
        DEF Next, Imu, Link, Sample, Baro, Getter
-----------------------------------------------------------------------------
(* The conversions of the barometer. *)

LEMMA Started ==
  ASSUME TypeOK, NEW kind \in {"D1", "D2"}, StartConversion(kind), time_baro' = Delay
  PROVE  /\ history' = "spoiled" \/ Awaited(kind)'
         /\ kind = "D2" => history' \in {"spoiled", history}
BY ImuAssumption DEF TypeOK, StartConversion, Awaited

LEMMA BaroLeft ==
  ASSUME TypeOK, BaroInv, UNCHANGED baroVars, NEW t \in Threads, NEW p, Goto(t, p),
         t = "imu" => (place["imu"] \in PublishingPlaces <=> p \in PublishingPlaces)
  PROVE  BaroInv'
<1>1. Publishing' <=> Publishing
  BY Moves DEF Publishing, PublishingPlaces, Threads
<1> QED BY <1>1 DEF BaroInv, Awaited, baroVars

LEMMA ImuSleeps ==
  ASSUME TypeOK, Goto("imu", "sleep") PROVE ~Publishing'
<1>1. place'["imu"] = "sleep"
  BY Moves DEF Threads
<1> QED BY <1>1 DEF Publishing, PublishingPlaces

LEMMA ImuPublishes ==
  ASSUME TypeOK, Goto("imu", "lock values") PROVE Publishing'
<1>1. place'["imu"] = "lock values"
  BY Moves DEF Threads
<1> QED BY <1>1 DEF Publishing, PublishingPlaces

LEMMA BaroStep == TypeOK /\ BaroInv /\ [Next]_vars => BaroInv'
<1> SUFFICES ASSUME TypeOK, BaroInv, [Next]_vars PROVE BaroInv'
  OBVIOUS
<1>1. "imu" \in Threads /\ "link" \in Threads
  BY DEF Threads
<1>2. place["imu"] = "baro" => ~Publishing
  BY DEF Publishing, PublishingPlaces
<1>3. ASSUME NEW t \in Threads, Getter(t) PROVE BaroInv'
  <2>1. CASE GetterLock(t)
    BY <2>1, BaroLeft DEF GetterLock, PublishingPlaces
  <2>2. CASE CopyValues(t)
    BY <2>2, BaroLeft DEF CopyValues, CopyFirst, CopySecond, PublishingPlaces
  <2>3. CASE GetterUnlock(t)
    <3>1. (IF t = "imu" THEN "baro" ELSE "sleep") \notin PublishingPlaces
      BY DEF PublishingPlaces
    <3>2. place[t] \notin PublishingPlaces
      BY <2>3 DEF GetterUnlock, PublishingPlaces
    <3> QED BY <2>3, <3>1, <3>2, BaroLeft DEF GetterUnlock
  <2> QED BY <1>3, <2>1, <2>2, <2>3 DEF Getter
<1>4. CASE BeginScaledIMU("imu", "signal") \/ BeginScaledIMU("link", "sleep") \/ BeginScaledBaro
  BY <1>1, <1>4, BaroLeft DEF BeginScaledIMU, BeginScaledBaro, PublishingPlaces
<1>5. CASE Sample
  BY <1>1, <1>5, BaroLeft DEF Sample, BeginLoop, AssignAccel, AssignGyro, UnlockSample,
       PublishingPlaces
<1>6. CASE StillWaiting
  BY <1>1, <1>6, BaroLeft DEF StillWaiting, PublishingPlaces
<1>7. CASE LockValues \/ SetPressure \/ SetTemp
  BY <1>1, <1>7, BaroLeft DEF LockValues, SetPressure, SetTemp, PublishingPlaces
<1>8. CASE StartPressure
  <2>1. ~Publishing' /\ baro_task' = 1
    BY <1>8, ImuSleeps DEF StartPressure
  <2>2. history' = "spoiled" \/ Awaited("D1")'
    BY <1>8, Started DEF StartPressure
  <2> QED BY <2>1, <2>2 DEF BaroInv
<1>9. CASE StartTemperature
  <2>1. /\ ~Publishing' /\ ~Publishing
        /\ baro_task = 2 /\ baro_task' = 3 /\ m_d1' = m_d1
    BY <1>2, <1>9, ImuSleeps DEF StartTemperature
  <2>2. /\ history' = "spoiled" \/ Awaited("D2")'
        /\ history' \in {"spoiled", history}
    BY <1>9, Started DEF StartTemperature
  <2> QED BY <2>1, <2>2 DEF BaroInv
<1>10. CASE ReadPressure
  <2>1. ~Publishing' /\ baro_task = 1 /\ baro_task' = 2 /\ time_baro = 0
    BY <1>10, ImuSleeps DEF ReadPressure
  <2>2. history' = "spoiled" \/ (history' = history /\ m_d1' = adc.result)
    BY <1>10 DEF ReadPressure, ReadConversion
  <2>3. history = "spoiled" \/ adc.result = "D1"
    BY <2>1, ImuAssumption DEF BaroInv, Awaited, TypeOK
  <2> QED BY <2>1, <2>2, <2>3 DEF BaroInv
<1>11. CASE ReadTemperature
  <2>1. /\ Publishing' /\ ~Publishing /\ baro_task = 3 /\ baro_task' = 3 /\ time_baro = 0
        /\ m_d1' = m_d1
    BY <1>2, <1>11, ImuPublishes DEF ReadTemperature
  <2>2. history' = "spoiled" \/ (history' = history /\ m_d2' = adc.result)
    BY <1>11 DEF ReadTemperature, ReadConversion
  <2>3. history = "spoiled" \/ adc.result = "D2"
    BY <2>1, ImuAssumption DEF BaroInv, Awaited, TypeOK
  <2> QED BY <2>1, <2>2, <2>3 DEF BaroInv
<1>12. CASE UnlockValues
  <2>1. ~Publishing' /\ baro_task' = 0
    BY <1>12, ImuSleeps DEF UnlockValues
  <2> QED BY <2>1 DEF BaroInv
<1>13. CASE Tick
  <2>1. UNCHANGED <<place, baro_task, m_d1, m_d2, history>>
    BY <1>13 DEF Tick, baroVars
  <2>2. ASSUME NEW kind \in {"D1", "D2"}, Awaited(kind) PROVE Awaited(kind)'
    BY <1>13, <2>2, ImuAssumption DEF Tick, Awaited, TypeOK
  <2> QED BY <2>1, <2>2 DEF BaroInv, Publishing
<1>14. CASE SetClock
  <2>1. history' = "spoiled" /\ UNCHANGED <<place, baro_task>>
    BY <1>14 DEF SetClock
  <2> QED BY <2>1 DEF BaroInv, Publishing
<1>15. CASE UNCHANGED vars
  BY <1>15 DEF vars, baroVars, BaroInv, Publishing, Awaited
<1> QED BY <1>1, <1>3, <1>4, <1>5, <1>6, <1>7, <1>8, <1>9, <1>10, <1>11, <1>12, <1>13, <1>14, <1>15
        DEF Next, Imu, Link, Baro
-----------------------------------------------------------------------------
(* The getters: each implements a call of the register.                    *)

Request(p) ==
  IF p \in {"lock", "copy ax", "copy gx"} THEN "imu"
  ELSE IF p \in {"copy pressure", "copy temp"} THEN "baro"
  ELSE "nothing"

LEMMA AskedIs == \A t \in Threads : Asked[t] = Request(place[t])
BY DEF Asked, Request

LEMMA RequestStep ==
  ASSUME TypeOK, NEW t \in Threads, NEW p, Goto(t, p)
  PROVE  Asked' = [Asked EXCEPT ![t] = Request(p)]
<1>1. place'[t] = p /\ \A r \in Threads : r # t => place'[r] = place[r]
  BY Moves
<1> QED BY <1>1 DEF Asked, Request

\* The others' answers stay.
LEMMA AnswerStep ==
  ASSUME TypeOK, NEW t \in Threads, NEW p, Goto(t, p),
         \A r \in Threads : r # t => first'[r] = first[r] /\ second'[r] = second[r]
  PROVE  Got' = [Got EXCEPT ![t] = IF p = "unlock" THEN <<first'[t], second'[t]>> ELSE <<>>]
<1>1. place'[t] = p /\ \A r \in Threads : r # t => place'[r] = place[r]
  BY Moves
<1> QED BY <1>1, Zenon DEF Got

\* A thread that neither asks nor has been answered.
LEMMA QuietMove ==
  ASSUME TypeOK, NEW t \in Threads, NEW p, Goto(t, p), Request(p) = Request(place[t]),
         p # "unlock", place[t] # "unlock",
         \A r \in Threads : r # t => first'[r] = first[r] /\ second'[r] = second[r]
  PROVE  Asked' = Asked /\ Got' = Got
<1>1. place'[t] = p /\ \A r \in Threads : r # t => place'[r] = place[r]
  BY Moves
<1>2. Asked' = Asked
  BY <1>1 DEF Asked, Request
<1>3. Got' = Got
  BY <1>1, Zenon DEF Got
<1> QED BY <1>2, <1>3

LEMMA RegisterStarts == Init => Register!Init
<1> SUFFICES ASSUME Init PROVE Register!Init
  OBVIOUS
<1>1. \A t \in Threads : place[t] = "sleep"
  BY DEF Init
<1>2. Asked = [t \in Threads |-> "nothing"]
  BY <1>1 DEF Asked
<1>3. Got = [t \in Threads |-> <<>>]
  BY <1>1, Zenon DEF Got
<1> QED BY <1>2, <1>3 DEF Init, Register!Init

LEMMA CallIsRegistered ==
  ASSUME TypeOK, NEW t \in Threads, NEW p \in {"lock", "copy pressure"}, Goto(t, p),
         place[t] \in {"signal", "sleep"}, UNCHANGED <<first, second, gx, temp>>
  PROVE  Register!Next
<1>1. Asked' = [Asked EXCEPT ![t] = Request(p)] /\ Request(p) \in {"imu", "baro"}
  BY RequestStep DEF Request
<1>2. Asked[t] = "nothing"
  BY AskedIs DEF Request
<1>3. Got[t] = <<>>
  BY Zenon DEF Got
<1>4. Got' = Got
  <2>1. place'[t] = p /\ \A r \in Threads : r # t => place'[r] = place[r]
    BY Moves
  <2> QED BY <2>1, Zenon DEF Got
<1>5. Register!Call(t, "imu") \/ Register!Call(t, "baro")
  BY <1>1, <1>2, <1>3, <1>4, Zenon DEF Register!Call
<1> QED BY <1>5 DEF Register!Next

LEMMA AnswerIsCurrent ==
  ASSUME ImuInv, NEW t \in Threads,
         CopySecond(t, "copy gx", gx) \/ CopySecond(t, "copy temp", temp)
  PROVE  Register!Next
<1> TypeOK /\ MutexInv /\ SampleInv /\ CopyInv
  BY DEF ImuInv
<1>1. place["imu"] \notin {"assign gx", "temp"}
  BY DEF CopySecond, MutexInv, Holding, Copying, Threads
<1>2. Goto(t, "unlock") /\ UNCHANGED <<gx, temp>>
      /\ \A r \in Threads : r # t => first'[r] = first[r] /\ second'[r] = second[r]
  BY DEF CopySecond, sampleVars, valueVars, TypeOK
<1>3. Asked' = [Asked EXCEPT ![t] = "nothing"]
  <2>1. Request("unlock") = "nothing"
    BY DEF Request
  <2> QED BY <1>2, <2>1, RequestStep
<1>4. Got' = [Got EXCEPT ![t] = <<first'[t], second'[t]>>]
  BY <1>2, AnswerStep
<1>5. CASE CopySecond(t, "copy gx", gx)
  <2>1. first'[t] = gx /\ second'[t] = gx
    BY <1>1, <1>5 DEF CopySecond, CopyInv, SampleInv, TypeOK
  <2>2. Asked[t] = "imu"
    BY <1>5, AskedIs DEF CopySecond, Request
  <2>3. Register!Answer(t, "imu", gx)
    BY <1>2, <1>3, <1>4, <2>1, <2>2, Zenon DEF Register!Answer
  <2> QED BY <2>3 DEF Register!Next
<1>6. CASE CopySecond(t, "copy temp", temp)
  <2>1. first'[t] = temp /\ second'[t] = temp
    BY <1>1, <1>6 DEF CopySecond, CopyInv, SampleInv, TypeOK
  <2>2. Asked[t] = "baro"
    BY <1>6, AskedIs DEF CopySecond, Request
  <2>3. Register!Answer(t, "baro", temp)
    BY <1>2, <1>3, <1>4, <2>1, <2>2, Zenon DEF Register!Answer
  <2> QED BY <2>3 DEF Register!Next
<1> QED BY <1>5, <1>6

LEMMA UnlockIsReturn ==
  ASSUME TypeOK, NEW t \in Threads, GetterUnlock(t) PROVE Register!Next
<1> DEFINE p == IF t = "imu" THEN "baro" ELSE "sleep"
<1>1. Goto(t, p) /\ UNCHANGED <<gx, temp>> /\ place[t] = "unlock"
      /\ \A r \in Threads : r # t => first'[r] = first[r] /\ second'[r] = second[r]
  BY DEF GetterUnlock, sampleVars, valueVars, TypeOK
<1>2. p # "unlock" /\ Request(p) = "nothing"
  BY DEF Request
<1> HIDE DEF p
<1>3. Asked[t] = "nothing"
  BY <1>1, AskedIs DEF Request
<1>4. Asked' = Asked
  <2>1. Asked' = [Asked EXCEPT ![t] = "nothing"]
    BY <1>1, <1>2, RequestStep
  <2> QED BY <1>3, <2>1 DEF Asked
<1>5. Got' = [Got EXCEPT ![t] = <<>>]
  BY <1>1, <1>2, AnswerStep
<1>6. Got[t] # <<>>
  <2>1. Got[t] = <<first[t], second[t]>>
    BY <1>1, Zenon DEF Got
  <2> QED BY <2>1
<1>7. Register!Return(t)
  BY <1>1, <1>4, <1>5, <1>6 DEF Register!Return
<1> QED BY <1>7 DEF Register!Next

LEMMA RegisterStep ==
  ImuInv /\ [Next]_vars => [Register!Next]_(Register!registerVars)
<1> SUFFICES ASSUME ImuInv, [Next]_vars
             PROVE  Register!Next \/ UNCHANGED <<gx, temp, Asked, Got>>
  BY DEF Register!registerVars
<1> TypeOK /\ SampleInv
  BY DEF ImuInv
<1>1. "imu" \in Threads /\ "link" \in Threads
  BY DEF Threads
<1> USE DEF sampleVars, copyVars, valueVars
<1>2. ASSUME NEW t \in Threads, Getter(t)
      PROVE  Register!Next \/ UNCHANGED <<gx, temp, Asked, Got>>
  <2>1. CASE GetterLock(t)
    BY <2>1, QuietMove DEF GetterLock, Request
  <2>2. CASE CopyFirst(t, "copy ax", ax, "copy gx")
    BY <2>2, QuietMove DEF CopyFirst, Request, TypeOK
  <2>3. CASE CopyFirst(t, "copy pressure", pressure, "copy temp")
    BY <2>3, QuietMove DEF CopyFirst, Request, TypeOK
  <2>4. CASE CopySecond(t, "copy gx", gx) \/ CopySecond(t, "copy temp", temp)
    BY <2>4, AnswerIsCurrent
  <2>5. CASE GetterUnlock(t)
    BY <2>5, UnlockIsReturn
  <2> QED BY <1>2, <2>1, <2>2, <2>3, <2>4, <2>5 DEF Getter, CopyValues
<1>3. CASE BeginScaledIMU("imu", "signal") \/ BeginScaledIMU("link", "sleep") \/ BeginScaledBaro
  BY <1>1, <1>3, CallIsRegistered DEF BeginScaledIMU, BeginScaledBaro
<1>4. CASE Sample
  <2>1. CASE BeginLoop \/ AssignAccel \/ UnlockSample
    BY <1>1, <2>1, QuietMove DEF BeginLoop, AssignAccel, UnlockSample, Request
  <2>2. CASE AssignGyro
    <3>1. Asked' = Asked /\ Got' = Got
      BY <1>1, <2>2, QuietMove DEF AssignGyro, Request
    <3>2. gx' = 1 - gx /\ temp' = temp
      <4>1. ax # gx /\ gx' = ax /\ temp' = temp /\ ax \in {0, 1} /\ gx \in {0, 1}
        BY <2>2 DEF AssignGyro, SampleInv, TypeOK
      <4> QED BY <4>1, Parity
    <3> QED BY <3>1, <3>2 DEF Register!Next, Register!TakeSample
  <2> QED BY <1>4, <2>1, <2>2 DEF Sample
<1>5. CASE SetTemp
  <2>1. Asked' = Asked /\ Got' = Got
    BY <1>1, <1>5, QuietMove DEF SetTemp, Request
  <2>2. temp' = 1 - temp /\ gx' = gx
    <3>1. /\ pressure # temp /\ temp' = pressure /\ gx' = gx
          /\ pressure \in {0, 1} /\ temp \in {0, 1}
      BY <1>5 DEF SetTemp, SampleInv, TypeOK
    <3> QED BY <3>1, Parity
  <2> QED BY <2>1, <2>2 DEF Register!Next, Register!TakeMeasure
<1>6. CASE SetPressure
  BY <1>1, <1>6, QuietMove DEF SetPressure, Request
<1>7. CASE StartPressure \/ StillWaiting \/ ReadPressure \/ StartTemperature \/ ReadTemperature
           \/ LockValues \/ UnlockValues
  BY <1>1, <1>7, QuietMove DEF StartPressure, StillWaiting, ReadPressure, StartTemperature,
       ReadTemperature, LockValues, UnlockValues, Request
<1>8. CASE Tick \/ SetClock \/ UNCHANGED vars
  <2>1. UNCHANGED <<place, first, second, gx, temp>>
    BY <1>8 DEF Tick, SetClock, vars
  <2> QED BY <2>1 DEF Asked, Got
<1> QED BY <1>1, <1>2, <1>3, <1>4, <1>5, <1>6, <1>7, <1>8 DEF Next, Imu, Link, Baro
-----------------------------------------------------------------------------
LEMMA ImuAlways == Spec => []ImuInv
<1>1. ImuInv /\ [Next]_vars => ImuInv'
  BY TypeStep, MutexStep, SampleStep, CopyStep, BaroStep DEF ImuInv
<1> QED BY ImuInit, <1>1, PTL DEF Spec

\* Drotek10dof.cpp:322-447: every variable keeps to its set; the task of the
\* barometer is one of the four the switch has a case for.
THEOREM ImuTypeCorrect == Spec => []TypeOK
<1>1. ImuInv => TypeOK
  BY DEF ImuInv
<1> QED BY ImuAlways, <1>1, PTL

\* Drotek10dof.cpp:200-315: a getter returns the sample, or the measurement,
\* that is current while it runs, although the values are set and copied one
\* after the other by two threads.
THEOREM GettersReadARegister == Spec => ImplementsRegister
<1>1. ImuInv /\ [Next]_vars => [Register!Next]_(Register!registerVars)
  BY RegisterStep
<1> QED BY ImuAlways, RegisterStarts, <1>1, PTL DEF Spec, ImplementsRegister, Register!Spec

\* Drotek10dof.cpp:353-395: while no transfer fails and the clock is not set, a
\* pressure is computed from a finished conversion of each kind, whatever time
\* the conversions and the turns of the loop take.
THEOREM PressuresAreConverted == Spec => []BaroIsConverted
<1>1. ImuInv => BaroIsConverted
  <2>1. ImuInv /\ place["imu"] = "pressure" => Publishing /\ baro_task = 3
    BY DEF ImuInv, BaroInv, Publishing, PublishingPlaces
  <2> QED BY <2>1 DEF ImuInv, BaroInv, BaroIsConverted
<1> QED BY ImuAlways, <1>1, PTL
=============================================================================
