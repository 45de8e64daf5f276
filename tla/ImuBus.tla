------------------------------- MODULE ImuBus -------------------------------
(***************************************************************************)
(* Reads of the MPU6050 by several threads: I2Cdev::readBytes() and        *)
(* readBits(), MPU6050::getMotion6() and getFullScaleGyroRange().          *)
(*                                                                         *)
(* A read is two system calls, one that sets the register pointer of the   *)
(* chip and one that reads from where it is, and each has the bus for      *)
(* itself.  getScaledIMU() asks for the ranges before it takes the mutex   *)
(* under which the IMU thread calls getMotion6(); all calls share          *)
(* MPU6050::buffer.  What a register holds is written as its name.         *)
(***************************************************************************)
EXTENDS Integers

CONSTANTS
  Threads,
  Asks,          \* Asks[t]: the registers thread t reads
  Faults         \* transfers that may fail

Registers == {"motion", "gyro", "accel"}

VARIABLES
  place,         \* where each thread is
  regAddr,       \* what it reads
  pointer,       \* the register pointer of the chip
  buffer,        \* the first byte of MPU6050::buffer
  b,             \* of readBits(), of each thread
  returned,      \* what its last call has returned
  faults         \* how many transfers may still fail

vars == <<place, regAddr, pointer, buffer, b, returned, faults>>

Goto(t, p) == place' = [place EXCEPT ![t] = p]
-----------------------------------------------------------------------------
\* readBytes() begins with memset(): of the buffer for getMotion6(), of b for
\* readBits().
Begin(t) ==
  /\ place[t] = "idle"
  /\ \E r \in Asks[t] :
       /\ regAddr' = [regAddr EXCEPT ![t] = r]
       /\ IF r = "motion" THEN buffer' = "zero" /\ b' = b
                          ELSE b' = [b EXCEPT ![t] = "zero"] /\ buffer' = buffer
  /\ Goto(t, "write")
  /\ UNCHANGED <<pointer, returned, faults>>

\* open(), ioctl() and the write() of the register's address.
WriteReg(t) ==
  /\ place[t] = "write"
  /\ pointer' = regAddr[t]
  /\ Goto(t, "read")
  /\ UNCHANGED <<regAddr, buffer, b, returned, faults>>

AfterRead(t) == IF regAddr[t] = "motion" THEN "return" ELSE "store"

\* read(), which moves the pointer on.
ReadReg(t) ==
  /\ place[t] = "read"
  /\ pointer' = "other"
  /\ IF regAddr[t] = "motion" THEN buffer' = pointer /\ b' = b
                              ELSE b' = [b EXCEPT ![t] = pointer] /\ buffer' = buffer
  /\ Goto(t, AfterRead(t))
  /\ UNCHANGED <<regAddr, returned, faults>>

\* One of the system calls fails.  readBits() takes the -1 for a count and its
\* callers do not look: what memset() has left is used.
TransferFails(t) ==
  /\ place[t] \in {"write", "read"} /\ faults > 0
  /\ faults' = faults - 1
  /\ Goto(t, AfterRead(t))
  /\ UNCHANGED <<regAddr, pointer, buffer, b, returned>>

\* *data = b, where data is the buffer of the class.
StoreByte(t) ==
  /\ place[t] = "store"
  /\ buffer' = b[t]
  /\ Goto(t, "return")
  /\ UNCHANGED <<regAddr, pointer, b, returned, faults>>

\* return buffer[0], or *ax = ... to *gz = ...
Return(t) ==
  /\ place[t] = "return"
  /\ returned' = [returned EXCEPT ![t] = buffer]
  /\ Goto(t, "idle")
  /\ UNCHANGED <<regAddr, pointer, buffer, b, faults>>
-----------------------------------------------------------------------------
Init ==
  /\ place = [t \in Threads |-> "idle"]
  /\ regAddr = [t \in Threads |-> "motion"]
  /\ pointer = "other" /\ buffer = "zero"
  /\ b = [t \in Threads |-> "zero"] /\ returned = [t \in Threads |-> "motion"]
  /\ faults = Faults

Call(t) == Begin(t) \/ WriteReg(t) \/ ReadReg(t) \/ TransferFails(t) \/ StoreByte(t) \/ Return(t)

Next == \E t \in Threads : Call(t)

Spec == Init /\ [][Next]_vars
-----------------------------------------------------------------------------
\* MPU6050.cpp:259 says that getFullScaleGyroRange() returns the "Current
\* full-scale gyroscope range setting": if no transfer has failed, a thread
\* whose last call it was has got what is in the range's register.
RangeIsCurrent ==
  \A t \in Threads :
    place[t] = "idle" /\ regAddr[t] = "gyro" /\ faults = Faults => returned[t] = "gyro"
=============================================================================
