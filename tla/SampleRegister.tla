---------------------------- MODULE SampleRegister ----------------------------
(***************************************************************************)
(* What the getters of a sensor driver promise the threads that call them, *)
(* with no mutex and nothing that takes time: there is one sample, and one *)
(* measurement of the air, each replaced as a whole; a call is answered,   *)
(* once, with the two values of the one that is current at some moment     *)
(* between the call and its return.                                        *)
(*                                                                         *)
(* ImuLoop is shown to implement this module.  As there, a sample or a     *)
(* measurement is the parity of its number, and so is each of its values.  *)
(***************************************************************************)
EXTENDS Naturals

CONSTANT Threads

VARIABLES
  imu, baro,  \* the current sample and the current measurement
  call,       \* what each thread has asked for: "imu", "baro" or "nothing"
  answer      \* of each thread: the values it is about to return with, or <<>>

registerVars == <<imu, baro, call, answer>>

Init ==
  /\ imu = 0 /\ baro = 0
  /\ call = [t \in Threads |-> "nothing"]
  /\ answer = [t \in Threads |-> <<>>]

TakeSample  == imu' = 1 - imu /\ UNCHANGED <<baro, call, answer>>
TakeMeasure == baro' = 1 - baro /\ UNCHANGED <<imu, call, answer>>

Call(t, what) ==
  /\ call[t] = "nothing" /\ answer[t] = <<>>
  /\ call' = [call EXCEPT ![t] = what]
  /\ UNCHANGED <<imu, baro, answer>>

Answer(t, what, value) ==
  /\ call[t] = what
  /\ answer' = [answer EXCEPT ![t] = <<value, value>>]
  /\ call' = [call EXCEPT ![t] = "nothing"]
  /\ UNCHANGED <<imu, baro>>

Return(t) ==
  /\ answer[t] # <<>>
  /\ answer' = [answer EXCEPT ![t] = <<>>]
  /\ UNCHANGED <<imu, baro, call>>

Next ==
  \/ TakeSample
  \/ TakeMeasure
  \/ \E t \in Threads :
       \/ Call(t, "imu") \/ Call(t, "baro")
       \/ Answer(t, "imu", imu) \/ Answer(t, "baro", baro)
       \/ Return(t)

Spec == Init /\ [][Next]_registerVars

=============================================================================
