------------------------------ MODULE MCImuBus ------------------------------
(***************************************************************************)
(* ImuBus with the IMU thread and the link of brainware: the first takes   *)
(* samples and, in a handler, the ranges; the second the ranges only.      *)
(***************************************************************************)
EXTENDS ImuBus

AsksOf == [t \in Threads |-> IF t = "imu" THEN Registers ELSE Registers \ {"motion"}]
=============================================================================
