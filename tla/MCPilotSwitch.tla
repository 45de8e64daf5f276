---------------------------- MODULE MCPilotSwitch ----------------------------
(***************************************************************************)
(* PilotSwitch with the mode's pin alone on its interrupt, as it is while  *)
(* nothing is connected to in_5_tbd, and the other pins on the first.      *)
(*                                                                         *)
(* A unit of time is 200 us: the pulses are of 1000 and of 2000 us, the    *)
(* threshold is 1500 us, a turn takes up to 200 us, and a byte tears by    *)
(* 200 us.  A long pulse is clear of the threshold by more than two turns, *)
(* but not by a torn stamp more.                                           *)
(***************************************************************************)
EXTENDS PilotSwitch

PortOf == [p \in Pins |-> IF p = Mode THEN 1 ELSE 0]
Widths == [p \in Pins |-> IF p = Mode THEN {5, 10} ELSE {5}]
=============================================================================
