CONSTANTS
  Pins = {mod_6, thr_2, ele_3}
  Port <- PortOf
  Mode = mod_6
  Rudder = rud_1
  Pulses <- Widths
  Pause = 3
  Threshold = 7
  Interval = 1
  Turn = 1
  Byte = 1
  Wrap = 17
SPECIFICATION Spec
INVARIANT EveryWidthIsTrue
