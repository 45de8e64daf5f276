CONSTANTS
  Pins = {mod_6, rud_1}
  Port <- PortOf
  Mode = mod_6
  Rudder = rud_1
  Pulses <- Widths
  Pause = 3
  Threshold = 7
  Interval = 1
  Turn = 1
  Byte = 2
  Wrap = 17
SPECIFICATION FairSpec
INVARIANTS TypeOK WidthIsTrue NoEdgeWaits
PROPERTIES SwitchObeysPulse PilotTakesOver
