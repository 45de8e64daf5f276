CONSTANTS
  Delay = 2
  Faults = 1
  ClockSets = 1
SPECIFICATION FairSpec
INVARIANTS TypeOK BaroIsConverted
PROPERTIES ImplementsRegister SamplesGoOn PressureGoesOn
