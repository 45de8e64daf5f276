CONSTANTS
  Threads = {"imu", "link"}
  Asks <- AsksOf
  Faults = 0
SPECIFICATION Spec
INVARIANT RangeIsCurrent
