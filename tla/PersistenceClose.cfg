\* Close while the save of the timer is under way.
CONSTANTS
  TimerSaves = {s1}
  MaxChanges = 4
  MaxCrashes = 1
  MaxFailures = 0
SPECIFICATION Spec
INVARIANT CloseFlushes
