\* Two of the timer's saves may overlap, and either the one of Close; one crash, one
\* I/O error.
CONSTANTS
  TimerSaves = {s1, s2}
  MaxChanges = 2
  MaxCrashes = 1
  MaxFailures = 1
SPECIFICATION Spec
INVARIANTS NoChangeForgotten FileIsConsistent
PROPERTIES DiskNeverForgets ChangesReachDisk
