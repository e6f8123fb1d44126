SPECIFICATION Spec
CONSTANTS
  r1 = r1
  r2 = r2
  s1 = s1
  s2 = s2
  NoReading = NoReading
  NoRecord = NoRecord
  Requests <- MCRequests
  Subjects <- MCSubjects
  Ordered <- MCOrdered
  Readings <- MCReadings
  Obligations <- MCObligations
  RecentWithin = 1
  Default = Default
  Partitions <- MCPartitions
  MaxTime = 2
SYMMETRY Symmetry
CHECK_DEADLOCK FALSE
INVARIANTS
  OrderedReplays
  PeakBreachSurvives
