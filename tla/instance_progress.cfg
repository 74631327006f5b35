\* Two instances that compete for one Secret, with fairness.
CONSTANTS
  Pods = {p1}
  Objects = {i1,i2}
  Secrets = {s1}
  Endpoints = {e1}
  Keys = {k1}
  Foreign = {f1}
  Absent = Absent
  NoInstance = NoInstance
  NoKeys = NoKeys
  NoEndpoint = NoEndpoint
  MaxEdits = 2
  MaxFaults = 1
CHECK_DEADLOCK FALSE
SPECIFICATION FairSpec
PROPERTIES BecomesReady DeletionCompletes
