\* The endpoint of a ready instance changes.
CONSTANTS
  Pods = {p1}
  Objects = {i1}
  Secrets = {s1}
  Endpoints = {e1,e2}
  Keys = {k1}
  Foreign = {}
  Absent = Absent
  NoInstance = NoInstance
  NoKeys = NoKeys
  NoEndpoint = NoEndpoint
  MaxEdits = 1
  MaxFaults = 0
CHECK_DEADLOCK FALSE
SPECIFICATION FairSpec
PROPERTY StatusFollowsEndpoint
