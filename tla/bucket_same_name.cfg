\* Two buckets of one name on the server.
CONSTANTS
  Pods = {p1}
  Objects <- MCTwoBuckets
  Instances = {"n1"}
  Endpoints = {"e1"}
  Urls <- MCAnyServer
  Accesses = {private}
  DefaultAccess = private
  NoEndpoint = NoEndpoint
  NoBucket = NoBucket
  NoData = NoData
  Observed = FALSE
  Absent = Absent
  Foreign = {}
  SetOwnerReference = FALSE
  RemovesMissing = TRUE
  MaxEdits = 1
  MaxFaults = 0
CHECK_DEADLOCK FALSE
SPECIFICATION Spec
PROPERTY RemovalIsWanted
