\* One bucket with fairness, whose instance may be pointed at another server.
CONSTANTS
  Pods = {p1}
  Objects <- MCOneBucket
  Instances = {"n1"}
  Endpoints = {"e1", "e2"}
  Urls <- MCAnyServer
  Accesses = {private,public}
  DefaultAccess = private
  NoEndpoint = NoEndpoint
  NoBucket = NoBucket
  NoData = NoData
  Observed = FALSE
  Absent = Absent
  Foreign = {}
  SetOwnerReference = FALSE
  RemovesMissing = TRUE
  MaxEdits = 2
  MaxFaults = 1
CHECK_DEADLOCK FALSE
SPECIFICATION FairSpec
PROPERTIES ReadyIsEarned BecomesServed DeletionCompletes
