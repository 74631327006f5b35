\* One bucket, one pod, two instances that it may move between.
CONSTANTS
  Pods = {p1}
  Objects <- MCOneBucket
  Instances = {"n1", "n2"}
  Endpoints = {"e1", "e2"}
  Urls <- MCApart
  Accesses = {private}
  DefaultAccess = private
  NoEndpoint = NoEndpoint
  NoBucket = NoBucket
  NoData = NoData
  Observed = FALSE
  Absent = Absent
  Foreign = {f1}
  SetOwnerReference = TRUE
  RemovesMissing = FALSE
  MaxEdits = 2
  MaxFaults = 1
CHECK_DEADLOCK FALSE
SPECIFICATION Spec
INVARIANT TypeOK
PROPERTIES KeepsUserEdits KeepsPromise
