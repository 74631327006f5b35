\* One instance and one bucket in one pod, with fairness.
CONSTANTS
  Pods = {p1}
  RustFSInstances = {n1}
  RustFSBuckets <- MCBuckets
  Secrets = {s1}
  Endpoints = {e1,e2}
  Keys = {k1}
  Accesses = {private}
  DefaultAccess = private
  Foreign = {}
  Absent = Absent
  NoInstance = NoInstance
  NoKeys = NoKeys
  NoEndpoint = NoEndpoint
  NoData = NoData
  NoBucket = NoBucket
  SetOwnerReference = FALSE
  RemovesMissing = TRUE
  InstanceEdits = 1
  BucketEdits = 1
  MaxFaults = 1
CHECK_DEADLOCK FALSE
SPECIFICATION FairSpec
INVARIANT TypeOK
PROPERTIES InstancesBehave WantedBucketsAreServed DeletedBucketsGo
