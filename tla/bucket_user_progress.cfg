\* One user with fairness, two servers that its bucket may move between.
CONSTANTS
  Pods = {p1}
  Objects <- MCUsers
  Buckets = {b1}
  Instances = {n1,n2}
  Accesses = {ReadOnly}
  Passwords = {w1,w2,w3,w4}
  NoData = NoData
  Absent = Absent
  Foreign = {}
  SetOwnerReference = TRUE
  Observed = TRUE
  OldPasswords = {w1}
  RemovesMissing = TRUE
  MaxEdits = 2
  MaxFaults = 1
CHECK_DEADLOCK FALSE
SPECIFICATION FairSpec
PROPERTIES KeepsPromise BecomesServed DeletionCompletes
