\* One user, one pod, two servers that it may move between.
CONSTANTS
  Pods = {p1}
  Objects <- MCUsers
  Instances = {n1,n2}
  Policies = {y1,y2}
  Passwords = {w1,w2,w3,w4}
  NoData = NoData
  Absent = Absent
  Foreign = {}
  SetOwnerReference = TRUE
  Observed = TRUE
  RemovesMissing = TRUE
  MaxEdits = 2
  MaxFaults = 1
CHECK_DEADLOCK FALSE
SPECIFICATION FairSpec
INVARIANT TypeOK
PROPERTIES KeepsUserEdits ReadyIsEarned ValidCredentialsStay KeepsPromise BecomesServed DeletionCompletes
