\* One user, one pod.
CONSTANTS
  Pods = {p1}
  Objects <- MCUsers
  Buckets = {b1}
  Instances = {n1}
  Accesses = {ReadOnly,ReadWrite}
  Passwords = {w1,w2,w3,w4,w5}
  NoData = NoData
  Absent = Absent
  Foreign = {f1}
  SetOwnerReference = TRUE
  Observed = TRUE
  OldPasswords = {w1}
  RemovesMissing = FALSE
  MaxEdits = 3
  MaxFaults = 1
CHECK_DEADLOCK FALSE
SPECIFICATION Spec
INVARIANT TypeOK
PROPERTIES KeepsUserEdits ReadyIsEarned ValidCredentialsStay KeepsPromise
