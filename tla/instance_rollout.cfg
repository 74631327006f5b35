\* One instance while two pods overlap, a foreign finalizer.
CONSTANTS
  Pods = {p1,p2}
  Objects = {i1}
  Secrets = {s1}
  Endpoints = {e1,e2}
  Keys = {k1}
  Foreign = {f1}
  Absent = Absent
  NoInstance = NoInstance
  NoKeys = NoKeys
  NoEndpoint = NoEndpoint
  MaxEdits = 3
  MaxFaults = 1
CHECK_DEADLOCK FALSE
SPECIFICATION Spec
SYMMETRY PodSymmetry
INVARIANT ReadyIsProtected
PROPERTY KeepsUserEdits
