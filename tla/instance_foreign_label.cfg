\* An instance that is deleted after its Secret was changed.
CONSTANTS
  Pods = {p1}
  Objects = {i1,i2}
  Secrets = {s1,s2}
  Endpoints = {e1}
  Keys = {k1}
  Foreign = {}
  Absent = Absent
  NoInstance = NoInstance
  NoKeys = NoKeys
  NoEndpoint = NoEndpoint
  MaxEdits = 2
  MaxFaults = 0
CHECK_DEADLOCK FALSE
SPECIFICATION Spec
SYMMETRY NameSymmetry
PROPERTY OnlyHolderReleases
