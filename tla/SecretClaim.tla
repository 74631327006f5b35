------------------------------ MODULE SecretClaim ------------------------------
(***************************************************************************)
(* What labelling a credentials Secret promises: at any time at most one   *)
(* RustFSInstance holds a Secret, a free Secret is taken by one instance,  *)
(* and a held Secret has to be freed before another instance takes it.     *)
(***************************************************************************)
CONSTANTS Instances, Secrets, NoInstance

VARIABLE holder     \* holder[s]: the instance Secret s is labelled with

Init == holder = [s \in Secrets |-> NoInstance]

Claim(i, s) ==
  /\ holder[s] = NoInstance
  /\ holder' = [holder EXCEPT ![s] = i]

Free(s) ==
  /\ holder[s] # NoInstance
  /\ holder' = [holder EXCEPT ![s] = NoInstance]

Next == \E s \in Secrets : Free(s) \/ \E i \in Instances : Claim(i, s)

Spec == Init /\ [][Next]_holder
================================================================================
