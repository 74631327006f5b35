-------------------------------- MODULE Operator --------------------------------
(***************************************************************************)
(* The RustFSInstance and the RustFSBucket controllers in one process,     *)
(* operator/src/main.rs.  A bucket is made through the alias that the      *)
(* instance controller has given rc, once the status of its RustFSInstance *)
(* says that it is ready; both live as long as the pod, but the status     *)
(* outlives it.                                                            *)
(***************************************************************************)
EXTENDS Naturals

CONSTANTS
  Pods, RustFSInstances, RustFSBuckets, Secrets, Endpoints, Keys, Accesses,
  DefaultAccess, Foreign, Absent, NoInstance, NoKeys, NoEndpoint, NoData, NoBucket,
  SetOwnerReference, RemovesMissing,
  InstanceEdits,    \* bound on the steps of users with instances and Secrets
  BucketEdits,      \* bound on the steps of users with buckets and ConfigMaps
  MaxFaults         \* bound on restarts of the operator

VARIABLES
  faults,                             \* restarts left
  icr, itask, idue, iedits,           \* the instance controller
  secret, alias,
  bcr, btask, bdue, bedits,           \* the bucket controller
  companion, uid, store

ivars == <<icr, itask, idue, iedits, secret, alias>>
bvars == <<bcr, btask, bdue, bedits, companion, uid, store>>
vars == <<faults, ivars, bvars>>

I ==
  INSTANCE InstanceController WITH
    Objects <- RustFSInstances, MaxEdits <- InstanceEdits,
    cr <- icr, task <- itask, due <- idue, edits <- iedits

(* What the bucket controller sees of the instances. *)
rustfs ==
  [n \in RustFSInstances |->
     IF icr[n] = Absent
       THEN Absent
       ELSE [ready |-> icr[n].ready, endpoint |-> icr[n].endpoint]]

servers == [p \in Pods |-> [n \in RustFSInstances |-> alias[p][n].endpoint]]

B ==
  INSTANCE BucketController WITH
    Objects <- RustFSBuckets, Instances <- RustFSInstances,
    MaxEdits <- BucketEdits,
    Urls <- [n \in RustFSInstances |-> Endpoints], Observed <- FALSE,
    cr <- bcr, task <- btask, due <- bdue, edits <- bedits,
    alias <- servers

ASSUME ConstantsAssumption == I!ConstantsAssumption /\ B!ConstantsAssumption

Init == I!Init /\ B!Init

--------------------------------------------------------------------------------
InstanceReconcile(p, i) == I!Reconcile(p, i) /\ UNCHANGED bvars

BucketReconcile(p, b) == UNCHANGED ivars /\ B!Reconcile(p, b)

(* The process ends, and with it the reconciles of both controllers.       *)
Restart(p) ==
  /\ I!Restarts(p)
  /\ B!Restarts(p)
  /\ \/ UNCHANGED alias
     \/ alias' = [alias EXCEPT ![p] = [i \in RustFSInstances |-> I!NoAlias]]
  /\ UNCHANGED <<secret, companion, uid, store>>

User ==
  \/ I!User /\ UNCHANGED bvars
  \/ UNCHANGED ivars /\ \E b \in RustFSBuckets : B!User(b)

Next ==
  \/ \E p \in Pods, i \in RustFSInstances : InstanceReconcile(p, i)
  \/ \E p \in Pods, b \in RustFSBuckets : BucketReconcile(p, b)
  \/ \E p \in Pods : Restart(p)
  \/ User

Spec == Init /\ [][Next]_vars

(* Each controller has a loop of its own, and neither blocks the other.    *)
Fairness ==
  /\ \A p \in Pods, i \in RustFSInstances : WF_vars(InstanceReconcile(p, i))
  /\ \A p \in Pods, b \in RustFSBuckets : WF_vars(BucketReconcile(p, b))

FairSpec == Spec /\ Fairness

--------------------------------------------------------------------------------
(* Every variable has its type. *)
TypeOK == I!TypeOK /\ B!TypeOK

(* The instance controller is one of the environments that the bucket      *)
(* controller is checked in by itself: an alias does not change while the  *)
(* pod lives, an instance that was ready stays so until it is deleted, and *)
(* it only becomes ready when some pod has an alias for it.                *)
InstancesBehave == B!Spec

(* An instance that the operator can use and a bucket that is wanted on it *)
(* end up with the bucket as its spec says.  In particular a pod that has  *)
(* lost its aliases gets them again, although the status has said since    *)
(* the last pod that the instance is ready.                                *)
WantedBucketsAreServed ==
  \A b \in RustFSBuckets, n \in RustFSInstances, e \in Endpoints :
    <>[](/\ bcr[b] # Absent
         /\ ~bcr[b].deleting
         /\ bcr[b].instance = n
         /\ I!Usable(n)
         /\ icr[n].endpoint = e)
      => <>[]B!Served(b)

(* A bucket that is deleted goes away as long as the operator can use its  *)
(* instance, also when rc has lost the alias or never had it.              *)
DeletedBucketsGo ==
  \A b \in RustFSBuckets :
    []<>~(/\ bcr[b] # Absent
          /\ bcr[b].deleting
          /\ bcr[b].fins \cap Foreign = {}
          /\ I!Usable(bcr[b].instance))
================================================================================
