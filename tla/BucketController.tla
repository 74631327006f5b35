--------------------------- MODULE BucketController ---------------------------
(***************************************************************************)
(* The RustFSBucket controller, operator/src/controllers/rustfs_bucket.rs: *)
(* it keeps a bucket on a RustFS server and a ConfigMap that tells         *)
(* applications where the bucket is.                                       *)
(***************************************************************************)
EXTENDS Companion

CONSTANTS
  Instances,          \* names of RustFSInstance objects
  Endpoints,          \* URLs of RustFS servers
  Urls,               \* Urls[n]: those that users give the RustFSInstance n
  NoEndpoint,         \* rc has no alias of that name
  Accesses,           \* values of spec.access
  DefaultAccess,      \* what a new bucket has on the server
  NoBucket,           \* the server has no bucket of that name
  RemovesMissing      \* whether `rc rb' succeeds when there is no bucket

VARIABLES
  rustfs,             \* RustFSInstance objects, as far as buckets read them
  alias,              \* alias[p][n]: the server that rc in pod p calls n
  store               \* store[e][x]: access of bucket x on the server e

vars == <<cr, task, due, edits, faults, companion, uid, rustfs, alias, store>>

rc == INSTANCE Rc WITH Nothing <- NoBucket, RemovesMissing <- RemovesMissing

Buckets == Objects

bucket_name(b) == joined(b)

BucketNames == {bucket_name(b) : b \in Buckets}

FIN_CLEANUP == "bucket-cleanup"
TYPE_BUCKET_READY == "BucketReady"
ConditionTypes == {TYPE_BUCKET_READY}

RustFSBucket ==
  [uid: Uids, deleting: BOOLEAN, fins: SUBSET (Foreign \cup {FIN_CLEANUP}),
   instance: Instances, cleanup: BOOLEAN, access: Accesses,
   conditions: [ConditionTypes -> ConditionStatus]]

(* The data of a ConfigMap is the endpoint of the server. *)
ConfigMap == CompanionOf(Endpoints)

RustFSInstance == [ready: BOOLEAN, endpoint: Endpoints]

Steps == CompanionSteps \cup {"connected", "removed", "lacking", "exists", "opened"}

ASSUME ConstantsAssumption ==
  /\ DefaultAccess \in Accesses
  /\ NoBucket \notin Accesses
  /\ {NoData, NoEndpoint} \cap Endpoints = {}
  /\ Urls \in [Instances -> SUBSET Endpoints]
  /\ FIN_CLEANUP \notin Foreign
  /\ Absent \notin RustFSBucket \cup ConfigMap \cup RustFSInstance
  /\ {SetOwnerReference, RemovesMissing} \subseteq BOOLEAN
  /\ Observed = FALSE
  /\ MaxEdits \in Nat
  /\ MaxFaults \in Nat

NewBuckets ==
  [uid: {0}, deleting: {FALSE}, fins: {Foreign}, instance: Instances,
   cleanup: BOOLEAN, access: Accesses, conditions: {NoConditions(ConditionTypes)}]

NoAliases == [n \in Instances |-> NoEndpoint]

(* A new pod: instances may be ready since an earlier one. *)
Init ==
  /\ ReconcilerInit
  /\ cr \in [Buckets -> NewBuckets \cup {Absent}]
  /\ CompanionInit
  /\ rustfs \in [Instances -> RustFSInstance \cup {Absent}]
  /\ \A n \in Instances : rustfs[n] # Absent => rustfs[n].endpoint \in Urls[n]
  /\ alias = [p \in Pods |-> NoAliases]
  /\ store = [e \in Endpoints |-> [x \in BucketNames |-> NoBucket]]

--------------------------------------------------------------------------------
(* The ConfigMap and the finalizer. *)

OnlyKube == UNCHANGED <<rustfs, alias, store>>

OnlyCr == OnlyKube /\ UNCHANGED <<companion, uid>>

BucketReady(object) == is_condition_true(object.conditions, TYPE_BUCKET_READY)

HasFinalizer(object) == FIN_CLEANUP \in object.fins

StatusIsNone(object) == object.conditions = NoConditions(ConditionTypes)

init_object(p, b) ==
  /\ At(p, b, "read")
  /\ StatusIsNone(task[p][b].cr)
  /\ Replace(p, b, [task[p][b].cr EXCEPT !.conditions =
                      set_condition(@, TYPE_BUCKET_READY, "Unknown")], FALSE)
  /\ OnlyCr

get_configmap(p, b) ==
  /\ At(p, b, "read")
  /\ ~StatusIsNone(task[p][b].cr)
  /\ GetCompanion(p, b)
  /\ OnlyKube

create_configmap(p, b) == CreateCompanion(p, b) /\ OnlyKube

reread_configmap(p, b) == RereadCompanion(p, b) /\ OnlyKube

label_configmap(p, b) == LabelCompanion(p, b) /\ OnlyKube

own_configmap(p, b) == OwnCompanion(p, b) /\ OnlyKube

EnsureFinalizer(p, b) ==
  LET c == task[p][b].cr IN
  /\ ReplaceFinalizers(p, b, BucketReady(c),
       IF c.cleanup THEN c.fins \cup {FIN_CLEANUP} ELSE c.fins \ {FIN_CLEANUP})
  /\ OnlyKube

--------------------------------------------------------------------------------
(* The instance and the deletion. *)

(* A missing instance is an error and one that is not ready is waited for: *)
(* both requeue.  The data of the ConfigMap is fixed by what is read here. *)
GetInstance(p, b) ==
  LET found == rustfs[task[p][b].cr.instance]
      connected == found # Absent /\ found.ready IN
  /\ At(p, b, "checked")
  /\ \/ ~connected /\ Ends(p, b, TRUE)
     \/ /\ connected
        /\ task' = [task EXCEPT ![p][b] =
                      [@ EXCEPT !.pc = "connected", !.dep.data = found.endpoint]]
        /\ UNCHANGED <<cr, due, edits, faults>>
  /\ OnlyCr

(* A command of rc for the bucket: without an alias it fails.              *)
Server(p, b) == alias[p][task[p][b].cr.instance]

Current(p, b) ==
  IF Server(p, b) = NoEndpoint THEN NoBucket ELSE store[Server(p, b)][bucket_name(b)]

Commands(p, b, outcomes, step) ==
  IF Server(p, b) # NoEndpoint /\ outcomes # {}
    THEN /\ \E result \in outcomes :
              store' = [store EXCEPT ![Server(p, b)][bucket_name(b)] = result]
         /\ Continues(p, b, step)
         /\ UNCHANGED <<companion, uid, rustfs, alias>>
    ELSE Err(p, b) /\ OnlyCr

(* Mutant of MarkedForRemoval: the finalizer is not looked at. *)
DeletedAtAll(p, b) == At(p, b, "connected") /\ task[p][b].cr.deleting

MarkedForRemoval(p, b) ==
  /\ At(p, b, "connected")
  /\ task[p][b].cr.deleting
  /\ HasFinalizer(task[p][b].cr)

delete_bucket(p, b) ==
  /\ MarkedForRemoval(p, b)
  /\ Commands(p, b, rc!delete_bucket(Current(p, b)), "removed")

(* Mutant of ReadyToFinalize: the bucket is not removed first. *)
FinalizesAtOnce(p, b) == At(p, b, "connected") /\ task[p][b].cr.deleting

ReadyToFinalize(p, b) ==
  \/ At(p, b, "removed")
  \/ /\ At(p, b, "connected")
     /\ task[p][b].cr.deleting
     /\ ~HasFinalizer(task[p][b].cr)

Finalize(p, b) ==
  /\ ReadyToFinalize(p, b)
  /\ Replace(p, b, [task[p][b].cr EXCEPT !.fins = @ \ {FIN_CLEANUP}], FALSE)
  /\ OnlyCr

--------------------------------------------------------------------------------
(* The bucket. *)

ensure_data_configmap(p, b) ==
  /\ At(p, b, "connected")
  /\ ~task[p][b].cr.deleting
  /\ WriteCompanion(p, b, task[p][b].dep, "written")
  /\ OnlyKube

Listed(p, b) == Current(p, b) # NoBucket

(* Mutant of list_buckets: the access of a bucket that exists is not set.  *)
TrustsExisting(p, b) ==
  /\ At(p, b, "filled")
  /\ Commands(p, b, {Current(p, b)}, IF Listed(p, b) THEN "opened" ELSE "lacking")

list_buckets(p, b) ==
  /\ At(p, b, "filled")
  /\ Commands(p, b, {Current(p, b)}, IF Listed(p, b) THEN "exists" ELSE "lacking")

create_bucket(p, b) ==
  /\ At(p, b, "lacking")
  /\ Commands(p, b, rc!create_bucket(Current(p, b), DefaultAccess), "exists")

set_bucket_access(p, b) ==
  /\ At(p, b, "exists")
  /\ Commands(p, b, rc!set_bucket_access(Current(p, b), task[p][b].cr.access),
              "opened")

Publish(p, b) ==
  /\ At(p, b, "opened")
  /\ ReplaceStamped(p, b, [task[p][b].cr EXCEPT !.conditions =
                             set_condition(@, TYPE_BUCKET_READY, "True")], TRUE)
  /\ OnlyCr

Reconcile(p, b) ==
  \/ Begin(p, b) /\ OnlyCr
  \/ init_object(p, b) \/ get_configmap(p, b) \/ create_configmap(p, b)
  \/ reread_configmap(p, b) \/ label_configmap(p, b) \/ own_configmap(p, b)
  \/ EnsureFinalizer(p, b) \/ GetInstance(p, b)
  \/ delete_bucket(p, b) \/ Finalize(p, b)
  \/ ensure_data_configmap(p, b) \/ list_buckets(p, b) \/ create_bucket(p, b)
  \/ set_bucket_access(p, b) \/ Publish(p, b)

(* A container that restarts keeps rc's aliases, a new pod has none.       *)
Fault(p) ==
  \/ /\ Restarts(p) \/ \E b \in Buckets : CallFails(p, b)
     /\ OnlyCr
  \/ /\ Restarts(p)
     /\ alias' = [alias EXCEPT ![p] = NoAliases]
     /\ UNCHANGED <<companion, uid, rustfs, store>>

--------------------------------------------------------------------------------
(* Users, the instance controller and the garbage collector. *)

EditBucket(b) ==
  /\ cr[b] # Absent
  /\ \E n \in Instances, cleanup \in BOOLEAN, access \in Accesses :
       LET object == [cr[b] EXCEPT !.instance = n, !.cleanup = cleanup,
                                   !.access = access] IN
       object # cr[b] /\ WriteCr(b, object)
  /\ OnlyCr

(* The RustFSInstance controller and its users, who are not counted: it    *)
(* gives rc an alias once, and an instance that has become ready stays so. *)
SetAlias(p, n) ==
  /\ alias[p][n] = NoEndpoint
  /\ \E e \in Urls[n] : alias' = [alias EXCEPT ![p][n] = e]
  /\ UNCHANGED <<cr, task, due, edits, faults, companion, uid, rustfs, store>>

NextInstances(n) ==
  IF rustfs[n] = Absent
    THEN [ready: {FALSE}, endpoint: Urls[n]]
    ELSE {Absent} \cup [ready: {rustfs[n].ready}, endpoint: Urls[n]]
         \cup (IF \E p \in Pods : alias[p][n] # NoEndpoint
                THEN {[rustfs[n] EXCEPT !.ready = TRUE]} ELSE {})

ChangeInstance(n) ==
  /\ \E object \in NextInstances(n) : rustfs' = [rustfs EXCEPT ![n] = object]
  /\ UNCHANGED <<cr, task, due, edits, faults, companion, uid, alias, store>>

InstanceChanges ==
  \E n \in Instances : ChangeInstance(n) \/ \E p \in Pods : SetAlias(p, n)

User(b) ==
  \/ /\ \/ \E object \in NewBuckets : CreateOwner(b, object)
        \/ DeleteCompanion(b) \/ EditCompanion(b, NoData) \/ Collect(b)
     /\ OnlyKube
  \/ EditBucket(b)
  \/ (DeleteCr(b) \/ DropForeign(b)) /\ OnlyCr

--------------------------------------------------------------------------------
Next ==
  \/ \E p \in Pods, b \in Buckets : Reconcile(p, b)
  \/ \E p \in Pods : Fault(p)
  \/ \E b \in Buckets : User(b)
  \/ InstanceChanges

Spec == Init /\ [][Next]_vars

(* The controller loop is never blocked: a queued bucket is reconciled, a  *)
(* started reconcile goes on.                                              *)
Fairness == \A p \in Pods, b \in Buckets : WF_vars(Reconcile(p, b))

FairSpec == Spec /\ Fairness

--------------------------------------------------------------------------------
(* Every variable has its type. *)
TypeOK ==
  /\ ReconcilerTypeOK(Steps, RustFSBucket, ConfigMap)
  /\ companion \in [Buckets -> ConfigMap \cup {Absent}]
  /\ rustfs \in [Instances -> RustFSInstance \cup {Absent}]
  /\ alias \in [Pods -> [Instances -> Endpoints \cup {NoEndpoint}]]
  /\ store \in [Endpoints -> [BucketNames -> Accesses \cup {NoBucket}]]
  /\ uid \in [Buckets -> Uids]

(* The servers that a pod takes for the one of the instance.               *)
Servers(b) ==
  IF cr[b] = Absent THEN {} ELSE {alias[p][cr[b].instance] : p \in Pods} \ {NoEndpoint}

Has(e, b) == store[e][bucket_name(b)] # NoBucket

(* The controller never undoes what users wrote: an outdated copy of a     *)
(* RustFSBucket is not written, and no bucket object goes away by itself.  *)
UserEditsKept == SpecsKept({"instance", "cleanup", "access"})

KeepsUserEdits == [][edits' = edits => UserEditsKept]_vars

(* A bucket is only called ready when it is on a server that the operator  *)
(* takes for the one of the instance, with the access that the spec asks   *)
(* for at that very moment.                                                *)
ReadyIsEarned ==
  [][\A b \in Buckets :
       /\ cr[b] # Absent /\ ~BucketReady(cr[b])
       /\ cr'[b] # Absent /\ BucketReady(cr'[b])
       => \E e \in Servers(b) : store[e][bucket_name(b)] = cr'[b].access]_vars

(* A bucket object as an owner in the sense of Cleanup.  With one pod, its *)
(* place is the one server that rc calls by the name of the instance.      *)
StateOf(b) ==
  IF cr[b] = Absent THEN "none"
  ELSE IF ~(cr[b].deleting /\ HasFinalizer(cr[b])) THEN "kept"
  ELSE IF cr[b].cleanup THEN "condemned" ELSE "marked"

Promise ==
  INSTANCE Cleanup WITH
    Owners <- Buckets,
    Places <- Endpoints \cup {NoEndpoint},
    owner <- [b \in Buckets |->
                [state |-> StateOf(b),
                 place |-> IF Servers(b) = {} THEN NoEndpoint
                                              ELSE CHOOSE e \in Servers(b) : TRUE]],
    present <- [b \in Buckets |-> {e \in Endpoints : Has(e, b)}]

(* The controller keeps the promise of cleanup: it does not let a bucket   *)
(* object with cleanup and the finalizer go while its bucket is on the     *)
(* server, and it removes no bucket of any other object, whatever is       *)
(* edited or fails in between.                                             *)
KeepsPromise == Promise!Spec

(* A bucket whose instance is ready and known to rc. *)
Reachable(b) ==
  /\ cr[b] # Absent
  /\ rustfs[cr[b].instance] # Absent
  /\ rustfs[cr[b].instance].ready
  /\ \A p \in Pods : alias[p][cr[b].instance] # NoEndpoint

Served(b) ==
  /\ Reachable(b)
  /\ BucketReady(cr[b])
  /\ HasFinalizer(cr[b]) = cr[b].cleanup
  /\ \A e \in Servers(b) : store[e][bucket_name(b)] = cr[b].access
  /\ companion[b] # Absent
  /\ companion[b].labeled
  /\ companion[b].data = rustfs[cr[b].instance].endpoint

(* A bucket that stays reachable, at an endpoint that stays the same, ends *)
(* up as its spec says, and so do its finalizer and its ConfigMap,         *)
(* whatever was edited on the way.                                         *)
BecomesServed ==
  \A b \in Buckets, e \in Endpoints :
    <>[](Reachable(b) /\ ~cr[b].deleting /\ rustfs[cr[b].instance].endpoint = e)
      => <>[]Served(b)

(* A bucket that is being deleted goes away as long as its instance is     *)
(* ready and nobody else holds it back.                                    *)
DeletionCompletes ==
  \A b \in Buckets :
    []<>~(Reachable(b) /\ cr[b].deleting /\ cr[b].fins \cap Foreign = {})

--------------------------------------------------------------------------------
(* What the documentation says and the code does not do: a run shows the   *)
(* violation.                                                              *)

(* v1beta1_rustfs_bucket.rs:51 "the operator will try remove the bucket    *)
(* upon object deletion": a bucket is only removed from a server when      *)
(* every RustFSBucket that stands for it is being deleted and was marked.  *)
RemovalIsWanted ==
  [][\A b \in Buckets : \A e \in Servers(b) :
       Has(e, b) /\ ~Has(e, b)' => cr[b].deleting /\ HasFinalizer(cr[b])]_vars
================================================================================
