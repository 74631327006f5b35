----------------------------- MODULE OperatorProofs -----------------------------
(***************************************************************************)
(* Proofs about Operator: in one process, with restarts that both          *)
(* controllers live through, the instance and the bucket controller behave *)
(* as they do by themselves.  What the one writes is among the changes     *)
(* that the other is proved to stand.                                      *)
(***************************************************************************)
EXTENDS Operator, TLAPS

(* The proofs about each controller, for its variables in the process.     *)
IP ==
  INSTANCE InstanceControllerProofs WITH
    Objects <- RustFSInstances, MaxEdits <- InstanceEdits,
    cr <- icr, task <- itask, due <- idue, edits <- iedits

BP ==
  INSTANCE BucketControllerProofs WITH
    Objects <- RustFSBuckets, Instances <- RustFSInstances,
    MaxEdits <- BucketEdits,
    Urls <- [n \in RustFSInstances |-> Endpoints], Observed <- FALSE,
    cr <- bcr, task <- btask, due <- bdue, edits <- bedits,
    alias <- servers

(* IP is about the same controller as I, which the provers see once all    *)
(* its definitions are expanded.                                           *)
LEMMA InstanceModule ==
  /\ IP!ConstantsAssumption
  /\ I!Init => IP!Init
  /\ [I!Next]_(I!vars) => [IP!Next]_(IP!vars)
  /\ IP!TypeOK => I!TypeOK
  /\ IP!CopiesOK => I!CopiesOK
<1> USE DEF
        I!TaskOf, IP!TaskOf, I!Idle, IP!Idle, I!At, IP!At, I!ReconcilerInit,
        IP!ReconcilerInit, I!Reaped, IP!Reaped, I!Admits, IP!Admits,
        I!CrOutdated, IP!CrOutdated, I!Watched, IP!Watched, I!CrAccepted,
        IP!CrAccepted, I!DepAccepted, IP!DepAccepted, I!Ended, IP!Ended,
        I!Requeued, IP!Requeued, I!Ends, IP!Ends, I!Err, IP!Err, I!Continues,
        IP!Continues, I!Begin, IP!Begin, I!Store, IP!Store, I!Refused,
        IP!Refused, I!Updates, IP!Updates, I!Replace, IP!Replace, I!Faulty,
        IP!Faulty, I!CallFails, IP!CallFails, I!Restarts, IP!Restarts, I!Edit,
        IP!Edit, I!WriteCr, IP!WriteCr, I!CreateCr, IP!CreateCr, I!DeleteCr,
        IP!DeleteCr, I!DropForeign, IP!DropForeign, I!ReconcilerTypeOK,
        IP!ReconcilerTypeOK, I!CopiesOK, IP!CopiesOK, I!ConditionStatus,
        IP!ConditionStatus, I!NoConditions, IP!NoConditions,
        I!init_conditions, IP!init_conditions, I!set_condition,
        IP!set_condition, I!is_condition_true, IP!is_condition_true,
        I!is_condition_unknown, IP!is_condition_unknown, I!vars, IP!vars,
        I!Instances, IP!Instances, I!FIN_SECRET_LABEL, IP!FIN_SECRET_LABEL,
        I!TYPE_CONNECTED, IP!TYPE_CONNECTED, I!TYPE_SECRET_LABELED,
        IP!TYPE_SECRET_LABELED, I!ConditionTypes, IP!ConditionTypes,
        I!RustFSInstance, IP!RustFSInstance, I!Secret, IP!Secret, I!Alias,
        IP!Alias, I!NoAlias, IP!NoAlias, I!Steps, IP!Steps, I!NewInstances,
        IP!NewInstances, I!NewSecrets, IP!NewSecrets, I!Init, IP!Init,
        I!SecretOutdated, IP!SecretOutdated, I!SecretWatched,
        IP!SecretWatched, I!OnlyCr, IP!OnlyCr, I!StatusIsNone,
        IP!StatusIsNone, I!Labeled, IP!Labeled, I!Unlabeled, IP!Unlabeled,
        I!HasFinalizer, IP!HasFinalizer, I!init_object, IP!init_object,
        I!get_secret, IP!get_secret, I!WriteLabel, IP!WriteLabel,
        I!unlabel_secret, IP!unlabel_secret, I!ReadyToFinalize,
        IP!ReadyToFinalize, I!Finalize, IP!Finalize, I!AddFinalizer,
        IP!AddFinalizer, I!Wants, IP!Wants, I!label_secret, IP!label_secret,
        I!reread_secret, IP!reread_secret, I!SecretIsAlreadyLabeled,
        IP!SecretIsAlreadyLabeled, I!SetLabeled, IP!SetLabeled, I!SaveLabeled,
        IP!SaveLabeled, I!Claims, IP!Claims, I!SaveUnlabeled,
        IP!SaveUnlabeled, I!InvalidSecret, IP!InvalidSecret, I!AliasSeen,
        IP!AliasSeen, I!EnsuredAlias, IP!EnsuredAlias, I!EnsureAlias,
        IP!EnsureAlias, I!Publish, IP!Publish, I!Reconcile, IP!Reconcile,
        I!Fault, IP!Fault, I!EditInstance, IP!EditInstance, I!WriteSecret,
        IP!WriteSecret, I!CreateSecret, IP!CreateSecret, I!EditSecret,
        IP!EditSecret, I!DeleteSecret, IP!DeleteSecret, I!User, IP!User,
        I!Next, IP!Next, I!TypeOK, IP!TypeOK
<1>1. IP!ConstantsAssumption
  BY ConstantsAssumption DEF I!ConstantsAssumption, IP!ConstantsAssumption
<1>2. ASSUME I!Init PROVE IP!Init
  BY SMTT(60), <1>2
<1>3. ASSUME NEW p \in Pods, NEW i \in RustFSInstances, I!Reconcile(p, i)
      PROVE  IP!Reconcile(p, i)
  BY <1>3
<1>4. ASSUME NEW p \in Pods, I!Fault(p)
      PROVE  IP!Fault(p)
  BY <1>4
<1>5. ASSUME NEW i \in RustFSInstances, NEW object, I!CreateCr(i, object)
      PROVE  IP!CreateCr(i, object)
  BY SMTT(60), <1>5
<1>6. ASSUME NEW i \in RustFSInstances,
             I!DeleteCr(i) \/ I!EditInstance(i) \/ I!DropForeign(i)
      PROVE  IP!DeleteCr(i) \/ IP!EditInstance(i) \/ IP!DropForeign(i)
  BY <1>6
<1>7. I!NewInstances = IP!NewInstances
  BY SMTT(60)
<1>8. ASSUME NEW s \in Secrets,
             I!CreateSecret(s) \/ I!EditSecret(s) \/ I!DeleteSecret(s)
      PROVE  IP!CreateSecret(s) \/ IP!EditSecret(s) \/ IP!DeleteSecret(s)
  BY <1>8
<1>9. UNCHANGED I!vars => UNCHANGED IP!vars
  OBVIOUS
<1>10. ASSUME IP!TypeOK PROVE I!TypeOK
  BY <1>10
<1>11. ASSUME IP!CopiesOK PROVE I!CopiesOK
  BY <1>11
<1>12. I!OnlyCr = IP!OnlyCr
  OBVIOUS
<1> HIDE DEF
        I!TaskOf, IP!TaskOf, I!Idle, IP!Idle, I!At, IP!At, I!ReconcilerInit,
        IP!ReconcilerInit, I!Reaped, IP!Reaped, I!Admits, IP!Admits,
        I!CrOutdated, IP!CrOutdated, I!Watched, IP!Watched, I!CrAccepted,
        IP!CrAccepted, I!DepAccepted, IP!DepAccepted, I!Ended, IP!Ended,
        I!Requeued, IP!Requeued, I!Ends, IP!Ends, I!Err, IP!Err, I!Continues,
        IP!Continues, I!Begin, IP!Begin, I!Store, IP!Store, I!Refused,
        IP!Refused, I!Updates, IP!Updates, I!Replace, IP!Replace, I!Faulty,
        IP!Faulty, I!CallFails, IP!CallFails, I!Restarts, IP!Restarts, I!Edit,
        IP!Edit, I!WriteCr, IP!WriteCr, I!CreateCr, IP!CreateCr, I!DeleteCr,
        IP!DeleteCr, I!DropForeign, IP!DropForeign, I!ReconcilerTypeOK,
        IP!ReconcilerTypeOK, I!CopiesOK, IP!CopiesOK, I!ConditionStatus,
        IP!ConditionStatus, I!NoConditions, IP!NoConditions,
        I!init_conditions, IP!init_conditions, I!set_condition,
        IP!set_condition, I!is_condition_true, IP!is_condition_true,
        I!is_condition_unknown, IP!is_condition_unknown, I!vars, IP!vars,
        I!Instances, IP!Instances, I!FIN_SECRET_LABEL, IP!FIN_SECRET_LABEL,
        I!TYPE_CONNECTED, IP!TYPE_CONNECTED, I!TYPE_SECRET_LABELED,
        IP!TYPE_SECRET_LABELED, I!ConditionTypes, IP!ConditionTypes,
        I!RustFSInstance, IP!RustFSInstance, I!Secret, IP!Secret, I!Alias,
        IP!Alias, I!NoAlias, IP!NoAlias, I!Steps, IP!Steps, I!NewInstances,
        IP!NewInstances, I!NewSecrets, IP!NewSecrets, I!Init, IP!Init,
        I!SecretOutdated, IP!SecretOutdated, I!SecretWatched,
        IP!SecretWatched, I!OnlyCr, IP!OnlyCr, I!StatusIsNone,
        IP!StatusIsNone, I!Labeled, IP!Labeled, I!Unlabeled, IP!Unlabeled,
        I!HasFinalizer, IP!HasFinalizer, I!init_object, IP!init_object,
        I!get_secret, IP!get_secret, I!WriteLabel, IP!WriteLabel,
        I!unlabel_secret, IP!unlabel_secret, I!ReadyToFinalize,
        IP!ReadyToFinalize, I!Finalize, IP!Finalize, I!AddFinalizer,
        IP!AddFinalizer, I!Wants, IP!Wants, I!label_secret, IP!label_secret,
        I!reread_secret, IP!reread_secret, I!SecretIsAlreadyLabeled,
        IP!SecretIsAlreadyLabeled, I!SetLabeled, IP!SetLabeled, I!SaveLabeled,
        IP!SaveLabeled, I!Claims, IP!Claims, I!SaveUnlabeled,
        IP!SaveUnlabeled, I!InvalidSecret, IP!InvalidSecret, I!AliasSeen,
        IP!AliasSeen, I!EnsuredAlias, IP!EnsuredAlias, I!EnsureAlias,
        IP!EnsureAlias, I!Publish, IP!Publish, I!Reconcile, IP!Reconcile,
        I!Fault, IP!Fault, I!EditInstance, IP!EditInstance, I!WriteSecret,
        IP!WriteSecret, I!CreateSecret, IP!CreateSecret, I!EditSecret,
        IP!EditSecret, I!DeleteSecret, IP!DeleteSecret, I!User, IP!User,
        I!Next, IP!Next, I!TypeOK, IP!TypeOK
<1>13. I!Next => IP!Next
  BY <1>3, <1>4, <1>5, <1>8, <1>12, <1>6, <1>7
     DEF I!Next, IP!Next, I!User, IP!User, I!Instances, IP!Instances
<1> QED BY <1>1, <1>2, <1>9, <1>10, <1>11, <1>13

(* The same of BP and B. *)
LEMMA BucketModule ==
  /\ BP!ConstantsAssumption
  /\ B!Init => BP!Init
  /\ [B!Next]_(B!vars) => [BP!Next]_(BP!vars)
  /\ BP!TypeOK => B!TypeOK
<1> USE DEF
        B!TaskOf, BP!TaskOf, B!Idle, BP!Idle, B!At, BP!At, B!ReconcilerInit,
        BP!ReconcilerInit, B!Reaped, BP!Reaped, B!Admits, BP!Admits,
        B!CrOutdated, BP!CrOutdated, B!DepOutdated, BP!DepOutdated, B!Watched,
        BP!Watched, B!CrAccepted, BP!CrAccepted, B!DepAccepted,
        BP!DepAccepted, B!Ended, BP!Ended, B!Requeued, BP!Requeued, B!Ends,
        BP!Ends, B!Err, BP!Err, B!Continues, BP!Continues, B!Begin, BP!Begin,
        B!Store, BP!Store, B!Refused, BP!Refused, B!Updates, BP!Updates,
        B!Replace, BP!Replace, B!ReplaceStamped, BP!ReplaceStamped, B!Faulty,
        BP!Faulty, B!CallFails, BP!CallFails, B!Restarts, BP!Restarts, B!Edit,
        BP!Edit, B!WriteCr, BP!WriteCr, B!CreateCr, BP!CreateCr, B!DeleteCr,
        BP!DeleteCr, B!DropForeign, BP!DropForeign, B!ReconcilerTypeOK,
        BP!ReconcilerTypeOK, B!ConditionStatus, BP!ConditionStatus,
        B!NoConditions, BP!NoConditions, B!set_condition, BP!set_condition,
        B!is_condition_true, BP!is_condition_true, B!Uids, BP!Uids,
        B!CompanionOf, BP!CompanionOf, B!joined, BP!joined, B!CompanionSteps,
        BP!CompanionSteps, B!CompanionInit, BP!CompanionInit, B!GotCompanion,
        BP!GotCompanion, B!GetCompanion, BP!GetCompanion, B!CreateCompanion,
        BP!CreateCompanion, B!NextRead, BP!NextRead, B!RereadCompanion,
        BP!RereadCompanion, B!Notified, BP!Notified, B!WriteCompanion,
        BP!WriteCompanion, B!LabelCompanion, BP!LabelCompanion,
        B!OwnCompanion, BP!OwnCompanion, B!ReplaceFinalizers,
        BP!ReplaceFinalizers, B!ChangeCompanion, BP!ChangeCompanion,
        B!DeleteCompanion, BP!DeleteCompanion, B!EditCompanion,
        BP!EditCompanion, B!Collect, BP!Collect, B!CreateOwner,
        BP!CreateOwner, B!create_bucket, BP!create_bucket,
        B!set_bucket_access, BP!set_bucket_access, B!delete_bucket,
        BP!delete_bucket, B!vars, BP!vars, B!Buckets, BP!Buckets,
        B!bucket_name, BP!bucket_name, B!BucketNames, BP!BucketNames,
        B!FIN_CLEANUP, BP!FIN_CLEANUP, B!TYPE_BUCKET_READY,
        BP!TYPE_BUCKET_READY, B!ConditionTypes, BP!ConditionTypes,
        B!RustFSBucket, BP!RustFSBucket, B!ConfigMap, BP!ConfigMap,
        B!RustFSInstance, BP!RustFSInstance, B!Steps, BP!Steps, B!NewBuckets,
        BP!NewBuckets, B!NoAliases, BP!NoAliases, B!Init, BP!Init, B!OnlyKube,
        BP!OnlyKube, B!OnlyCr, BP!OnlyCr, B!BucketReady, BP!BucketReady,
        B!HasFinalizer, BP!HasFinalizer, B!StatusIsNone, BP!StatusIsNone,
        B!init_object, BP!init_object, B!get_configmap, BP!get_configmap,
        B!create_configmap, BP!create_configmap, B!reread_configmap,
        BP!reread_configmap, B!label_configmap, BP!label_configmap,
        B!own_configmap, BP!own_configmap, B!EnsureFinalizer,
        BP!EnsureFinalizer, B!GetInstance, BP!GetInstance, B!Server,
        BP!Server, B!Current, BP!Current, B!Commands, BP!Commands,
        B!MarkedForRemoval, BP!MarkedForRemoval, B!ReadyToFinalize,
        BP!ReadyToFinalize, B!Finalize, BP!Finalize, B!ensure_data_configmap,
        BP!ensure_data_configmap, B!Listed, BP!Listed, B!list_buckets,
        BP!list_buckets, B!Publish, BP!Publish, B!Reconcile, BP!Reconcile,
        B!Fault, BP!Fault, B!EditBucket, BP!EditBucket, B!SetAlias,
        BP!SetAlias, B!NextInstances, BP!NextInstances, B!ChangeInstance,
        BP!ChangeInstance, B!InstanceChanges, BP!InstanceChanges, B!User,
        BP!User, B!Next, BP!Next, B!TypeOK, BP!TypeOK,
        B!rc!Outcome, BP!rc!Outcome,
        B!rc!create_bucket, BP!rc!create_bucket,
        B!rc!set_bucket_access, BP!rc!set_bucket_access,
        B!rc!delete_bucket, BP!rc!delete_bucket
<1>1. BP!ConstantsAssumption
  BY ConstantsAssumption DEF B!ConstantsAssumption, BP!ConstantsAssumption
<1>2. ASSUME B!Init PROVE BP!Init
  BY <1>2
<1>3. ASSUME B!Next PROVE BP!Next
  BY <1>3
<1>4. UNCHANGED B!vars => UNCHANGED BP!vars
  OBVIOUS
<1>5. ASSUME BP!TypeOK PROVE B!TypeOK
  BY <1>5
<1> HIDE DEF
        B!TaskOf, BP!TaskOf, B!Idle, BP!Idle, B!At, BP!At, B!ReconcilerInit,
        BP!ReconcilerInit, B!Reaped, BP!Reaped, B!Admits, BP!Admits,
        B!CrOutdated, BP!CrOutdated, B!DepOutdated, BP!DepOutdated, B!Watched,
        BP!Watched, B!CrAccepted, BP!CrAccepted, B!DepAccepted,
        BP!DepAccepted, B!Ended, BP!Ended, B!Requeued, BP!Requeued, B!Ends,
        BP!Ends, B!Err, BP!Err, B!Continues, BP!Continues, B!Begin, BP!Begin,
        B!Store, BP!Store, B!Refused, BP!Refused, B!Updates, BP!Updates,
        B!Replace, BP!Replace, B!ReplaceStamped, BP!ReplaceStamped, B!Faulty,
        BP!Faulty, B!CallFails, BP!CallFails, B!Restarts, BP!Restarts, B!Edit,
        BP!Edit, B!WriteCr, BP!WriteCr, B!CreateCr, BP!CreateCr, B!DeleteCr,
        BP!DeleteCr, B!DropForeign, BP!DropForeign, B!ReconcilerTypeOK,
        BP!ReconcilerTypeOK, B!ConditionStatus, BP!ConditionStatus,
        B!NoConditions, BP!NoConditions, B!set_condition, BP!set_condition,
        B!is_condition_true, BP!is_condition_true, B!Uids, BP!Uids,
        B!CompanionOf, BP!CompanionOf, B!joined, BP!joined, B!CompanionSteps,
        BP!CompanionSteps, B!CompanionInit, BP!CompanionInit, B!GotCompanion,
        BP!GotCompanion, B!GetCompanion, BP!GetCompanion, B!CreateCompanion,
        BP!CreateCompanion, B!NextRead, BP!NextRead, B!RereadCompanion,
        BP!RereadCompanion, B!Notified, BP!Notified, B!WriteCompanion,
        BP!WriteCompanion, B!LabelCompanion, BP!LabelCompanion,
        B!OwnCompanion, BP!OwnCompanion, B!ReplaceFinalizers,
        BP!ReplaceFinalizers, B!ChangeCompanion, BP!ChangeCompanion,
        B!DeleteCompanion, BP!DeleteCompanion, B!EditCompanion,
        BP!EditCompanion, B!Collect, BP!Collect, B!CreateOwner,
        BP!CreateOwner, B!create_bucket, BP!create_bucket,
        B!set_bucket_access, BP!set_bucket_access, B!delete_bucket,
        BP!delete_bucket, B!vars, BP!vars, B!Buckets, BP!Buckets,
        B!bucket_name, BP!bucket_name, B!BucketNames, BP!BucketNames,
        B!FIN_CLEANUP, BP!FIN_CLEANUP, B!TYPE_BUCKET_READY,
        BP!TYPE_BUCKET_READY, B!ConditionTypes, BP!ConditionTypes,
        B!RustFSBucket, BP!RustFSBucket, B!ConfigMap, BP!ConfigMap,
        B!RustFSInstance, BP!RustFSInstance, B!Steps, BP!Steps, B!NewBuckets,
        BP!NewBuckets, B!NoAliases, BP!NoAliases, B!Init, BP!Init, B!OnlyKube,
        BP!OnlyKube, B!OnlyCr, BP!OnlyCr, B!BucketReady, BP!BucketReady,
        B!HasFinalizer, BP!HasFinalizer, B!StatusIsNone, BP!StatusIsNone,
        B!init_object, BP!init_object, B!get_configmap, BP!get_configmap,
        B!create_configmap, BP!create_configmap, B!reread_configmap,
        BP!reread_configmap, B!label_configmap, BP!label_configmap,
        B!own_configmap, BP!own_configmap, B!EnsureFinalizer,
        BP!EnsureFinalizer, B!GetInstance, BP!GetInstance, B!Server,
        BP!Server, B!Current, BP!Current, B!Commands, BP!Commands,
        B!MarkedForRemoval, BP!MarkedForRemoval, B!ReadyToFinalize,
        BP!ReadyToFinalize, B!Finalize, BP!Finalize, B!ensure_data_configmap,
        BP!ensure_data_configmap, B!Listed, BP!Listed, B!list_buckets,
        BP!list_buckets, B!Publish, BP!Publish, B!Reconcile, BP!Reconcile,
        B!Fault, BP!Fault, B!EditBucket, BP!EditBucket, B!SetAlias,
        BP!SetAlias, B!NextInstances, BP!NextInstances, B!ChangeInstance,
        BP!ChangeInstance, B!InstanceChanges, BP!InstanceChanges, B!User,
        BP!User, B!Next, BP!Next, B!TypeOK, BP!TypeOK,
        B!rc!Outcome, BP!rc!Outcome,
        B!rc!create_bucket, BP!rc!create_bucket,
        B!rc!set_bucket_access, BP!rc!set_bucket_access,
        B!rc!delete_bucket, BP!rc!delete_bucket
<1> QED BY <1>1, <1>2, <1>3, <1>4, <1>5

--------------------------------------------------------------------------------
(* rc has an alias with a server or none at all, and a reconcile that is   *)
(* about to publish has made sure that it has one.                         *)
AliasesServe ==
  \A p \in Pods, i \in RustFSInstances :
    /\ alias[p][i] = I!NoAlias \/ alias[p][i].endpoint \in Endpoints
    /\ itask[p][i].pc = "aliased" => servers[p][i] # NoEndpoint

InstancesOK == I!TypeOK /\ I!CopiesOK /\ AliasesServe

(* A change of what the bucket controller sees, as its module allows it.   *)
Written(n) ==
  /\ UNCHANGED servers
  /\ \E object \in B!NextInstances(n) : rustfs' = [rustfs EXCEPT ![n] = object]

Connected(p, n) ==
  /\ servers[p][n] = NoEndpoint
  /\ \E e \in Endpoints : servers' = [servers EXCEPT ![p][n] = e]
  /\ UNCHANGED rustfs

Seen ==
  \/ UNCHANGED <<rustfs, servers>>
  \/ \E n \in RustFSInstances : Written(n) \/ \E p \in Pods : Connected(p, n)

(* No reconcile gets ready to publish. *)
Quiet ==
  /\ UNCHANGED alias
  /\ \A p \in Pods, i \in RustFSInstances :
       itask'[p][i].pc = "aliased" => itask[p][i].pc = "aliased"

(* A quiet step leaves rc's aliases as they are.                           *)
LEMMA QuietServes == ASSUME AliasesServe, Quiet PROVE AliasesServe' /\ UNCHANGED servers
  BY DEF AliasesServe, Quiet, servers

(* What the bucket controller sees of the instances has its type.          *)
LEMMA InstancesType ==
  ASSUME InstancesOK
  PROVE  /\ rustfs \in [RustFSInstances -> B!RustFSInstance \cup {Absent}]
         /\ \A n \in RustFSInstances :
              icr[n] # Absent =>
                /\ rustfs[n] # Absent
                /\ rustfs[n] = [ready |-> icr[n].ready, endpoint |-> icr[n].endpoint]
<1>1. icr \in [RustFSInstances -> I!RustFSInstance \cup {Absent}]
  BY DEF InstancesOK, I!TypeOK, I!ReconcilerTypeOK
<1>2. Absent \notin B!RustFSInstance
  BY ConstantsAssumption DEF B!ConstantsAssumption
<1>3. \A c \in I!RustFSInstance :
        [ready |-> c.ready, endpoint |-> c.endpoint] \in B!RustFSInstance
  BY DEF I!RustFSInstance, B!RustFSInstance
<1> QED BY <1>1, <1>2, <1>3 DEF rustfs

(* A write of one RustFSInstance is a change that buckets expect. *)
LEMMA WrittenSeen ==
  ASSUME InstancesOK, NEW i \in RustFSInstances, NEW object,
         icr' = [icr EXCEPT ![i] = object], Quiet,
         IF icr[i] = Absent
           THEN object # Absent /\ object.ready = FALSE /\ object.endpoint \in Endpoints
           ELSE \/ object = Absent
                \/ /\ object.endpoint \in Endpoints
                   /\ object.ready = icr[i].ready
                \/ /\ object.endpoint = icr[i].endpoint
                   /\ object.ready = TRUE
                   /\ \E p \in Pods : servers[p][i] # NoEndpoint
  PROVE  Seen /\ AliasesServe'
<1> DEFINE seen == IF object = Absent
                     THEN Absent
                     ELSE [ready |-> object.ready, endpoint |-> object.endpoint]
<1>1. AliasesServe' /\ UNCHANGED servers
  BY QuietServes DEF InstancesOK
<1>2. rustfs' = [rustfs EXCEPT ![i] = seen]
  <2>1. DOMAIN icr = RustFSInstances
    BY DEF InstancesOK, I!TypeOK, I!ReconcilerTypeOK
  <2> QED BY <2>1 DEF rustfs
<1>3. seen \in B!NextInstances(i)
  <2>1. icr[i] = Absent => rustfs[i] = Absent
    BY DEF rustfs
  <2>2. icr[i] # Absent =>
          /\ rustfs[i] # Absent
          /\ rustfs[i] = [ready |-> icr[i].ready, endpoint |-> icr[i].endpoint]
    BY InstancesType
  <2>3. CASE icr[i] = Absent
    BY <2>1, <2>3 DEF B!NextInstances
  <2>4. CASE icr[i] # Absent
    BY <2>2, <2>4 DEF B!NextInstances
  <2> QED BY <2>3, <2>4
<1> QED BY <1>1, <1>2, <1>3 DEF Seen, Written

(* A quiet step that writes no instance is not seen by buckets.            *)
LEMMA UnwrittenSeen ==
  ASSUME InstancesOK, UNCHANGED icr, Quiet
  PROVE  Seen /\ AliasesServe'
<1>1. AliasesServe' /\ UNCHANGED servers
  BY QuietServes DEF InstancesOK
<1> QED BY <1>1 DEF rustfs, Seen

(* What is known of a reconcile that runs. *)
LEMMA RunningTask ==
  ASSUME InstancesOK, NEW p \in Pods, NEW i \in RustFSInstances
  PROVE  /\ itask \in [Pods -> [RustFSInstances ->
                                  I!TaskOf(I!Steps, I!RustFSInstance, I!Secret)]]
         /\ icr \in [RustFSInstances -> I!RustFSInstance \cup {Absent}]
         /\ itask[p][i].pc # "idle" => itask[p][i].cr \in I!RustFSInstance
         /\ itask[p][i].crFresh => icr[i] # Absent /\ itask[p][i].cr = icr[i]
  BY DEF InstancesOK, I!TypeOK, I!ReconcilerTypeOK, I!CopiesOK, I!TaskOf

(* A reconcile that ends is quiet. *)
LEMMA EndsQuiet ==
  ASSUME InstancesOK, NEW p \in Pods, NEW i \in RustFSInstances, NEW again,
         I!Ends(p, i, again), UNCHANGED alias
  PROVE  Quiet /\ UNCHANGED icr
<1>1. itask' = [itask EXCEPT ![p][i] = I!Idle] /\ UNCHANGED icr
  BY DEF I!Ends, I!Ended
<1>2. I!Idle.pc = "idle"
  BY DEF I!Idle
<1> QED BY <1>1, <1>2, RunningTask DEF Quiet

(* So is a step towards any call but the one that publishes.               *)
LEMMA ContinuesQuiet ==
  ASSUME InstancesOK, NEW p \in Pods, NEW i \in RustFSInstances, NEW step,
         step # "aliased", I!Continues(p, i, step), UNCHANGED alias
  PROVE  Quiet /\ UNCHANGED icr
<1>1. itask' = [itask EXCEPT ![p][i].pc = step] /\ UNCHANGED icr
  BY DEF I!Continues
<1>2. itask[p][i] \in I!TaskOf(I!Steps, I!RustFSInstance, I!Secret)
  BY RunningTask
<1>3. [itask[p][i] EXCEPT !.pc = step].pc = step
  BY <1>2 DEF I!TaskOf
<1> QED BY <1>1, <1>3, RunningTask DEF Quiet

(* Replacing an instance by its copy, ready or as it was. *)
LEMMA ReplaceSeen ==
  ASSUME InstancesOK, NEW p \in Pods, NEW i \in RustFSInstances,
         NEW object, NEW again, itask[p][i].pc # "idle",
         I!Replace(p, i, object, again), UNCHANGED alias,
         object.endpoint = itask[p][i].cr.endpoint,
         \/ object.ready = itask[p][i].cr.ready
         \/ object.ready = TRUE /\ servers[p][i] # NoEndpoint
  PROVE  Seen /\ AliasesServe'
<1>1. CASE I!Ends(p, i, again) \/ I!Err(p, i)
  BY <1>1, EndsQuiet, UnwrittenSeen DEF I!Err
<1>2. CASE I!Updates(p, i, object)
  <2>1. /\ itask[p][i].crFresh
        /\ icr' = [icr EXCEPT ![i] = I!Reaped(object)]
        /\ itask' = [I!CrOutdated(itask, i) EXCEPT ![p][i] = I!Idle]
    BY <1>2 DEF I!Updates, I!Store, I!CrAccepted, I!Ended
  <2>2. Quiet
    <3>1. ASSUME NEW q \in Pods, NEW j \in RustFSInstances
          PROVE  itask'[q][j].pc \in {itask[q][j].pc, "idle"}
      <4>1. I!Idle.pc = "idle"
        BY DEF I!Idle
      <4>2. I!CrOutdated(itask, i) \in [Pods -> [RustFSInstances ->
                                  I!TaskOf(I!Steps, I!RustFSInstance, I!Secret)]]
        <5>1. \A w \in I!TaskOf(I!Steps, I!RustFSInstance, I!Secret) :
                [w EXCEPT !.crFresh = FALSE]
                  \in I!TaskOf(I!Steps, I!RustFSInstance, I!Secret)
          BY DEF I!TaskOf
        <5> QED BY <5>1, RunningTask DEF I!CrOutdated
      <4>3. I!CrOutdated(itask, i)[q][j].pc = itask[q][j].pc
        BY RunningTask DEF I!CrOutdated, I!TaskOf
      <4> QED BY <2>1, <4>1, <4>2, <4>3
    <3> QED BY <3>1 DEF Quiet
  <2>3. /\ icr[i] # Absent /\ icr[i] \in I!RustFSInstance
        /\ itask[p][i].cr = icr[i] /\ icr[i].endpoint \in Endpoints
    BY <2>1, RunningTask DEF I!RustFSInstance
  <2>4. I!Reaped(object) \in {Absent, object}
    BY DEF I!Reaped
  <2> QED BY <2>1, <2>2, <2>3, <2>4, WrittenSeen
<1> QED BY <1>1, <1>2 DEF I!Replace

(* A write of a Secret leaves every reconcile where it is.                 *)
LEMMA OutdatedSteps ==
  ASSUME InstancesOK, NEW s, NEW p \in Pods, NEW i \in RustFSInstances
  PROVE  /\ I!SecretOutdated(itask, s) \in
              [Pods -> [RustFSInstances ->
                          I!TaskOf(I!Steps, I!RustFSInstance, I!Secret)]]
         /\ I!SecretOutdated(itask, s)[p][i].pc = itask[p][i].pc
<1>1. \A w \in I!TaskOf(I!Steps, I!RustFSInstance, I!Secret), new \in BOOLEAN :
        /\ [w EXCEPT !.depFresh = @ /\ new]
             \in I!TaskOf(I!Steps, I!RustFSInstance, I!Secret)
        /\ [w EXCEPT !.depFresh = @ /\ new].pc = w.pc
  BY DEF I!TaskOf
<1> DEFINE w(q, j) ==
             [itask[q][j] EXCEPT !.depFresh =
                @ /\ ~(itask[q][j].cr # Absent /\ itask[q][j].cr.secretRef = s)]
<1>2. I!SecretOutdated(itask, s) = [q \in Pods |-> [j \in RustFSInstances |-> w(q, j)]]
  BY DEF I!SecretOutdated, I!Instances
<1>3. ASSUME NEW q \in Pods, NEW j \in RustFSInstances
      PROVE  /\ w(q, j) \in I!TaskOf(I!Steps, I!RustFSInstance, I!Secret)
             /\ w(q, j).pc = itask[q][j].pc
  <2>1. itask[q][j] \in I!TaskOf(I!Steps, I!RustFSInstance, I!Secret)
    BY RunningTask
  <2> QED BY <1>1, <2>1
<1> HIDE DEF w
<1> QED BY <1>2, <1>3

(* Writing the Secret is quiet. *)
LEMMA WriteLabelQuiet ==
  ASSUME InstancesOK, NEW p \in Pods, NEW i \in RustFSInstances, NEW label,
         NEW step, step # "aliased", I!WriteLabel(p, i, label, step)
  PROVE  Quiet /\ UNCHANGED icr
<1> DEFINE s == itask[p][i].cr.secretRef
           t == I!SecretOutdated(itask, s)
<1>1. CASE (I!Err(p, i) \/ I!Continues(p, i, step)) /\ I!OnlyCr
  BY <1>1, EndsQuiet, ContinuesQuiet DEF I!Err, I!OnlyCr
<1>2. CASE /\ itask' = [t EXCEPT ![p][i].pc = step]
           /\ UNCHANGED <<icr, alias>>
  <2>1. ASSUME NEW q \in Pods, NEW j \in RustFSInstances
        PROVE  itask'[q][j].pc \in {itask[q][j].pc, step}
    <3>1. \A w \in I!TaskOf(I!Steps, I!RustFSInstance, I!Secret) :
            [w EXCEPT !.pc = step].pc = step
      BY DEF I!TaskOf
    <3>2. /\ t \in [Pods -> [RustFSInstances ->
                               I!TaskOf(I!Steps, I!RustFSInstance, I!Secret)]]
          /\ t[q][j].pc = itask[q][j].pc
      BY OutdatedSteps
    <3> HIDE DEF t
    <3> QED BY <1>2, <3>1, <3>2
  <2> QED BY <1>2, <2>1 DEF Quiet
<1> QED BY <1>1, <1>2 DEF I!WriteLabel

(* rc is told a server, for which it had no alias.                         *)
LEMMA EnsureAliasSeen ==
  ASSUME InstancesOK, NEW p \in Pods, NEW i \in RustFSInstances,
         I!EnsureAlias(p, i)
  PROVE  Seen /\ AliasesServe'
<1>1. /\ alias' = [alias EXCEPT ![p][i] = I!EnsuredAlias(p, i)]
      /\ itask' = [itask EXCEPT ![p][i].pc = "aliased"]
      /\ UNCHANGED icr
      /\ itask[p][i].pc = "secret"
  BY DEF I!EnsureAlias, I!Continues, I!Claims, I!At
<1>2. alias \in [Pods -> [RustFSInstances -> I!Alias]]
  BY DEF InstancesOK, I!TypeOK, I!Instances
<1>3. I!AliasSeen(p, i).endpoint \in Endpoints
  BY <1>1, RunningTask DEF I!AliasSeen, I!RustFSInstance
<1>4. NoEndpoint \notin Endpoints
  BY ConstantsAssumption DEF I!ConstantsAssumption
<1>5. I!EnsuredAlias(p, i).endpoint \in Endpoints
  BY <1>3 DEF I!EnsuredAlias, InstancesOK, AliasesServe
<1>6. AliasesServe'
  <2>1. ASSUME NEW q \in Pods, NEW j \in RustFSInstances
        PROVE  /\ alias'[q][j] = I!NoAlias \/ alias'[q][j].endpoint \in Endpoints
               /\ itask'[q][j].pc = "aliased" => alias'[q][j].endpoint # NoEndpoint
    <3>1. CASE q = p /\ j = i
      BY <1>1, <1>2, <1>4, <1>5, <3>1
    <3>2. CASE q # p \/ j # i
      <4>1. alias'[q][j] = alias[q][j] /\ itask'[q][j] = itask[q][j]
        BY <1>1, <1>2, <3>2, RunningTask
      <4> QED BY <4>1 DEF InstancesOK, AliasesServe, servers
    <3> QED BY <3>1, <3>2
  <2> QED BY <2>1 DEF AliasesServe, servers
<1>7. CASE alias[p][i] = I!NoAlias
  <2>1. servers[p][i] = NoEndpoint
    BY <1>7 DEF servers, I!NoAlias
  <2>2. servers' = [servers EXCEPT ![p][i] = I!EnsuredAlias(p, i).endpoint]
    BY <1>1, <1>2 DEF servers
  <2> QED BY <1>1, <1>5, <1>6, <2>1, <2>2 DEF Seen, Connected, rustfs
<1>8. CASE alias[p][i] # I!NoAlias
  <2>1. alias' = alias
    BY <1>1, <1>2, <1>8 DEF I!EnsuredAlias
  <2> QED BY <1>1, <1>6, <2>1 DEF Seen, rustfs, servers
<1> QED BY <1>7, <1>8

(* What a reconcile of an instance does is what buckets expect.            *)
LEMMA ReconcileSeen ==
  ASSUME InstancesOK, NEW p \in Pods, NEW i \in RustFSInstances,
         I!Reconcile(p, i)
  PROVE  Seen /\ AliasesServe'
<1> DEFINE c == itask[p][i].cr
<1>1. itask[p][i].pc # "idle" => c \in I!RustFSInstance
  BY RunningTask
<1>2. CASE I!Begin(p, i) /\ I!OnlyCr
  <2>1. Quiet
    <3>1. itask' = itask \/ \E w : w.pc = "read" /\ itask' = [itask EXCEPT ![p][i] = w]
      <4>1. [I!Idle EXCEPT !.pc = "read", !.cr = icr[i], !.crFresh = TRUE].pc = "read"
        BY DEF I!Idle
      <4> QED BY <1>2, <4>1 DEF I!Begin
    <3>2. \A q \in Pods, j \in RustFSInstances : itask'[q][j].pc \in {itask[q][j].pc, "read"}
      BY SMTT(60), <3>1, RunningTask
    <3> QED BY <1>2, <3>2 DEF Quiet, I!OnlyCr
  <2> QED BY <1>2, <2>1, UnwrittenSeen DEF I!Begin
<1>3. CASE I!get_secret(p, i)
  <2>1. CASE I!Err(p, i)
    BY <1>3, <2>1, EndsQuiet, UnwrittenSeen DEF I!get_secret, I!Err, I!OnlyCr
  <2>2. CASE /\ \E stored : itask' = [itask EXCEPT ![p][i] =
                  [@ EXCEPT !.pc = "secret", !.dep = stored, !.depFresh = TRUE]]
             /\ UNCHANGED icr
    <3>1. PICK stored : itask' = [itask EXCEPT ![p][i] =
            [itask[p][i] EXCEPT !.pc = "secret", !.dep = stored, !.depFresh = TRUE]]
      BY <2>2
    <3>2. [itask[p][i] EXCEPT !.pc = "secret", !.dep = stored, !.depFresh = TRUE].pc
            = "secret"
      BY RunningTask DEF I!TaskOf
    <3>3. Quiet
      BY <1>3, <3>1, <3>2, RunningTask DEF Quiet, I!get_secret, I!OnlyCr
    <3> QED BY <2>2, <3>3, UnwrittenSeen
  <2> QED BY <1>3, <2>1, <2>2 DEF I!get_secret
<1>4. CASE I!unlabel_secret(p, i) \/ I!label_secret(p, i)
  BY <1>4, WriteLabelQuiet, ContinuesQuiet, UnwrittenSeen
     DEF I!unlabel_secret, I!label_secret, I!OnlyCr
<1>5. CASE I!reread_secret(p, i) \/ I!SecretIsAlreadyLabeled(p, i) \/ I!InvalidSecret(p, i)
  BY <1>5, EndsQuiet, ContinuesQuiet, UnwrittenSeen
     DEF I!reread_secret, I!SecretIsAlreadyLabeled, I!InvalidSecret, I!Err, I!OnlyCr
<1>6. CASE \/ I!init_object(p, i) \/ I!Finalize(p, i) \/ I!AddFinalizer(p, i)
           \/ I!SaveLabeled(p, i) \/ I!SaveUnlabeled(p, i) \/ I!Publish(p, i)
  <2>1. itask[p][i].pc # "idle" /\ UNCHANGED alias
    BY <1>6 DEF I!init_object, I!Finalize, I!ReadyToFinalize, I!AddFinalizer,
                I!SaveLabeled, I!SaveUnlabeled, I!Publish, I!Claims, I!Wants,
                I!At, I!OnlyCr
  <2>2. CASE I!init_object(p, i) \/ I!SaveLabeled(p, i) \/ I!SaveUnlabeled(p, i)
    <3>1. PICK new : I!Replace(p, i, [c EXCEPT !.conditions = new], FALSE)
      <4>1. CASE I!init_object(p, i)
        BY <4>1 DEF I!init_object
      <4>2. CASE I!SaveLabeled(p, i)
        BY <4>2 DEF I!SaveLabeled, I!SetLabeled
      <4>3. CASE I!SaveUnlabeled(p, i)
        BY <4>3 DEF I!SaveUnlabeled, I!SetLabeled
      <4> QED BY <2>2, <4>1, <4>2, <4>3
    <3>2. /\ [c EXCEPT !.conditions = new].endpoint = c.endpoint
          /\ [c EXCEPT !.conditions = new].ready = c.ready
      BY <1>1, <2>1 DEF I!RustFSInstance
    <3> QED BY <2>1, <3>1, <3>2, ReplaceSeen
  <2>3. CASE I!Finalize(p, i) \/ I!AddFinalizer(p, i)
    <3>1. PICK new : I!Replace(p, i, [c EXCEPT !.fins = new], FALSE)
      BY <2>3 DEF I!Finalize, I!AddFinalizer
    <3>2. /\ [c EXCEPT !.fins = new].endpoint = c.endpoint
          /\ [c EXCEPT !.fins = new].ready = c.ready
      BY <1>1, <2>1 DEF I!RustFSInstance
    <3> QED BY <2>1, <3>1, <3>2, ReplaceSeen
  <2>4. CASE I!Publish(p, i)
    <3>1. PICK new : I!Replace(p, i, [c EXCEPT !.ready = TRUE, !.from = new], TRUE)
      BY <2>4 DEF I!Publish
    <3>2. /\ [c EXCEPT !.ready = TRUE, !.from = new].endpoint = c.endpoint
          /\ [c EXCEPT !.ready = TRUE, !.from = new].ready = TRUE
      BY <1>1, <2>1 DEF I!RustFSInstance
    <3>3. servers[p][i] # NoEndpoint
      BY <2>4 DEF I!Publish, I!At, InstancesOK, AliasesServe
    <3> QED BY <2>1, <3>1, <3>2, <3>3, ReplaceSeen
  <2> QED BY <1>6, <2>2, <2>3, <2>4
<1>7. CASE I!EnsureAlias(p, i)
  BY <1>7, EnsureAliasSeen
<1> QED BY <1>2, <1>3, <1>4, <1>5, <1>6, <1>7 DEF I!Reconcile


(* A user's write of an instance. *)
LEMMA WriteCrSeen ==
  ASSUME InstancesOK, NEW i \in RustFSInstances, NEW object,
         I!WriteCr(i, object), UNCHANGED alias,
         IF icr[i] = Absent
           THEN object # Absent /\ object.ready = FALSE /\ object.endpoint \in Endpoints
           ELSE \/ object = Absent
                \/ object.endpoint \in Endpoints /\ object.ready = icr[i].ready
  PROVE  Seen /\ AliasesServe'
<1>1. icr' = [icr EXCEPT ![i] = object] /\ itask' = I!CrOutdated(itask, i)
  BY DEF I!WriteCr
<1>2. ASSUME NEW q \in Pods, NEW j \in RustFSInstances
      PROVE  I!CrOutdated(itask, i)[q][j].pc = itask[q][j].pc
  BY RunningTask DEF I!CrOutdated, I!TaskOf
<1>3. Quiet
  BY <1>1, <1>2 DEF Quiet
<1> QED BY <1>1, <1>3, WrittenSeen

(* A user's write of a Secret is not seen by buckets.                      *)
LEMMA WriteSecretSeen ==
  ASSUME InstancesOK, NEW s, NEW object, NEW label, I!WriteSecret(s, object, label)
  PROVE  Seen /\ AliasesServe'
<1>1. itask' = I!SecretOutdated(itask, s) /\ UNCHANGED <<icr, alias>>
  BY DEF I!WriteSecret
<1>2. \A q \in Pods, j \in RustFSInstances :
        I!SecretOutdated(itask, s)[q][j].pc = itask[q][j].pc
  BY OutdatedSteps
<1>3. Quiet
  BY <1>1, <1>2 DEF Quiet
<1> QED BY <1>1, <1>3, UnwrittenSeen

(* What users do with instances and Secrets is what buckets expect.        *)
LEMMA UserSeen ==
  ASSUME InstancesOK, I!User
  PROVE  Seen /\ AliasesServe'
<1>1. CASE \E s \in Secrets : I!CreateSecret(s) \/ I!EditSecret(s) \/ I!DeleteSecret(s)
  BY <1>1, WriteSecretSeen DEF I!CreateSecret, I!EditSecret, I!DeleteSecret
<1>2. ASSUME NEW i \in RustFSInstances, UNCHANGED alias,
             NEW object \in I!NewInstances, I!CreateCr(i, object)
      PROVE  Seen /\ AliasesServe'
  <2>1. PICK s \in Secrets, e \in Endpoints :
          object = [deleting |-> FALSE, fins |-> Foreign, secretRef |-> s,
                    endpoint |-> e, conditions |-> I!NoConditions(I!ConditionTypes),
                    ready |-> FALSE, from |-> NoEndpoint]
    BY DEF I!NewInstances
  <2>2. object.ready = FALSE /\ object.endpoint \in Endpoints
    BY <2>1
  <2>3. object # Absent
    <3>1. I!NoConditions(I!ConditionTypes) \in [I!ConditionTypes -> I!ConditionStatus]
      BY DEF I!NoConditions, I!ConditionStatus
    <3>2. object \in I!RustFSInstance
      BY <2>1, <3>1 DEF I!RustFSInstance
    <3> QED BY <3>2, ConstantsAssumption DEF I!ConstantsAssumption
  <2> QED BY <1>2, <2>2, <2>3, WriteCrSeen DEF I!CreateCr
<1>3. ASSUME NEW i \in RustFSInstances, UNCHANGED alias,
             I!DeleteCr(i) \/ I!EditInstance(i) \/ I!DropForeign(i)
      PROVE  Seen /\ AliasesServe'
  <2>1. icr[i] # Absent /\ icr[i] \in I!RustFSInstance
    BY <1>3, RunningTask DEF I!DeleteCr, I!EditInstance, I!DropForeign, InstancesOK,
                             I!TypeOK, I!ReconcilerTypeOK
  <2>2. PICK object : /\ I!WriteCr(i, object)
                      /\ \/ object = Absent
                         \/ object.endpoint \in Endpoints /\ object.ready = icr[i].ready
    <3>1. CASE I!DeleteCr(i)
      <4>1. \A d : I!Reaped(d) \in {Absent, d}
        BY DEF I!Reaped
      <4>2. /\ [icr[i] EXCEPT !.deleting = TRUE].endpoint \in Endpoints
            /\ [icr[i] EXCEPT !.deleting = TRUE].ready = icr[i].ready
        BY <2>1 DEF I!RustFSInstance
      <4> QED BY <3>1, <4>1, <4>2 DEF I!DeleteCr
    <3>2. CASE I!DropForeign(i)
      <4>1. \A d : I!Reaped(d) \in {Absent, d}
        BY DEF I!Reaped
      <4>2. /\ [icr[i] EXCEPT !.fins = @ \ Foreign].endpoint \in Endpoints
            /\ [icr[i] EXCEPT !.fins = @ \ Foreign].ready = icr[i].ready
        BY <2>1 DEF I!RustFSInstance
      <4> QED BY <3>2, <4>1, <4>2 DEF I!DropForeign
    <3>3. CASE I!EditInstance(i)
      <4>1. PICK s \in Secrets, e \in Endpoints :
              I!WriteCr(i, [icr[i] EXCEPT !.secretRef = s, !.endpoint = e])
        BY <3>3 DEF I!EditInstance
      <4>2. /\ [icr[i] EXCEPT !.secretRef = s, !.endpoint = e].endpoint = e
            /\ [icr[i] EXCEPT !.secretRef = s, !.endpoint = e].ready = icr[i].ready
        BY <2>1 DEF I!RustFSInstance
      <4> QED BY <4>1, <4>2
    <3> QED BY <1>3, <3>1, <3>2, <3>3
  <2> QED BY <1>3, <2>1, <2>2, WriteCrSeen
<1> QED BY <1>1, <1>2, <1>3 DEF I!User, I!OnlyCr, I!Instances

(* The controllers share the number of faults, which only restarts change. *)
LEMMA InstanceFaults ==
  ASSUME (\E p \in Pods, i \in RustFSInstances : I!Reconcile(p, i)) \/ I!User
  PROVE  UNCHANGED faults
<1>1. ASSUME NEW p, NEW i, NEW object, NEW again, I!Replace(p, i, object, again)
      PROVE  UNCHANGED faults
  BY ZenonT(60), <1>1 DEF I!Replace, I!Updates, I!Store, I!Ends, I!Err
<1>2. ASSUME NEW p, NEW i, NEW label, NEW step, I!WriteLabel(p, i, label, step)
      PROVE  UNCHANGED faults
  BY <1>2 DEF I!WriteLabel, I!Continues, I!Err, I!Ends
<1>3. ASSUME NEW p, NEW i, I!Reconcile(p, i)
      PROVE  UNCHANGED faults
  BY ZenonT(60), <1>1, <1>2, <1>3
     DEF I!Reconcile, I!Begin, I!init_object, I!get_secret, I!unlabel_secret,
         I!Finalize, I!AddFinalizer, I!label_secret, I!reread_secret,
         I!SecretIsAlreadyLabeled, I!SaveLabeled, I!SaveUnlabeled, I!SetLabeled,
         I!InvalidSecret, I!EnsureAlias, I!Publish, I!Continues, I!Err, I!Ends
<1>4. CASE I!User
  BY <1>4 DEF I!User, I!CreateCr, I!DeleteCr, I!EditInstance, I!DropForeign, I!WriteCr,
              I!CreateSecret, I!EditSecret, I!DeleteSecret, I!WriteSecret, I!Edit
<1> QED BY <1>3, <1>4

(* A reconcile of a bucket does not change the number of faults.           *)
LEMMA ReconcileFaults ==
  ASSUME NEW p, NEW b, B!Reconcile(p, b)
  PROVE  UNCHANGED faults
<1>1. ASSUME NEW object, NEW again, B!ReplaceStamped(p, b, object, again)
      PROVE  UNCHANGED faults
  BY <1>1 DEF B!ReplaceStamped, B!Replace, B!Updates, B!Store, B!Ends, B!Err
<1>2. ASSUME NEW object, NEW again, B!Replace(p, b, object, again)
      PROVE  UNCHANGED faults
  BY <1>1, <1>2 DEF B!ReplaceStamped
<1>3. ASSUME NEW outcomes, NEW step, B!Commands(p, b, outcomes, step)
      PROVE  UNCHANGED faults
  BY <1>3 DEF B!Commands, B!Continues, B!Err, B!Ends
<1>4. ASSUME NEW object, NEW step, B!WriteCompanion(p, b, object, step)
      PROVE  UNCHANGED faults
  BY <1>4 DEF B!WriteCompanion, B!Continues, B!Err, B!Ends
<1>5. CASE \/ B!get_configmap(p, b) \/ B!create_configmap(p, b)
           \/ B!reread_configmap(p, b) \/ B!label_configmap(p, b)
           \/ B!own_configmap(p, b) \/ B!EnsureFinalizer(p, b)
  BY <1>2, <1>4, <1>5
     DEF B!get_configmap, B!create_configmap, B!reread_configmap, B!label_configmap,
         B!own_configmap, B!EnsureFinalizer, B!GetCompanion, B!CreateCompanion,
         B!RereadCompanion, B!LabelCompanion, B!OwnCompanion, B!ReplaceFinalizers,
         B!GotCompanion, B!Store, B!Continues, B!Err, B!Ends
<1>6. CASE \/ B!Begin(p, b) \/ B!init_object(p, b) \/ B!GetInstance(p, b)
           \/ B!delete_bucket(p, b) \/ B!Finalize(p, b) \/ B!ensure_data_configmap(p, b)
           \/ B!list_buckets(p, b) \/ B!create_bucket(p, b)
           \/ B!set_bucket_access(p, b) \/ B!Publish(p, b)
  BY <1>1, <1>2, <1>3, <1>4, <1>6
     DEF B!Begin, B!init_object, B!GetInstance, B!delete_bucket, B!Finalize,
         B!ensure_data_configmap, B!list_buckets, B!create_bucket,
         B!set_bucket_access, B!Publish, B!Ends
<1> QED BY <1>5, <1>6 DEF B!Reconcile

(* Nor do users of buckets.                                                *)
LEMMA UserFaults ==
  ASSUME NEW b, B!User(b)
  PROVE  UNCHANGED faults
  BY DEF B!User, B!CreateOwner, B!DeleteCompanion, B!EditCompanion, B!Collect,
         B!ChangeCompanion, B!EditBucket, B!DeleteCr, B!DropForeign, B!CreateCr,
         B!WriteCr, B!Edit

--------------------------------------------------------------------------------
(* Every step of the process is a step of each of the two controllers.     *)
LEMMA InstanceStep == ASSUME [Next]_vars PROVE [I!Next]_(I!vars)
<1>1. CASE \E p \in Pods, i \in RustFSInstances : InstanceReconcile(p, i)
  BY <1>1 DEF InstanceReconcile, I!Next, I!Instances
<1>2. CASE \E p \in Pods, b \in RustFSBuckets : BucketReconcile(p, b)
  <2>1. PICK p \in Pods, b \in RustFSBuckets : BucketReconcile(p, b)
    BY <1>2
  <2>2. UNCHANGED ivars /\ UNCHANGED faults
    BY <2>1, ReconcileFaults DEF BucketReconcile
  <2> QED BY <2>2 DEF ivars, I!vars
<1>3. CASE \E p \in Pods : Restart(p)
  BY <1>3 DEF Restart, I!Next, I!Fault, I!OnlyCr, I!Instances
<1>4. CASE I!User /\ UNCHANGED bvars
  BY <1>4 DEF I!Next
<1>5. CASE UNCHANGED ivars /\ \E b \in RustFSBuckets : B!User(b)
  BY <1>5, UserFaults DEF ivars, I!vars
<1>6. CASE UNCHANGED vars
  BY <1>6 DEF vars, ivars, I!vars
<1> QED BY <1>1, <1>2, <1>3, <1>4, <1>5, <1>6 DEF Next, User

(* For the bucket controller that needs what is known of the instances.    *)
LEMMA BucketStep ==
  ASSUME InstancesOK, [Next]_vars
  PROVE  [B!Next]_(B!vars) /\ AliasesServe'
<1>1. ASSUME Seen, UNCHANGED bvars, UNCHANGED faults
      PROVE  [B!Next]_(B!vars)
  BY <1>1 DEF Seen, Written, Connected, bvars, B!vars, B!Next, B!InstanceChanges,
              B!ChangeInstance, B!SetAlias
<1>2. ASSUME UNCHANGED ivars
      PROVE  AliasesServe'
  BY <1>2 DEF ivars, AliasesServe, servers, InstancesOK
<1>3. CASE \E p \in Pods, i \in RustFSInstances : InstanceReconcile(p, i)
  BY <1>1, <1>3, ReconcileSeen, InstanceFaults DEF InstanceReconcile
<1>4. CASE \E p \in Pods, b \in RustFSBuckets : BucketReconcile(p, b)
  BY <1>2, <1>4 DEF BucketReconcile, B!Next, B!Buckets
<1>5. CASE \E p \in Pods : Restart(p)
  <2>1. PICK p \in Pods : Restart(p)
    BY <1>5
  <2>2. itask' = [itask EXCEPT ![p] = [i \in RustFSInstances |-> I!Idle]] /\ UNCHANGED icr
    BY <2>1 DEF Restart, I!Restarts, I!Faulty
  <2>3. rustfs' = rustfs
    BY <2>2 DEF rustfs
  <2>4. alias \in [Pods -> [RustFSInstances -> I!Alias]]
    BY DEF InstancesOK, I!TypeOK, I!Instances
  <2>5. \/ UNCHANGED alias
        \/ alias' = [alias EXCEPT ![p] = [i \in RustFSInstances |-> I!NoAlias]]
    BY <2>1 DEF Restart
  <2>6. UNCHANGED servers \/ servers' = [servers EXCEPT ![p] = B!NoAliases]
    <3>1. CASE UNCHANGED alias
      BY <3>1 DEF servers
    <3>2. CASE alias' = [alias EXCEPT ![p] = [i \in RustFSInstances |-> I!NoAlias]]
      <4>1. \A q \in Pods : alias'[q] =
              IF q = p THEN [i \in RustFSInstances |-> I!NoAlias] ELSE alias[q]
        BY <2>4, <3>2
      <4>2. I!NoAlias.endpoint = NoEndpoint
        BY DEF I!NoAlias
      <4>3. \A q \in Pods, n \in RustFSInstances :
              alias'[q][n].endpoint = IF q = p THEN NoEndpoint ELSE alias[q][n].endpoint
        BY <4>1, <4>2
      <4> QED BY <4>3 DEF servers, B!NoAliases
    <3> QED BY <2>5, <3>1, <3>2
  <2>7. B!Fault(p)
    BY <2>1, <2>3, <2>6 DEF Restart, B!Fault, B!OnlyCr, B!OnlyKube
  <2>8. AliasesServe'
    <3>1. ASSUME NEW q \in Pods, NEW i \in RustFSInstances
          PROVE  /\ alias'[q][i] \in {alias[q][i], I!NoAlias}
                 /\ itask'[q][i].pc = "aliased" =>
                      itask[q][i].pc = "aliased" /\ alias'[q][i] = alias[q][i]
      <4>1. I!Idle.pc = "idle"
        BY DEF I!Idle
      <4>2. itask'[q] = IF q = p THEN [j \in RustFSInstances |-> I!Idle] ELSE itask[q]
        BY <2>2, RunningTask
      <4>3. alias'[q] \in {alias[q], [j \in RustFSInstances |-> I!NoAlias]}
        BY <2>4, <2>5
      <4>4. q # p => alias'[q] = alias[q]
        BY <2>4, <2>5
      <4> QED BY <4>1, <4>2, <4>3, <4>4
    <3> QED BY <3>1 DEF AliasesServe, InstancesOK, servers
  <2> QED BY <2>7, <2>8 DEF B!Next
<1>6. CASE I!User /\ UNCHANGED bvars
  BY <1>1, <1>6, UserSeen, InstanceFaults
<1>7. CASE UNCHANGED ivars /\ \E b \in RustFSBuckets : B!User(b)
  BY <1>2, <1>7 DEF B!Next, B!Buckets
<1>8. CASE UNCHANGED vars
  <2>1. UNCHANGED <<rustfs, servers>>
    BY <1>8 DEF vars, ivars, rustfs, servers
  <2> QED BY <1>2, <1>8, <2>1 DEF vars, bvars, B!vars
<1> QED BY <1>3, <1>4, <1>5, <1>6, <1>7, <1>8 DEF Next, User

(* The invariants of both controllers and what links them.                 *)
OInv == IP!IInv /\ BP!IInv /\ AliasesServe

(* The invariant has the types of all variables.                           *)
LEMMA TypesOfBoth == ASSUME OInv PROVE InstancesOK /\ TypeOK
<1>1. IP!TypeOK /\ IP!CopiesOK
  BY DEF OInv, IP!IInv, IP!SoundCrs, IP!Sound, IP!OwnTypeOK, IP!TypeOK
<1>2. BP!TypeOK
  BY DEF OInv, BP!IInv, BP!Companions, BP!CInv, BP!Sound, BP!Beside, BP!ServerTypes,
         BP!TypeOK, BP!ConfigMap, BP!Buckets
<1> QED BY <1>1, <1>2, InstanceModule, BucketModule DEF OInv, InstancesOK, TypeOK

(* A new process satisfies the invariant.                                  *)
LEMMA InitBoth == ASSUME Init PROVE OInv
<1>1. IP!IInv
  BY InstanceModule, IP!InitInv DEF Init
<1>2. BP!IInv
  BY BucketModule, BP!InitInv DEF Init
<1>3. AliasesServe
  <2>1. alias = [p \in Pods |-> [i \in RustFSInstances |-> I!NoAlias]]
    BY DEF Init, I!Init, I!Instances
  <2>2. itask = [p \in Pods |-> [i \in RustFSInstances |-> I!Idle]]
    BY DEF Init, I!Init, I!ReconcilerInit
  <2> QED BY <2>1, <2>2 DEF AliasesServe, I!Idle
<1> QED BY <1>1, <1>2, <1>3 DEF OInv

(* Every step of the process keeps it and is a step of both controllers.   *)
LEMMA StepBoth ==
  ASSUME OInv, [Next]_vars
  PROVE  OInv' /\ [I!Next]_(I!vars) /\ [B!Next]_(B!vars)
<1>1. [I!Next]_(I!vars)
  BY InstanceStep
<1>2. [B!Next]_(B!vars) /\ AliasesServe'
  BY BucketStep, TypesOfBoth
<1>3. IP!IInv'
  <2>1. [IP!Next]_(IP!vars)
    BY <1>1, InstanceModule
  <2> QED BY <2>1, InstanceModule, IP!StepGood DEF OInv, IP!Good
<1>4. BP!IInv'
  <2>1. [BP!Next]_(BP!vars)
    BY <1>2, BucketModule
  <2> QED BY <2>1, BucketModule, BP!StepGood DEF OInv, BP!Good
<1> QED BY <1>1, <1>2, <1>3, <1>4 DEF OInv

(* The invariants of both controllers hold in the process. *)
THEOREM Invariance == Spec => []OInv
<1>1. OInv /\ [Next]_vars => OInv'
  BY StepBoth
<1> QED BY <1>1, InitBoth, PTL DEF Spec

(* Every reachable state of the process is well typed. *)
THEOREM TypeCorrect == Spec => []TypeOK
<1>1. OInv => TypeOK
  BY TypesOfBoth
<1> QED BY <1>1, Invariance, PTL

(* The bucket controller, the instance controller and the restarts of the  *)
(* process together behave as BucketController lets its environment: an    *)
(* alias does not change while the pod lives, and an instance only becomes *)
(* ready when a pod has an alias for it and stays so until it is deleted.  *)
THEOREM EnvironmentJustified == Spec => InstancesBehave
<1>1. Init => B!Init
  BY DEF Init
<1>2. OInv /\ [Next]_vars => [B!Next]_(B!vars)
  BY StepBoth
<1> QED BY <1>1, <1>2, Invariance, PTL DEF Spec, InstancesBehave, B!Spec

(* So the theorems about the instance controller hold in the process.      *)
THEOREM InstancesKept ==
  Spec => []IP!ReadyIsProtected /\ IP!KeepsUserEdits /\ IP!ClaimIsExclusive
<1>1. Init => IP!Init
  BY InstanceModule DEF Init
<1>2. [Next]_vars => [IP!Next]_(IP!vars)
  BY InstanceStep, InstanceModule
<1>3. Spec => IP!Spec
  BY <1>1, <1>2, PTL DEF Spec, IP!Spec
<1> QED BY <1>3, IP!Protected, IP!EditsSurvive, IP!Exclusive, InstanceModule, PTL

(* And those about the bucket controller, with its instances made, edited  *)
(* and deleted as the other controller and its users do it.                *)
THEOREM BucketsKept ==
  ASSUME BP!OnePod, BP!OwnNames
  PROVE  Spec => BP!KeepsUserEdits /\ BP!KeepsPromise /\ BP!ReadyIsEarned
<1>1. Init => BP!Init
  BY BucketModule DEF Init
<1>2. OInv /\ [Next]_vars => [BP!Next]_(BP!vars)
  BY StepBoth, BucketModule
<1>3. Spec => BP!Spec
  BY <1>1, <1>2, Invariance, PTL DEF Spec, BP!Spec
<1> QED BY <1>3, BP!EditsSurvive, BP!PromiseKept, BP!ReadyEarned, BucketModule, PTL
================================================================================
