------------------------ MODULE BucketControllerProofs ------------------------
(***************************************************************************)
(* Proofs about BucketController, for any numbers of pods, buckets,        *)
(* instances and servers: its types, and that no edit of a user is undone. *)
(* For one pod and buckets with different names on the servers also: that  *)
(* the promise of cleanup is kept, and that a bucket earns its readiness.  *)
(* IInv has the types; PInv adds what a reconcile has established.         *)
(***************************************************************************)
EXTENDS BucketController, CompanionProofs

Companions == CInv(Steps, RustFSBucket, Endpoints)

ServerTypes ==
  /\ rustfs \in [Instances -> RustFSInstance \cup {Absent}]
  /\ alias \in [Pods -> [Instances -> Endpoints \cup {NoEndpoint}]]
  /\ store \in [Endpoints -> [BucketNames -> Accesses \cup {NoBucket}]]

IInv == Companions /\ ServerTypes

(* What every step keeps. *)
Good == IInv' /\ (edits' = edits => UserEditsKept)

(* The bucket controller is one that CompanionProofs is about.             *)
LEMMA Constants ==
  ASSUME ConstantsAssumption  PROVE Typed(Steps, RustFSBucket, Endpoints)
  BY DEF ConstantsAssumption, Typed, Steps, RustFSBucket, ConfigMap

(* A change of one field of a RustFSBucket keeps its type and the others.  *)
LEMMA BucketFields ==
  ASSUME NEW c \in RustFSBucket
  PROVE  /\ \A x \in [ConditionTypes -> ConditionStatus] :
              LET d == [c EXCEPT !.conditions = x] IN
              /\ d \in RustFSBucket
              /\ d.conditions = x /\ d.fins = c.fins /\ d.uid = c.uid
              /\ d.deleting = c.deleting /\ d.instance = c.instance
              /\ d.cleanup = c.cleanup /\ d.access = c.access
         /\ \A x \in SUBSET (Foreign \cup {FIN_CLEANUP}) :
              LET d == [c EXCEPT !.fins = x] IN
              /\ d \in RustFSBucket
              /\ d.fins = x /\ d.conditions = c.conditions /\ d.uid = c.uid
              /\ d.deleting = c.deleting /\ d.instance = c.instance
              /\ d.cleanup = c.cleanup /\ d.access = c.access
         /\ [c EXCEPT !.deleting = TRUE] \in RustFSBucket
         /\ \A n \in Uids : [c EXCEPT !.uid = n] \in RustFSBucket
  BY DEF RustFSBucket

(* set_condition keeps the type of the conditions.                         *)
LEMMA ConditionsType ==
  ASSUME NEW c \in RustFSBucket, NEW status \in ConditionStatus
  PROVE  set_condition(c.conditions, TYPE_BUCKET_READY, status)
           \in [ConditionTypes -> ConditionStatus]
  BY DEF RustFSBucket, set_condition, ConditionTypes

(* The user's fields of a copy. *)
SameSpec(object, c) ==
  /\ object.uid = c.uid
  /\ object.deleting = c.deleting
  /\ object.instance = c.instance
  /\ object.cleanup = c.cleanup
  /\ object.access = c.access
  /\ object.fins \cap Foreign = c.fins \cap Foreign

(* A copy with another status. *)
WithConditions(c, x) == [c EXCEPT !.conditions = x]

(* A write of the status changes the condition and nothing else.           *)
LEMMA StatusFields ==
  ASSUME NEW c \in RustFSBucket, NEW status \in ConditionStatus,
         NEW object, object = WithConditions(c, set_condition(c.conditions,
                                                TYPE_BUCKET_READY, status))
  PROVE  /\ object \in RustFSBucket
         /\ SameSpec(object, c)
         /\ object.fins = c.fins
         /\ BucketReady(object) <=> status = "True"
<1> DEFINE x == set_condition(c.conditions, TYPE_BUCKET_READY, status)
<1>1. x \in [ConditionTypes -> ConditionStatus] /\ x[TYPE_BUCKET_READY] = status
  BY ConditionsType DEF RustFSBucket, set_condition, ConditionTypes
<1>2. object = [c EXCEPT !.conditions = x]
  BY DEF WithConditions
<1> HIDE DEF x
<1>3. object \in RustFSBucket /\ object.fins = c.fins /\ object.conditions = x
  BY <1>1, <1>2 DEF RustFSBucket
<1>4. SameSpec(object, c)
  BY <1>1, <1>2 DEF RustFSBucket, SameSpec
<1> QED BY <1>1, <1>3, <1>4 DEF BucketReady, is_condition_true

(* A step that writes no bucket object keeps what users wrote.             *)
LEMMA UnchangedEdits ==
  ASSUME UNCHANGED cr  PROVE UserEditsKept
  BY DEF UserEditsKept, SpecsKept

(* A write of a fresh copy with other conditions or finalizers.            *)
LEMMA StoredEdits ==
  ASSUME ConstantsAssumption, IInv, NEW p \in Pods, NEW b \in Buckets,
         NEW object \in RustFSBucket, SameSpec(object, task[p][b].cr),
         Store(p, b, object)
  PROVE  UserEditsKept
<1>1. /\ cr[b] # Absent /\ task[p][b].cr = cr[b]
      /\ cr' = [cr EXCEPT ![b] = Reaped(object)]
      /\ cr \in [Buckets -> RustFSBucket \cup {Absent}]
  BY DEF Store, CrAccepted, IInv, Companions, CInv, Sound, CopiesOK, ReconcilerTypeOK,
         Buckets
<1>2. \A x \in Buckets : cr'[x] = IF x = b THEN Reaped(object) ELSE cr[x]
  BY <1>1
<1>3. Reaped(object) = Absent => cr[b].deleting /\ cr[b].fins \cap Foreign = {}
  BY <1>1 DEF Reaped, ConstantsAssumption, SameSpec
<1>4. Reaped(object) # Absent => Reaped(object) = object
  BY DEF Reaped
<1>5. ASSUME NEW field \in {"instance", "cleanup", "access"} \cup {"uid", "deleting"}
      PROVE  object[field] = cr[b][field]
  BY <1>1, <1>5 DEF SameSpec
<1>6. object.fins \cap Foreign = cr[b].fins \cap Foreign
  BY <1>1 DEF SameSpec
<1> QED BY <1>1, <1>2, <1>3, <1>4, <1>5, <1>6 DEF UserEditsKept, SpecsKept, Buckets

--------------------------------------------------------------------------------
(* The steps of a reconcile. *)

(* A reconcile that runs has a copy of its bucket. *)
LEMMA HasCopy ==
  ASSUME ConstantsAssumption, IInv, NEW p \in Pods, NEW b \in Buckets,
         ~At(p, b, "idle")
  PROVE  /\ task[p][b].cr \in RustFSBucket
         /\ task[p][b].crFresh => cr[b] # Absent /\ task[p][b].cr = cr[b]
         /\ HoldsOK(task[p][b])
         /\ task[p][b].dep \in ConfigMap \cup {Absent}
  BY Constants, Running DEF IInv, Companions, Buckets, ConfigMap

(* A step that writes no bucket object and keeps the types is good.        *)
LEMMA KeptGood ==
  ASSUME ServerTypes', Keeps(Steps, RustFSBucket, Endpoints), UNCHANGED cr
  PROVE  Good
  BY UnchangedEdits DEF Good, IInv, Companions, Keeps

(* Steps that only call the API server keep the types of the rest.         *)
LEMMA KubeTypes ==
  ASSUME IInv, OnlyKube  PROVE ServerTypes'
  BY DEF IInv, ServerTypes, OnlyKube

(* A reconcile writes its bucket and ends, or fails to.                    *)
LEMMA ReplaceGood ==
  ASSUME ConstantsAssumption, IInv, NEW p \in Pods, NEW b \in Buckets,
         NEW object \in RustFSBucket, SameSpec(object, task[p][b].cr),
         NEW again \in BOOLEAN, ReplaceStamped(p, b, object, again), OnlyCr
  PROVE  Good /\ Settles
<1>1. Keeps(Steps, RustFSBucket, Endpoints) /\ Settles
  <2>1. /\ Typed(Steps, RustFSBucket, Endpoints)
        /\ CInv(Steps, RustFSBucket, Endpoints)
        /\ b \in Objects
        /\ UNCHANGED <<companion, uid>>
    BY Constants DEF IInv, Companions, Buckets, OnlyCr
  <2> QED BY <2>1, ReplaceKeeps
<1>2. UNCHANGED cr \/ Store(p, b, object)
  BY DEF ReplaceStamped, Replace, Updates, Ends, Err
<1>3. UserEditsKept
  BY <1>2, StoredEdits, UnchangedEdits
<1> QED BY <1>1, <1>3, KubeTypes DEF Good, IInv, Companions, Keeps, OnlyCr

(* The first status is written over a copy that is the stored object.      *)
LEMMA InitObjectGood ==
  ASSUME ConstantsAssumption, IInv, NEW p \in Pods, NEW b \in Buckets,
         init_object(p, b)
  PROVE  Good /\ Settles
<1> DEFINE c == task[p][b].cr
           object == WithConditions(c, set_condition(c.conditions,
                                         TYPE_BUCKET_READY, "Unknown"))
<1>1. c \in RustFSBucket /\ "Unknown" \in ConditionStatus
  BY HasCopy DEF init_object, At, ConditionStatus
<1>2. ReplaceStamped(p, b, object, FALSE) /\ OnlyCr
  BY DEF init_object, WithConditions, ReplaceStamped
<1> HIDE DEF object
<1>3. /\ object \in RustFSBucket /\ SameSpec(object, c) /\ object.fins = c.fins
      /\ BucketReady(object) <=> "Unknown" = "True"
  BY <1>1, StatusFields DEF object
<1> QED BY <1>2, <1>3, ReplaceGood

(* So is the status that says that the bucket is ready.                    *)
LEMMA PublishGood ==
  ASSUME ConstantsAssumption, IInv, NEW p \in Pods, NEW b \in Buckets,
         Publish(p, b)
  PROVE  Good /\ Settles
<1> DEFINE c == task[p][b].cr
           object == WithConditions(c, set_condition(c.conditions,
                                         TYPE_BUCKET_READY, "True"))
<1>1. c \in RustFSBucket /\ "True" \in ConditionStatus
  BY HasCopy DEF Publish, At, ConditionStatus
<1>2. ReplaceStamped(p, b, object, TRUE) /\ OnlyCr
  BY DEF Publish, WithConditions
<1> HIDE DEF object
<1>3. /\ object \in RustFSBucket /\ SameSpec(object, c) /\ object.fins = c.fins
      /\ BucketReady(object) <=> "True" = "True"
  BY <1>1, StatusFields DEF object
<1> QED BY <1>2, <1>3, ReplaceGood

(* So are the finalizers without that of the controller.                   *)
LEMMA FinalizeGood ==
  ASSUME ConstantsAssumption, IInv, NEW p \in Pods, NEW b \in Buckets,
         Finalize(p, b)
  PROVE  Good /\ Settles
<1> DEFINE c == task[p][b].cr
           x == c.fins \ {FIN_CLEANUP}
           object == [c EXCEPT !.fins = x]
<1>1. c \in RustFSBucket
  BY HasCopy DEF Finalize, ReadyToFinalize, At
<1>2. x \in SUBSET (Foreign \cup {FIN_CLEANUP}) /\ x \cap Foreign = c.fins \cap Foreign
  BY <1>1 DEF RustFSBucket, ConstantsAssumption
<1>3. Replace(p, b, object, FALSE) /\ OnlyCr
  BY DEF Finalize
<1> HIDE DEF x
<1>4. object \in RustFSBucket /\ SameSpec(object, c)
  BY ZenonT(60), <1>1, <1>2, BucketFields DEF SameSpec
<1> QED BY <1>3, <1>4, ReplaceGood DEF ReplaceStamped

(* The finalizers that the spec asks for. *)
WantedFins(c) ==
  IF c.cleanup THEN c.fins \cup {FIN_CLEANUP} ELSE c.fins \ {FIN_CLEANUP}

(* The finalizer is written over such a copy too, after which the          *)
(* reconcile goes on with the object that it wrote.                        *)
LEMMA EnsureFinalizerGood ==
  ASSUME ConstantsAssumption, IInv, NEW p \in Pods, NEW b \in Buckets,
         EnsureFinalizer(p, b)
  PROVE  /\ Good
         /\ \/ Settles /\ UNCHANGED cr
            \/ Moves(p, b, "checked", task[p][b].cr) /\ UNCHANGED cr
            \/ \E object \in RustFSBucket :
                 /\ SameSpec(object, task[p][b].cr)
                 /\ object.fins = WantedFins(task[p][b].cr)
                 /\ object.conditions = task[p][b].cr.conditions
                 /\ Store(p, b, object)
                 /\ Moves(p, b, "checked", object)
<1> DEFINE c == task[p][b].cr
           x == WantedFins(c)
           object == [c EXCEPT !.fins = x]
<1>1. c \in RustFSBucket
  BY HasCopy DEF EnsureFinalizer, ReplaceFinalizers, At
<1>2. x \in SUBSET (Foreign \cup {FIN_CLEANUP}) /\ x \cap Foreign = c.fins \cap Foreign
  BY <1>1 DEF RustFSBucket, ConstantsAssumption, WantedFins
<1>3. ReplaceFinalizers(p, b, BucketReady(c), x) /\ OnlyKube
  BY DEF EnsureFinalizer, WantedFins
<1>4. BucketReady(c) \in BOOLEAN
  BY DEF BucketReady, is_condition_true
<1> HIDE DEF x
<1>5. /\ object \in RustFSBucket /\ SameSpec(object, c)
      /\ object.fins = x /\ object.conditions = c.conditions
  BY ZenonT(60), <1>1, <1>2, BucketFields DEF SameSpec
<1>6. /\ Keeps(Steps, RustFSBucket, Endpoints)
      /\ \/ Settles /\ UNCHANGED cr
         \/ Moves(p, b, "checked", c) /\ UNCHANGED cr
         \/ Store(p, b, object) /\ Moves(p, b, "checked", object)
  BY <1>3, <1>4, <1>5, Constants, FinalizersKeeps DEF IInv, Companions, Buckets
<1>7. UserEditsKept
  BY <1>5, <1>6, StoredEdits, UnchangedEdits
<1>8. Good
  BY <1>3, <1>6, <1>7, KubeTypes DEF Good, IInv, Companions, Keeps
<1> QED BY <1>5, <1>6, <1>8 DEF x

(* The ConfigMap. *)
LEMMA ConfigMapGood ==
  ASSUME ConstantsAssumption, IInv, NEW p \in Pods, NEW b \in Buckets,
         \/ get_configmap(p, b) \/ create_configmap(p, b)
         \/ reread_configmap(p, b) \/ label_configmap(p, b)
         \/ own_configmap(p, b) \/ ensure_data_configmap(p, b)
  PROVE  /\ Good
         /\ \/ Settles
            \/ \E step \in CompanionSteps \ {"idle"} : Moves(p, b, step, task[p][b].cr)
         /\ UNCHANGED cr /\ OnlyKube
<1>1. /\ Typed(Steps, RustFSBucket, Endpoints)
      /\ CInv(Steps, RustFSBucket, Endpoints)
      /\ b \in Objects
  BY Constants DEF IInv, Companions, Buckets
<1>2. OnlyKube
  BY DEF get_configmap, create_configmap, reread_configmap, label_configmap,
         own_configmap, ensure_data_configmap
<1> DEFINE goal == /\ Keeps(Steps, RustFSBucket, Endpoints)
                   /\ \/ Settles
                      \/ \E step \in CompanionSteps \ {"idle"} :
                           Moves(p, b, step, task[p][b].cr)
                   /\ UNCHANGED cr
<1> SUFFICES goal
  BY <1>2, KeptGood, KubeTypes
<1>3. CASE get_configmap(p, b)
  BY <1>1, <1>3, GetKeeps DEF get_configmap, CompanionSteps
<1>4. CASE create_configmap(p, b)
  BY <1>1, <1>4, CreateKeeps DEF create_configmap, CompanionSteps
<1>5. CASE reread_configmap(p, b)
  <2>1. RereadCompanion(p, b)
    BY <1>5 DEF reread_configmap
  <2>2. NextRead[task[p][b].pc] \in CompanionSteps \ {"idle"}
    BY <2>1 DEF RereadCompanion, NextRead, CompanionSteps
  <2> QED BY <1>1, <2>1, <2>2, RereadKeeps
<1>6. CASE label_configmap(p, b)
  BY <1>1, <1>6, LabelKeeps DEF label_configmap, CompanionSteps
<1>7. CASE own_configmap(p, b)
  BY <1>1, <1>7, OwnKeeps DEF own_configmap, CompanionSteps
<1>8. CASE ensure_data_configmap(p, b)
  <2>1. /\ ~At(p, b, "idle") /\ "written" \in Steps /\ "written" \in CompanionSteps
        /\ WriteCompanion(p, b, task[p][b].dep, "written")
    BY <1>8 DEF ensure_data_configmap, At, Steps, CompanionSteps
  <2>2. task[p][b].dep # Absent /\ task[p][b].dep \in CompanionOf(Endpoints)
    BY <1>8, <2>1, HasCopy DEF HoldsOK, ensure_data_configmap, At, ConfigMap
  <2>3. /\ Keeps(Steps, RustFSBucket, Endpoints)
        /\ Settles \/ Moves(p, b, "written", task[p][b].cr)
        /\ UNCHANGED cr
    BY <1>1, <2>1, <2>2, WriteKeeps
  <2> QED BY <2>1, <2>3 DEF CompanionSteps
<1> QED BY <1>3, <1>4, <1>5, <1>6, <1>7, <1>8

(* The status of the instance is read into the copy of the ConfigMap. *)
LEMMA GetInstanceGood ==
  ASSUME ConstantsAssumption, IInv, NEW p \in Pods, NEW b \in Buckets,
         GetInstance(p, b)
  PROVE  /\ Good
         /\ Settles \/ Moves(p, b, "connected", task[p][b].cr)
         /\ UNCHANGED cr
<1>1. /\ ~At(p, b, "idle") /\ OnlyCr /\ b \in Objects
      /\ Typed(Steps, RustFSBucket, Endpoints)
  BY Constants DEF GetInstance, At, Buckets
<1>2. CASE Ends(p, b, TRUE)
  BY <1>1, <1>2, EndsKeeps, KeptGood, KubeTypes DEF IInv, Companions, OnlyCr, Ends
<1> DEFINE found == rustfs[task[p][b].cr.instance]
           d == [task[p][b].dep EXCEPT !.data = found.endpoint]
           w == [task[p][b] EXCEPT !.pc = "connected", !.dep = d]
<1>3. CASE /\ found # Absent
           /\ task' = [task EXCEPT ![p][b] =
                         [@ EXCEPT !.pc = "connected", !.dep.data = found.endpoint]]
           /\ UNCHANGED <<cr, due, edits, faults>>
  <2>1. /\ task[p][b] \in TaskOf(Steps, RustFSBucket, CompanionOf(Endpoints))
        /\ task[p][b].dep \in CompanionOf(Endpoints)
        /\ task[p][b].cr \in RustFSBucket
    BY <1>1, Running, HasCopy DEF HoldsOK, At, GetInstance, IInv, Companions
  <2>2. found \in RustFSInstance
    BY <1>3, <2>1 DEF IInv, ServerTypes, RustFSBucket
  <2>3. d \in CompanionOf(Endpoints)
    BY <2>1, <2>2 DEF CompanionOf, RustFSInstance
  <2>4. task' = [task EXCEPT ![p][b] = w]
    BY <1>3
  <2> HIDE DEF d
  <2>5. /\ w \in TaskOf(Steps, RustFSBucket, CompanionOf(Endpoints))
        /\ w.pc = "connected" /\ w.cr = task[p][b].cr
        /\ w.crFresh = task[p][b].crFresh /\ w.dep = d
    BY <2>1, <2>3 DEF TaskOf, Steps
  <2> HIDE DEF w
  <2>6. Sound(Steps, RustFSBucket, CompanionOf(Endpoints))'
    <3>1. /\ due' \in [Pods -> [Objects -> BOOLEAN]]
          /\ edits' \in 0..MaxEdits /\ faults' \in 0..MaxFaults
      BY <1>3 DEF IInv, Companions, CInv, Sound, ReconcilerTypeOK
    <3>2. w.cr # Absent /\ (w.crFresh => cr[b] # Absent /\ w.cr = cr[b])
      BY <1>1, <2>5, Running DEF IInv, Companions
    <3> QED BY <1>1, <1>3, <2>4, <2>5, <3>1, <3>2, OneTask DEF IInv, Companions, CInv
  <2>7. task'[p][b] = w /\ OthersKept(p, b)
    BY <1>1, <2>4 DEF IInv, Companions, CInv, Sound, ReconcilerTypeOK, OthersKept, Kept
  <2>8. HoldsOK(task'[p][b])
    BY SMTT(60), <1>1, <2>3, <2>5, <2>7 DEF HoldsOK, Typed
  <2>9. Beside(Endpoints)'
    BY <1>1, <1>3, <2>7, <2>8, MovedBeside DEF IInv, Companions, CInv, OnlyCr
  <2>10. Good
    BY <1>1, <1>3, <2>6, <2>9, KubeTypes, UnchangedEdits
       DEF Good, IInv, Companions, CInv, OnlyCr
  <2> QED BY <1>3, <2>5, <2>7, <2>10 DEF Moves
<1> QED BY <1>2, <1>3 DEF GetInstance

(* A command of rc.                                                        *)
Commanded(p, b, outcomes, step) ==
  \/ Settles /\ UNCHANGED store
  \/ /\ Server(p, b) # NoEndpoint
     /\ \E result \in outcomes :
          store' = [store EXCEPT ![Server(p, b)][bucket_name(b)] = result]
     /\ Moves(p, b, step, task[p][b].cr)

(* A command of rc changes one bucket on one server, or fails.             *)
LEMMA CommandsGood ==
  ASSUME ConstantsAssumption, IInv, NEW p \in Pods, NEW b \in Buckets,
         NEW step \in Steps, ~At(p, b, "idle"), task[p][b].dep # Absent,
         NEW outcomes \in SUBSET (Accesses \cup {NoBucket}),
         Commands(p, b, outcomes, step)
  PROVE  Good /\ UNCHANGED <<cr, alias, rustfs>> /\ Commanded(p, b, outcomes, step)
<1>1. /\ Typed(Steps, RustFSBucket, Endpoints)
      /\ CInv(Steps, RustFSBucket, Endpoints)
      /\ b \in Objects
  BY Constants DEF IInv, Companions, Buckets
<1>2. CASE Err(p, b) /\ OnlyCr
  <2>1. Keeps(Steps, RustFSBucket, Endpoints) /\ Settles
    BY <1>1, <1>2, EndsKeeps DEF Err, OnlyCr
  <2>2. UNCHANGED <<cr, alias, rustfs, store>> /\ OnlyKube
    BY <1>2 DEF Err, Ends, OnlyCr, OnlyKube
  <2> QED BY <2>1, <2>2, KeptGood, KubeTypes DEF Commanded
<1>3. ASSUME Server(p, b) # NoEndpoint, Continues(p, b, step),
             UNCHANGED <<companion, uid, rustfs, alias>>, NEW result \in outcomes,
             store' = [store EXCEPT ![Server(p, b)][bucket_name(b)] = result]
      PROVE  Good /\ Moves(p, b, step, task[p][b].cr) /\ UNCHANGED <<cr, alias, rustfs>>
  <2>1. Keeps(Steps, RustFSBucket, Endpoints) /\ Moves(p, b, step, task[p][b].cr)
    BY <1>1, <1>3, ContinuesKeeps
  <2>2. store' \in [Endpoints -> [BucketNames -> Accesses \cup {NoBucket}]]
    BY <1>3 DEF IInv, ServerTypes
  <2>3. ServerTypes' /\ UNCHANGED cr
    BY <1>3, <2>2 DEF IInv, ServerTypes, Continues
  <2> QED BY <1>3, <2>1, <2>3, KeptGood
<1> QED BY <1>2, <1>3 DEF Commands, Commanded

(* What the server has of a bucket. *)
LEMMA CurrentType ==
  ASSUME ConstantsAssumption, IInv, NEW p \in Pods, NEW b \in Buckets,
         ~At(p, b, "idle")
  PROVE  /\ Server(p, b) \in Endpoints \cup {NoEndpoint}
         /\ Current(p, b) \in Accesses \cup {NoBucket}
         /\ bucket_name(b) \in BucketNames
         /\ task[p][b].cr.access \in Accesses
<1>1. task[p][b].cr \in RustFSBucket
  BY HasCopy
<1>2. Server(p, b) \in Endpoints \cup {NoEndpoint} /\ task[p][b].cr.access \in Accesses
  BY <1>1 DEF RustFSBucket, Server, IInv, ServerTypes
<1>3. bucket_name(b) \in BucketNames
  BY DEF BucketNames
<1> QED BY <1>2, <1>3 DEF Current, IInv, ServerTypes

(* What each command makes of the bucket on the server of its instance.    *)
ServerStep(p, b) ==
  \/ delete_bucket(p, b) \/ list_buckets(p, b)
  \/ create_bucket(p, b) \/ set_bucket_access(p, b)

(* What each of the commands does to the bucket and to the reconcile.      *)
LEMMA ServerGood ==
  ASSUME ConstantsAssumption, IInv, NEW p \in Pods, NEW b \in Buckets,
         ServerStep(p, b)
  PROVE  /\ Good
         /\ UNCHANGED <<cr, alias, rustfs>>
         /\ \/ Settles /\ UNCHANGED store
            \/ /\ Server(p, b) # NoEndpoint
               /\ \E result \in Accesses \cup {NoBucket}, step \in Steps :
                    /\ store' =
                         [store EXCEPT ![Server(p, b)][bucket_name(b)] = result]
                    /\ Moves(p, b, step, task[p][b].cr)
                    /\ \/ /\ delete_bucket(p, b)
                          /\ step = "removed" /\ result = NoBucket
                       \/ /\ step \in {"exists", "lacking"} /\ result = Current(p, b)
                       \/ /\ step = "exists" /\ result # NoBucket
                       \/ /\ step = "opened" /\ result = task[p][b].cr.access
                          /\ Current(p, b) # NoBucket
<1>1. ~At(p, b, "idle") /\ task[p][b].dep # Absent
  <2>1. ~At(p, b, "idle")
    BY DEF ServerStep, delete_bucket, MarkedForRemoval, list_buckets, create_bucket,
           set_bucket_access, At
  <2>2. HoldsOK(task[p][b])
    BY <2>1, HasCopy
  <2> QED BY <2>1, <2>2 DEF HoldsOK, ServerStep, delete_bucket, MarkedForRemoval,
           list_buckets, create_bucket, set_bucket_access, At
<1>2. /\ Current(p, b) \in Accesses \cup {NoBucket}
      /\ task[p][b].cr.access \in Accesses
  BY <1>1, CurrentType
<1>3. CASE delete_bucket(p, b)
  <2> DEFINE outcomes == rc!delete_bucket(Current(p, b))
  <2>1. outcomes \subseteq {NoBucket}
    BY DEF rc!delete_bucket, rc!Outcome
  <2>2. Commands(p, b, outcomes, "removed") /\ "removed" \in Steps
    BY <1>3 DEF delete_bucket, Steps
  <2> HIDE DEF outcomes
  <2>4. Good /\ UNCHANGED <<cr, alias, rustfs>> /\ Commanded(p, b, outcomes, "removed")
    BY <1>1, <2>1, <2>2, CommandsGood
  <2> QED BY <1>1, <1>3, <2>1, <2>2, <2>4 DEF Commanded
<1>4. CASE list_buckets(p, b)
  <2> DEFINE step == IF Listed(p, b) THEN "exists" ELSE "lacking"
  <2>1. /\ Commands(p, b, {Current(p, b)}, step)
        /\ step \in Steps /\ step \in {"exists", "lacking"}
    BY <1>4 DEF list_buckets, Steps
  <2> HIDE DEF step
  <2>4. Good /\ UNCHANGED <<cr, alias, rustfs>> /\ Commanded(p, b, {Current(p, b)}, step)
    BY <1>1, <1>2, <2>1, CommandsGood
  <2> QED BY <1>1, <1>2, <2>1, <2>4 DEF Commanded
<1>5. CASE create_bucket(p, b)
  <2> DEFINE outcomes == rc!create_bucket(Current(p, b), DefaultAccess)
  <2>1. outcomes \subseteq {DefaultAccess}
    BY DEF rc!create_bucket, rc!Outcome
  <2>2. Commands(p, b, outcomes, "exists") /\ "exists" \in Steps
    BY <1>5 DEF create_bucket, Steps
  <2>3. DefaultAccess \in Accesses /\ DefaultAccess # NoBucket
    BY DEF ConstantsAssumption
  <2> HIDE DEF outcomes
  <2>4. Good /\ UNCHANGED <<cr, alias, rustfs>> /\ Commanded(p, b, outcomes, "exists")
    BY <1>1, <2>1, <2>2, <2>3, CommandsGood
  <2> QED BY <1>1, <2>1, <2>2, <2>3, <2>4 DEF Commanded
<1>6. CASE set_bucket_access(p, b)
  <2> DEFINE outcomes == rc!set_bucket_access(Current(p, b), task[p][b].cr.access)
  <2>1. \A result \in outcomes :
          result = task[p][b].cr.access /\ Current(p, b) # NoBucket
    BY DEF rc!set_bucket_access, rc!Outcome
  <2>2. Commands(p, b, outcomes, "opened") /\ "opened" \in Steps
    BY <1>6 DEF set_bucket_access, Steps
  <2> HIDE DEF outcomes
  <2>4. Good /\ UNCHANGED <<cr, alias, rustfs>> /\ Commanded(p, b, outcomes, "opened")
    BY <1>1, <1>2, <2>1, <2>2, CommandsGood
  <2> QED BY <1>1, <1>2, <2>1, <2>2, <2>4 DEF Commanded
<1> QED BY <1>3, <1>4, <1>5, <1>6 DEF ServerStep

--------------------------------------------------------------------------------
(* The other steps. *)

(* A reconcile starts with a copy of the stored object.                    *)
LEMMA BeginGood ==
  ASSUME ConstantsAssumption, IInv, NEW p \in Pods, NEW b \in Buckets,
         Begin(p, b), OnlyCr
  PROVE  /\ Good /\ UNCHANGED cr
         /\ \/ Settles
            \/ cr[b] # Absent /\ Moves(p, b, "read", cr[b])
<1>1. UNCHANGED cr /\ OnlyKube
  BY DEF Begin, OnlyCr
<1>2. /\ Typed(Steps, RustFSBucket, Endpoints)
      /\ CInv(Steps, RustFSBucket, Endpoints)
      /\ b \in Objects
      /\ UNCHANGED <<companion, uid>>
  BY Constants DEF IInv, Companions, Buckets, OnlyCr
<1>3. /\ Keeps(Steps, RustFSBucket, Endpoints)
      /\ \/ Settles
         \/ cr[b] # Absent /\ Moves(p, b, "read", cr[b])
  BY <1>2, BeginKeeps
<1> QED BY <1>1, <1>3, KeptGood, KubeTypes

(* Faults end reconciles and write no object.                              *)
LEMMA FaultGood ==
  ASSUME ConstantsAssumption, IInv, NEW p \in Pods, Fault(p)
  PROVE  Good /\ Settles /\ UNCHANGED <<cr, store>>
<1>1. /\ Restarts(p) \/ \E b \in Objects : CallFails(p, b)
      /\ UNCHANGED <<companion, uid, rustfs, store>>
      /\ UNCHANGED alias \/ alias' = [alias EXCEPT ![p] = NoAliases]
  BY DEF Fault, OnlyCr, OnlyKube, Buckets
<1>2. Keeps(Steps, RustFSBucket, Endpoints) /\ Settles /\ UNCHANGED cr
  BY <1>1, Constants, FaultKeeps DEF IInv, Companions
<1>3. alias' \in [Pods -> [Instances -> Endpoints \cup {NoEndpoint}]]
  BY <1>1 DEF IInv, ServerTypes, NoAliases
<1>4. ServerTypes'
  BY <1>1, <1>3 DEF IInv, ServerTypes
<1> QED BY <1>1, <1>2, <1>4, KeptGood

(* Changes of instances and aliases keep the types and write no bucket.    *)
LEMMA InstancesGood ==
  ASSUME ConstantsAssumption, IInv, InstanceChanges
  PROVE  Good /\ UNCHANGED <<cr, task, store>>
<1>1. ASSUME NEW n \in Instances, ChangeInstance(n)
      PROVE  ServerTypes'
  <2>1. PICK object \in NextInstances(n) : rustfs' = [rustfs EXCEPT ![n] = object]
    BY <1>1 DEF ChangeInstance
  <2>2. rustfs[n] # Absent => rustfs[n] \in RustFSInstance
    BY DEF IInv, ServerTypes
  <2>3. Urls[n] \subseteq Endpoints
    BY DEF ConstantsAssumption
  <2>4. object \in RustFSInstance \cup {Absent}
    BY <2>1, <2>2, <2>3 DEF NextInstances, RustFSInstance
  <2> QED BY <1>1, <2>1, <2>4 DEF ChangeInstance, IInv, ServerTypes
<1>2. ASSUME NEW n \in Instances, NEW p \in Pods, SetAlias(p, n)
      PROVE  ServerTypes'
  <2>1. Urls[n] \subseteq Endpoints
    BY DEF ConstantsAssumption
  <2> QED BY <1>2, <2>1 DEF SetAlias, IInv, ServerTypes
<1>3. /\ UNCHANGED <<cr, task, due, edits, faults, companion, uid>>
      /\ UNCHANGED store
      /\ ServerTypes'
  BY <1>1, <1>2 DEF InstanceChanges, ChangeInstance, SetAlias
<1>4. Keeps(Steps, RustFSBucket, Endpoints)
  <2>1. CInv(Steps, RustFSBucket, Endpoints)'
    BY <1>3 DEF IInv, Companions, CInv, Sound, ReconcilerTypeOK, CopiesOK, Beside,
                HoldsOK
  <2>2. CompanionCopies => CompanionCopies'
    BY <1>3 DEF CompanionCopies
  <2> QED BY <2>1, <2>2 DEF Keeps
<1> QED BY <1>3, <1>4, KeptGood

(* A user's own edits. *)
LEMMA EditBucketGood ==
  ASSUME ConstantsAssumption, IInv, NEW b \in Buckets, EditBucket(b)
  PROVE  Good /\ Settles
<1>1. cr[b] # Absent /\ cr[b] \in RustFSBucket
  BY DEF EditBucket, IInv, Companions, CInv, Sound, ReconcilerTypeOK, Buckets
<1>2. PICK n \in Instances, cleanup \in BOOLEAN, access \in Accesses :
        WriteCr(b, [cr[b] EXCEPT !.instance = n, !.cleanup = cleanup,
                                 !.access = access])
  BY DEF EditBucket
<1> DEFINE object == [cr[b] EXCEPT !.instance = n, !.cleanup = cleanup,
                                   !.access = access]
<1>3. object \in RustFSBucket \cup {Absent}
  BY <1>1 DEF RustFSBucket
<1>4. OnlyKube /\ UNCHANGED <<companion, uid>>
  BY DEF EditBucket, OnlyCr
<1> HIDE DEF object
<1>5. Keeps(Steps, RustFSBucket, Endpoints) /\ Settles /\ edits' # edits
  BY <1>2, <1>3, <1>4, Constants, WriteCrKeeps DEF object, IInv, Companions, Buckets
<1> QED BY <1>4, <1>5, KubeTypes DEF Good, IInv, Companions, Keeps

(* A bucket object that a user creates is well typed.                      *)
LEMMA NewBucketsType ==
  ASSUME ConstantsAssumption  PROVE NewBuckets \subseteq RustFSBucket
<1>1. NoConditions(ConditionTypes) \in [ConditionTypes -> ConditionStatus]
  BY DEF NoConditions, ConditionStatus
<1>2. 0 \in Uids
  BY DEF Uids, ConstantsAssumption
<1> QED BY <1>1, <1>2 DEF NewBuckets, RustFSBucket

(* Users and the garbage collector keep the types.                         *)
LEMMA UserGood ==
  ASSUME ConstantsAssumption, IInv, NEW b \in Buckets, User(b)
  PROVE  Good /\ Settles /\ UNCHANGED <<rustfs, alias, store>>
<1>1. /\ Typed(Steps, RustFSBucket, Endpoints)
      /\ CInv(Steps, RustFSBucket, Endpoints)
      /\ b \in Objects
  BY Constants DEF IInv, Companions, Buckets
<1>2. OnlyKube
  BY DEF User, EditBucket, OnlyCr
<1>3. ASSUME NEW object \in NewBuckets, CreateOwner(b, object)
      PROVE  Keeps(Steps, RustFSBucket, Endpoints) /\ Settles /\ edits' # edits
  <2>1. \A n \in Uids : [object EXCEPT !.uid = n] \in RustFSBucket
    BY NewBucketsType, BucketFields
  <2> QED BY <1>1, <1>3, <2>1, CreateOwnerKeeps
<1>4. ASSUME DeleteCr(b) \/ DropForeign(b), UNCHANGED <<companion, uid>>
      PROVE  Keeps(Steps, RustFSBucket, Endpoints) /\ Settles /\ edits' # edits
  <2>1. ASSUME NEW c \in RustFSBucket
        PROVE  /\ [c EXCEPT !.deleting = TRUE] \in RustFSBucket
               /\ [c EXCEPT !.fins = @ \ Foreign] \in RustFSBucket
    BY BucketFields DEF RustFSBucket
  <2> QED BY <1>1, <1>4, <2>1, DeleteKeeps
<1>5. ASSUME DeleteCompanion(b) \/ EditCompanion(b, NoData) \/ Collect(b)
      PROVE  Keeps(Steps, RustFSBucket, Endpoints) /\ Settles /\ UNCHANGED cr
  BY <1>1, <1>5, OtherCompanionsKeep
<1>6. \/ EditBucket(b)
      \/ /\ Keeps(Steps, RustFSBucket, Endpoints) /\ Settles
         /\ edits' # edits \/ UNCHANGED cr
  BY <1>3, <1>4, <1>5 DEF User, OnlyCr
<1>7. Good /\ Settles
  <2>1. CASE EditBucket(b)
    BY <2>1, EditBucketGood
  <2>2. CASE /\ Keeps(Steps, RustFSBucket, Endpoints) /\ Settles
             /\ edits' # edits \/ UNCHANGED cr
    BY <1>2, <2>2, KubeTypes, UnchangedEdits DEF Good, IInv, Companions, Keeps
  <2> QED BY <1>6, <2>1, <2>2
<1> QED BY <1>2, <1>7 DEF OnlyKube

--------------------------------------------------------------------------------
(* The inductive invariant holds initially. *)
LEMMA InitInv == ASSUME ConstantsAssumption, Init PROVE IInv
<1>1. cr \in [Objects -> RustFSBucket \cup {Absent}]
  BY NewBucketsType DEF Init, Buckets
<1>2. MaxEdits \in Nat /\ MaxFaults \in Nat /\ "idle" \in Steps
  BY DEF ConstantsAssumption, Steps, CompanionSteps
<1>3. Sound(Steps, RustFSBucket, CompanionOf(Endpoints))
  BY <1>1, <1>2, InitSound DEF Init
<1>4. Beside(Endpoints)
  <2>1. \A p \in Pods, o \in Objects : HoldsOK(task[p][o])
    BY IdleHolds DEF Init, ReconcilerInit
  <2> QED BY <1>2, <2>1 DEF Init, CompanionInit, ReconcilerInit, Beside, Uids
<1>5. ServerTypes
  BY DEF Init, ServerTypes, NoAliases
<1> QED BY <1>3, <1>4, <1>5 DEF IInv, Companions, CInv

(* Every step of a reconcile keeps the types and what users wrote.         *)
LEMMA ReconcileGood ==
  ASSUME ConstantsAssumption, IInv, NEW p \in Pods, NEW b \in Buckets,
         Reconcile(p, b)
  PROVE  Good
  BY BeginGood, InitObjectGood, ConfigMapGood, EnsureFinalizerGood, GetInstanceGood,
     ServerGood, FinalizeGood, PublishGood DEF Reconcile, ServerStep

(* Every step keeps the inductive invariant and the edits of users.        *)
LEMMA StepGood ==
  ASSUME ConstantsAssumption, IInv, [Next]_vars
  PROVE  Good
<1>1. CASE Next
  BY <1>1, ReconcileGood, FaultGood, UserGood, InstancesGood DEF Next
<1>2. CASE UNCHANGED vars
  <2>1. IInv'
    BY <1>2 DEF vars, IInv, ServerTypes, Companions, CInv, Sound, ReconcilerTypeOK,
                CopiesOK, Beside, HoldsOK
  <2> QED BY <1>2, <2>1, UnchangedEdits DEF vars, Good
<1> QED BY <1>1, <1>2

(* The inductive invariant holds in every reachable state. *)
THEOREM Invariance == Spec => []IInv
<1>1. Init => IInv
  BY InitInv, ConstantsAssumption
<1>2. IInv /\ [Next]_vars => IInv'
  BY StepGood, ConstantsAssumption DEF Good
<1> QED BY <1>1, <1>2, PTL DEF Spec

(* Every reachable state of the controller is well typed.                  *)
THEOREM TypeCorrect == Spec => []TypeOK
<1>1. IInv => TypeOK
  BY DEF IInv, Companions, CInv, Sound, Beside, ServerTypes, TypeOK, ConfigMap, Buckets
<1> QED BY <1>1, Invariance, PTL

(* No step of the operator undoes what a user wrote in a RustFSBucket, for *)
(* any number of pods that reconcile it at the same time.                  *)
THEOREM EditsSurvive == Spec => KeepsUserEdits
<1>1. IInv /\ [Next]_vars => [edits' = edits => UserEditsKept]_vars
  BY StepGood, ConstantsAssumption DEF Good
<1> QED BY <1>1, Invariance, PTL DEF Spec, KeepsUserEdits

--------------------------------------------------------------------------------
(* The promise of cleanup is kept, and a bucket that is called ready has   *)
(* earned it, by a single pod for buckets that have different names on the *)
(* servers.  Without either hypothesis both fail.                          *)

OwnNames == \A b, c \in Buckets : bucket_name(b) = bucket_name(c) => b = c

Marked(object) == object.deleting /\ HasFinalizer(object)

(* What a reconcile has established: the finalizer of a bucket that it     *)
(* found marked is still there, and the server has what the last command   *)
(* has left.                                                               *)
Established(p, b) ==
  LET w == task[p][b]
      e == Server(p, b) IN
  /\ w.pc # "idle" /\ Marked(w.cr) => cr[b] # Absent /\ Marked(cr[b])
  /\ w.pc = "removed" =>
       Marked(w.cr) /\ e # NoEndpoint /\ store[e][bucket_name(b)] = NoBucket
  /\ w.pc = "opened" => e # NoEndpoint /\ store[e][bucket_name(b)] = w.cr.access

PInv == \A p \in Pods, b \in Buckets : Established(p, b)

Place(b) ==
  IF Servers(b) = {} THEN NoEndpoint ELSE CHOOSE e \in Servers(b) : TRUE

owners == [b \in Buckets |-> [state |-> StateOf(b), place |-> Place(b)]]

presence == [b \in Buckets |-> {e \in Endpoints : Has(e, b)}]

Turned(b) == <<StateOf(b), StateOf(b)'>> \in Promise!Turns

Earns(b) ==
  /\ cr[b] # Absent /\ ~BucketReady(cr[b])
  /\ cr'[b] # Absent /\ BucketReady(cr'[b])
  => \E e \in Servers(b) : store[e][bucket_name(b)] = cr'[b].access

Earned == \A b \in Buckets : Earns(b)

(* What every step keeps. *)
Kind == PInv' /\ [Promise!Next]_<<owners, presence>> /\ Earned

(* An owner may stay as it is.                                             *)
LEMMA SameTurns ==
  ASSUME NEW s \in Promise!States  PROVE <<s, s>> \in Promise!Turns
  BY DEF Promise!Turns

(* The owners of the abstract specification are well typed.                *)
LEMMA OwnersType ==
  ASSUME ConstantsAssumption
  PROVE  /\ IInv => owners \in [Buckets -> [state: Promise!States,
                                          place: Endpoints \cup {NoEndpoint}]]
         /\ IInv' => owners' \in [Buckets -> [state: Promise!States,
                                            place: Endpoints \cup {NoEndpoint}]]
<1>1. ASSUME NEW b \in Buckets
      PROVE  StateOf(b) \in Promise!States /\ StateOf(b)' \in Promise!States
  BY DEF StateOf, Promise!States
<1>2. ASSUME NEW b \in Buckets, IInv
      PROVE  Place(b) \in Endpoints \cup {NoEndpoint}
  <2>1. cr[b] # Absent => cr[b].instance \in Instances
    BY <1>2 DEF IInv, Companions, CInv, Sound, ReconcilerTypeOK, RustFSBucket, Buckets
  <2>2. Servers(b) \subseteq Endpoints
    BY <1>2, <2>1 DEF Servers, IInv, ServerTypes
  <2> QED BY <2>2 DEF Place
<1>3. ASSUME NEW b \in Buckets, IInv'
      PROVE  Place(b)' \in Endpoints \cup {NoEndpoint}
  <2>1. cr'[b] # Absent => cr'[b].instance \in Instances
    BY <1>3 DEF IInv, Companions, CInv, Sound, ReconcilerTypeOK, RustFSBucket, Buckets
  <2>2. Servers(b)' \subseteq Endpoints
    BY <1>3, <2>1 DEF Servers, IInv, ServerTypes
  <2> QED BY <2>2 DEF Place
<1> QED BY <1>1, <1>2, <1>3 DEF owners

(* A step that changes no bucket on a server turns owners.                 *)
LEMMA TurnsOwners ==
  ASSUME ConstantsAssumption, IInv', UNCHANGED store,
         \A b \in Buckets : Turned(b) \/ Promise!Released(b)
  PROVE  [Promise!Next]_<<owners, presence>>
<1>1. UNCHANGED presence
  BY DEF presence, Has
<1>2. owners' \in [Buckets -> [state: Promise!States,
                               place: Endpoints \cup {NoEndpoint}]]
  BY OwnersType
<1>3. \A b \in Buckets : owners[b].state = StateOf(b) /\ owners'[b].state = StateOf(b)'
  BY DEF owners
<1>4. Promise!OwnersChange
  BY <1>1, <1>2, <1>3 DEF Promise!OwnersChange, owners, presence, Place, Turned
<1> QED BY <1>4 DEF Promise!Next

(* The mark of a bucket stays. *)
MarkStays(b) ==
  cr[b] # Absent /\ Marked(cr[b]) => cr'[b] # Absent /\ Marked(cr'[b])

(* What concerns the object of a bucket. *)
ObjectKind(b) == (Turned(b) \/ Promise!Released(b)) /\ Earns(b)

(* An object that is not written keeps its mark and its state.             *)
LEMMA SameObject ==
  ASSUME NEW b \in Buckets, cr'[b] = cr[b]
  PROVE  MarkStays(b) /\ ObjectKind(b)
<1>1. StateOf(b)' = StateOf(b) /\ StateOf(b) \in Promise!States
  BY DEF StateOf, Promise!States
<1>2. Turned(b)
  BY <1>1, SameTurns DEF Turned
<1> QED BY <1>2 DEF MarkStays, ObjectKind, Earns

(* A reconcile that has ended claims nothing.                              *)
LEMMA IdleEstablished ==
  ASSUME NEW q \in Pods, NEW x \in Buckets, task'[q][x] = Idle
  PROVE  Established(q, x)'
  BY IdleHolds DEF Established

(* The server that rc knows is the same as before, if it knew one. *)
SameServer(q, x) ==
  Server(q, x) # NoEndpoint => alias'[q][task[q][x].cr.instance] = Server(q, x)

(* What a reconcile has established stays so while it rests, its server is *)
(* the same and nobody else touches its object and its bucket.             *)
LEMMA KeptEstablished ==
  ASSUME ConstantsAssumption, IInv, NEW q \in Pods, NEW x \in Buckets,
         Established(q, x), Kept(q, x), MarkStays(x), SameServer(q, x),
         \A e \in Endpoints : store'[e][bucket_name(x)] = store[e][bucket_name(x)]
  PROVE  Established(q, x)'
<1>1. CASE task[q][x].pc = "idle"
  BY SMTT(60), <1>1 DEF Kept, Established
<1>2. CASE task[q][x].pc # "idle"
  <2>1. Server(q, x) \in Endpoints \cup {NoEndpoint}
    BY <1>2, CurrentType DEF At
  <2>2. Server(q, x)' = alias'[q][task[q][x].cr.instance]
    BY DEF Kept, Server
  <2> QED BY <1>2, <2>1, <2>2 DEF Kept, Established, MarkStays, SameServer
<1> QED BY <1>1, <1>2

(* A step that lets no reconcile go on and changes the object of b at most. *)
LEMMA SettledKind ==
  ASSUME ConstantsAssumption, IInv, IInv', PInv, Settles, UNCHANGED store,
         \A q \in Pods, x \in Buckets : SameServer(q, x),
         \A x \in Buckets : MarkStays(x) /\ ObjectKind(x)
  PROVE  Kind
<1>1. ASSUME NEW q \in Pods, NEW x \in Buckets
      PROVE  Established(q, x)'
  BY IdleEstablished, KeptEstablished DEF Settles, PInv, Buckets
<1> QED BY <1>1, TurnsOwners DEF Kind, PInv, Earned, ObjectKind

(* A reconcile that goes on and changes nothing that matters here. *)
LEMMA MovedKind ==
  ASSUME ConstantsAssumption, IInv, IInv', PInv, NEW p \in Pods, NEW b \in Buckets,
         UNCHANGED <<cr, alias, store>>, NEW step, NEW c, Moves(p, b, step, c),
         step \notin {"removed", "opened"},
         Marked(c) => cr[b] # Absent /\ Marked(cr[b])
  PROVE  Kind
<1>1. \A q \in Pods, x \in Buckets : SameServer(q, x)
  BY DEF SameServer, Server
<1>2. \A x \in Buckets : MarkStays(x) /\ ObjectKind(x)
  BY SameObject
<1>3. ASSUME NEW q \in Pods, NEW x \in Buckets, Kept(q, x)
      PROVE  Established(q, x)'
  BY <1>1, <1>2, <1>3, KeptEstablished DEF PInv
<1>4. Established(p, b)'
  BY DEF Moves, Established
<1>5. PInv'
  BY <1>3, <1>4 DEF PInv, Moves, OthersKept, Buckets
<1> QED BY <1>2, <1>5, TurnsOwners DEF Kind, Earned, ObjectKind

(* The copy of a running reconcile was marked only if its bucket is.       *)
LEMMA CopyMarked ==
  ASSUME PInv, NEW p \in Pods, NEW b \in Buckets, ~At(p, b, "idle"),
         Marked(task[p][b].cr)
  PROVE  cr[b] # Absent /\ Marked(cr[b])
  BY DEF PInv, Established, At

(* Without a change of the aliases the server of each bucket is the same.  *)
LEMMA ServersKept ==
  ASSUME UNCHANGED alias
  PROVE  \A q \in Pods, x \in Buckets : SameServer(q, x)
  BY DEF SameServer, Server

(* What is known of a write of the object of b by its own reconcile.       *)
Written(p, b, object) ==
  /\ cr[b] # Absent /\ task[p][b].cr = cr[b] /\ cr[b] \in RustFSBucket
  /\ cr[b].deleting => object.fins \subseteq cr[b].fins
  /\ \A x \in Buckets : x # b => cr'[x] = cr[x]
  /\ \/ object.deleting /\ object.fins = {} /\ cr'[b] = Absent
     \/ ~(object.deleting /\ object.fins = {}) /\ cr'[b] = object /\ object # Absent

(* A write that the API server accepts is made over the stored object.     *)
LEMMA StoredObject ==
  ASSUME ConstantsAssumption, IInv, NEW p \in Pods, NEW b \in Buckets,
         NEW object \in RustFSBucket, Store(p, b, object)
  PROVE  Written(p, b, object)
<1>1. /\ cr[b] # Absent /\ task[p][b].cr = cr[b]
      /\ cr' = [cr EXCEPT ![b] = Reaped(object)]
      /\ cr \in [Buckets -> RustFSBucket \cup {Absent}]
      /\ cr[b].deleting => object.fins \subseteq cr[b].fins
  BY DEF Store, CrAccepted, Admits, IInv, Companions, CInv, Sound, CopiesOK,
         ReconcilerTypeOK, Buckets
<1>2. object # Absent
  BY DEF ConstantsAssumption
<1> QED BY <1>1, <1>2 DEF Reaped, Written

(* A write of other conditions. *)
LEMMA StatusKind ==
  ASSUME ConstantsAssumption, IInv, IInv', PInv, NEW p \in Pods, NEW b \in Buckets,
         NEW object \in RustFSBucket, SameSpec(object, task[p][b].cr),
         object.fins = task[p][b].cr.fins,
         NEW again \in BOOLEAN, ReplaceStamped(p, b, object, again), OnlyCr, Settles,
         BucketReady(object)
           => /\ Server(p, b) # NoEndpoint
              /\ store[Server(p, b)][bucket_name(b)] = object.access
  PROVE  Kind
<1>1. UNCHANGED <<alias, store>>
  BY DEF OnlyCr, OnlyKube
<1>2. CASE UNCHANGED cr
  BY <1>1, <1>2, SameObject, ServersKept, SettledKind
<1>3. CASE Store(p, b, object)
  <2>1. Written(p, b, object)
    BY <1>3, StoredObject
  <2>2. /\ object.deleting = cr[b].deleting /\ object.fins = cr[b].fins
        /\ object.cleanup = cr[b].cleanup
        /\ object.instance = cr[b].instance /\ object.access = cr[b].access
    BY <2>1 DEF Written, SameSpec
  <2>3. MarkStays(b)
    BY <2>1, <2>2 DEF Written, MarkStays, Marked, HasFinalizer
  <2>5. Turned(b)
    <3>1. CASE cr'[b] = Absent
      <4>1. StateOf(b) = "kept" /\ StateOf(b)' = "none"
        BY <2>1, <2>2, <3>1 DEF Written, StateOf, HasFinalizer
      <4> QED BY <4>1 DEF Turned, Promise!Turns
    <3>2. CASE cr'[b] = object
      <4>1. StateOf(b) = StateOf(b)' /\ StateOf(b) \in Promise!States
        BY <2>1, <2>2, <3>2 DEF Written, StateOf, HasFinalizer, Promise!States
      <4> QED BY <4>1, SameTurns DEF Turned
    <3> QED BY <2>1, <3>1, <3>2 DEF Written
  <2>6. Earns(b)
    <3>1. ASSUME cr'[b] # Absent, BucketReady(cr'[b])
          PROVE  /\ Server(p, b) \in Servers(b)
                 /\ store[Server(p, b)][bucket_name(b)] = cr'[b].access
      BY <2>1, <3>1 DEF Written, Servers, Server
    <3> QED BY <3>1 DEF Earns
  <2>7. \A x \in Buckets : MarkStays(x) /\ ObjectKind(x)
    BY <2>1, <2>3, <2>5, <2>6, SameObject DEF Written, ObjectKind
  <2> QED BY <1>1, <2>7, ServersKept, SettledKind
<1> QED BY <1>2, <1>3 DEF ReplaceStamped, Replace, Updates, Ends, Err

(* The first status leaves the promise as it is.                           *)
LEMMA InitObjectKind ==
  ASSUME ConstantsAssumption, IInv, PInv, NEW p \in Pods, NEW b \in Buckets,
         init_object(p, b)
  PROVE  Kind
<1> DEFINE c == task[p][b].cr
           object == WithConditions(c, set_condition(c.conditions,
                                         TYPE_BUCKET_READY, "Unknown"))
<1>1. c \in RustFSBucket /\ "Unknown" \in ConditionStatus
  BY HasCopy DEF init_object, At, ConditionStatus
<1>2. ReplaceStamped(p, b, object, FALSE) /\ OnlyCr
  BY DEF init_object, WithConditions, ReplaceStamped
<1> HIDE DEF object
<1>3. /\ object \in RustFSBucket /\ SameSpec(object, c) /\ object.fins = c.fins
      /\ BucketReady(object) <=> "Unknown" = "True"
  BY <1>1, StatusFields DEF object
<1>4. IInv' /\ Settles
  BY InitObjectGood DEF Good
<1> QED BY <1>2, <1>3, <1>4, StatusKind

(* The bucket is published when it is as the spec says.                    *)
LEMMA PublishKind ==
  ASSUME ConstantsAssumption, IInv, PInv, NEW p \in Pods, NEW b \in Buckets,
         Publish(p, b)
  PROVE  Kind
<1> DEFINE c == task[p][b].cr
           object == WithConditions(c, set_condition(c.conditions,
                                         TYPE_BUCKET_READY, "True"))
<1>1. c \in RustFSBucket /\ "True" \in ConditionStatus
  BY HasCopy DEF Publish, At, ConditionStatus
<1>2. ReplaceStamped(p, b, object, TRUE) /\ OnlyCr
  BY DEF Publish, WithConditions
<1> HIDE DEF object
<1>3. /\ object \in RustFSBucket /\ SameSpec(object, c) /\ object.fins = c.fins
      /\ BucketReady(object) <=> "True" = "True"
  BY <1>1, StatusFields DEF object
<1>4. IInv' /\ Settles
  BY PublishGood DEF Good
<1>5. /\ Server(p, b) # NoEndpoint
      /\ store[Server(p, b)][bucket_name(b)] = object.access
  BY <1>3 DEF PInv, Established, Publish, At, SameSpec
<1> QED BY <1>2, <1>3, <1>4, <1>5, StatusKind

(* A copy with other finalizers. *)
LEMMA FinsFields ==
  ASSUME ConstantsAssumption, NEW c \in RustFSBucket,
         NEW x \in SUBSET (Foreign \cup {FIN_CLEANUP}), x \cap Foreign = c.fins \cap Foreign,
         NEW object, object = [c EXCEPT !.fins = x]
  PROVE  /\ object \in RustFSBucket
         /\ SameSpec(object, c)
         /\ object.fins = x
         /\ BucketReady(object) <=> BucketReady(c)
<1>1. /\ object \in RustFSBucket /\ object.fins = x
      /\ object.conditions = c.conditions
  BY DEF RustFSBucket
<1>2. SameSpec(object, c)
  BY DEF RustFSBucket, SameSpec
<1> QED BY <1>1, <1>2 DEF BucketReady

(* With one pod, the place of a bucket is the server of its reconcile.     *)
LEMMA OneServer ==
  ASSUME OnePod, NEW p \in Pods, NEW b \in Buckets, cr[b] # Absent,
         task[p][b].cr = cr[b], Server(p, b) # NoEndpoint
  PROVE  Place(b) = Server(p, b)
<1>1. \A q \in Pods : q = p
  BY DEF OnePod
<1>2. Servers(b) = {Server(p, b)}
  BY <1>1 DEF Servers, Server
<1> QED BY <1>2 DEF Place

(* A bucket whose last finalizer may go is not on its server any more.     *)
LEMMA FinalizeKind ==
  ASSUME ConstantsAssumption, OnePod, IInv, PInv, NEW p \in Pods, NEW b \in Buckets,
         Finalize(p, b)
  PROVE  Kind
<1> DEFINE c == task[p][b].cr
           x == c.fins \ {FIN_CLEANUP}
           object == [c EXCEPT !.fins = x]
<1>1. c \in RustFSBucket /\ ~At(p, b, "idle")
  BY HasCopy DEF Finalize, ReadyToFinalize, At
<1>2. x \in SUBSET (Foreign \cup {FIN_CLEANUP}) /\ x \cap Foreign = c.fins \cap Foreign
  BY <1>1 DEF RustFSBucket, ConstantsAssumption
<1>3. Replace(p, b, object, FALSE) /\ UNCHANGED <<alias, store>>
  BY DEF Finalize, OnlyCr, OnlyKube
<1>4. /\ object \in RustFSBucket /\ SameSpec(object, c) /\ object.fins = x
      /\ BucketReady(object) <=> BucketReady(c)
  <2>1. object = [c EXCEPT !.fins = x]
    OBVIOUS
  <2> HIDE DEF c, x, object
  <2> QED BY <1>1, <1>2, <2>1, FinsFields
<1> HIDE DEF object
<1>5. IInv' /\ Settles
  BY FinalizeGood DEF Good
<1>6. CASE UNCHANGED cr
  BY <1>3, <1>5, <1>6, SameObject, ServersKept, SettledKind
<1>7. CASE Updates(p, b, object)
  <2>1. Written(p, b, object) /\ task'[p][b] = Idle
    <3>1. task' = Ended(CrOutdated(task, b), p, b) /\ Store(p, b, object)
      BY <1>7 DEF Updates
    <3>2. CrOutdated(task, b) \in
            [Pods -> [Objects -> TaskOf(Steps, RustFSBucket, CompanionOf(Endpoints))]]
      BY OutdatedTasks DEF IInv, Companions, CInv, Sound, Buckets
    <3> QED BY <1>4, <3>1, <3>2, StoredObject DEF Ended, Buckets
  <2>2. /\ object.deleting = cr[b].deleting /\ object.fins = cr[b].fins \ {FIN_CLEANUP}
        /\ BucketReady(object) <=> BucketReady(cr[b])
        /\ c = cr[b] /\ cr[b] # Absent
    BY <1>4, <2>1 DEF Written, SameSpec
  <2>3. Earns(b)
    BY <2>1, <2>2 DEF Written, Earns
  <2>4. StateOf(b)' \in {"kept", "none"}
    BY <2>1, <2>2 DEF Written, StateOf, HasFinalizer
  <2>5. Turned(b) \/ Promise!Released(b)
    <3>1. CASE At(p, b, "removed")
      <4>1. /\ Marked(cr[b])
            /\ Server(p, b) # NoEndpoint
            /\ store[Server(p, b)][bucket_name(b)] = NoBucket
        BY <2>2, <3>1 DEF PInv, Established, At
      <4>2. Place(b) = Server(p, b) /\ ~Has(Place(b), b)
        BY <2>2, <4>1, OneServer DEF Has
      <4>3. StateOf(b) \in {"marked", "condemned"}
        BY <2>2, <4>1 DEF StateOf, Marked
      <4>4. /\ owners[b].state = StateOf(b) /\ owners[b].place = Place(b)
            /\ owners'[b].state = StateOf(b)'
            /\ presence[b] = {e \in Endpoints : Has(e, b)}
        BY DEF owners, presence
      <4>5. CASE StateOf(b) = "marked"
        BY <2>4, <4>5 DEF Turned, Promise!Turns
      <4>6. CASE StateOf(b) = "condemned"
        <5>1. /\ owners[b].state = "condemned"
              /\ owners'[b].state \in {"kept", "none"}
              /\ owners[b].place \notin presence[b]
          BY <2>4, <4>2, <4>4, <4>6
        <5> QED BY <5>1 DEF Promise!Released, owners, presence, Place
      <4> QED BY <4>3, <4>5, <4>6
    <3>2. CASE ~HasFinalizer(c)
      <4>1. StateOf(b) = "kept"
        BY <2>2, <3>2 DEF StateOf
      <4> QED BY <2>4, <4>1 DEF Turned, Promise!Turns, Promise!States
    <3> QED BY <3>1, <3>2 DEF Finalize, ReadyToFinalize
  <2>6. \A y \in Buckets : ObjectKind(y) /\ (y # b => MarkStays(y))
    BY <2>1, <2>3, <2>5, SameObject DEF Written, ObjectKind
  <2>7. ASSUME NEW q \in Pods, NEW y \in Buckets
        PROVE  Established(q, y)'
    <3>1. CASE y = b
      BY <2>1, <3>1, IdleEstablished DEF OnePod
    <3>2. CASE y # b
      BY <1>3, <1>5, <2>6, <3>2, ServersKept, IdleEstablished, KeptEstablished
         DEF Settles, PInv, Buckets
    <3> QED BY <3>1, <3>2
  <2> QED BY <1>3, <1>5, <2>6, <2>7, TurnsOwners DEF Kind, PInv, Earned, ObjectKind
<1> QED BY <1>3, <1>6, <1>7 DEF Replace, Ends, Err

(* The finalizer goes while the spec does not ask for cleanup.             *)
LEMMA EnsureFinalizerKind ==
  ASSUME ConstantsAssumption, OnePod, IInv, PInv, NEW p \in Pods, NEW b \in Buckets,
         EnsureFinalizer(p, b)
  PROVE  Kind
<1> DEFINE c == task[p][b].cr
<1>1. ~At(p, b, "idle") /\ UNCHANGED <<alias, store>>
  BY DEF EnsureFinalizer, ReplaceFinalizers, At, OnlyKube
<1>2. IInv'
  BY EnsureFinalizerGood DEF Good
<1>3. CASE Settles /\ UNCHANGED cr
  BY <1>1, <1>2, <1>3, SameObject, ServersKept, SettledKind
<1>4. CASE Moves(p, b, "checked", c) /\ UNCHANGED cr
  <2>1. Marked(c) => cr[b] # Absent /\ Marked(cr[b])
    BY <1>1, CopyMarked
  <2> HIDE DEF c
  <2> QED BY <1>1, <1>2, <1>4, <2>1, MovedKind
<1>5. ASSUME NEW object \in RustFSBucket, SameSpec(object, c),
             object.fins = WantedFins(c), object.conditions = c.conditions,
             Store(p, b, object), Moves(p, b, "checked", object)
      PROVE  Kind
  <2>1. Written(p, b, object)
    BY <1>5, StoredObject
  <2>2. /\ object.deleting = cr[b].deleting /\ object.fins = WantedFins(cr[b])
        /\ object.cleanup = cr[b].cleanup
        /\ BucketReady(object) <=> BucketReady(cr[b])
        /\ c = cr[b] /\ cr[b] # Absent
        /\ cr[b].deleting => object.fins \subseteq cr[b].fins
    BY <1>5, <2>1 DEF Written, SameSpec, BucketReady
  <2>3. Earns(b)
    BY <2>1, <2>2 DEF Written, Earns
  <2>4. Turned(b)
    <3>1. CASE cr[b].cleanup
      <4>1. /\ FIN_CLEANUP \in object.fins
            /\ cr[b].deleting => FIN_CLEANUP \in cr[b].fins
            /\ cr'[b] = object /\ object # Absent
        BY <2>1, <2>2, <3>1 DEF WantedFins, Written
      <4>2. StateOf(b)' = StateOf(b) /\ StateOf(b) \in Promise!States
        BY <2>2, <4>1 DEF StateOf, HasFinalizer, Promise!States
      <4> QED BY <4>2, SameTurns DEF Turned
    <3>2. CASE ~cr[b].cleanup
      <4>1. FIN_CLEANUP \notin object.fins
        BY <2>2, <3>2 DEF WantedFins
      <4>2. /\ StateOf(b) \in {"kept", "marked"}
            /\ StateOf(b)' \in {"kept", "none"}
        BY <2>1, <2>2, <3>2, <4>1 DEF StateOf, HasFinalizer, Written
      <4> QED BY <4>2 DEF Turned, Promise!Turns, Promise!States
    <3> QED BY <3>1, <3>2
  <2>5. \A y \in Buckets : ObjectKind(y) /\ (y # b => MarkStays(y))
    BY <2>1, <2>3, <2>4, SameObject DEF Written, ObjectKind
  <2>6. Established(p, b)'
    <3>1. Marked(object) => cr'[b] # Absent /\ Marked(cr'[b])
      BY <2>1 DEF Written, Marked, HasFinalizer
    <3> QED BY <1>5, <3>1 DEF Moves, Established
  <2>7. ASSUME NEW q \in Pods, NEW y \in Buckets
        PROVE  Established(q, y)'
    <3>1. CASE y = b
      BY <2>6, <3>1 DEF OnePod
    <3>2. CASE y # b
      BY <1>1, <1>5, <2>5, <3>2, ServersKept, KeptEstablished
         DEF Moves, OthersKept, PInv, Buckets
    <3> QED BY <3>1, <3>2
  <2> QED BY <1>1, <1>2, <2>5, <2>7, TurnsOwners DEF Kind, PInv, Earned, ObjectKind
<1> QED BY <1>3, <1>4, <1>5, EnsureFinalizerGood

(* A command of rc makes or removes the bucket of the one whose reconcile  *)
(* it is, and removes only what is marked.                                 *)
LEMMA ServerKind ==
  ASSUME ConstantsAssumption, OnePod, OwnNames, IInv, PInv,
         NEW p \in Pods, NEW b \in Buckets, ServerStep(p, b)
  PROVE  Kind
<1> DEFINE c == task[p][b].cr
           s == Server(p, b)
           x == bucket_name(b)
<1>1. ~At(p, b, "idle")
  BY DEF ServerStep, delete_bucket, MarkedForRemoval, list_buckets, create_bucket,
         set_bucket_access, At
<1>2. IInv' /\ UNCHANGED <<cr, alias>>
  BY ServerGood DEF Good
<1>3. CASE Settles /\ UNCHANGED store
  BY <1>2, <1>3, SameObject, ServersKept, SettledKind
<1>4. ASSUME s # NoEndpoint, NEW result \in Accesses \cup {NoBucket}, NEW step \in Steps,
             store' = [store EXCEPT ![s][x] = result],
             Moves(p, b, step, c),
             \/ delete_bucket(p, b) /\ step = "removed" /\ result = NoBucket
             \/ step \in {"exists", "lacking"} /\ result = Current(p, b)
             \/ step = "exists" /\ result # NoBucket
             \/ step = "opened" /\ result = c.access /\ Current(p, b) # NoBucket
      PROVE  Kind
  <2>1. s \in Endpoints /\ x \in BucketNames /\ Current(p, b) = store[s][x]
    BY <1>1, <1>4, CurrentType DEF Current
  <2>2. /\ store'[s][x] = result
        /\ \A e \in Endpoints, y \in BucketNames :
             e # s \/ y # x => store'[e][y] = store[e][y]
    BY <1>4, <2>1 DEF IInv, ServerTypes
  <2>3. \A y \in Buckets : y # b => bucket_name(y) # x /\ bucket_name(y) \in BucketNames
    BY DEF OwnNames, BucketNames
  <2>4. Marked(c) => cr[b] # Absent /\ Marked(cr[b])
    BY <1>1, CopyMarked
  <2>5. Established(p, b)'
    <3>1. /\ task'[p][b].pc = step /\ task'[p][b].cr = c
          /\ Server(p, b)' = s
      BY <1>2, <1>4 DEF Moves, Server
    <3>2. delete_bucket(p, b) => Marked(c)
      BY DEF delete_bucket, MarkedForRemoval, Marked
    <3> HIDE DEF c, s
    <3> QED BY <1>2, <1>4, <2>2, <2>4, <3>1, <3>2 DEF Established
  <2>6. ASSUME NEW q \in Pods, NEW y \in Buckets
        PROVE  Established(q, y)'
    <3>1. CASE y = b
      BY <2>5, <3>1 DEF OnePod
    <3>2. CASE y # b
      <4>1. Kept(q, y) /\ MarkStays(y) /\ SameServer(q, y) /\ Established(q, y)
        BY <1>2, <1>4, <3>2, SameObject, ServersKept
           DEF Moves, OthersKept, PInv, Buckets
      <4>2. \A e \in Endpoints :
              store'[e][bucket_name(y)] = store[e][bucket_name(y)]
        BY <2>2, <2>3, <3>2
      <4> QED BY <4>1, <4>2, KeptEstablished
    <3> QED BY <3>1, <3>2
  <2>7. Earned
    BY <1>2, SameObject DEF Earned, ObjectKind
  <2>8. UNCHANGED owners
    BY <1>2 DEF owners, StateOf, Place, Servers
  <2>9. \A y \in Buckets, e \in Endpoints :
          Has(e, y)' = IF y = b /\ e = s THEN result # NoBucket ELSE Has(e, y)
    BY <2>1, <2>2, <2>3 DEF Has, BucketNames
  <2>10. [Promise!Next]_<<owners, presence>>
    <3>1. CASE result # NoBucket
      <4>1. presence' = [presence EXCEPT ![b] = @ \cup {s}]
        BY <2>1, <2>9, <3>1 DEF presence
      <4> QED BY <2>1, <2>8, <4>1 DEF Promise!Next, Promise!Provide, owners, presence, Place
    <3>2. CASE result = NoBucket /\ delete_bucket(p, b)
      <4>1. presence' = [presence EXCEPT ![b] = @ \ {s}]
        BY <2>1, <2>9, <3>2 DEF presence
      <4>2. owners[b].state \in {"marked", "condemned"}
        BY <2>4, <3>2 DEF owners, StateOf, delete_bucket, MarkedForRemoval, Marked
      <4> QED BY <2>1, <2>8, <4>1, <4>2
              DEF Promise!Next, Promise!Remove, owners, presence, Place
    <3>3. CASE result = Current(p, b)
      <4>1. UNCHANGED presence
        BY <2>1, <2>9, <3>3 DEF presence, Has
      <4> QED BY <2>8, <4>1
    <3>4. c.access # NoBucket
      <4>1. task[p][b].cr.access \in Accesses
        BY <1>1, CurrentType
      <4> QED BY <4>1 DEF ConstantsAssumption
    <3> HIDE DEF c
    <3> QED BY <1>4, <3>1, <3>2, <3>3, <3>4
  <2> QED BY <2>6, <2>7, <2>10 DEF Kind, PInv
<1> QED BY <1>3, <1>4, ServerGood

(* The steps that start a reconcile or take it on towards rc.              *)
LEMMA QuietKind ==
  ASSUME ConstantsAssumption, IInv, PInv, NEW p \in Pods, NEW b \in Buckets,
         \/ Begin(p, b) /\ OnlyCr
         \/ GetInstance(p, b)
         \/ get_configmap(p, b) \/ create_configmap(p, b)
         \/ reread_configmap(p, b) \/ label_configmap(p, b)
         \/ own_configmap(p, b) \/ ensure_data_configmap(p, b)
  PROVE  Kind
<1>1. /\ IInv' /\ UNCHANGED <<cr, alias, store>>
      /\ \/ Settles
         \/ \E step \in (CompanionSteps \cup {"connected"}) \ {"idle"} :
              \/ cr[b] # Absent /\ Moves(p, b, step, cr[b])
              \/ ~At(p, b, "idle") /\ Moves(p, b, step, task[p][b].cr)
  <2>1. CASE Begin(p, b) /\ OnlyCr
    BY <2>1, BeginGood DEF Good, OnlyCr, OnlyKube, CompanionSteps
  <2>2. CASE GetInstance(p, b)
    BY <2>2, GetInstanceGood DEF Good, GetInstance, OnlyCr, OnlyKube, At
  <2>3. CASE \/ get_configmap(p, b) \/ create_configmap(p, b)
             \/ reread_configmap(p, b) \/ label_configmap(p, b)
             \/ own_configmap(p, b) \/ ensure_data_configmap(p, b)
    <3>1. ~At(p, b, "idle")
      BY <2>3 DEF At, get_configmap, GetCompanion, create_configmap, CreateCompanion,
           reread_configmap, RereadCompanion, NextRead, label_configmap, LabelCompanion,
           own_configmap, OwnCompanion, ensure_data_configmap
    <3> QED BY <2>3, <3>1, ConfigMapGood DEF Good, OnlyKube
  <2> QED BY <2>1, <2>2, <2>3
<1>2. CASE Settles
  BY <1>1, <1>2, SameObject, ServersKept, SettledKind
<1>3. ASSUME NEW step \in (CompanionSteps \cup {"connected"}) \ {"idle"},
             NEW c, Moves(p, b, step, c),
             Marked(c) => cr[b] # Absent /\ Marked(cr[b])
      PROVE  Kind
  <2>1. step \notin {"removed", "opened"}
    BY DEF CompanionSteps
  <2> QED BY <1>1, <1>3, <2>1, MovedKind
<1> QED BY <1>1, <1>2, <1>3, CopyMarked

(* A pod that starts again has no reconcile that relies on its aliases.    *)
LEMMA FaultKind ==
  ASSUME ConstantsAssumption, OnePod, IInv, PInv, NEW p \in Pods, Fault(p)
  PROVE  Kind
<1>1. IInv' /\ Settles /\ UNCHANGED <<cr, store>>
  BY FaultGood DEF Good
<1>2. CASE UNCHANGED alias
  BY <1>1, <1>2, SameObject, ServersKept, SettledKind
<1>3. CASE Restarts(p)
  <2>1. \A q \in Pods, x \in Buckets : task'[q][x] = Idle
    BY <1>3 DEF Restarts, OnePod, IInv, Companions, CInv, Sound, ReconcilerTypeOK,
                Buckets
  <2>2. PInv'
    BY <2>1, IdleEstablished DEF PInv
  <2>3. \A x \in Buckets : ObjectKind(x)
    BY <1>1, SameObject
  <2> QED BY <1>1, <2>2, <2>3, TurnsOwners DEF Kind, Earned, ObjectKind
<1> QED BY <1>2, <1>3 DEF Fault, OnlyCr, OnlyKube

(* An alias that rc has does not change. *)
LEMMA InstancesKind ==
  ASSUME ConstantsAssumption, IInv, PInv, InstanceChanges
  PROVE  Kind
<1>1. IInv' /\ UNCHANGED <<cr, task, store>>
  BY InstancesGood DEF Good
<1>2. Settles
  BY <1>1 DEF Settles, Kept
<1>3. ASSUME NEW q \in Pods, NEW x \in Buckets
      PROVE  SameServer(q, x)
  <2>1. CASE UNCHANGED alias
    BY <2>1, ServersKept
  <2>2. ASSUME NEW n \in Instances, NEW p \in Pods, SetAlias(p, n)
        PROVE  SameServer(q, x)
    BY <2>2 DEF SetAlias, SameServer, Server, IInv, ServerTypes
  <2> QED BY <2>1, <2>2 DEF InstanceChanges, ChangeInstance
<1> QED BY <1>1, <1>2, <1>3, SameObject, SettledKind

(* Users mark a bucket by deleting it; only a reconcile takes the finalizer *)
(* away.                                                                   *)
LEMMA UserKind ==
  ASSUME ConstantsAssumption, IInv, PInv, NEW b \in Buckets, User(b)
  PROVE  Kind
<1>1. IInv' /\ Settles /\ UNCHANGED <<alias, store>>
  BY UserGood DEF Good
<1>2. CASE UNCHANGED cr
  BY <1>1, <1>2, SameObject, ServersKept, SettledKind
<1>3. cr \in [Buckets -> RustFSBucket \cup {Absent}] /\ Absent \notin RustFSBucket
  BY DEF IInv, Companions, CInv, Sound, ReconcilerTypeOK, Buckets, ConstantsAssumption
<1>4. ASSUME NEW object \in RustFSBucket \cup {Absent}, cr' = [cr EXCEPT ![b] = object],
             MarkStays(b), Turned(b), Earns(b)
      PROVE  Kind
  <2>1. \A x \in Buckets : x # b => cr'[x] = cr[x]
    BY <1>3, <1>4
  <2>2. \A x \in Buckets : MarkStays(x) /\ ObjectKind(x)
    BY <1>4, <2>1, SameObject DEF ObjectKind
  <2> QED BY <1>1, <2>2, ServersKept, SettledKind
<1>5. ASSUME NEW new \in NewBuckets, CreateOwner(b, new)
      PROVE  Kind
  <2> DEFINE object == [new EXCEPT !.uid = uid[b] + 1]
  <2>1. cr[b] = Absent /\ cr' = [cr EXCEPT ![b] = object]
    BY <1>5 DEF CreateOwner, CreateCr, WriteCr
  <2>2. object.deleting = FALSE
    BY DEF NewBuckets
  <2>3. cr'[b] = object
    BY <1>3, <2>1
  <2> HIDE DEF object
  <2>4. StateOf(b) = "none" /\ StateOf(b)' \in {"none", "kept"}
    BY <2>1, <2>2, <2>3 DEF StateOf
  <2>5. MarkStays(b) /\ Turned(b) /\ Earns(b)
    BY <2>1, <2>4 DEF MarkStays, Earns, Turned, Promise!Turns, Promise!States
  <2>6. object \in RustFSBucket \cup {Absent}
    BY <1>1, <2>3 DEF IInv, Companions, CInv, Sound, ReconcilerTypeOK, Buckets
  <2> QED BY <1>4, <2>1, <2>5, <2>6
<1>6. ASSUME EditBucket(b)
      PROVE  Kind
  <2>1. PICK n \in Instances, cleanup \in BOOLEAN, access \in Accesses :
          cr' = [cr EXCEPT ![b] = [cr[b] EXCEPT !.instance = n, !.cleanup = cleanup,
                                                !.access = access]]
    BY <1>6 DEF EditBucket, WriteCr
  <2> DEFINE object == [cr[b] EXCEPT !.instance = n, !.cleanup = cleanup,
                                     !.access = access]
  <2>2. cr[b] # Absent /\ cr[b] \in RustFSBucket
    BY <1>3, <1>6 DEF EditBucket
  <2>3. /\ object \in RustFSBucket
        /\ object.deleting = cr[b].deleting /\ object.fins = cr[b].fins
        /\ object.conditions = cr[b].conditions
    BY <2>2 DEF RustFSBucket
  <2>4. cr' = [cr EXCEPT ![b] = object]
    BY <2>1
  <2> HIDE DEF object
  <2>5. cr'[b] = object /\ object # Absent
    BY <1>3, <2>3, <2>4
  <2>6. MarkStays(b) /\ Earns(b)
    BY <2>2, <2>3, <2>5 DEF MarkStays, Marked, HasFinalizer, Earns, BucketReady
  <2>7. \/ StateOf(b) = "kept" /\ StateOf(b)' = "kept"
        \/ /\ StateOf(b) \in {"marked", "condemned"}
           /\ StateOf(b)' \in {"marked", "condemned"}
    BY <2>2, <2>3, <2>5 DEF StateOf, HasFinalizer
  <2>8. Turned(b)
    BY <2>7 DEF Turned, Promise!Turns, Promise!States
  <2> QED BY <1>4, <2>3, <2>4, <2>6, <2>8
<1>7. ASSUME DeleteCr(b)
      PROVE  Kind
  <2> DEFINE object == [cr[b] EXCEPT !.deleting = TRUE]
  <2>1. /\ cr[b] # Absent /\ cr[b] \in RustFSBucket /\ ~cr[b].deleting
        /\ cr' = [cr EXCEPT ![b] = Reaped(object)]
    BY <1>3, <1>7 DEF DeleteCr, WriteCr
  <2>2. /\ object \in RustFSBucket /\ object.deleting
        /\ object.fins = cr[b].fins
        /\ object.conditions = cr[b].conditions
    BY <2>1 DEF RustFSBucket
  <2> HIDE DEF object
  <2>3. /\ cr'[b] = Reaped(object) /\ Reaped(object) \in {object, Absent}
        /\ object # Absent
    BY <1>3, <2>1, <2>2 DEF Reaped
  <2>4. MarkStays(b) /\ Earns(b)
    BY <2>1, <2>2, <2>3 DEF MarkStays, Marked, Earns, BucketReady
  <2>5. StateOf(b) = "kept" /\ StateOf(b)' \in {"none", "kept", "marked", "condemned"}
    BY <2>1 DEF StateOf
  <2>6. Turned(b)
    BY <2>5 DEF Turned, Promise!Turns, Promise!States
  <2> QED BY <1>4, <2>1, <2>2, <2>3, <2>4, <2>6
<1>8. ASSUME DropForeign(b)
      PROVE  Kind
  <2> DEFINE object == [cr[b] EXCEPT !.fins = @ \ Foreign]
  <2>1. /\ cr[b] # Absent /\ cr[b] \in RustFSBucket
        /\ cr' = [cr EXCEPT ![b] = Reaped(object)]
    BY <1>3, <1>8 DEF DropForeign, WriteCr
  <2>2. /\ object \in RustFSBucket /\ object.deleting = cr[b].deleting
        /\ FIN_CLEANUP \in object.fins <=> FIN_CLEANUP \in cr[b].fins
        /\ object.cleanup = cr[b].cleanup
        /\ object.conditions = cr[b].conditions
    BY <2>1 DEF RustFSBucket, ConstantsAssumption
  <2> HIDE DEF object
  <2>3. /\ cr'[b] = Reaped(object) /\ Reaped(object) \in {object, Absent}
        /\ object # Absent
        /\ FIN_CLEANUP \in object.fins => Reaped(object) = object
    BY <1>3, <2>1, <2>2 DEF Reaped
  <2>4. MarkStays(b) /\ Earns(b)
    BY <2>1, <2>2, <2>3 DEF MarkStays, Marked, HasFinalizer, Earns, BucketReady
  <2>5. \/ StateOf(b)' = StateOf(b) /\ StateOf(b) \in Promise!States
        \/ StateOf(b) = "kept" /\ StateOf(b)' = "none"
    BY <2>1, <2>2, <2>3 DEF StateOf, HasFinalizer, Promise!States
  <2>6. Turned(b)
    BY <2>5, SameTurns DEF Turned, Promise!Turns
  <2> QED BY <1>4, <2>1, <2>2, <2>3, <2>4, <2>6
<1>9. CASE DeleteCompanion(b) \/ EditCompanion(b, NoData) \/ Collect(b)
  BY <1>2, <1>9 DEF DeleteCompanion, EditCompanion, Collect, ChangeCompanion
<1> QED BY <1>5, <1>6, <1>7, <1>8, <1>9 DEF User

(* Every step keeps what is established, and is a step of Cleanup.         *)
LEMMA StepKind ==
  ASSUME ConstantsAssumption, OnePod, OwnNames, IInv, PInv, [Next]_vars
  PROVE  Kind
<1>1. ASSUME NEW p \in Pods, NEW b \in Buckets, Reconcile(p, b)
      PROVE  Kind
  BY <1>1, QuietKind, InitObjectKind, EnsureFinalizerKind, ServerKind, FinalizeKind,
     PublishKind DEF Reconcile, ServerStep
<1>2. CASE Next
  BY <1>1, <1>2, FaultKind, UserKind, InstancesKind DEF Next
<1>3. CASE UNCHANGED vars
  <2>1. IInv'
    BY StepGood DEF Good
  <2>2. Settles /\ UNCHANGED <<cr, alias, store>>
    BY <1>3 DEF vars, Settles, Kept
  <2> QED BY <2>1, <2>2, SameObject, ServersKept, SettledKind
<1> QED BY <1>2, <1>3

(* The initial states have established nothing, and are those of Cleanup.  *)
LEMMA InitEstablished == ASSUME ConstantsAssumption, Init PROVE PInv /\ Promise!Init
<1>1. PInv
  BY IdleHolds DEF Init, ReconcilerInit, PInv, Established, Buckets
<1>2. owners \in [Buckets -> [state: Promise!States,
                              place: Endpoints \cup {NoEndpoint}]]
  BY InitInv, OwnersType
<1>3. presence \in [Buckets -> SUBSET (Endpoints \cup {NoEndpoint})]
  BY DEF presence
<1> QED BY <1>1, <1>2, <1>3 DEF Promise!Init, owners, presence, Place

(* What a reconcile has established when it goes on is still so. *)
THEOREM Establishes == ASSUME OnePod, OwnNames PROVE Spec => []PInv
<1>1. Init => PInv
  BY InitEstablished, ConstantsAssumption
<1>2. IInv /\ PInv /\ [Next]_vars => PInv'
  BY StepKind, ConstantsAssumption DEF Kind
<1> QED BY <1>1, <1>2, Invariance, PTL DEF Spec

(* The controller implements Cleanup: a bucket object with cleanup and the *)
(* finalizer does not go while its bucket is on the server of its          *)
(* instance, and no bucket of any other object is removed, whatever users  *)
(* edit and whatever fails on the way.                                     *)
THEOREM PromiseKept == ASSUME OnePod, OwnNames PROVE Spec => KeepsPromise
<1>1. Init => Promise!Init
  BY InitEstablished, ConstantsAssumption
<1>2. IInv /\ PInv /\ [Next]_vars => [Promise!Next]_<<owners, presence>>
  BY StepKind, ConstantsAssumption DEF Kind
<1> QED BY <1>1, <1>2, Invariance, Establishes, PTL
        DEF Spec, KeepsPromise, Promise!Spec, owners, presence, Place

(* A bucket that becomes ready is on the server of its instance with the   *)
(* access that its spec asks for at that moment.                           *)
THEOREM ReadyEarned == ASSUME OnePod, OwnNames PROVE Spec => ReadyIsEarned
<1>1. IInv /\ PInv /\ [Next]_vars => [Earned]_vars
  BY StepKind, ConstantsAssumption DEF Kind
<1> QED BY <1>1, Invariance, Establishes, PTL DEF Spec, ReadyIsEarned, Earned, Earns
================================================================================
