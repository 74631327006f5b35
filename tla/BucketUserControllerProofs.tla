--------------------- MODULE BucketUserControllerProofs ---------------------
(***************************************************************************)
(* Theorems about the RustFSBucketUser controller: its steps are steps of  *)
(* AccountNext, and so what is proved there holds for it.                  *)
(***************************************************************************)
EXTENDS BucketUserController, UserAccountProofs

Granted ==
  [crs |-> RustFSBucketUser, new |-> NewUsers, policies |-> Policies,
   spec |-> {"bucket", "cleanup", "access"},
   fins |-> Foreign \cup {FIN_CLEANUP, FIN_OLD_CLEANUP}, fin |-> FIN_CLEANUP,
   wanted |-> [c \in RustFSBucketUser |->
                 LET kept == c.fins \ {FIN_OLD_CLEANUP} IN
                 IF c.cleanup THEN kept \cup {FIN_CLEANUP}
                              ELSE kept \ {FIN_CLEANUP}],
   pol |-> [c \in RustFSBucketUser |-> render_policy(c)],
   home |-> [c \in RustFSBucketUser |-> Instances]]

(* The record of the RustFSBucketUser controller, part by part.            *)
LEMMA GrantedParts ==
  /\ Granted.crs = RustFSBucketUser
  /\ Granted.new = NewUsers
  /\ Granted.policies = Policies
  /\ Granted.spec = {"bucket", "cleanup", "access"}
  /\ Granted.fins = Foreign \cup {FIN_CLEANUP, FIN_OLD_CLEANUP}
  /\ Granted.fin = FIN_CLEANUP
  /\ Granted.pol \in [RustFSBucketUser -> Policies]
  /\ Granted.home \in [RustFSBucketUser -> SUBSET Instances]
  /\ \A c \in RustFSBucketUser :
       /\ LET kept == c.fins \ {FIN_OLD_CLEANUP} IN
          Granted.wanted[c] = IF c.cleanup THEN kept \cup {FIN_CLEANUP}
                                           ELSE kept \ {FIN_CLEANUP}
       /\ Granted.pol[c] = render_policy(c)
       /\ Granted.home[c] = Instances
<1>1. \A c \in RustFSBucketUser : render_policy(c) \in Policies
  BY DEF RustFSBucketUser, render_policy, Policies
<1> QED BY <1>1 DEF Granted

(* Objects with the same spec are the same to UserAccountProofs.           *)
LEMMA SameFields ==
  ASSUME NEW c \in RustFSBucketUser, NEW d \in RustFSBucketUser,
         d.uid = c.uid, d.deleting = c.deleting, d.cleanup = c.cleanup,
         d.bucket = c.bucket, d.access = c.access,
         d.fins \cap Foreign = c.fins \cap Foreign
  PROVE  SameUser(Granted, d, c)
<1>1. \A field \in {"bucket", "cleanup", "access"} \cup {"uid", "deleting"} :
        d[field] = c[field]
  BY DEF RustFSBucketUser
<1>2. Granted.spec = {"bucket", "cleanup", "access"}
  BY GrantedParts
<1>3. Granted.pol[d] = Granted.pol[c] /\ Granted.home[d] = Granted.home[c]
  <2>1. /\ Granted.pol[d] = render_policy(d) /\ Granted.pol[c] = render_policy(c)
        /\ Granted.home[d] = Instances /\ Granted.home[c] = Instances
    BY GrantedParts
  <2> QED BY <2>1 DEF render_policy
<1> QED BY <1>1, <1>2, <1>3 DEF SameUser

(* Every bucket user can be written as its controller does it.             *)
LEMMA GrantedWritable ==
  ASSUME ConstantsAssumption, NEW c \in RustFSBucketUser
  PROVE  Fields(Granted, c) /\ Writable(Granted, c)
<1>1. Fields(Granted, c)
  BY GrantedParts DEF Fields, RustFSBucketUser
<1>2. ASSUME NEW x \in [ConditionTypes -> ConditionStatus]
      PROVE  LET d == WithConditions(c, x) IN
             /\ d \in Granted.crs /\ SameUser(Granted, d, c) /\ d.fins = c.fins
             /\ d.conditions = x /\ d.password_hash = c.password_hash
  <2> DEFINE d == WithConditions(c, x)
  <2>1. /\ d \in RustFSBucketUser /\ d.fins = c.fins
        /\ d.conditions = x /\ d.password_hash = c.password_hash
        /\ d.uid = c.uid /\ d.deleting = c.deleting /\ d.cleanup = c.cleanup
        /\ d.bucket = c.bucket /\ d.access = c.access
    BY DEF WithConditions, RustFSBucketUser
  <2> HIDE DEF d
  <2> QED BY <2>1, GrantedParts, SameFields DEF d
<1>3. ASSUME NEW h \in Passwords \cup {NoData}
      PROVE  LET d == WithHash(c, h) IN
             /\ d \in Granted.crs /\ SameUser(Granted, d, c) /\ d.fins = c.fins
             /\ d.conditions = c.conditions /\ d.password_hash = h
  <2> DEFINE d == WithHash(c, h)
  <2>1. /\ d \in RustFSBucketUser /\ d.fins = c.fins
        /\ d.conditions = c.conditions /\ d.password_hash = h
        /\ d.uid = c.uid /\ d.deleting = c.deleting /\ d.cleanup = c.cleanup
        /\ d.bucket = c.bucket /\ d.access = c.access
    BY DEF WithHash, RustFSBucketUser
  <2> HIDE DEF d
  <2> QED BY <2>1, GrantedParts, SameFields DEF d
<1>4. ASSUME NEW f \in SUBSET Granted.fins
      PROVE  LET d == WithFins(c, f) IN
             /\ d \in Granted.crs /\ d.fins = f /\ SameStatus(d, c)
             /\ d.uid = c.uid /\ d.deleting = c.deleting /\ d.cleanup = c.cleanup
             /\ f \cap Foreign = c.fins \cap Foreign => SameUser(Granted, d, c)
  <2> DEFINE d == WithFins(c, f)
  <2>1. /\ d \in RustFSBucketUser /\ d.fins = f
        /\ d.conditions = c.conditions /\ d.password_hash = c.password_hash
        /\ d.uid = c.uid /\ d.deleting = c.deleting /\ d.cleanup = c.cleanup
        /\ d.bucket = c.bucket /\ d.access = c.access
    BY GrantedParts DEF WithFins, RustFSBucketUser
  <2> HIDE DEF d
  <2> QED BY <2>1, GrantedParts, SameFields DEF SameStatus, d
<1>5. LET d == WithDeletion(c) IN
      /\ d \in Granted.crs /\ d.fins = c.fins /\ SameStatus(d, c)
      /\ d.uid = c.uid /\ d.deleting = TRUE /\ d.cleanup = c.cleanup
  BY GrantedParts DEF WithDeletion, RustFSBucketUser, SameStatus
<1> QED BY <1>1, <1>2, <1>3, <1>4, <1>5 DEF Writable

(* A bucket user that a user creates is well typed, with any uid.          *)
LEMMA NewUsersType ==
  ASSUME ConstantsAssumption
  PROVE  /\ NewUsers \subseteq RustFSBucketUser
         /\ \A c \in NewUsers, n \in Uids :
              LET d == [c EXCEPT !.uid = n] IN
              /\ d \in RustFSBucketUser /\ d.uid = n
              /\ d.deleting = FALSE /\ d.conditions = NoConditions(ConditionTypes)
<1>1. NoConditions(ConditionTypes) \in [ConditionTypes -> ConditionStatus]
  BY DEF NoConditions, ConditionStatus
<1>2. 0 \in Uids
  BY DEF Uids, ConstantsAssumption, UserConstantsAssumption
<1> QED BY <1>1, <1>2 DEF NewUsers, RustFSBucketUser

(* The controller is one that UserAccountProofs is about.                  *)
LEMMA IsController == ASSUME ConstantsAssumption PROVE Controller(Granted)
<1>1. /\ UserConstantsAssumption
      /\ Absent \notin Granted.crs
      /\ NoData \notin Granted.policies
      /\ Granted.fin \in Granted.fins \ Foreign
      /\ Granted.pol \in [Granted.crs -> Granted.policies]
      /\ Granted.home \in [Granted.crs -> SUBSET Instances]
  BY GrantedParts DEF ConstantsAssumption
<1>2. ASSUME NEW c \in RustFSBucketUser
      PROVE  /\ Granted.wanted[c] \in SUBSET Granted.fins
             /\ Granted.wanted[c] \cap Foreign = c.fins \cap Foreign
             /\ c.cleanup => Granted.fin \in Granted.wanted[c]
             /\ ~c.cleanup => Granted.fin \notin Granted.wanted[c]
  <2>1. c.cleanup \in BOOLEAN /\ c.fins \subseteq Foreign \cup {FIN_CLEANUP, FIN_OLD_CLEANUP}
    BY DEF RustFSBucketUser
  <2>2. FIN_CLEANUP \notin Foreign /\ FIN_OLD_CLEANUP \notin Foreign
    BY DEF ConstantsAssumption
  <2>3. FIN_CLEANUP # FIN_OLD_CLEANUP
    BY DEF FIN_CLEANUP, FIN_OLD_CLEANUP
  <2> DEFINE kept == c.fins \ {FIN_OLD_CLEANUP}
  <2>4. /\ Granted.fins = Foreign \cup {FIN_CLEANUP, FIN_OLD_CLEANUP}
        /\ Granted.fin = FIN_CLEANUP
        /\ Granted.wanted[c] = IF c.cleanup THEN kept \cup {FIN_CLEANUP}
                                            ELSE kept \ {FIN_CLEANUP}
    BY GrantedParts
  <2> QED BY <2>1, <2>2, <2>3, <2>4
<1>3. \A c \in Granted.crs : Fields(Granted, c) /\ Writable(Granted, c)
  BY GrantedParts, GrantedWritable
<1>4. \A c \in Granted.new, n \in Uids :
        LET d == [c EXCEPT !.uid = n] IN
        /\ d \in Granted.crs /\ d.uid = n
        /\ d.deleting = FALSE /\ d.conditions = NoConditions(ConditionTypes)
  <2>1. Granted.crs = RustFSBucketUser /\ Granted.new = NewUsers
    BY GrantedParts
  <2> QED BY <2>1, NewUsersType
<1>5. \A c \in Granted.crs :
        /\ Fields(Granted, c) /\ Writable(Granted, c)
        /\ Granted.wanted[c] \in SUBSET Granted.fins
        /\ Granted.wanted[c] \cap Foreign = c.fins \cap Foreign
        /\ c.cleanup => Granted.fin \in Granted.wanted[c]
        /\ ~c.cleanup => Granted.fin \notin Granted.wanted[c]
  BY <1>2, <1>3, GrantedParts
<1> QED BY <1>1, <1>4, <1>5 DEF Controller

--------------------------------------------------------------------------------
(* Every step of the controller is one of AccountNext. *)

(* The inductive invariant: a bucket, too, is known by its instance.       *)
UInv == AInv(Granted) /\ bucket \in [Buckets -> Instances \cup {Absent}]

(* A user's edit changes the spec of an object and nothing else.           *)
LEMMA EditsOnlySpec ==
  ASSUME ConstantsAssumption, AInv(Granted), NEW u \in Users, EditUser(u)
  PROVE  EditSpec(Granted, u)
<1>1. cr[u] # Absent /\ cr[u] \in RustFSBucketUser /\ OnlyCr
  BY GrantedParts DEF AInv, CInv, Sound, ReconcilerTypeOK, EditUser, Users
<1>2. PICK x \in Buckets, cleanup \in BOOLEAN, access \in Accesses :
        WriteCr(u, [cr[u] EXCEPT !.bucket = x, !.cleanup = cleanup,
                                 !.access = access])
  BY DEF EditUser
<1> DEFINE object == [cr[u] EXCEPT !.bucket = x, !.cleanup = cleanup,
                                   !.access = access]
<1>3. /\ object \in RustFSBucketUser
      /\ object.uid = cr[u].uid /\ object.deleting = cr[u].deleting
      /\ object.fins = cr[u].fins
      /\ object.conditions = cr[u].conditions
      /\ object.password_hash = cr[u].password_hash
  BY <1>1 DEF RustFSBucketUser
<1>4. WriteCr(u, object)
  BY <1>2
<1> HIDE DEF object
<1> QED BY <1>1, <1>3, <1>4, GrantedParts DEF EditSpec, SameStatus

(* Every step of its reconcile is one of UserAccountProofs.                *)
LEMMA ReconcileStep ==
  ASSUME ConstantsAssumption, UInv, NEW p \in Pods, NEW u \in Users,
         Reconcile(p, u)
  PROVE  UserStep(Granted, p, u)
<1> DEFINE c == task[p][u].cr
<1>1. ~At(p, u, "idle") => c \in RustFSBucketUser
  BY IsController, HasCopy, GrantedParts DEF UInv
<1>2. CASE \/ Starts(p, u) \/ init_object(p, u)
           \/ get_secret(p, u) \/ create_secret(p, u) \/ reread_secret(p, u)
           \/ label_secret(p, u) \/ own_secret(p, u) \/ generate_password(p, u)
           \/ set_secret_data(p, u) \/ SaveSecretReady(p, u) \/ Publish(p, u)
           \/ SaveSecretInvalid(p, u) \/ create_user(p, u) \/ user_info(p, u)
           \/ assign_policy(p, u) \/ delete_user(p, u) \/ Finalize(p, u)
  BY <1>2, GrantedParts
     DEF UserStep, KubeStep, StatusStep, ServerStep, Starts, init_object, get_secret,
         create_secret, reread_secret, label_secret, own_secret, generate_password,
         set_secret_data, SaveSecretReady, SaveSecretInvalid, Publish, create_user,
         check_credentials, user_info, assign_policy, delete_user, Finalize
<1>3. CASE EnsureFinalizer(p, u)
  <2>1. c \in RustFSBucketUser
    BY <1>1, <1>3 DEF EnsureFinalizer, ReplaceFinalizers, At
  <2> QED BY <1>3, <2>1, GrantedParts DEF EnsureFinalizer, FinalizerStep, UserStep
<1>4. CASE GetBucket(p, u)
  <2>1. c \in RustFSBucketUser /\ At(p, u, "checked")
    BY <1>1, <1>4 DEF GetBucket, At
  <2>2. bucket[c.bucket] \in Instances \cup {Absent} /\ Granted.home[c] = Instances
    BY <2>1, GrantedParts DEF UInv, RustFSBucketUser
  <2> QED BY <1>4, <2>1, <2>2 DEF GetBucket, LocateStep, Err, UserStep, At
<1>5. CASE GetInstance(p, u)
  <2>1. At(p, u, "located") /\ Connects(p, u, local[p][u].instance)
    BY <1>5 DEF GetInstance
  <2>2. local[p][u].instance \in Granted.home[c]
    BY <2>1, IsController, OnwardCopy, StepTypes DEF UInv, At
  <2> QED BY <2>1, <2>2 DEF Connects, LocateStep, UserStep, At
<1>6. CASE create_policy(p, u)
  <2>1. c \in RustFSBucketUser
    BY <1>1, <1>6 DEF create_policy, GrantsPolicy, At
  <2> QED BY <1>6, <2>1, GrantedParts DEF create_policy, ServerStep, UserStep
<1> QED BY <1>2, <1>3, <1>4, <1>5, <1>6 DEF Reconcile

(* So is every step of the specification.                                  *)
LEMMA NextStep ==
  ASSUME ConstantsAssumption, UInv, [Next]_vars
  PROVE  [AccountNext(Granted)]_accountVars
<1>1. CASE UNCHANGED vars
  BY <1>1 DEF vars, accountVars
<1>2. CASE Environment
  BY <1>2, EditsOnlySpec, GrantedParts
     DEF UInv, Environment, ChangeBucket, ElsewhereEdit, AccountNext, Owners
<1>3. CASE Next
  BY <1>2, <1>3, ReconcileStep DEF Next, Fault, AccountNext
<1> QED BY <1>1, <1>3

(* Only ChangeBucket changes where buckets are. *)
LEMMA BucketsStay ==
  ASSUME UInv, [Next]_vars
  PROVE  /\ bucket' \in [Buckets -> Instances \cup {Absent}]
         /\ UNCHANGED bucket \/ UNCHANGED <<cr, task, account, local>>
<1>1. ASSUME NEW p \in Pods, NEW u \in Users, Reconcile(p, u)
      PROVE  UNCHANGED bucket
  BY <1>1 DEF Reconcile, Starts, init_object, get_secret, create_secret, reread_secret,
     label_secret, own_secret, EnsureFinalizer, GetBucket, GetInstance, delete_user,
     Finalize, generate_password, set_secret_data, SaveSecretReady, SaveSecretInvalid,
     create_user, user_info, create_policy, assign_policy, Publish
<1>2. CASE UNCHANGED bucket
  BY <1>2 DEF UInv
<1>3. ASSUME NEW x \in Buckets, ChangeBucket(x)
      PROVE  /\ bucket' \in [Buckets -> Instances \cup {Absent}]
             /\ UNCHANGED <<cr, task, account, local>>
  BY <1>3 DEF ChangeBucket, UInv
<1> QED BY <1>1, <1>2, <1>3 DEF Next, Fault, Environment, vars

(* Every step keeps the invariant and what users wrote.                    *)
LEMMA StepInv ==
  ASSUME ConstantsAssumption, UInv, [Next]_vars
  PROVE  UInv' /\ (edits' = edits => SpecsKept(Granted.spec))
  BY NextStep, BucketsStay, IsController, StepGood DEF Good, UInv

(* The users that an older version has left are well formed.               *)
LEMMA InitInv == ASSUME ConstantsAssumption, Init PROVE UInv
<1>1. NewUsers \cup OldUsers \subseteq RustFSBucketUser
  <2>1. [t \in ConditionTypes |-> "True"] \in [ConditionTypes -> ConditionStatus]
    BY DEF ConditionStatus
  <2>2. 0 \in Uids
    BY DEF Uids, ConstantsAssumption, UserConstantsAssumption
  <2>3. OldUsers \subseteq RustFSBucketUser
    BY <2>1, <2>2 DEF OldUsers, RustFSBucketUser, ConstantsAssumption
  <2> QED BY <2>3, NewUsersType
<1>2. cr \in [Users -> Granted.crs \cup {Absent}]
  BY <1>1, GrantedParts DEF Init
<1>3. companion \in [Users -> Secret \cup {Absent}]
  <2>1. ASSUME NEW u \in Users
        PROVE  OldSecret(u) \in Secret \cup {Absent}
    <3>1. 0 \in Uids
      BY DEF Uids, ConstantsAssumption, UserConstantsAssumption
    <3>2. cr[u] \in OldUsers => cr[u].password_hash \in Passwords
      BY DEF OldUsers, ConstantsAssumption
    <3> QED BY <3>1, <3>2 DEF OldSecret, Secret, CompanionOf
  <2> QED BY <2>1 DEF Init
<1>4. account \in [Instances -> [Names -> AccountType(Granted.policies)]]
  <2>1. ASSUME NEW n \in Instances, NEW x \in Names
        PROVE  OldAccount(n, x) \in AccountType(Policies)
    <3> DEFINE owners == {u \in Users : /\ cr[u] \in OldUsers
                                        /\ username(u) = x
                                        /\ bucket[cr[u].bucket] = n}
               o == CHOOSE u \in owners : TRUE
    <3>1. ASSUME owners # {}
          PROVE  FullAccount(cr[o].password_hash, render_policy(cr[o]))
                   \in AccountType(Policies)
      <4>1. o \in owners
        BY <3>1
      <4>2. cr[o] \in OldUsers
        BY <4>1
      <4> HIDE DEF o
      <4> QED BY <4>2 DEF OldUsers, FullAccount, AccountType, Policies, render_policy,
                          ConstantsAssumption
    <3>2. NoAccount \in AccountType(Policies)
      BY DEF NoAccount, AccountType
    <3> QED BY <3>1, <3>2 DEF OldAccount
  <2> QED BY <2>1, GrantedParts DEF Init
<1>5. AInv(Granted)
  BY <1>2, <1>3, <1>4, IsController, InitGood DEF Init
<1> QED BY <1>5 DEF UInv, Init

(* The inductive invariant holds in every reachable state. *)
THEOREM Invariance == Spec => []UInv
<1>1. Init => UInv
  BY InitInv, ConstantsAssumption
<1>2. UInv /\ [Next]_vars => UInv'
  BY StepInv, ConstantsAssumption
<1> QED BY <1>1, <1>2, PTL DEF Spec

(* Every reachable state of the controller is well typed. *)
THEOREM TypeCorrect == Spec => []TypeOK
<1>1. UInv => TypeOK
  BY AccountTyped, GrantedParts DEF TypeOK, UInv
<1> QED BY <1>1, Invariance, PTL

(* No step of the operator undoes what a user wrote in a RustFSBucketUser, *)
(* for any number of pods that reconcile it at the same time.              *)
THEOREM EditsSurvive == Spec => KeepsUserEdits
<1>1. UInv /\ [Next]_vars
        => [edits' = edits => SpecsKept({"bucket", "cleanup", "access"})]_vars
  <2>1. ASSUME UInv, [Next]_vars, edits' = edits
        PROVE  SpecsKept(Granted.spec)
    BY <2>1, StepInv, ConstantsAssumption
  <2> QED BY <2>1, GrantedParts
<1> QED BY <1>1, Invariance, PTL DEF Spec, KeepsUserEdits

--------------------------------------------------------------------------------
(* What a single pod promises to users with different names on the servers. *)

owners ==
  [u \in Users |-> [state |-> StateOf(u, FIN_CLEANUP), place |-> ServerOf(u)]]

presence == [u \in Users |-> KnownBy(u)]

(* The server of a user is where its only reconcile has gone. *)
LEMMA Finder ==
  ASSUME OnePod, NEW p \in Pods, NEW u \in Users
  PROVE  /\ cr[u] # Absent /\ task[p][u].pc \in UserSteps \ CompanionSteps
              => ServerOf(u) = local[p][u].instance
         /\ cr'[u] # Absent /\ task'[p][u].pc \in UserSteps \ CompanionSteps
              => ServerOf(u)' = local'[p][u].instance
<1> DEFINE before == {q \in Pods : task[q][u].pc \in UserSteps \ CompanionSteps}
           after == {q \in Pods : task'[q][u].pc \in UserSteps \ CompanionSteps}
<1>1. \A q \in Pods : q = p
  BY DEF OnePod
<1>2. task[p][u].pc \in UserSteps \ CompanionSteps
        => before # {} /\ (CHOOSE q \in before : TRUE) = p
  BY <1>1
<1>3. task'[p][u].pc \in UserSteps \ CompanionSteps
        => after # {} /\ (CHOOSE q \in after : TRUE) = p
  BY <1>1
<1> QED BY <1>2, <1>3 DEF ServerOf

(* The server of a user is an instance, or there is none.                  *)
LEMMA ServersType ==
  /\ UInv => \A u \in Users : ServerOf(u) \in Instances \cup {Absent}
  /\ UInv' => \A u \in Users : ServerOf(u)' \in Instances \cup {Absent}
<1>1. ASSUME UInv, NEW u \in Users
      PROVE  ServerOf(u) \in Instances \cup {Absent}
  <2> DEFINE finders == {p \in Pods : task[p][u].pc \in UserSteps \ CompanionSteps}
  <2>1. cr[u] # Absent => cr[u] \in RustFSBucketUser
    BY <1>1, GrantedParts DEF UInv, AInv, CInv, Sound, ReconcilerTypeOK, Users
  <2>2. cr[u] # Absent => bucket[cr[u].bucket] \in Instances \cup {Absent}
    BY <1>1, <2>1 DEF UInv, RustFSBucketUser
  <2>3. finders # {} => local[CHOOSE p \in finders : TRUE][u].instance
                          \in Instances \cup {Absent}
    <3>1. \A p \in Pods : local[p][u] \in Local
      BY <1>1 DEF UInv, AInv, ServerTypes
    <3>2. finders # {} => (CHOOSE p \in finders : TRUE) \in Pods
      OBVIOUS
    <3> QED BY <3>1, <3>2 DEF Local
  <2> QED BY <2>2, <2>3 DEF ServerOf
<1>2. ASSUME UInv', NEW u \in Users
      PROVE  ServerOf(u)' \in Instances \cup {Absent}
  <2> DEFINE finders == {p \in Pods : task'[p][u].pc \in UserSteps \ CompanionSteps}
  <2>1. cr'[u] # Absent => cr'[u] \in RustFSBucketUser
    BY <1>2, GrantedParts DEF UInv, AInv, CInv, Sound, ReconcilerTypeOK, Users
  <2>2. cr'[u] # Absent => bucket'[cr'[u].bucket] \in Instances \cup {Absent}
    BY <1>2, <2>1 DEF UInv, RustFSBucketUser
  <2>3. finders # {} => local'[CHOOSE p \in finders : TRUE][u].instance
                          \in Instances \cup {Absent}
    <3>1. \A p \in Pods : local'[p][u] \in Local
      BY <1>2 DEF UInv, AInv, ServerTypes
    <3>2. finders # {} => (CHOOSE p \in finders : TRUE) \in Pods
      OBVIOUS
    <3> QED BY <3>1, <3>2 DEF Local
  <2> QED BY <2>2, <2>3 DEF ServerOf
<1> QED BY <1>1, <1>2

(* The owners of the abstract specification are well typed.                *)
LEMMA OwnersType ==
  /\ UInv => owners \in [Users -> [state: Promise!States,
                                   place: Instances \cup {Absent}]]
  /\ UInv' => owners' \in [Users -> [state: Promise!States,
                                     place: Instances \cup {Absent}]]
<1>1. \A u \in Users : /\ StateOf(u, FIN_CLEANUP) \in Promise!States
                       /\ StateOf(u, FIN_CLEANUP)' \in Promise!States
  BY StatesOf DEF Promise!States
<1> QED BY <1>1, ServersType DEF owners

(* Owners turn. *)
LEMMA Turned ==
  ASSUME OnePod, UInv, UInv', UNCHANGED account,
         \A u \in Users : TurnsUser(Granted, u)
  PROVE  [Promise!Next]_<<owners, presence>>
<1>1. ASSUME NEW u \in Users
      PROVE  \/ <<owners[u].state, owners'[u].state>> \in Promise!Turns
             \/ Promise!Released(u)
  <2> DEFINE s == StateOf(u, FIN_CLEANUP)
             t == StateOf(u, FIN_CLEANUP)'
  <2>1. owners[u].state = s /\ owners'[u].state = t /\ owners[u].place = ServerOf(u)
    BY DEF owners
  <2>2. Turning(s, t) \/ Lets(Granted, u)
    BY GrantedParts DEF TurnsUser
  <2> HIDE DEF s, t
  <2>3. CASE Turning(s, t)
    <3>1. <<s, t>> \in Promise!Turns
      BY <2>3 DEF Turning, Promise!Turns, Promise!States
    <3> QED BY <2>1, <3>1
  <2>4. CASE Lets(Granted, u)
    <3>1. s = "condemned" /\ t \in {"kept", "none"}
      BY <2>4, GrantedParts DEF Lets, s, t
    <3>2. PICK p \in Pods :
            /\ At(p, u, "removed")
            /\ account[local[p][u].instance][username(u)].password = NoData
      BY <2>4 DEF Lets
    <3>3. cr[u] # Absent
      BY <3>1 DEF StateOf, s
    <3>4. ServerOf(u) = local[p][u].instance
      BY <3>2, <3>3, Finder DEF At, UserSteps, CompanionSteps
    <3>5. ServerOf(u) \notin KnownBy(u) /\ presence[u] = KnownBy(u)
      BY <3>2, <3>4 DEF KnownBy, presence
    <3> QED BY <2>1, <3>1, <3>5 DEF Promise!Released, owners, presence
  <2> QED BY <2>2, <2>3, <2>4
<1>2. UNCHANGED presence
  BY DEF presence, KnownBy
<1>3. Promise!OwnersChange
  BY <1>1, <1>2, OwnersType DEF Promise!OwnersChange, owners, presence
<1> QED BY <1>3 DEF Promise!Next, owners, presence

(* What a step does to the users is a step of Cleanup. *)
LEMMA Promised ==
  ASSUME ConstantsAssumption, OnePod, UInv, UInv', PromiseStep(Granted),
         UNCHANGED bucket \/ UNCHANGED <<cr, task, account, local>>
  PROVE  [Promise!Next]_<<owners, presence>>
<1>1. CASE UNCHANGED account /\ \A u \in Users : TurnsUser(Granted, u)
  BY <1>1, Turned
<1>2. CASE UNCHANGED <<cr, task, account, local>>
  <2>1. ASSUME NEW u \in Users
        PROVE  TurnsUser(Granted, u)
    <3>1. StateOf(u, Granted.fin)' = StateOf(u, Granted.fin)
      BY <1>2 DEF StateOf
    <3> QED BY <3>1, StatesOf DEF TurnsUser, Turning
  <2> QED BY <1>2, <2>1, Turned
<1>3. ASSUME UNCHANGED bucket, NEW p \in Pods, NEW u \in Users, Serves(Granted, p, u)
      PROVE  [Promise!Next]_<<owners, presence>>
  <2> DEFINE n == local[p][u].instance
             known == account'[n][username(u)].password # NoData
  <2>1. ASSUME NEW x \in Users
        PROVE  ServerOf(x)' = ServerOf(x)
    <3>1. CASE x = u /\ cr[u] # Absent
      BY <1>3, <3>1, Finder DEF Serves
    <3>2. CASE x # u
      <4>1. \A q \in Pods : task'[q][x].pc = task[q][x].pc
        BY <1>3, <3>2 DEF Serves, OthersKept, Kept, Users
      <4> DEFINE before == {q \in Pods : task[q][x].pc \in UserSteps \ CompanionSteps}
                 after == {q \in Pods : task'[q][x].pc \in UserSteps \ CompanionSteps}
      <4>2. before = after
        BY <4>1
      <4>3. UNCHANGED <<cr, local, bucket>>
        BY <1>3 DEF Serves
      <4>4. /\ ServerOf(x) = IF cr[x] = Absent THEN Absent
                             ELSE IF before = {} THEN bucket[cr[x].bucket]
                             ELSE local[CHOOSE q \in before : TRUE][x].instance
            /\ ServerOf(x)' = IF cr'[x] = Absent THEN Absent
                              ELSE IF after = {} THEN bucket'[cr'[x].bucket]
                              ELSE local'[CHOOSE q \in after : TRUE][x].instance
        BY DEF ServerOf
      <4> HIDE DEF before, after
      <4> QED BY <4>2, <4>3, <4>4
    <3>3. CASE cr[x] = Absent
      BY <1>3, <3>3 DEF Serves, ServerOf
    <3> QED BY <3>1, <3>2, <3>3
  <2>2. UNCHANGED owners /\ n \in Instances
    BY <1>3, <2>1 DEF Serves, owners, StateOf
  <2>3. \A x \in Users : x # u => KnownBy(x)' = KnownBy(x)
    BY <1>3 DEF Serves, KnownBy
  <2>4. KnownBy(u)' = IF known THEN KnownBy(u) \cup {n} ELSE KnownBy(u) \ {n}
    BY <1>3, <2>2 DEF Serves, KnownBy
  <2>5. CASE known
    <3>1. presence' = [presence EXCEPT ![u] = @ \cup {n}]
      BY <2>3, <2>4, <2>5 DEF presence
    <3>2. Promise!Provide(u, n)
      BY <2>2, <3>1 DEF Promise!Provide, owners, presence
    <3> QED BY <2>2, <3>2 DEF Promise!Next, owners, presence
  <2>6. CASE ~known
    <3>1. presence' = [presence EXCEPT ![u] = @ \ {n}]
      BY <2>3, <2>4, <2>6 DEF presence
    <3>2. CASE account[n][username(u)].password = NoData
      <4>1. KnownBy(u) \ {n} = KnownBy(u)
        BY <3>2 DEF KnownBy
      <4>2. UNCHANGED presence
        BY <2>3, <2>4, <2>6, <4>1 DEF presence
      <4> QED BY <2>2, <4>2
    <3>3. CASE StateOf(u, FIN_CLEANUP) \in {"marked", "condemned"}
      <4>1. owners[u].state \in {"marked", "condemned"}
        BY <3>3 DEF owners
      <4>2. Promise!Remove(u, n)
        BY <2>2, <3>1, <4>1 DEF Promise!Remove, owners, presence
      <4> QED BY <2>2, <4>2 DEF Promise!Next, owners, presence
    <3> QED BY <1>3, <2>6, <3>2, <3>3, GrantedParts DEF Serves
  <2> QED BY <2>5, <2>6
<1> QED BY <1>1, <1>2, <1>3 DEF PromiseStep

(* What an older version has left is in order: its Secrets have owners.    *)
LEMMA InitEstablished ==
  ASSUME ConstantsAssumption, Init  PROVE BInv(Granted) /\ Promise!Init
<1>1. ASSUME NEW u \in Users
      PROVE  /\ cr[u] # Absent => cr[u].uid = 0
             /\ companion[u] # Absent =>
                  companion[u].owners = IF SetOwnerReference THEN {0} ELSE {}
  <2>1. cr[u] # Absent => cr[u].uid = 0
    BY DEF Init, NewUsers, OldUsers
  <2>2. companion[u] = OldSecret(u)
    BY DEF Init
  <2> QED BY <2>1, <2>2 DEF OldSecret
<1>2. UInv /\ uid = [u \in Users |-> 0] /\ ReconcilerInit
  BY InitInv DEF Init
<1>3. BInv(Granted)
  BY <1>1, <1>2, IsController, InitKind DEF UInv
<1>4. presence \in [Users -> SUBSET (Instances \cup {Absent})]
  BY DEF presence, KnownBy
<1> QED BY <1>2, <1>3, <1>4, OwnersType DEF Promise!Init, owners, presence

(* With one pod every step keeps the promises and is one of Cleanup.       *)
LEMMA StepPromises ==
  ASSUME ConstantsAssumption, OnePod, OwnNames, UInv, BInv(Granted), [Next]_vars
  PROVE  Kind(Granted) /\ UInv' /\ [Promise!Next]_<<owners, presence>>
<1>1. Kind(Granted)
  BY NextStep, IsController, StepKind DEF UInv
<1>2. UInv' /\ (UNCHANGED bucket \/ UNCHANGED <<cr, task, account, local>>)
  BY StepInv, BucketsStay
<1> QED BY <1>1, <1>2, Promised DEF Kind

(* What the reconciles of a single pod have established of a bucket user,  *)
(* of its Secret and of its account holds in every reachable state.        *)
THEOREM Establishes == ASSUME OnePod, OwnNames PROVE Spec => []BInv(Granted)
<1>1. Init => BInv(Granted)
  BY InitEstablished, ConstantsAssumption
<1>2. UInv /\ BInv(Granted) /\ [Next]_vars => BInv(Granted)'
  BY StepPromises, ConstantsAssumption DEF Kind
<1> QED BY <1>1, <1>2, Invariance, PTL DEF Spec

(* No step of the operator and of the garbage collector changes or removes *)
(* the Secret of a bucket user that holds valid credentials.               *)
THEOREM CredentialsStay == ASSUME OnePod, OwnNames PROVE Spec => ValidCredentialsStay
<1>1. UInv /\ BInv(Granted) /\ [Next]_vars => [ValidCredentialsKept]_vars
  BY StepPromises, ConstantsAssumption DEF Kind, Credentials, ValidCredentialsKept
<1> QED BY <1>1, Invariance, Establishes, PTL DEF Spec, ValidCredentialsStay

(* A bucket user that becomes ready has on some server the password of its *)
(* status and the access to the bucket that its spec asks for just then.   *)
THEOREM ReadyEarned == ASSUME OnePod, OwnNames PROVE Spec => ReadyIsEarned
<1> DEFINE Earned ==
      \A u \in Users :
        BecomesUserReady(u) =>
          \E n \in Instances :
            account'[n][username(u)] =
              FullAccount(cr'[u].password_hash, render_policy(cr'[u]))
<1>1. UInv /\ BInv(Granted) /\ [Next]_vars => [Earned]_vars
  <2>1. ASSUME UInv, BInv(Granted), [Next]_vars, NEW u \in Users, BecomesUserReady(u)
        PROVE  \E n \in Instances :
                 account'[n][username(u)] =
                   FullAccount(cr'[u].password_hash, render_policy(cr'[u]))
    <3>1. Kind(Granted) /\ UInv'
      BY <2>1, StepPromises, ConstantsAssumption
    <3>2. cr'[u] \in RustFSBucketUser
      BY <2>1, <3>1, GrantedParts
         DEF BecomesUserReady, UInv, AInv, CInv, Sound, ReconcilerTypeOK, Users
    <3>3. \E n \in Granted.home[cr'[u]] :
            account'[n][username(u)] =
              FullAccount(cr'[u].password_hash, Granted.pol[cr'[u]])
      BY <2>1, <3>1 DEF Kind, Earns
    <3>4. /\ Granted.home[cr'[u]] = Instances
          /\ Granted.pol[cr'[u]] = render_policy(cr'[u])
      BY <3>2, GrantedParts
    <3> QED BY <3>3, <3>4
  <2> QED BY <2>1
<1> QED BY <1>1, Invariance, Establishes, PTL DEF Spec, ReadyIsEarned

(* The controller implements Cleanup: it lets no bucket user with cleanup  *)
(* go while the server on which it found the bucket knows the user, and it *)
(* removes none from a server unless its object is being deleted.          *)
THEOREM PromiseKept == ASSUME OnePod, OwnNames PROVE Spec => KeepsPromise
<1>1. Init => Promise!Init
  BY InitEstablished, ConstantsAssumption
<1>2. UInv /\ BInv(Granted) /\ [Next]_vars => [Promise!Next]_<<owners, presence>>
  BY StepPromises, ConstantsAssumption
<1> QED BY <1>1, <1>2, Invariance, Establishes, PTL
        DEF Spec, KeepsPromise, Promise!Spec, owners, presence
================================================================================
