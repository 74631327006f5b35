------------------------- MODULE BucketUserController -------------------------
(***************************************************************************)
(* The RustFSBucketUser controller, operator/src/controllers/              *)
(* rustfs_bucket_user.rs: it keeps a user with access to one bucket on a   *)
(* RustFS server, and the credentials of the user in a Secret.             *)
(***************************************************************************)
EXTENDS UserAccount

CONSTANTS
  Buckets,            \* names of RustFSBucket objects
  Accesses,           \* values of spec.access
  OldPasswords        \* passwords of users that an older version has left

VARIABLE bucket       \* the instance of each RustFSBucket that is ready

vars == <<cr, task, due, edits, faults, companion, uid, bucket, ready, account, local>>

FIN_CLEANUP == "user-cleanup"
FIN_OLD_CLEANUP == "bucket-cleanup"

(* A password stands for its own argon2 hash. *)
RustFSBucketUser ==
  [uid: Uids, deleting: BOOLEAN,
   fins: SUBSET (Foreign \cup {FIN_CLEANUP, FIN_OLD_CLEANUP}),
   bucket: Buckets, cleanup: BOOLEAN, access: Accesses,
   conditions: [ConditionTypes -> ConditionStatus],
   password_hash: Passwords \cup {NoData}]

(* The policy is a template for the access with the name of the bucket.    *)
Policies == [bucket: Buckets, access: Accesses]

render_policy(object) == [bucket |-> object.bucket, access |-> object.access]

ASSUME ConstantsAssumption ==
  /\ UserConstantsAssumption
  /\ NoData \notin Policies
  /\ {FIN_CLEANUP, FIN_OLD_CLEANUP} \cap Foreign = {}
  /\ Absent \notin RustFSBucketUser
  /\ OldPasswords \subseteq Passwords

NewUsers ==
  [uid: {0}, deleting: {FALSE}, fins: {Foreign}, bucket: Buckets,
   cleanup: BOOLEAN, access: Accesses, conditions: {NoConditions(ConditionTypes)},
   password_hash: {NoData}]

(* Users of an older version are ready and have its finalizer; so do their *)
(* Secrets and accounts.                                                   *)
OldUsers ==
  [uid: {0}, deleting: BOOLEAN, fins: {Foreign \cup {FIN_OLD_CLEANUP}},
   bucket: Buckets, cleanup: BOOLEAN, access: Accesses,
   conditions: {[t \in ConditionTypes |-> "True"]}, password_hash: OldPasswords]

OldSecret(u) ==
  IF cr[u] \in OldUsers
    THEN [labeled |-> TRUE, owners |-> IF SetOwnerReference THEN {0} ELSE {},
          data |-> cr[u].password_hash]
    ELSE Absent

OldAccount(n, x) ==
  LET owners == {u \in Users : /\ cr[u] \in OldUsers
                               /\ username(u) = x
                               /\ bucket[cr[u].bucket] = n} IN
  IF owners = {} THEN NoAccount
  ELSE LET u == CHOOSE u \in owners : TRUE IN
       FullAccount(cr[u].password_hash, render_policy(cr[u]))

Init ==
  /\ ReconcilerInit
  /\ cr \in [Users -> NewUsers \cup OldUsers \cup {Absent}]
  /\ companion = [u \in Users |-> OldSecret(u)]
  /\ uid = [u \in Users |-> 0]
  /\ bucket \in [Buckets -> Instances \cup {Absent}]
  /\ ready \in SUBSET Instances
  /\ account = [n \in Instances |-> [x \in Names |-> OldAccount(n, x)]]
  /\ local = [p \in Pods |-> [u \in Users |-> NoLocal]]

--------------------------------------------------------------------------------
(* One reconcile, in the order of its calls. *)

HasFinalizer(object) == FIN_CLEANUP \in object.fins

Starts(p, u) == StartsUser(p, u) /\ UNCHANGED bucket

init_object(p, u) == InitializesUser(p, u) /\ UNCHANGED bucket

get_secret(p, u) == GetsSecret(p, u) /\ UNCHANGED bucket

create_secret(p, u) == CreateCompanion(p, u) /\ OnlyKube /\ UNCHANGED bucket

reread_secret(p, u) == RereadCompanion(p, u) /\ OnlyKube /\ UNCHANGED bucket

label_secret(p, u) == LabelCompanion(p, u) /\ OnlyKube /\ UNCHANGED bucket

own_secret(p, u) == OwnCompanion(p, u) /\ OnlyKube /\ UNCHANGED bucket

EnsureFinalizer(p, u) ==
  LET c == task[p][u].cr
      kept == c.fins \ {FIN_OLD_CLEANUP} IN
  /\ ReplaceFinalizers(p, u, UserReady(c),
       IF c.cleanup THEN kept \cup {FIN_CLEANUP} ELSE kept \ {FIN_CLEANUP})
  /\ OnlyKube /\ UNCHANGED bucket

(* A bucket that is missing or not ready is an error. *)
GetBucket(p, u) ==
  LET n == bucket[task[p][u].cr.bucket] IN
  /\ At(p, u, "checked")
  /\ IF n = Absent
       THEN Err(p, u) /\ UNCHANGED local
       ELSE Continues(p, u, "located")
            /\ local' = [local EXCEPT ![p][u].instance = n]
  /\ UNCHANGED <<companion, uid, bucket, ready, account>>

GetInstance(p, u) ==
  /\ At(p, u, "located")
  /\ Connects(p, u, local[p][u].instance)
  /\ UNCHANGED bucket

delete_user(p, u) == RemovesUser(p, u, FIN_CLEANUP) /\ UNCHANGED bucket

Finalize(p, u) == FinalizesUser(p, u, FIN_CLEANUP) /\ UNCHANGED bucket

generate_password(p, u) == DrawsPassword(p, u) /\ UNCHANGED bucket

set_secret_data(p, u) == FillsSecret(p, u) /\ UNCHANGED bucket

SaveSecretReady(p, u) == SavesSecretReady(p, u) /\ UNCHANGED bucket

check_credentials(p, u) == Checks(p, u) /\ CredentialsFit(p, u)

SaveSecretInvalid(p, u) ==
  ~check_credentials(p, u) /\ SavesSecretInvalid(p, u) /\ UNCHANGED bucket

create_user(p, u) == check_credentials(p, u) /\ AddsUser(p, u) /\ UNCHANGED bucket

user_info(p, u) == LooksUser(p, u) /\ UNCHANGED bucket

create_policy(p, u) ==
  GrantsPolicy(p, u, render_policy(task[p][u].cr)) /\ UNCHANGED bucket

assign_policy(p, u) == AttachesPolicy(p, u) /\ UNCHANGED bucket

Publish(p, u) == PublishesUser(p, u) /\ UNCHANGED bucket

Reconcile(p, u) ==
  \/ Starts(p, u) \/ init_object(p, u)
  \/ get_secret(p, u) \/ create_secret(p, u) \/ reread_secret(p, u)
  \/ label_secret(p, u) \/ own_secret(p, u) \/ EnsureFinalizer(p, u)
  \/ GetBucket(p, u) \/ GetInstance(p, u) \/ delete_user(p, u) \/ Finalize(p, u)
  \/ generate_password(p, u) \/ set_secret_data(p, u) \/ SaveSecretReady(p, u)
  \/ SaveSecretInvalid(p, u) \/ create_user(p, u) \/ user_info(p, u)
  \/ create_policy(p, u) \/ assign_policy(p, u) \/ Publish(p, u)

Fault(p) == UserFault(p) /\ UNCHANGED bucket

--------------------------------------------------------------------------------
(* Users and the other controllers. *)

EditUser(u) ==
  /\ cr[u] # Absent
  /\ \E x \in Buckets, cleanup \in BOOLEAN, access \in Accesses :
       LET object == [cr[u] EXCEPT !.bucket = x, !.cleanup = cleanup,
                                   !.access = access] IN
       object # cr[u] /\ WriteCr(u, object)
  /\ OnlyCr

(* A bucket becomes ready, moves to another instance or goes. *)
ChangeBucket(x) ==
  /\ Edit
  /\ \E n \in (Instances \cup {Absent}) \ {bucket[x]} :
       bucket' = [bucket EXCEPT ![x] = n]
  /\ UNCHANGED <<cr, task, due, companion, uid, ready, account, local>>

Environment ==
  \/ /\ \/ \E n \in Instances : ChangeInstance(n)
        \/ \E u \in Users :
             \/ \E object \in NewUsers : CreateOwner(u, object) /\ OnlyKube
             \/ ChangeSecret(u) \/ EditUser(u)
             \/ (DeleteCr(u) \/ DropForeign(u)) /\ OnlyCr
     /\ UNCHANGED bucket
  \/ \E x \in Buckets : ChangeBucket(x)

--------------------------------------------------------------------------------
Next ==
  \/ \E p \in Pods, u \in Users : Reconcile(p, u)
  \/ \E p \in Pods : Fault(p)
  \/ Environment

Spec == Init /\ [][Next]_vars

(* The controller loop is never blocked: a queued user is reconciled, a    *)
(* started reconcile goes on.                                              *)
Fairness == \A p \in Pods, u \in Users : WF_vars(Reconcile(p, u))

FairSpec == Spec /\ Fairness

--------------------------------------------------------------------------------
(* Every variable has its type. *)
TypeOK ==
  /\ AccountTypeOK(RustFSBucketUser, Policies)
  /\ bucket \in [Buckets -> Instances \cup {Absent}]

(* The controller never undoes what users wrote in a RustFSBucketUser, and *)
(* no such object goes away by itself.                                     *)
KeepsUserEdits ==
  [][edits' = edits => SpecsKept({"bucket", "cleanup", "access"})]_vars

(* A user is only called ready when some server knows it with the password *)
(* that the status has the hash of, and with the access to the bucket that *)
(* the spec asks for at that very moment.                                  *)
ReadyIsEarned ==
  [][\A u \in Users :
       BecomesUserReady(u) =>
         \E n \in Instances :
           account'[n][username(u)] =
             FullAccount(cr'[u].password_hash, render_policy(cr'[u]))]_vars

(* The operator does not change or remove valid credentials: applications  *)
(* that use the Secret of a user are not locked out by a reconcile.        *)
ValidCredentialsStay == [][ValidCredentialsKept]_vars

(* The server of a user: the one that its reconcile has found, or that of  *)
(* its bucket.                                                             *)
ServerOf(u) ==
  LET finders == {p \in Pods : task[p][u].pc \in UserSteps \ CompanionSteps} IN
  IF cr[u] = Absent THEN Absent
  ELSE IF finders = {} THEN bucket[cr[u].bucket]
  ELSE local[CHOOSE p \in finders : TRUE][u].instance

Promise ==
  INSTANCE Cleanup WITH
    Owners <- Users,
    Places <- Instances \cup {Absent},
    owner <- [u \in Users |->
                [state |-> StateOf(u, FIN_CLEANUP), place |-> ServerOf(u)]],
    present <- [u \in Users |-> KnownBy(u)]

(* The controller keeps the promise of cleanup: it does not let a user     *)
(* object with cleanup and the finalizer go while the server where it      *)
(* found the bucket of the user knows the user, and removes no user of any *)
(* other object.                                                           *)
KeepsPromise == Promise!Spec

(* A user whose bucket and instance are ready. *)
Reachable(u) == cr[u] # Absent /\ bucket[cr[u].bucket] \in ready

Served(u) ==
  /\ Reachable(u)
  /\ UserReady(cr[u])
  /\ Valid(u)
  /\ HasFinalizer(cr[u]) = cr[u].cleanup
  /\ account[bucket[cr[u].bucket]][username(u)] =
       FullAccount(companion[u].data, render_policy(cr[u]))

(* A user that stays reachable ends up with working credentials in its     *)
(* Secret, whatever was edited and however often the Secret was broken.    *)
BecomesServed ==
  \A u \in Users :
    <>[](Reachable(u) /\ ~cr[u].deleting) => <>[]Served(u)

(* A user that is being deleted goes away as long as its bucket and its    *)
(* instance are ready and no other finalizer holds it back.                *)
DeletionCompletes ==
  \A u \in Users :
    []<>~(/\ Reachable(u)
          /\ cr[u].deleting
          /\ cr[u].fins \subseteq {FIN_CLEANUP})

================================================================================
