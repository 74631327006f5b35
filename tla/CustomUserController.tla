------------------------- MODULE CustomUserController -------------------------
(***************************************************************************)
(* The RustFSCustomUser controller, operator/src/controllers/              *)
(* rustfs_custom_user.rs: it keeps a user with a policy of its own on a    *)
(* RustFS server, and the credentials of the user in a Secret.             *)
(***************************************************************************)
EXTENDS UserAccount

CONSTANT Policies     \* values of spec.policy

vars == <<cr, task, due, edits, faults, companion, uid, ready, account, local>>

FIN_CLEANUP == "bucket-cleanup"

RustFSCustomUser ==
  [uid: Uids, deleting: BOOLEAN, fins: SUBSET (Foreign \cup {FIN_CLEANUP}),
   instance: Instances, cleanup: BOOLEAN, policy: Policies,
   conditions: [ConditionTypes -> ConditionStatus],
   password_hash: Passwords \cup {NoData}]

ASSUME ConstantsAssumption ==
  /\ UserConstantsAssumption
  /\ NoData \notin Policies
  /\ FIN_CLEANUP \notin Foreign
  /\ Absent \notin RustFSCustomUser

NewUsers ==
  [uid: {0}, deleting: {FALSE}, fins: {Foreign}, instance: Instances,
   cleanup: BOOLEAN, policy: Policies, conditions: {NoConditions(ConditionTypes)},
   password_hash: {NoData}]

Init ==
  /\ ReconcilerInit
  /\ cr \in [Users -> NewUsers \cup {Absent}]
  /\ CompanionInit
  /\ ready \in SUBSET Instances
  /\ account = [n \in Instances |-> [x \in Names |-> NoAccount]]
  /\ local = [p \in Pods |-> [u \in Users |-> NoLocal]]

--------------------------------------------------------------------------------
(* One reconcile, in the order of its calls. *)

HasFinalizer(object) == FIN_CLEANUP \in object.fins

Starts(p, u) == StartsUser(p, u)

init_object(p, u) == InitializesUser(p, u)

get_secret(p, u) == GetsSecret(p, u)

create_secret(p, u) == CreateCompanion(p, u) /\ OnlyKube

reread_secret(p, u) == RereadCompanion(p, u) /\ OnlyKube

label_secret(p, u) == LabelCompanion(p, u) /\ OnlyKube

own_secret(p, u) == OwnCompanion(p, u) /\ OnlyKube

EnsureFinalizer(p, u) ==
  LET c == task[p][u].cr IN
  /\ ReplaceFinalizers(p, u, UserReady(c),
       IF c.cleanup THEN c.fins \cup {FIN_CLEANUP} ELSE c.fins \ {FIN_CLEANUP})
  /\ OnlyKube

GetInstance(p, u) ==
  /\ At(p, u, "checked")
  /\ Connects(p, u, task[p][u].cr.instance)

delete_user(p, u) == RemovesUser(p, u, FIN_CLEANUP)

Finalize(p, u) == FinalizesUser(p, u, FIN_CLEANUP)

generate_password(p, u) == DrawsPassword(p, u)

set_secret_data(p, u) == FillsSecret(p, u)

SaveSecretReady(p, u) == SavesSecretReady(p, u)

check_credentials(p, u) == Checks(p, u) /\ CredentialsFit(p, u)

SaveSecretInvalid(p, u) ==
  ~check_credentials(p, u) /\ SavesSecretInvalid(p, u)

create_user(p, u) == check_credentials(p, u) /\ AddsUser(p, u)

user_info(p, u) == LooksUser(p, u)

create_policy(p, u) == GrantsPolicy(p, u, task[p][u].cr.policy)

assign_policy(p, u) == AttachesPolicy(p, u)

Publish(p, u) == PublishesUser(p, u)

Reconcile(p, u) ==
  \/ Starts(p, u) \/ init_object(p, u)
  \/ get_secret(p, u) \/ create_secret(p, u) \/ reread_secret(p, u)
  \/ label_secret(p, u) \/ own_secret(p, u) \/ EnsureFinalizer(p, u)
  \/ GetInstance(p, u) \/ delete_user(p, u) \/ Finalize(p, u)
  \/ generate_password(p, u) \/ set_secret_data(p, u) \/ SaveSecretReady(p, u)
  \/ SaveSecretInvalid(p, u) \/ create_user(p, u) \/ user_info(p, u)
  \/ create_policy(p, u) \/ assign_policy(p, u) \/ Publish(p, u)

Fault(p) == UserFault(p)

--------------------------------------------------------------------------------
(* Users and the other controllers. *)

EditUser(u) ==
  /\ cr[u] # Absent
  /\ \E n \in Instances, cleanup \in BOOLEAN, policy \in Policies :
       LET object == [cr[u] EXCEPT !.instance = n, !.cleanup = cleanup,
                                   !.policy = policy] IN
       object # cr[u] /\ WriteCr(u, object)
  /\ OnlyCr

Environment ==
  \/ \E n \in Instances : ChangeInstance(n)
  \/ \E u \in Users :
       \/ \E object \in NewUsers : CreateOwner(u, object) /\ OnlyKube
       \/ ChangeSecret(u) \/ EditUser(u)
       \/ (DeleteCr(u) \/ DropForeign(u)) /\ OnlyCr

--------------------------------------------------------------------------------
Next ==
  \/ \E p \in Pods, u \in Users : Reconcile(p, u)
  \/ \E p \in Pods : Fault(p)
  \/ Environment

Spec == Init /\ [][Next]_vars

(* The controller loop is never blocked: a queued user is reconciled, a    *)
(* started reconcile goes on.                                              *)
Fairness == \A p \in Pods, u \in Users : WF_vars(Reconcile(p, u))

FairSpec == Spec /\ Fairness

--------------------------------------------------------------------------------
(* Every variable has its type. *)
TypeOK == AccountTypeOK(RustFSCustomUser, Policies)

(* The controller never undoes what users wrote in a RustFSCustomUser, and *)
(* no such object goes away by itself.                                     *)
KeepsUserEdits ==
  [][edits' = edits => SpecsKept({"instance", "cleanup", "policy"})]_vars

(* A user is only called ready when the instance that the spec names knows *)
(* it with the password that the status has the hash of and with the       *)
(* policy that the spec asks for at that very moment.                      *)
ReadyIsEarned ==
  [][\A u \in Users :
       BecomesUserReady(u) =>
         account'[cr'[u].instance][username(u)] =
           FullAccount(cr'[u].password_hash, cr'[u].policy)]_vars

(* The operator does not change or remove valid credentials: applications  *)
(* that use the Secret of a user are not locked out by a reconcile.        *)
ValidCredentialsStay == [][ValidCredentialsKept]_vars

Promise ==
  INSTANCE Cleanup WITH
    Owners <- Users,
    Places <- Instances \cup {Absent},
    owner <- [u \in Users |->
                [state |-> StateOf(u, FIN_CLEANUP),
                 place |-> IF cr[u] = Absent THEN Absent ELSE cr[u].instance]],
    present <- [u \in Users |-> KnownBy(u)]

(* The controller keeps the promise of cleanup: it does not let a user     *)
(* object with cleanup and the finalizer go while the server of its        *)
(* instance knows the user, and removes no user of any other object.       *)
KeepsPromise == Promise!Spec

(* A user whose instance is ready. *)
Reachable(u) == cr[u] # Absent /\ cr[u].instance \in ready

Served(u) ==
  /\ Reachable(u)
  /\ UserReady(cr[u])
  /\ Valid(u)
  /\ HasFinalizer(cr[u]) = cr[u].cleanup
  /\ account[cr[u].instance][username(u)] =
       FullAccount(companion[u].data, cr[u].policy)

(* A user that stays reachable ends up with working credentials in its     *)
(* Secret, whatever was edited and however often the Secret was broken.    *)
BecomesServed ==
  \A u \in Users :
    <>[](Reachable(u) /\ ~cr[u].deleting) => <>[]Served(u)

(* A user that is being deleted goes away as long as its instance is ready *)
(* and no other finalizer holds it back.                                   *)
DeletionCompletes ==
  \A u \in Users :
    []<>~(/\ Reachable(u)
          /\ cr[u].deleting
          /\ cr[u].fins \cap Foreign = {})
================================================================================
