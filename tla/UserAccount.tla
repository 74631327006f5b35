------------------------------ MODULE UserAccount ------------------------------
(***************************************************************************)
(* A user on a RustFS server with its credentials in a Secret: what the    *)
(* RustFSBucketUser and the RustFSCustomUser controllers have in common.   *)
(* The two files repeat the code; a module of each controller takes the    *)
(* actions from here and adds where its instance and its policy come from. *)
(***************************************************************************)
EXTENDS Companion

CONSTANTS
  Instances,          \* names of RustFSInstance objects
  Passwords,          \* what generate_password may return
  RemovesMissing      \* whether `rc admin user rm' succeeds without the user

VARIABLES
  ready,              \* the RustFSInstances that are ready
  account,            \* account[n][x]: user and policy x on the server of n
  local               \* other local variables of the reconciles

rc == INSTANCE Rc WITH Nothing <- NoData, RemovesMissing <- RemovesMissing

Users == Objects

username(u) == joined(u)

Names == {username(u) : u \in Users}

TYPE_USER_READY == "UserReady"
TYPE_SECRET_READY == "SecretReady"
ConditionTypes == {TYPE_USER_READY, TYPE_SECRET_READY}

(* A Secret holds the user name and a password.  One that lacks a key or   *)
(* has another user name is a Secret without data.                         *)
Secret == CompanionOf(Passwords)

NoAccount == [password |-> NoData, policy |-> NoData, attached |-> FALSE]

(* The account that a password and a policy make. *)
FullAccount(password, policy) ==
  [password |-> password, policy |-> policy, attached |-> TRUE]

Local == [instance: Instances \cup {Absent}, password: Passwords \cup {NoData}]

NoLocal == [instance |-> Absent, password |-> NoData]

UserSteps ==
  CompanionSteps \cup
    {"located", "connected", "removed", "generated", "added", "informed",
     "granted", "attached"}

UserConstantsAssumption ==
  /\ NoData \notin Passwords
  /\ Absent \notin Secret \cup Instances
  /\ {SetOwnerReference, RemovesMissing} \subseteq BOOLEAN
  /\ Observed = TRUE
  /\ MaxEdits \in Nat
  /\ MaxFaults \in Nat

OnlyKube == UNCHANGED <<ready, account, local>>

OnlyCr == OnlyKube /\ UNCHANGED <<companion, uid>>

UserReady(object) == is_condition_true(object.conditions, TYPE_USER_READY)

SecretReady(object) == is_condition_true(object.conditions, TYPE_SECRET_READY)

StatusIsNone(object) == object.conditions = NoConditions(ConditionTypes)

--------------------------------------------------------------------------------
(* The start, the Secret and the instance. *)

StartsUser(p, u) ==
  /\ Begin(p, u)
  /\ local' = [local EXCEPT ![p][u] = NoLocal]
  /\ UNCHANGED <<companion, uid, ready, account>>

InitializesUser(p, u) ==
  /\ At(p, u, "read")
  /\ StatusIsNone(task[p][u].cr)
  /\ Replace(p, u, [task[p][u].cr EXCEPT !.conditions =
                      init_conditions(ConditionTypes)], FALSE)
  /\ OnlyCr

GetsSecret(p, u) ==
  /\ At(p, u, "read")
  /\ ~StatusIsNone(task[p][u].cr)
  /\ GetCompanion(p, u)
  /\ OnlyKube

(* Mutant of Connects: an instance that is not ready is not looked at again. *)
ConnectsOnce(p, u, n) ==
  /\ IF n \in ready
       THEN /\ Continues(p, u, "connected")
            /\ local' = [local EXCEPT ![p][u].instance = n]
       ELSE Ends(p, u, FALSE) /\ UNCHANGED local
  /\ UNCHANGED <<companion, uid, ready, account>>

(* The instance n is missing, which is an error, or not ready, which is    *)
(* waited for: both requeue.                                               *)
Connects(p, u, n) ==
  /\ IF n \in ready
       THEN /\ Continues(p, u, "connected")
            /\ local' = [local EXCEPT ![p][u].instance = n]
       ELSE Ends(p, u, TRUE) /\ UNCHANGED local
  /\ UNCHANGED <<companion, uid, ready, account>>

Current(p, u) == account[local[p][u].instance][username(u)]

(* A command of rc for the user's account: it changes it or fails. *)
Commands(p, u, outcomes, step) ==
  IF outcomes # {}
    THEN /\ \E result \in outcomes :
              account' = [account EXCEPT ![local[p][u].instance][username(u)] = result]
         /\ Continues(p, u, step)
         /\ UNCHANGED <<companion, uid, ready, local>>
    ELSE Err(p, u) /\ OnlyCr

--------------------------------------------------------------------------------
(* The deletion.  fin is the finalizer of the controller. *)

(* Mutant of MarkedForRemoval: the finalizer is not looked at. *)
DeletedAtAll(p, u, fin) == At(p, u, "connected") /\ task[p][u].cr.deleting

MarkedForRemoval(p, u, fin) ==
  /\ At(p, u, "connected")
  /\ task[p][u].cr.deleting
  /\ fin \in task[p][u].cr.fins

(* The user goes; its policy stays on the server. *)
RemovesUser(p, u, fin) ==
  /\ MarkedForRemoval(p, u, fin)
  /\ Commands(p, u, rc!delete_user(Current(p, u)), "removed")

(* Mutant of ReadyToFinalize: the user is not removed first. *)
FinalizesAtOnce(p, u, fin) == At(p, u, "connected") /\ task[p][u].cr.deleting

ReadyToFinalize(p, u, fin) ==
  \/ At(p, u, "removed")
  \/ /\ At(p, u, "connected")
     /\ task[p][u].cr.deleting
     /\ fin \notin task[p][u].cr.fins

(* Mutant of FinalizesUser: the shorter list of finalizers is not written  *)
(* back to the copy that is sent.                                          *)
ForgetsFinalizer(p, u, fin) ==
  /\ ReadyToFinalize(p, u, fin)
  /\ Replace(p, u, task[p][u].cr, FALSE)
  /\ OnlyCr

FinalizesUser(p, u, fin) ==
  /\ ReadyToFinalize(p, u, fin)
  /\ Replace(p, u, [task[p][u].cr EXCEPT !.fins = @ \ {fin}], FALSE)
  /\ OnlyCr

--------------------------------------------------------------------------------
(* The credentials. *)

(* No two passwords are the same, and nobody guesses one. *)
InUse ==
  {cr[u].password_hash : u \in {o \in Users : cr[o] # Absent}}
  \cup {companion[u].data : u \in {o \in Users : companion[o] # Absent}}
  \cup {account[n][x].password : n \in Instances, x \in Names}
  \cup UNION {{local[p][u].password} \cup
              (IF task[p][u].cr = Absent THEN {} ELSE {task[p][u].cr.password_hash})
              \cup (IF task[p][u].dep = Absent THEN {} ELSE {task[p][u].dep.data}) :
              p \in Pods, u \in Users}

(* New passwords are interchangeable: one of them stands for all.          *)
NewPasswords ==
  LET free == Passwords \ InUse IN
  IF free = {} THEN {} ELSE {CHOOSE password \in free : TRUE}

(* Mutant of Rotates: the Secret of a user that is not ready is renewed.   *)
RotatesUntilReady(p, u) ==
  /\ At(p, u, "connected")
  /\ ~task[p][u].cr.deleting
  /\ ~UserReady(task[p][u].cr)

(* The Secret is not known to be up to date. *)
Rotates(p, u) ==
  /\ At(p, u, "connected")
  /\ ~task[p][u].cr.deleting
  /\ ~SecretReady(task[p][u].cr)

DrawsPassword(p, u) ==
  /\ Rotates(p, u)
  /\ \E password \in NewPasswords :
       local' = [local EXCEPT ![p][u].password = password]
  /\ Continues(p, u, "generated")
  /\ UNCHANGED <<companion, uid, ready, account>>

FillsSecret(p, u) ==
  /\ At(p, u, "generated")
  /\ WriteCompanion(p, u, [task[p][u].dep EXCEPT !.data = local[p][u].password],
                    "written")
  /\ OnlyKube

(* The hash is only saved after the Secret has the password. *)
SavesSecretReady(p, u) ==
  /\ At(p, u, "filled")
  /\ Replace(p, u,
       [task[p][u].cr EXCEPT
          !.password_hash = local[p][u].password,
          !.conditions = set_condition(@, TYPE_SECRET_READY, "True")], FALSE)
  /\ OnlyCr

(* The Secret has the password that the status has the hash of. *)
CredentialsFit(p, u) ==
  /\ task[p][u].dep.data # NoData
  /\ task[p][u].dep.data = task[p][u].cr.password_hash

Checks(p, u) ==
  /\ At(p, u, "connected")
  /\ ~task[p][u].cr.deleting
  /\ SecretReady(task[p][u].cr)

SavesSecretInvalid(p, u) ==
  /\ Checks(p, u)
  /\ Replace(p, u, [task[p][u].cr EXCEPT !.conditions =
                      set_condition(@, TYPE_SECRET_READY, "False")], FALSE)
  /\ OnlyCr

--------------------------------------------------------------------------------
(* The user. *)

AddsUser(p, u) ==
  /\ Checks(p, u)
  /\ Commands(p, u, rc!create_user(Current(p, u), task[p][u].dep.data), "added")

LooksUser(p, u) ==
  /\ At(p, u, "added")
  /\ Commands(p, u, rc!user_info(Current(p, u)), "informed")

(* Mutant of GrantsPolicy: a policy that exists is left alone. *)
KeepsPolicy(p, u, policy) ==
  /\ At(p, u, "informed")
  /\ Commands(p, u, IF Current(p, u).policy # NoData
                      THEN {Current(p, u)}
                      ELSE rc!create_policy(Current(p, u), policy), "granted")

GrantsPolicy(p, u, policy) ==
  /\ At(p, u, "informed")
  /\ Commands(p, u, rc!create_policy(Current(p, u), policy), "granted")

AttachesPolicy(p, u) ==
  /\ At(p, u, "granted")
  /\ Commands(p, u, rc!assign_policy(Current(p, u)), "attached")

PublishesUser(p, u) ==
  /\ At(p, u, "attached")
  /\ ReplaceStamped(p, u, [task[p][u].cr EXCEPT !.conditions =
                             set_condition(@, TYPE_USER_READY, "True")], TRUE)
  /\ OnlyCr

--------------------------------------------------------------------------------
(* Faults, users and other controllers. *)

UserFault(p) ==
  /\ Restarts(p) \/ \E u \in Users : CallFails(p, u)
  /\ OnlyCr

(* An instance becomes ready or goes. *)
ChangeInstance(n) ==
  /\ Edit
  /\ ready' = IF n \in ready THEN ready \ {n} ELSE ready \cup {n}
  /\ UNCHANGED <<cr, task, due, companion, uid, account, local>>

ChangeSecret(u) ==
  /\ \/ DeleteCompanion(u) \/ Collect(u)
     \/ \E data \in NewPasswords \cup {NoData} : EditCompanion(u, data)
  /\ OnlyKube

--------------------------------------------------------------------------------
(* What the properties of both controllers are made of. *)

AccountTypeOK(crs, policies) ==
  /\ ReconcilerTypeOK(UserSteps, crs, Secret)
  /\ companion \in [Users -> Secret \cup {Absent}]
  /\ uid \in [Users -> Uids]
  /\ ready \subseteq Instances
  /\ account \in [Instances -> [Names ->
       [password: Passwords \cup {NoData}, policy: policies \cup {NoData},
        attached: BOOLEAN]]]
  /\ local \in [Pods -> [Users -> Local]]

(* The credentials in a Secret that are known to be right.                 *)
Valid(u) ==
  /\ cr[u] # Absent
  /\ companion[u] # Absent
  /\ SecretReady(cr[u])
  /\ companion[u].data = cr[u].password_hash
  /\ companion[u].data # NoData

ValidCredentialsKept ==
  \A u \in Users :
    edits' = edits /\ Valid(u) =>
      companion'[u] # Absent /\ companion'[u].data = companion[u].data

(* The state of a user object as an owner in the sense of Cleanup.         *)
StateOf(u, fin) ==
  IF cr[u] = Absent THEN "none"
  ELSE IF ~(cr[u].deleting /\ fin \in cr[u].fins) THEN "kept"
  ELSE IF cr[u].cleanup THEN "condemned" ELSE "marked"

(* The servers that know a user.                                           *)
KnownBy(u) == {n \in Instances : account[n][username(u)].password # NoData}

BecomesUserReady(u) ==
  /\ cr[u] # Absent /\ ~UserReady(cr[u])
  /\ cr'[u] # Absent /\ UserReady(cr'[u])
================================================================================
