-------------------------- MODULE InstanceController --------------------------
(***************************************************************************)
(* The RustFSInstance controller, operator/src/controllers/                *)
(* rustfs_instance.rs: it labels the Secret with the credentials of a      *)
(* RustFS server, sets up an rc alias for the server and publishes what    *)
(* the server reports in the status of the RustFSInstance.                 *)
(***************************************************************************)
EXTENDS Reconciler, Conditions

CONSTANTS
  Secrets,       \* names of Secrets
  Endpoints,     \* URLs of RustFS servers
  Keys,          \* credentials that a Secret can hold
  NoInstance,    \* a Secret without the operator's label
  NoKeys,        \* a Secret without ACCESS_KEY or SECRET_KEY
  NoEndpoint     \* no alias, or nothing published yet

VARIABLES
  secret,        \* Secrets in the API server
  alias          \* rc's alias list of each pod, a file on its emptyDir

vars == <<cr, task, due, edits, faults, secret, alias>>

Instances == Objects

FIN_SECRET_LABEL == "s3-label"
TYPE_CONNECTED == "RustFSReady"
TYPE_SECRET_LABELED == "SecretLabeled"
ConditionTypes == {TYPE_CONNECTED, TYPE_SECRET_LABELED}

(* from is the server that region and buckets in the status describe. *)
RustFSInstance ==
  [deleting: BOOLEAN, fins: SUBSET (Foreign \cup {FIN_SECRET_LABEL}),
   secretRef: Secrets, endpoint: Endpoints,
   conditions: [ConditionTypes -> ConditionStatus],
   ready: BOOLEAN, from: Endpoints \cup {NoEndpoint}]

Secret == [label: Instances \cup {NoInstance}, keys: Keys \cup {NoKeys}]

Alias == [endpoint: Endpoints \cup {NoEndpoint}, keys: Keys \cup {NoKeys}]

NoAlias == [endpoint |-> NoEndpoint, keys |-> NoKeys]

(* The calls of a reconcile: it has read the CR, got the Secret, taken its *)
(* label off, put it on, got the Secret again, or made sure of the alias.  *)
Steps == {"idle", "read", "secret", "unlabeled", "written", "labeled", "aliased"}

ASSUME ConstantsAssumption ==
  /\ NoInstance \notin Instances
  /\ NoKeys \notin Keys
  /\ NoEndpoint \notin Endpoints
  /\ FIN_SECRET_LABEL \notin Foreign
  /\ Absent \notin RustFSInstance
  /\ Absent \notin Secret
  /\ MaxEdits \in Nat
  /\ MaxFaults \in Nat

NewInstances ==
  {[deleting |-> FALSE, fins |-> Foreign, secretRef |-> s, endpoint |-> e,
    conditions |-> NoConditions(ConditionTypes), ready |-> FALSE,
    from |-> NoEndpoint] : s \in Secrets, e \in Endpoints}

NewSecrets == {[label |-> NoInstance, keys |-> k] : k \in Keys \cup {NoKeys}}

Init ==
  /\ ReconcilerInit
  /\ cr \in [Instances -> NewInstances \cup {Absent}]
  /\ secret \in [Secrets -> NewSecrets \cup {Absent}]
  /\ alias = [p \in Pods |-> [i \in Instances |-> NoAlias]]

(* A write to Secret s outdates the copies of all who read it. *)
SecretOutdated(t, s) ==
  [p \in Pods |-> [i \in Instances |->
     [t[p][i] EXCEPT !.depFresh =
        @ /\ ~(t[p][i].cr # Absent /\ t[p][i].cr.secretRef = s)]]]

(* cr_ref_from_secret: its event concerns the instance the label names. *)
SecretWatched(d, label) ==
  [p \in Pods |-> [i \in Instances |-> d[p][i] \/ label = i]]

--------------------------------------------------------------------------------
(* One reconcile. *)

OnlyCr == UNCHANGED <<secret, alias>>

StatusIsNone(object) == object.conditions = NoConditions(ConditionTypes)

Labeled(object) == is_condition_true(object.conditions, TYPE_SECRET_LABELED)

Unlabeled(object) == is_condition_unknown(object.conditions, TYPE_SECRET_LABELED)

HasFinalizer(object) == FIN_SECRET_LABEL \in object.fins

init_object(p, i) ==
  /\ At(p, i, "read")
  /\ StatusIsNone(task[p][i].cr)
  /\ Replace(p, i, [task[p][i].cr EXCEPT !.conditions =
                      init_conditions(ConditionTypes)], FALSE)
  /\ OnlyCr

get_secret(p, i) ==
  LET stored == secret[task[p][i].cr.secretRef] IN
  /\ At(p, i, "read")
  /\ ~StatusIsNone(task[p][i].cr)
  /\ \/ stored = Absent /\ Err(p, i)
     \/ /\ stored # Absent
        /\ task' = [task EXCEPT ![p][i] =
                      [@ EXCEPT !.pc = "secret", !.dep = stored, !.depFresh = TRUE]]
        /\ UNCHANGED <<cr, due, edits, faults>>
  /\ OnlyCr

(* Mutant of WriteLabel: the Secret is sent without its resourceVersion. *)
OverwritesLabel(p, i, label, step) ==
  LET s == task[p][i].cr.secretRef IN
  IF secret[s] = Absent
    THEN Err(p, i) /\ OnlyCr
    ELSE /\ secret' = [secret EXCEPT ![s] = [task[p][i].dep EXCEPT !.label = label]]
         /\ task' = [SecretOutdated(task, s) EXCEPT ![p][i].pc = step]
         /\ due' = SecretWatched(due, label)
         /\ UNCHANGED <<cr, edits, faults, alias>>

(* Replaces the Secret by the copy with another label, and goes on. *)
WriteLabel(p, i, label, step) ==
  LET s == task[p][i].cr.secretRef
      object == [task[p][i].dep EXCEPT !.label = label] IN
  \/ /\ DepAccepted(p, i)
     /\ object # secret[s]
     /\ secret' = [secret EXCEPT ![s] = object]
     /\ task' = [SecretOutdated(task, s) EXCEPT ![p][i].pc = step]
     /\ due' = SecretWatched(due, label)
     /\ UNCHANGED <<cr, edits, faults, alias>>
  \/ DepAccepted(p, i) /\ object = secret[s] /\ Continues(p, i, step) /\ OnlyCr
  \/ ~DepAccepted(p, i) /\ Err(p, i) /\ OnlyCr

(* Deletion: the label comes off the Secret, whoever it names.  A Secret   *)
(* without any label is left alone.                                        *)
unlabel_secret(p, i) ==
  /\ At(p, i, "secret")
  /\ task[p][i].cr.deleting
  /\ HasFinalizer(task[p][i].cr)
  /\ \/ WriteLabel(p, i, NoInstance, "unlabeled")
     \/ /\ task[p][i].dep.label = NoInstance
        /\ Continues(p, i, "unlabeled")
        /\ OnlyCr

(* Mutant of ReadyToFinalize: the label is not taken off first. *)
FinalizesAtOnce(p, i) == At(p, i, "secret") /\ task[p][i].cr.deleting

(* Then the finalizer comes off the CR. *)
ReadyToFinalize(p, i) ==
  \/ At(p, i, "unlabeled")
  \/ /\ At(p, i, "secret")
     /\ task[p][i].cr.deleting
     /\ ~HasFinalizer(task[p][i].cr)

Finalize(p, i) ==
  /\ ReadyToFinalize(p, i)
  /\ Replace(p, i, [task[p][i].cr EXCEPT !.fins = @ \ {FIN_SECRET_LABEL}], FALSE)
  /\ OnlyCr

(* A labelled Secret is protected by the finalizer before it is used. *)
AddFinalizer(p, i) ==
  /\ At(p, i, "secret")
  /\ ~task[p][i].cr.deleting
  /\ Labeled(task[p][i].cr)
  /\ ~HasFinalizer(task[p][i].cr)
  /\ Replace(p, i, [task[p][i].cr EXCEPT !.fins = @ \cup {FIN_SECRET_LABEL}], FALSE)
  /\ OnlyCr

(* The instance wants the Secret: it is free, its own, or another's. *)
Wants(p, i) ==
  /\ At(p, i, "secret")
  /\ ~task[p][i].cr.deleting
  /\ Unlabeled(task[p][i].cr)

(* Mutant of label_secret: is_secret_labeled is not asked. *)
LabelsAnySecret(p, i) == Wants(p, i) /\ WriteLabel(p, i, i, "written")

label_secret(p, i) ==
  /\ Wants(p, i)
  /\ task[p][i].dep.label = NoInstance
  /\ WriteLabel(p, i, i, "written")

(* label_secret ends with a get, which fails if the Secret is gone. *)
reread_secret(p, i) ==
  /\ At(p, i, "written")
  /\ IF secret[task[p][i].cr.secretRef] = Absent
       THEN Err(p, i)
       ELSE Continues(p, i, "labeled")
  /\ OnlyCr

SecretIsAlreadyLabeled(p, i) ==
  /\ Wants(p, i)
  /\ task[p][i].dep.label \in Instances \ {i}
  /\ Err(p, i)
  /\ OnlyCr

SetLabeled(p, i, status) ==
  Replace(p, i, [task[p][i].cr EXCEPT !.conditions =
                   set_condition(@, TYPE_SECRET_LABELED, status)], FALSE)

SaveLabeled(p, i) ==
  /\ At(p, i, "labeled") \/ (Wants(p, i) /\ task[p][i].dep.label = i)
  /\ SetLabeled(p, i, "True")
  /\ OnlyCr

(* Mutant of Claims: the finalizer is not waited for. *)
ClaimsAtOnce(p, i) ==
  At(p, i, "secret") /\ ~task[p][i].cr.deleting /\ Labeled(task[p][i].cr)

(* The status says the Secret is labelled and the finalizer is there. *)
Claims(p, i) ==
  /\ At(p, i, "secret")
  /\ ~task[p][i].cr.deleting
  /\ Labeled(task[p][i].cr)
  /\ HasFinalizer(task[p][i].cr)

(* The label is gone, or another instance's: start over. *)
SaveUnlabeled(p, i) ==
  /\ Claims(p, i)
  /\ task[p][i].dep.label # i
  /\ SetLabeled(p, i, "Unknown")
  /\ OnlyCr

InvalidSecret(p, i) ==
  /\ Claims(p, i)
  /\ task[p][i].dep.label = i
  /\ task[p][i].dep.keys = NoKeys
  /\ Err(p, i)
  /\ OnlyCr

(* The alias that the copies of the reconcile describe. *)
AliasSeen(p, i) ==
  [endpoint |-> task[p][i].cr.endpoint, keys |-> task[p][i].dep.keys]

(* Mutants of EnsuredAlias: the alias is set each time, or only while the  *)
(* instance is not ready.                                                  *)
SetAlways(p, i) == AliasSeen(p, i)

SetUntilReady(p, i) ==
  IF alias[p][i] = NoAlias /\ ~task[p][i].cr.ready
    THEN AliasSeen(p, i)
    ELSE alias[p][i]

(* get_aliases, then set_alias only if there is no alias of that name. *)
EnsuredAlias(p, i) ==
  IF alias[p][i] = NoAlias THEN AliasSeen(p, i) ELSE alias[p][i]

EnsureAlias(p, i) ==
  /\ Claims(p, i)
  /\ task[p][i].dep.label = i
  /\ task[p][i].dep.keys # NoKeys
  /\ alias' = [alias EXCEPT ![p][i] = EnsuredAlias(p, i)]
  /\ Continues(p, i, "aliased")
  /\ UNCHANGED secret

(* admin_info and list_buckets ask the server behind the alias. *)
Publish(p, i) ==
  /\ At(p, i, "aliased")
  /\ Replace(p, i, [task[p][i].cr EXCEPT !.ready = TRUE,
                                         !.from = alias[p][i].endpoint], TRUE)
  /\ OnlyCr

Reconcile(p, i) ==
  \/ Begin(p, i) /\ OnlyCr
  \/ init_object(p, i) \/ get_secret(p, i)
  \/ unlabel_secret(p, i) \/ Finalize(p, i)
  \/ AddFinalizer(p, i) \/ label_secret(p, i) \/ reread_secret(p, i)
  \/ SecretIsAlreadyLabeled(p, i)
  \/ SaveLabeled(p, i) \/ SaveUnlabeled(p, i) \/ InvalidSecret(p, i)
  \/ EnsureAlias(p, i) \/ Publish(p, i)

(* A container that restarts keeps the emptyDir; a new pod has a new one.  *)
Fault(p) ==
  \/ Restarts(p) /\ OnlyCr
  \/ Restarts(p) /\ alias' = [alias EXCEPT ![p] = [i \in Instances |-> NoAlias]]
                 /\ UNCHANGED secret
  \/ \E i \in Instances : CallFails(p, i) /\ OnlyCr

--------------------------------------------------------------------------------
(* Users. *)

EditInstance(i) ==
  /\ cr[i] # Absent
  /\ \E s \in Secrets, e \in Endpoints :
       /\ <<s, e>> # <<cr[i].secretRef, cr[i].endpoint>>
       /\ WriteCr(i, [cr[i] EXCEPT !.secretRef = s, !.endpoint = e])

WriteSecret(s, object, label) ==
  /\ Edit
  /\ secret' = [secret EXCEPT ![s] = object]
  /\ task' = SecretOutdated(task, s)
  /\ due' = SecretWatched(due, label)
  /\ UNCHANGED <<cr, alias>>

CreateSecret(s) ==
  /\ secret[s] = Absent
  /\ \E object \in NewSecrets : WriteSecret(s, object, NoInstance)

EditSecret(s) ==
  /\ secret[s] # Absent
  /\ \E k \in (Keys \cup {NoKeys}) \ {secret[s].keys} :
       WriteSecret(s, [secret[s] EXCEPT !.keys = k], secret[s].label)

DeleteSecret(s) ==
  /\ secret[s] # Absent
  /\ WriteSecret(s, Absent, secret[s].label)

User ==
  \/ \E i \in Instances :
       /\ \/ \E object \in NewInstances : CreateCr(i, object)
          \/ DeleteCr(i) \/ EditInstance(i) \/ DropForeign(i)
       /\ OnlyCr
  \/ \E s \in Secrets : CreateSecret(s) \/ EditSecret(s) \/ DeleteSecret(s)

--------------------------------------------------------------------------------
Next ==
  \/ \E p \in Pods, i \in Instances : Reconcile(p, i)
  \/ \E p \in Pods : Fault(p)
  \/ User

Spec == Init /\ [][Next]_vars

(* A queued instance is reconciled and a started reconcile goes on: the    *)
(* controller loop is never blocked.  Nothing is assumed of users, and     *)
(* faults stop when their number is used up.                               *)
Fairness == \A p \in Pods, i \in Instances : WF_vars(Reconcile(p, i))

FairSpec == Spec /\ Fairness

--------------------------------------------------------------------------------
(* Every variable has its type. *)
TypeOK ==
  /\ ReconcilerTypeOK(Steps, RustFSInstance, Secret)
  /\ secret \in [Secrets -> Secret \cup {Absent}]
  /\ alias \in [Pods -> [Instances -> Alias]]

(* A ready instance that is not being deleted carries the finalizer: the   *)
(* status is only published by a reconcile that has read the finalizer,    *)
(* and no write of another pod or user came in between.                    *)
ReadyIsProtected ==
  \A i \in Instances :
    cr[i] # Absent /\ cr[i].ready /\ ~cr[i].deleting => HasFinalizer(cr[i])

holder ==
  [s \in Secrets |-> IF secret[s] = Absent THEN NoInstance ELSE secret[s].label]

Claim ==
  INSTANCE SecretClaim WITH
    Instances <- Instances, Secrets <- Secrets, NoInstance <- NoInstance,
    holder <- holder

(* The labels of the Secrets behave like exclusive claims: two instances   *)
(* that both saw a Secret without a label cannot both label it, and no     *)
(* label passes from one instance to another without being taken off.      *)
ClaimIsExclusive == Claim!Spec

(* The controller never undoes what users and others wrote: its replace    *)
(* calls send the whole object, so a step of the operator on an outdated   *)
(* copy would bring back an old spec, old credentials, a deleted object or *)
(* a finalizer that another controller has taken off.                      *)
UserEditsKept ==
  /\ \A i \in Instances : cr'[i] # Absent =>
       /\ cr[i] # Absent
       /\ cr'[i].secretRef = cr[i].secretRef
       /\ cr'[i].endpoint = cr[i].endpoint
       /\ cr'[i].deleting = cr[i].deleting
       /\ cr'[i].fins \cap Foreign = cr[i].fins \cap Foreign
  /\ \A i \in Instances :
       cr[i] # Absent /\ cr'[i] = Absent
         => cr[i].deleting /\ cr[i].fins \cap Foreign = {}
  /\ \A s \in Secrets :
       /\ (secret'[s] = Absent) = (secret[s] = Absent)
       /\ secret[s] # Absent => secret'[s].keys = secret[s].keys

KeepsUserEdits == [][edits' = edits => UserEditsKept]_vars

(* When the controller lets an instance go that it had protected, the      *)
(* Secret the instance names is no longer labelled with it.                *)
ReleasedBeforeGone ==
  [][\A i \in Instances :
       /\ edits' = edits
       /\ cr[i] # Absent
       /\ cr'[i] = Absent
       /\ HasFinalizer(cr[i])
       => holder[cr[i].secretRef] # i]_vars

(* An instance whose Secret is there, is complete and is not another's. *)
Usable(i) ==
  /\ cr[i] # Absent
  /\ ~cr[i].deleting
  /\ secret[cr[i].secretRef] # Absent
  /\ secret[cr[i].secretRef].keys # NoKeys
  /\ holder[cr[i].secretRef] \in {i, NoInstance}

(* An instance that stays usable becomes ready: every path through the     *)
(* reconciler that waits for a change waits for one that comes.            *)
BecomesReady ==
  \A i \in Instances :
    <>[]Usable(i) => <>[](cr[i] # Absent /\ cr[i].ready)

(* An instance that is being deleted goes away as long as its Secret       *)
(* exists and nobody else holds the instance back.                         *)
DeletionCompletes ==
  \A i \in Instances :
    []<>~(/\ cr[i] # Absent
          /\ cr[i].deleting
          /\ cr[i].fins \cap Foreign = {}
          /\ secret[cr[i].secretRef] # Absent)

--------------------------------------------------------------------------------
(* What the code says of itself and does not do: a run shows a violation   *)
(* of each.                                                                *)

(* rustfs_instance.rs:322 "Checks whether a secret is already labeled by   *)
(* another object": the deletion of an instance does not take off the      *)
(* label of another one.                                                   *)
OnlyHolderReleases ==
  [][\A s \in Secrets, p \in Pods, i \in Instances :
       /\ task[p][i].pc = "secret"
       /\ task'[p][i].pc = "unlabeled"
       /\ holder[s] # holder'[s]
       => holder[s] = i]_vars

(* v1beta1_rustfs_instance.rs:13 "Connect the operator to a RustFs cluster *)
(* using this resource": the published status describes the server that    *)
(* the spec names.  The alias is set once and never changed.               *)
StatusFollowsEndpoint ==
  \A i \in Instances, e \in Endpoints :
    <>[](Usable(i) /\ cr[i].endpoint = e)
      => <>[](cr[i] # Absent /\ cr[i].from = e)
================================================================================
