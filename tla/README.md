# A TLA+ model of rustfs-manager-operator

The repository is a Kubernetes operator: four controllers keep RustFS servers,
buckets and users in line with custom resources (CRs). It talks to the API
server through `kube` and to RustFS through the command line tool `rc`. Every
step of a reconcile is a remote call, no state is held in memory between two
reconciles, and the whole protocol of a controller is in what it writes to
the CR: its finalizers and the conditions in its status.
That is what is modelled here. Paths are relative to the repository's root.

- [Inventory](#inventory): the system and what makes it correct
- [Modules](#modules): how the models correspond to the code
- [Runs](#runs): what TLC checks, the bounds, the fairness
- [Findings](#findings): where the code and what is said of it disagree
- [Proofs](#proofs): what holds for every value of the constants
- [Limits](#limits) and [Plan](#plan)

## Inventory

| Component | State it keeps | Operations | Interacts with |
|---|---|---|---|
| RustFSInstance controller, `operator/src/controllers/rustfs_instance.rs` | finalizer `s3-label`, conditions `SecretLabeled` and `RustFSReady`, `status.ready`, a label on a Secret, an rc alias | `reconcile`, `unlabel_secret`, `label_secret`, `is_secret_labeled`, `cr_ref_from_secret` | Secrets of users; the alias file; the server of the instance |
| RustFSBucket controller, `rustfs_bucket.rs` | finalizer `bucket-cleanup`, condition `BucketReady`, a ConfigMap | `reconcile`, `create_configmap`, `label_configmap`, `own_configmap`, `ensure_data_configmap` | `status.ready` and the endpoint of an instance; the buckets on its server |
| RustFSBucketUser controller, `rustfs_bucket_user.rs` | finalizer `user-cleanup` (formerly `bucket-cleanup`), conditions `SecretReady` and `UserReady`, a password hash, a Secret | `reconcile`, `create_secret`, `label_secret`, `set_secret_data`, `check_credentials` | the bucket and the instance; users and policies on the server |
| RustFSCustomUser controller, `rustfs_custom_user.rs` | as above, with a policy of its own | as above | the instance; users and policies on the server |
| Conditions, `operator/src/conditions.rs` | none | `init_conditions`, `set_condition`, `is_condition_*` | every controller |
| rc wrapper, `rc.rs` and `cli.rs` | the alias list of rc, a file in an emptyDir | one function per command of rc | the RustFS servers |
| API server and `kube::runtime` (external) | the objects with their resourceVersions; a queue of objects per controller and pod | get, create, replace, replace_status, delete, watch; finalizers, garbage collection | everything |
| Configuration, `config.rs` | `setOwnerReference` | read once | bucket and user controllers |
| Process, `main.rs`, `crdgen.rs`, `controller.rs` | none | start the four controllers and an HTTP endpoint; print CRDs | |
| Charts and documentation | | the Deployment: rolling update, emptyDir, no leader election | |

Where it is hard:

- **Interleaving.** The four controllers run in one process and a controller
  reconciles many objects at once, but each object only once at a time. While a
  Deployment rolls, two pods do all of it at once: `main.rs:35` speaks of an
  active controller manager, but there is no leader election.
- **Stale copies.** A reconcile reads the CR, makes up to fifteen calls and then
  replaces the CR *as a whole*. Only the resourceVersion stands between it and
  the loss of what a user wrote meanwhile. The same is true of the Secret.
- **Hand-over between reconciles.** Most writes end the reconcile with
  `await_change`; the next one starts because the write is an event of the watch.
  The finalizer is added only after the thing it guards has been made.
- **Partial failure.** A reconcile may end at every call and starts over.
- **Two sources of truth.** A password is in a Secret, its hash is in a status,
  and the server has its own; they are written one after the other.
- **Other objects.** A Secret, an instance or a bucket may be created, edited or
  deleted at any moment, and in any order.

What makes each component correct:

| Component | Properties |
|---|---|
| every controller | no step of the operator undoes an edit of a user or the finalizer of another controller, deletion included |
| instance | one Secret is claimed by one instance; a ready instance is protected by the finalizer; an instance lets go of its Secret before it is gone; a usable instance becomes ready; a deleted one goes |
| bucket | `BucketReady` is only written when the bucket is as the spec says; cleanup is kept: a bucket is removed only when its object is deleted and was marked, and a marked object does not go before its bucket; finalizer, ConfigMap and access follow the spec in the end; a deleted bucket goes |
| bucket user | as for the bucket; and valid credentials are not rotated |
| custom user | as for the bucket user, for the instance and the policy of its own spec |
| several components | what the instance controller does is what the bucket controller relies on; a bucket on a usable instance is served, also by a pod that has lost its aliases; a name on the server has one owner |

The list of hazards, each at its line and with the properties that cover it, is
in `PROJECT.json`.

## Modules

    Conditions      Reconciler
        │   │        │      │
        │   └────────┼── Companion
        │            │    │     │
        │            │    │  UserAccount ···· Rc
        │            │    │     │      │
        │            │    │     │  CustomUserController
        │            │    │  BucketUserController
    InstanceController  BucketController ·· Rc
        │     :      :    :
        │     :     Operator
        │  SecretClaim     Cleanup ·· the bucket and user controllers

and of the proofs, each of which also EXTENDS the module it is named after:

    ReconcilerProofs
        │         │
        │     CompanionProofs
        │         │        │
        │         │     UserAccountProofs
        │         │        │           │
        │         │        │  CustomUserControllerProofs
        │         │     BucketUserControllerProofs
    InstanceControllerProofs  BucketControllerProofs
                        :        :
                      OperatorProofs

A line is an EXTENDS, dots are an INSTANCE.

| Module | Models |
|---|---|
| `Conditions` | `conditions.rs`: a function from condition types to statuses |
| `Reconciler` | the API server and the controller loop, as the code uses them |
| `Rc` | `rc.rs`: one operator for each command that changes a server |
| `SecretClaim` | abstract: what the label on a Secret promises |
| `Cleanup` | abstract: what `spec.cleanup` of a bucket or a user promises |
| `InstanceController` | `rustfs_instance.rs` with rc's aliases |
| `Companion` | what bucket and user controllers have in common: the ConfigMap or Secret beside the CR, and the finalizer that follows `spec.cleanup` |
| `BucketController` | `rustfs_bucket.rs` with rc's aliases and the buckets on the servers |
| `UserAccount` | what `rustfs_bucket_user.rs` and `rustfs_custom_user.rs` have in common: the credentials in the Secret, the user and the policy on the server |
| `BucketUserController` | `rustfs_bucket_user.rs`: instance and policy come from a bucket |
| `CustomUserController` | `rustfs_custom_user.rs`: instance and policy come from the spec |
| `Operator` | `main.rs`: the instance and the bucket controller in one process |
| `ReconcilerProofs`, `CompanionProofs`, `UserAccountProofs` | lemmas about what the controllers have in common |
| `InstanceControllerProofs`, `BucketControllerProofs`, `BucketUserControllerProofs`, `CustomUserControllerProofs`, `OperatorProofs` | theorems |
| `MC...` | instances for TLC: objects with their names, symmetry |

The two user controllers are two files with the same functions in the same order.
`UserAccount` has each passage once, with what differs as a parameter (the
finalizer, the policy, the instance); the modules of the controllers give every
function its name in the source and put them in the order of its `reconcile`.

### How a reconcile is modelled

`task[p][o]` is the reconcile of object `o` in pod `p`. Its `pc` names the last
call that was made, and `cr` and `dep` are the copies that the function holds of
the CR and of the Secret or ConfigMap. One action is one call: everything up
to the next `.await` that leaves the process is local and part of the action.
Actions are named after the functions of the source; those that stand
for a passage of `reconcile` have a name of their own (`EnsureFinalizer`,
`Publish`). Early returns are the actions that end in `Replace`, `Ends` or
`Err`.

**resourceVersion.** `crFresh` and `depFresh` say whether a copy has the stored
version. A write sets them to `FALSE` in every other task that holds a copy, and
`replace` fails on a copy that is not fresh. Of versions nothing else is ever
asked. A replace that changes nothing keeps the version and wakes
nobody, as in Kubernetes; a status with a new `lastTransitionTime` may be such a
change by itself (`ReplaceStamped`).

**Deletion.** A deleted object keeps its place while it has finalizers, may not
get new ones, and is `Reaped` with the last. `Foreign` are finalizers of others.
`uid` tells an object from a later one of the same name.

**The loop.** `due[p][o]` is the queue. A watch event or a requeue sets it; `Begin`
takes it. Times are left out: a requeue may happen at any time later.

**The servers.** `Rc` gives each command as a set of outcomes: what the server may
have of the bucket or the user afterwards, none if the command fails. A command
is atomic. Where it cannot be told from the repository what rc does, a constant
leaves it open: `RemovesMissing` says whether removing something that is not there
succeeds. Safety is checked for both values, liveness where it succeeds; see
[Limits](#limits). rc is told a server by the name of an instance. In
`InstanceController` and `BucketController` that name is an alias, which is
missing, or still names an earlier server, when the pod has it so, and
`BucketController` keeps the buckets by server and not by instance. In
`UserAccount` an instance is its server; a missing alias is a call that fails.

**Names.** A bucket or a user is called `format!("{}-{}", namespace, name)` on
the server. A namespace and a name are sequences of the parts between their
dashes, so the format is the concatenation: `<<"a">> \o <<"b","c">>` and
`<<"a","b">> \o <<"c">>` are the same name.

**Passwords.** A password stands for its own argon2 hash. A generated one differs
from every password that is in use in a CR, a Secret, a server or the copies of a
reconcile. Such passwords are interchangeable, so `NewPasswords` offers one of them.

**Faults.** `CallFails` ends a reconcile with an error at any point. `Restarts`
ends all reconciles of a pod and queues every object, as the first list of a
watch does; it comes with and without the loss of the alias file (a container
that restarts keeps its emptyDir, a new pod does not).

**Users** create, edit and delete the CRs, Secrets and ConfigMaps, drop
foreign finalizers, and change the objects of the other controllers. The
garbage collector is `Collect`.

**Two controllers.** `Operator` takes the actions of `InstanceController` and
`BucketController` from instances of these modules. The bucket controller sees
the instances and aliases of the other one (`rustfs`, `servers` are derived from
its variables). A restart ends the reconciles of both. So that
it says something about the bucket controller *as it was checked by itself*,
`InstancesBehave` is the refinement of `BucketController`'s `Spec`: what the instance
controller does is an `InstanceChanges` of that module.

## Runs

Every run uses a cfg of the same name. `MaxEdits` bounds the steps of users and
`MaxFaults` the faults; a user's step is at liberty to come at any moment, so
two edits suffice for "delete and create again" or "edit and take back" against
a reconcile in any of its states, and three for such a pair with a change of
the Secret, ConfigMap or instance between. Deadlock is not checked: when nothing is queued
and edits and faults are used up, the system rightly rests.

| Run | Shows |
|---|---|
| `instance_shared` | Two instances, two Secrets, a crash. They may name the same Secret and be pointed at another. `ClaimIsExclusive` is the refinement of `SecretClaim`; with `TypeOK`, `ReadyIsProtected`, `KeepsUserEdits`, `ReleasedBeforeGone`. |
| `instance_rollout` | Two pods, one instance with a foreign finalizer, two endpoints, three edits, a fault: `ReadyIsProtected`, `KeepsUserEdits`. |
| `instance_progress` | Fair: a usable instance `BecomesReady` and a deleted one goes (`DeletionCompletes`), with two instances for one Secret. |
| `bucket_alone` | One bucket that moves between two instances on servers of their own, with a foreign finalizer, a crash, aliases that come and go: `KeepsUserEdits`, and `KeepsPromise`, the refinement of `Cleanup`. |
| `bucket_progress` | Fair, one instance that may be pointed at another server, two accesses, a ConfigMap that may be deleted and edited: `ReadyIsEarned`, a reachable bucket `BecomesServed`, a deleted one goes. |
| `bucket_user_alone` | One user, new or of an older version, three edits, a crash: `KeepsUserEdits`, `ReadyIsEarned`, `ValidCredentialsStay`, `KeepsPromise`. |
| `bucket_user_progress` | Fair, a bucket that moves between two servers: `KeepsPromise` for the server where the deletion has found the bucket; a reachable user `BecomesServed`, a deleted one goes. |
| `custom_user` | Fair, one user that moves between two instances, two policies, a crash: all of the above for the `RustFSCustomUser` controller. |
| `operator` | Fair, both controllers, one instance, one bucket, one Secret, two endpoints, an edit of each side and a restart that may lose the aliases: `InstancesBehave`, `WantedBucketsAreServed`, `DeletedBucketsGo`. |

The other runs each show a violation, see [Findings](#findings).

**Bounds.** Objects of different names only meet where they share something: two
instances share a Secret (`instance_shared`, `instance_progress`), two buckets
share a name (`bucket_same_name`); elsewhere one object is enough. Two pods are
all that a rolling update with one replica has. Two servers let a bucket or a
user move; `Urls` says which of them an instance may be on (`MCApart`: each
instance on its own, `MCAnyServer`: any). The changes of instances are not
counted in the runs of `BucketController`, so that they may happen as often
as the instance controller makes them. One key besides `NoKeys` is enough, as the
instance controller only asks whether the keys are there. Four passwords always leave a new one
where there are two edits, five where there are three. In `operator` a call that
fails is left to the runs of the single controllers: there the fault is
the restart, which only the composition can show the effect of.

**Symmetry** is used in runs of the instance controller that check invariants and action properties only.

**Fairness** is weak fairness of `Reconcile(p, o)` for each pod and object. It is
what the code justifies: `kube::runtime` polls every queued object, a reconcile
in progress is a future that is polled on, and `error_policy` requeues after any
error. Nothing is assumed of users, of the garbage collector or of
other controllers, and faults need no fairness since their number is bounded.
That an object is *eventually left in peace* is part of a liveness property
(`<>[]Usable(i) => ...`) and not an assumption.

**Mutants.** For every property of a passing run `PROJECT.json` names a small
change of the model of the kind a programming error would be (a dropped guard, a
swapped order, no requeue, no version check) under which TLC finds the
property violated.

## Findings

Each is a counterexample of the run named, for a property that a comment or the
documentation states.

| Run | What happens |
|---|---|
| `instance_foreign_label` | An instance that was pointed at a Secret of another takes off its label when it is deleted. |
| `instance_endpoint` | An alias is set once. After `spec.endpoint` was changed the operator goes on to talk to the old server. |
| `bucket_same_name` | `a/b-c` and `a-b/c` share one bucket; deleting one removes the other's. |

Met on the way, and reproduced with variations of the same modules and
configurations that are not kept as runs:

- With two pods a late `rc rb --force` removes the bucket of an object that was
  deleted and created anew (`RemovalIsWanted` with `Pods = {p1,p2}`).
- A bucket with `cleanup` that is deleted before it has its finalizer, which it
  gets one reconcile after it was made (`rustfs_bucket.rs:105`), stays on the
  server; `README.md:43` says that it "will be removed from the instance".
- A user whose bucket object was deleted first is never removed and its object
  never goes: the missing bucket is an error (`rustfs_bucket_user.rs:160`) before the
  deletion is looked at. `README.md:63` says that it "will be removed".
- When a bucket moves to another instance while its user is being deleted, or has
  moved before, the account on the other server stays. `KeepsPromise` of the users is
  therefore about the server where the reconcile has found the bucket.
- An instance that is deleted after its Secret was labelled and before it has its
  finalizer leaves a label that no instance takes off again.
- An instance that was pointed at another Secret takes the label off that one when it
  is deleted; the Secret that it named before keeps its label, which no instance takes
  off again. `ReleasedBeforeGone` is therefore about the Secret that is named last.
- An instance whose Secret was deleted first is never released, as `get_secret`
  (`rustfs_instance.rs:58`) comes before the deletion logic.
- A user of an older version that is being deleted, with `cleanup`, when the new
  version starts keeps the old finalizer for ever: the replace at
  `rustfs_bucket_user.rs:134` that takes it off also adds the new one, which is
  refused. `DeletionCompletes` therefore speaks of users without the old finalizer.

And outside the properties: `.unwrap()` on what rc answers
(`rustfs_instance.rs:218`), a policy that outlives its user, and a
RustFSCustomUser and a RustFSBucketUser of one namespace and name, which are
one user on the server (`rustfs_custom_user.rs:151`, `rustfs_bucket_user.rs:187`)
whose password and policy each controller sets to its own.

`status.ready` of an instance is never reset (`rustfs_instance.rs:212`). The run
`operator` shows that this does no lasting harm: in a new pod the commands
for a bucket fail until the instance controller has set the alias again, and
as it does so whatever the status says, the bucket is served in the end. Its mutant
`SetUntilReady` is the operator that relies on the status.

## Proofs

`tlapm` checks the theorems below for all values of the constants that satisfy the
`ConstantsAssumption` of the module (the special values differ from the ordinary
ones, the bounds are natural numbers): for any number of objects, Secrets,
servers and policies, and with any sequence of edits and faults. No other
assumption is made but the two that are named in the table:

- `OnePod`: the operator runs in at most one pod, as it does but for the time of
  a rolling update;
- `OwnNames`: different objects have different names on the server, that is, no
  two have the same `format!("{}-{}", namespace, name)`.

| Module | Theorem | States | Under |
|---|---|---|---|
| `InstanceControllerProofs` | `TypeCorrect` | `[]TypeOK` | |
| | `Protected` | `[]ReadyIsProtected` | |
| | `EditsSurvive` | `KeepsUserEdits` | |
| | `Exclusive` | `ClaimIsExclusive`: the labels implement `SecretClaim` | |
| | `NothingLeftBehind` | `ReleasedBeforeGone` | `OnePod` |
| `BucketControllerProofs` | `TypeCorrect` | `[]TypeOK` | |
| | `EditsSurvive` | `KeepsUserEdits` | |
| | `PromiseKept` | `KeepsPromise`: the buckets implement `Cleanup` | `OnePod`, `OwnNames` |
| | `ReadyEarned` | `ReadyIsEarned` | `OnePod`, `OwnNames` |
| `BucketUserControllerProofs` and `CustomUserControllerProofs` | `TypeCorrect` | `[]TypeOK` | |
| | `EditsSurvive` | `KeepsUserEdits` | |
| | `CredentialsStay` | `ValidCredentialsStay` | `OnePod`, `OwnNames` |
| | `ReadyEarned` | `ReadyIsEarned` | `OnePod`, `OwnNames` |
| | `PromiseKept` | `KeepsPromise`: the users implement `Cleanup` | `OnePod`, `OwnNames` |
| `OperatorProofs` | `TypeCorrect` | `[]TypeOK` | |
| | `EnvironmentJustified` | `InstancesBehave`: it implements `BucketController` | |
| | `InstancesKept` | the properties of the instance controller hold in the process | |
| | `BucketsKept` | and those of the bucket controller | `OnePod`, `OwnNames` |

The properties need these assumptions, not only their proofs.
TLC finds each property that is proved under `OnePod` violated when its run has
two pods, where one still works from an old copy: it puts the label back, removes
a bucket or a user that was created anew, sets the old access, or rotates the
password again. Two buckets with one name break `ReadyIsEarned` as well as
`RemovalIsWanted` (`bucket_same_name`). Only `CredentialsStay`, which says
nothing of the server, takes `OwnNames` from the invariant that it is read off.
`Protected`, `Exclusive` and every `EditsSurvive` hold however many pods overlap.

**Types and edits.** None of the properties is inductive. Whether a replace loses
an edit depends on what `crFresh` means, so every invariant (`IInv` of instances
and buckets, `AInv` of users, both on top of `Sound` of `ReconcilerProofs` and
`CInv` of `CompanionProofs`) adds to the types `CopiesOK`: a reconcile that runs
has a copy of its CR, and a fresh copy *equals* the stored CR. A replace that the
API server accepts then changes exactly the fields in which the object it sends
differs from its copy, and `EditsSurvive` follows for every write of the
controller from what the code changes in its copy. `EnsureFinalizer`, which goes
on with the object that it has just written, is the one step that makes a fresh
copy without a read.

**Instances.** `IInv` has three more parts:

- `SecretCopyOK`: the copy of a Secret, like that of the CR, is of the Secret
  that the copy of the CR names;
- `StepOK`: what a step still knows of its copy: after `unlabeled` the
  copy is being deleted, at `aliased` it is not and has the finalizer;
- `ReadyIsProtected`.

`Protected` follows as `Publish` sends a copy with the finalizer and as no action
takes the finalizer off an object that is not being deleted; `Exclusive`
follows since `label_secret` sends the label with a copy that had none, and an
accepted copy is what is stored, so the label was free until this step.
`NothingLeftBehind` needs an invariant more, `Seen` (theorem `LabelsSeen`): the
label of an instance that a reconcile has seen on the Secret, or has not, is
there, or not, until its next call. Only a second pod could put it back in between.

**Buckets.** `Established` says what the calls of a reconcile have brought about
and what still holds when it goes on: an object that was marked for removal
(deleted, with `cleanup` and the finalizer) is still marked, as nothing but this
reconcile unmarks it; at `removed` its bucket is gone from the server that
the alias names; at `opened` it has the access of the copy. `PInv` is this for
all pods and buckets. It holds because the alias of a living pod never changes, because
no other object has this bucket (`OwnNames`) and no other reconcile
this object (`OnePod`). Then a bucket is removed only for a marked object, the
finalizer of a marked object goes only at `removed`, and these are the steps of `Cleanup`;
`ready` is only written at `opened` or for a bucket that was ready.

**Users.** The two controllers differ in the finalizers, the policy and where they look
for the instance. `UserAccountProofs` gathers this in a record `k` and proves
every fact once, for the steps `AccountNext(k)`; the modules of the controllers
show that their record (`Custom`, `Granted`) is a `Controller`, that each of
their steps is one of `AccountNext`, and draw the conclusions. The invariant
`BInv` has `CompanionCopies`, an `Established` as above with the password and the policy
of the account, and `Standing`: while the Secret has the password whose hash is in
the status, its owner reference names the very object by its `uid` (or there are no owner
references), so that the garbage collector leaves it. This part is easy to miss:
an object that is deleted and created again while its Secret waits for collection
has a new `uid`, no status, and no claim to the old Secret.

**The process.** `OperatorProofs` takes the proofs of both controllers as
instances (`IP`, `BP`) for the variables of `Operator`. Its invariant is that of
both and `AliasesServe`: an alias has a server, and a reconcile of an
instance that is about to publish has an alias. Every step of the process is
shown to be a step or a stutter of both controllers, where every step of the
instance controller is an `InstanceChanges` of `BucketController`: it sets an
alias that was missing, or creates, edits or deletes one instance, and
makes it ready only while there is an alias for it. So what is proved of
each holds in the process. `InstanceModule` and `BucketModule` say that `IP`
and `I`, `BP` and `B` are about the same steps; their lists of definitions are long as the
prover compares two instances of a module only when all is expanded.

**How to read them.** In each module, `Good` (types, edits) and `Kind` (what else a
step keeps and shows) are what a single step has to show. There is a lemma for every operation
(`ReplaceGood`, `WriteKeeps`, ...), one for each of reconciles, faults and users,
and the theorems take from `StepGood` and `StepKind` what they need. What the lemmas
know of the API server and of the companion is in `ReconcilerProofs` and `CompanionProofs`.

**Only model-checked:** the liveness properties (`BecomesReady`, `BecomesServed`,
`DeletionCompletes`, `WantedBucketsAreServed`, `DeletedBucketsGo`), as fairness and
`ENABLED` are beyond the proof system.

## Limits

- What rc does is not in the repository. `DeletionCompletes` of buckets and
  users is checked with `RemovesMissing = TRUE`. If rc fails on what is not there, then an object whose
  `rc rb` succeeded and whose reconcile then failed is never released.
- An alias file that two rc processes rewrite at once is not modelled; each
  instance has its alias.
- `kube`'s cache is not: every read of the code is a get from the API server,
  which is consistent, and the watch only queues names.
- Panics are restarts; the shape of what rc answers is not modelled.
- The scheduling of blocking rc processes on tokio's threads is not modelled.
- `KeepsPromise`, `ReadyIsEarned`, `ValidCredentialsStay` and `ReleasedBeforeGone` are checked and
  proved for one pod, the first three for objects of different names on the server. What
  breaks otherwise is said under [Proofs](#proofs).
- `instance_progress` has one endpoint and one set of keys, so `BecomesReady` does not
  say that the alias fits the instance; that it may not is the finding
  `instance_endpoint`.
- Collection of a ConfigMap is part of `bucket_alone`, for safety. `bucket_progress` has no owner
  references, which keeps its state space small; that an object is served although its
  companion was collected is checked for the Secrets of users, by the same actions of `Companion`.
- `BecomesServed` and `DeletionCompletes` of the users assume that the pod has the alias of a
  ready instance: a missing alias is a call that fails. For buckets, `operator` checks what
  follows when it has not.
- The user controllers read buckets and instances that the models change
  freely. `InstancesBehave` shows for the bucket controller that the instance
  controller produces only what its model allows, and `OperatorProofs` proves it; for the users
  this rests on reading the code.
- The two user controllers are not composed over one set of accounts.
- Of `main.rs` only the joint life of the controllers is modelled. Logging, the health endpoint, the printing of CRDs
  (`crdgen.rs`), the configuration file (`config.rs`) and the charts keep no
  state of the protocol. `controller.rs` is an older `main` that nothing builds.

## Plan

Done: the four controllers, the first two in one process, the abstract
specifications of claims and of cleanup, and the proofs of every invariant,
action property and refinement that a passing run checks.

Left, in this order:

1. A composition of the two user controllers over one set of accounts, to state
   which of their properties hold for users of different names and to show what
   becomes of two users with one name.
2. The bucket user controller in one process with the bucket controller, with its
   `InstancesBehave`: what the bucket controller does is what users rely on.
3. `KeepsPromise` for two pods, in a weaker form that speaks of removals
   that were wanted when the reconcile has read its object.
