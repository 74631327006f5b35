------------------------------ MODULE Reconciler ------------------------------
(***************************************************************************)
(* What every controller of the operator is built on: the API server that  *)
(* stores its custom resources, and the kube::runtime::Controller that     *)
(* runs one reconcile at a time for every object.  Neither is part of the  *)
(* repository; both are modelled from how operator/src/controllers uses    *)
(* them.                                                                   *)
(*                                                                         *)
(* A reconcile is one task of one operator pod.  Every call to the API     *)
(* server or to rc is an atomic step; between two of them any other pod,   *)
(* object or user may act.  Two pods overlap while a Deployment rolls.     *)
(*                                                                         *)
(* A custom resource is a record with at least the fields                  *)
(*     fins      the finalizers in its metadata                            *)
(*     deleting  whether it has a deletionTimestamp                        *)
(* resourceVersion is not one of them: crFresh and depFresh say whether    *)
(* the copy that a reconcile holds still has the stored version.           *)
(***************************************************************************)
EXTENDS Naturals

CONSTANTS
  Pods,       \* operator processes
  Objects,    \* names of the custom resources of this controller
  Foreign,    \* finalizers that others put on a new object
  Absent,     \* a missing object, or no copy of one
  MaxEdits,   \* bound on the steps of users
  MaxFaults   \* bound on failed calls and restarts

VARIABLES
  cr,         \* the custom resources in the API server
  task,       \* task[p][o]: the reconcile that pod p runs for object o
  due,        \* due[p][o]: whether the queue of pod p holds object o
  edits,      \* steps left to users
  faults      \* faults left

(* pc names the call that a reconcile has last completed, cr and dep are   *)
(* its copies of the object and of the Secret or ConfigMap beside it.      *)
TaskOf(steps, crs, deps) ==
  [pc: steps, cr: crs \cup {Absent}, crFresh: BOOLEAN,
   dep: deps \cup {Absent}, depFresh: BOOLEAN]

Idle ==
  [pc |-> "idle", cr |-> Absent, crFresh |-> FALSE,
   dep |-> Absent, depFresh |-> FALSE]

At(p, o, step) == task[p][o].pc = step

ReconcilerInit ==
  /\ task = [p \in Pods |-> [o \in Objects |-> Idle]]
  /\ due = [p \in Pods |-> [o \in Objects |-> TRUE]]
  /\ edits = MaxEdits
  /\ faults = MaxFaults

--------------------------------------------------------------------------------
(* The rules of the API server. *)

(* An object that is being deleted is removed with its last finalizer. *)
Reaped(object) ==
  IF object.deleting /\ object.fins = {} THEN Absent ELSE object

(* A missing object is not found; a finalizer may not be added to an       *)
(* object that is being deleted.                                           *)
Admits(stored, object) ==
  /\ stored # Absent
  /\ stored.deleting => object.fins \subseteq stored.fins

(* After a write the other copies of the object have an old version. *)
CrOutdated(t, o) == [p \in Pods |-> [t[p] EXCEPT ![o].crFresh = FALSE]]

DepOutdated(t, o) == [p \in Pods |-> [t[p] EXCEPT ![o].depFresh = FALSE]]

(* The watch of every pod queues the object that was written. *)
Watched(d, o) == [p \in Pods |-> [d[p] EXCEPT ![o] = TRUE]]

(* replace and replace_status fail with a conflict on an outdated copy. *)
CrAccepted(p, o) == task[p][o].crFresh

DepAccepted(p, o) == task[p][o].depFresh

--------------------------------------------------------------------------------
(* The runtime: a reconcile starts when its object is queued.  It ends     *)
(* with await_change or with a requeue; error_policy turns every error     *)
(* into a requeue.                                                         *)

Ended(t, p, o) == [t EXCEPT ![p][o] = Idle]

Requeued(d, p, o, again) == [d EXCEPT ![p][o] = @ \/ again]

Ends(p, o, again) ==
  /\ task' = Ended(task, p, o)
  /\ due' = Requeued(due, p, o, again)
  /\ UNCHANGED <<cr, edits, faults>>

(* Mutant of Err: after an error the next event is waited for. *)
AwaitsChange(p, o) == Ends(p, o, FALSE)

Err(p, o) == Ends(p, o, TRUE)

Continues(p, o, step) ==
  /\ task' = [task EXCEPT ![p][o].pc = step]
  /\ UNCHANGED <<cr, due, edits, faults>>

(* The first call gets the object; a missing one ends the reconcile. *)
Begin(p, o) ==
  /\ At(p, o, "idle")
  /\ due[p][o]
  /\ due' = [due EXCEPT ![p][o] = FALSE]
  /\ \/ cr[o] = Absent /\ UNCHANGED task
     \/ /\ cr[o] # Absent
        /\ task' = [task EXCEPT ![p][o] =
                      [Idle EXCEPT !.pc = "read", !.cr = cr[o], !.crFresh = TRUE]]
  /\ UNCHANGED <<cr, edits, faults>>

(* The object is replaced and all copies of it are outdated. *)
Store(p, o, object) ==
  /\ CrAccepted(p, o)
  /\ Admits(cr[o], object)
  /\ cr' = [cr EXCEPT ![o] = Reaped(object)]
  /\ due' = Watched(due, o)
  /\ UNCHANGED <<edits, faults>>

Refused(p, o, object) ==
  CrAccepted(p, o) => ~Admits(cr[o], object)

(* Replaces the CR as the last step of a reconcile.  A replace that        *)
(* changes nothing keeps the version and notifies nobody.                  *)
Updates(p, o, object) ==
  /\ Store(p, o, object)
  /\ task' = Ended(CrOutdated(task, o), p, o)

(* Mutant of Replace: the object is sent without its resourceVersion. *)
Overwrites(p, o, object, again) ==
  IF cr[o] = Absent
    THEN Err(p, o)
    ELSE /\ cr' = [cr EXCEPT ![o] =
                     Reaped([object EXCEPT !.deleting = cr[o].deleting])]
         /\ task' = Ended(CrOutdated(task, o), p, o)
         /\ due' = Watched(due, o)
         /\ UNCHANGED <<edits, faults>>

Replace(p, o, object, again) ==
  \/ object # cr[o] /\ Updates(p, o, object)
  \/ object = cr[o] /\ CrAccepted(p, o) /\ Ends(p, o, again)
  \/ Refused(p, o, object) /\ Err(p, o)

(* A status with a new lastTransitionTime is a change by itself, unless    *)
(* the second has not passed.                                              *)
ReplaceStamped(p, o, object, again) ==
  \/ Replace(p, o, object, again)
  \/ Updates(p, o, object)

--------------------------------------------------------------------------------
(* Faults: a call fails or its answer is lost, a process starts again.     *)

Faulty ==
  /\ faults > 0
  /\ faults' = faults - 1
  /\ UNCHANGED <<cr, edits>>

CallFails(p, o) ==
  /\ Faulty
  /\ ~At(p, o, "idle")
  /\ task' = Ended(task, p, o)
  /\ due' = Requeued(due, p, o, TRUE)

Restarts(p) ==
  /\ Faulty
  /\ task' = [task EXCEPT ![p] = [o \in Objects |-> Idle]]
  /\ due' = [due EXCEPT ![p] = [o \in Objects |-> TRUE]]

--------------------------------------------------------------------------------
(* Users and other controllers. *)

Edit ==
  /\ edits > 0
  /\ edits' = edits - 1
  /\ UNCHANGED faults

WriteCr(o, object) ==
  /\ Edit
  /\ cr' = [cr EXCEPT ![o] = object]
  /\ task' = CrOutdated(task, o)
  /\ due' = Watched(due, o)

CreateCr(o, object) ==
  /\ cr[o] = Absent
  /\ WriteCr(o, object)

DeleteCr(o) ==
  /\ cr[o] # Absent
  /\ ~cr[o].deleting
  /\ WriteCr(o, Reaped([cr[o] EXCEPT !.deleting = TRUE]))

DropForeign(o) ==
  /\ cr[o] # Absent
  /\ cr[o].fins \cap Foreign # {}
  /\ WriteCr(o, Reaped([cr[o] EXCEPT !.fins = @ \ Foreign]))

--------------------------------------------------------------------------------
ReconcilerTypeOK(steps, crs, deps) ==
  /\ cr \in [Objects -> crs \cup {Absent}]
  /\ task \in [Pods -> [Objects -> TaskOf(steps, crs, deps)]]
  /\ due \in [Pods -> [Objects -> BOOLEAN]]
  /\ edits \in 0..MaxEdits
  /\ faults \in 0..MaxFaults

(* A reconcile that runs has a copy of its object, and a copy that still   *)
(* has the stored version equals the stored object.                        *)
CopiesOK ==
  \A p \in Pods, o \in Objects :
    /\ task[p][o].pc # "idle" => task[p][o].cr # Absent
    /\ task[p][o].crFresh => cr[o] # Absent /\ task[p][o].cr = cr[o]
================================================================================
