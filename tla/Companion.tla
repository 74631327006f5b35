------------------------------- MODULE Companion -------------------------------
(***************************************************************************)
(* The ConfigMap that the operator keeps beside a RustFSBucket, or the     *)
(* Secret beside a user: the first half of their reconcile functions is    *)
(* the same.  It makes sure that the companion is there, has the           *)
(* operator's label and, if so configured, an owner reference, and that    *)
(* the finalizer of the custom resource follows spec.cleanup.              *)
(***************************************************************************)
EXTENDS Reconciler, Conditions, Sequences

CONSTANTS
  NoData,             \* a companion without data
  SetOwnerReference,  \* setOwnerReference of the operator's config file
  Observed            \* whether the controller watches companions

VARIABLES
  companion,          \* the companion of each custom resource
  uid                 \* uid of the last custom resource of each name

Uids == 0..MaxEdits

CompanionOf(data) ==
  [labeled: BOOLEAN, owners: SUBSET Uids, data: data \cup {NoData}]

(* On the server, an object is called format!("{}-{}", namespace, name).   *)
(* Namespaces and names are sequences of the parts between their dashes,   *)
(* so that joining them with a dash concatenates the sequences.            *)
joined(o) == o.namespace \o o.name

(* The calls of a reconcile up to the finalizer.  A write to the companion *)
(* ("created", "labeled", "owned", "written") is followed by a get of it.  *)
CompanionSteps ==
  {"idle", "read", "missing", "created", "found", "labeled", "marked", "owned",
   "claimed", "checked", "written", "filled"}

CompanionInit ==
  /\ companion = [o \in Objects |-> Absent]
  /\ uid = [o \in Objects |-> 0]

--------------------------------------------------------------------------------
(* A get of the companion takes the reconcile to `step'. *)
GotCompanion(p, o, step) ==
  /\ task' = [task EXCEPT ![p][o] = [@ EXCEPT !.pc = step, !.dep = companion[o],
                                              !.depFresh = TRUE]]
  /\ UNCHANGED <<cr, due, edits, faults>>

GetCompanion(p, o) ==
  /\ At(p, o, "read")
  /\ IF companion[o] = Absent
       THEN Continues(p, o, "missing")
       ELSE GotCompanion(p, o, "found")
  /\ UNCHANGED <<companion, uid>>

CreateCompanion(p, o) ==
  /\ At(p, o, "missing")
  /\ \/ /\ companion[o] = Absent
        /\ companion' = [companion EXCEPT ![o] =
                           [labeled |-> FALSE, owners |-> {}, data |-> NoData]]
        /\ Continues(p, o, "created")
        /\ UNCHANGED uid
     \/ companion[o] # Absent /\ Err(p, o) /\ UNCHANGED <<companion, uid>>

NextRead ==
  [created |-> "found", labeled |-> "marked", owned |-> "claimed",
   written |-> "filled"]

(* Every write of the companion ends with a get. *)
RereadCompanion(p, o) ==
  /\ task[p][o].pc \in DOMAIN NextRead
  /\ IF companion[o] = Absent
       THEN Err(p, o)
       ELSE GotCompanion(p, o, NextRead[task[p][o].pc])
  /\ UNCHANGED <<companion, uid>>

(* cr_ref_from_secret: the label of a watched companion leads to its CR.   *)
Notified(o, object) ==
  IF Observed /\ object.labeled THEN Watched(due, o) ELSE due

(* Replaces the companion and goes on. *)
WriteCompanion(p, o, object, step) ==
  \/ /\ DepAccepted(p, o)
     /\ object # companion[o]
     /\ companion' = [companion EXCEPT ![o] = object]
     /\ task' = [DepOutdated(task, o) EXCEPT ![p][o].pc = step]
     /\ due' = Notified(o, object)
     /\ UNCHANGED <<cr, edits, faults, uid>>
  \/ /\ DepAccepted(p, o)
     /\ object = companion[o]
     /\ Continues(p, o, step)
     /\ UNCHANGED <<companion, uid>>
  \/ /\ ~DepAccepted(p, o)
     /\ Err(p, o)
     /\ UNCHANGED <<companion, uid>>

LabelCompanion(p, o) ==
  /\ At(p, o, "found")
  /\ WriteCompanion(p, o, [task[p][o].dep EXCEPT !.labeled = TRUE], "labeled")

(* A companion that the object already owns is not written again. *)
OwnCompanion(p, o) ==
  LET owner == task[p][o].cr.uid
      owned == owner \in task[p][o].dep.owners IN
  /\ At(p, o, "marked")
  /\ IF SetOwnerReference /\ ~owned
       THEN WriteCompanion(p, o, [task[p][o].dep EXCEPT !.owners = @ \cup {owner}],
                           "owned")
       ELSE Continues(p, o, "claimed") /\ UNCHANGED <<companion, uid>>

(* The finalizers of an object that is ready, also of one that is being    *)
(* deleted, are replaced by `fins'.  The result of the replace is not      *)
(* kept: after a change the reconcile goes on with an outdated copy.       *)
ReplaceFinalizers(p, o, ready, fins) ==
  LET object == [task[p][o].cr EXCEPT !.fins = fins] IN
  /\ At(p, o, "claimed")
  /\ \/ ~ready /\ Continues(p, o, "checked")
     \/ ready /\ Refused(p, o, object) /\ Err(p, o)
     \/ ready /\ object = cr[o] /\ CrAccepted(p, o) /\ Continues(p, o, "checked")
     \/ /\ ready /\ object # cr[o] /\ Store(p, o, object)
        /\ task' = [CrOutdated(task, o) EXCEPT
                      ![p][o] = [@ EXCEPT !.pc = "checked", !.cr = object]]
  /\ UNCHANGED <<companion, uid>>

--------------------------------------------------------------------------------
(* Users and the garbage collector. *)

ChangeCompanion(o, object) ==
  /\ companion[o] # Absent
  /\ object # companion[o]
  /\ companion' = [companion EXCEPT ![o] = object]
  /\ task' = DepOutdated(task, o)
  /\ due' = Notified(o, IF object = Absent THEN companion[o] ELSE object)
  /\ UNCHANGED <<cr, uid>>

DeleteCompanion(o) == Edit /\ ChangeCompanion(o, Absent)

EditCompanion(o, data) ==
  /\ Edit
  /\ companion[o] # Absent
  /\ ChangeCompanion(o, [companion[o] EXCEPT !.data = data])

(* Owners that are gone are taken off a companion; without any it goes. *)
Collect(o) ==
  LET live == IF cr[o] = Absent THEN {} ELSE companion[o].owners \cap {cr[o].uid} IN
  /\ companion[o] # Absent
  /\ companion[o].owners # {}
  /\ ChangeCompanion(o, IF live = {} THEN Absent
                                     ELSE [companion[o] EXCEPT !.owners = live])
  /\ UNCHANGED <<edits, faults>>

CreateOwner(o, object) ==
  /\ CreateCr(o, [object EXCEPT !.uid = uid[o] + 1])
  /\ uid' = [uid EXCEPT ![o] = @ + 1]
  /\ UNCHANGED companion

(* What users and others have written is kept: the fields `spec', the      *)
(* deletion and foreign finalizers.                                        *)
SpecsKept(spec) ==
  \A o \in Objects :
    /\ cr'[o] # Absent =>
         /\ cr[o] # Absent
         /\ cr'[o].fins \cap Foreign = cr[o].fins \cap Foreign
         /\ \A field \in spec \cup {"uid", "deleting"} :
              cr'[o][field] = cr[o][field]
    /\ cr[o] # Absent /\ cr'[o] = Absent
         => cr[o].deleting /\ cr[o].fins \cap Foreign = {}
================================================================================
