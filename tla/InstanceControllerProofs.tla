----------------------- MODULE InstanceControllerProofs -----------------------
(***************************************************************************)
(* Proofs about InstanceController for any number of pods, instances,      *)
(* Secrets and servers, and any bound on edits and faults.                 *)
(*                                                                         *)
(* The inductive invariant IInv says, besides the types, that what a       *)
(* reconcile holds is what the API server stores as long as its version is *)
(* the stored one, and what a reconcile has established before each step.  *)
(* That an instance releases its Secret before it goes is proved for one   *)
(* pod, with Seen: what a reconcile knows of the label stays true.         *)
(***************************************************************************)
EXTENDS InstanceController, ReconcilerProofs

SoundCrs == Sound(Steps, RustFSInstance, Secret)

Held(w) == secret[w.cr.secretRef]

SecretCopyOK(w) ==
  w.depFresh => w.cr # Absent /\ Held(w) # Absent /\ w.dep = Held(w)

StepOK(w) ==
  /\ w.pc \notin {"idle", "read"} => w.dep # Absent
  /\ w.pc = "unlabeled" => w.cr.deleting
  /\ w.pc = "aliased" => ~w.cr.deleting /\ HasFinalizer(w.cr)

OwnTypeOK ==
  /\ secret \in [Secrets -> Secret \cup {Absent}]
  /\ alias \in [Pods -> [Instances -> Alias]]

TasksOK ==
  \A p \in Pods, i \in Instances :
    SecretCopyOK(task[p][i]) /\ StepOK(task[p][i])

IInv == SoundCrs /\ OwnTypeOK /\ TasksOK /\ ReadyIsProtected

--------------------------------------------------------------------------------
(* The members of Steps, for provers that do not expand it.                *)
LEMMA StepsType == {"idle", "read", "secret", "unlabeled", "written", "labeled",
                    "aliased"} \subseteq Steps
  BY DEF Steps

(* The record of a reconcile that runs. *)
LEMMA RunningTask ==
  ASSUME IInv, NEW p \in Pods, NEW i \in Instances, ~At(p, i, "idle")
  PROVE  /\ task[p][i] \in TaskOf(Steps, RustFSInstance, Secret)
         /\ task[p][i].cr \in RustFSInstance
         /\ task[p][i].crFresh => cr[i] # Absent /\ task[p][i].cr = cr[i]
         /\ SecretCopyOK(task[p][i])
         /\ StepOK(task[p][i])
<1>1. task[p][i] \in TaskOf(Steps, RustFSInstance, Secret)
  BY DEF IInv, SoundCrs, Sound, ReconcilerTypeOK, Instances
<1>2. task[p][i].cr \in RustFSInstance \cup {Absent}
  BY <1>1 DEF TaskOf
<1> QED
  BY <1>1, <1>2 DEF IInv, SoundCrs, Sound, CopiesOK, TasksOK, At, Instances

(* What users create has the types of the stored objects.                  *)
LEMMA NewInstanceType ==
  ASSUME NEW object \in NewInstances
  PROVE  object \in RustFSInstance /\ ~object.ready
<1>1. PICK s \in Secrets, e \in Endpoints :
        object = [deleting |-> FALSE, fins |-> Foreign, secretRef |-> s,
                  endpoint |-> e, conditions |-> NoConditions(ConditionTypes),
                  ready |-> FALSE, from |-> NoEndpoint]
  BY DEF NewInstances
<1>2. NoConditions(ConditionTypes) \in [ConditionTypes -> ConditionStatus]
  BY DEF NoConditions, ConditionStatus
<1> QED BY <1>1, <1>2 DEF RustFSInstance

(* Steps that only end reconciles or outdate copies. *)
LEMMA TasksKept ==
  ASSUME TasksOK, NoneAdvances, UNCHANGED secret
  PROVE  TasksOK'
<1>1. SecretCopyOK(Idle)' /\ StepOK(Idle)'
  BY DEF SecretCopyOK, StepOK, Idle
<1>2. ASSUME NEW p \in Pods, NEW i \in Instances
      PROVE  SecretCopyOK(task[p][i])' /\ StepOK(task[p][i])'
  <2>1. CASE task'[p][i] = Idle
    BY <1>1, <2>1 DEF SecretCopyOK, StepOK, Held
  <2>2. CASE task'[p][i] # Idle
    BY <2>2 DEF NoneAdvances, TasksOK, SecretCopyOK, StepOK, Held, Instances
  <2> QED BY <2>1, <2>2
<1> QED BY <1>2 DEF TasksOK

--------------------------------------------------------------------------------
(* What every step of the operator does: it keeps the invariant and what   *)
(* users wrote, and moves the labels the way SecretClaim allows.           *)
Good == IInv' /\ (edits' = edits => UserEditsKept) /\ [Claim!Next]_holder

(* A reconcile replaces its CR by a copy in which users' fields are kept.   *)
LEMMA ReplaceGood ==
  ASSUME ConstantsAssumption, IInv, NEW p \in Pods, NEW i \in Instances,
         ~At(p, i, "idle"),
         NEW object \in RustFSInstance, NEW again \in BOOLEAN,
         Replace(p, i, object, again), OnlyCr,
         object.secretRef = task[p][i].cr.secretRef,
         object.endpoint = task[p][i].cr.endpoint,
         object.deleting = task[p][i].cr.deleting,
         object.fins \cap Foreign = task[p][i].cr.fins \cap Foreign,
         task[p][i].crFresh /\ object.ready /\ ~object.deleting
           => HasFinalizer(object)
  PROVE  Good
<1>1. SoundCrs' /\ NoneAdvances
  BY ReplaceSound, StepsType DEF IInv, SoundCrs, Instances
<1>2. OwnTypeOK'
  BY DEF IInv, OwnTypeOK, OnlyCr
<1>3. TasksOK'
  BY <1>1, TasksKept DEF IInv, OnlyCr
<1>4. \/ UNCHANGED cr
      \/ task[p][i].crFresh /\ cr' = [cr EXCEPT ![i] = Reaped(object)]
  BY DEF Replace, Updates, Store, CrAccepted, Ends, Err
<1>5. task[p][i].crFresh => cr[i] # Absent /\ task[p][i].cr = cr[i]
  BY RunningTask
<1>6. cr \in [Instances -> RustFSInstance \cup {Absent}]
  BY DEF IInv, SoundCrs, Sound, ReconcilerTypeOK, Instances
<1>7. ReadyIsProtected'
  BY <1>4, <1>6 DEF IInv, ReadyIsProtected, Reaped
<1>8. UserEditsKept
  BY <1>4, <1>5, <1>6 DEF UserEditsKept, Reaped, OnlyCr
<1>9. UNCHANGED holder
  BY DEF holder, OnlyCr
<1> QED BY <1>1, <1>2, <1>3, <1>7, <1>8, <1>9 DEF IInv, Good

(* A reconcile ends with an error.                                         *)
LEMMA ErrGood ==
  ASSUME IInv, NEW p \in Pods, NEW i \in Instances, Err(p, i), OnlyCr
  PROVE  Good
<1>1. SoundCrs' /\ NoneAdvances
  BY EndsSound, StepsType DEF Err, IInv, SoundCrs, Instances
<1>2. OwnTypeOK' /\ TasksOK'
  BY <1>1, TasksKept DEF IInv, OwnTypeOK, OnlyCr
<1>3. UNCHANGED cr
  BY DEF Err, Ends
<1>4. ReadyIsProtected' /\ UserEditsKept
  BY <1>3 DEF IInv, ReadyIsProtected, UserEditsKept, OnlyCr
<1>5. UNCHANGED holder
  BY DEF holder, OnlyCr
<1> QED BY <1>1, <1>2, <1>4, <1>5 DEF IInv, Good

(* A reconcile starts.                                                     *)
LEMMA BeginGood ==
  ASSUME IInv, NEW p \in Pods, NEW i \in Instances, Begin(p, i), OnlyCr
  PROVE  Good
<1>1. SoundCrs'
  BY BeginSound, StepsType DEF IInv, SoundCrs, Instances
<1> DEFINE w == [Idle EXCEPT !.pc = "read", !.cr = cr[i], !.crFresh = TRUE]
<1>2. w.pc = "read" /\ ~w.depFresh
  BY DEF Idle
<1>3. \A q \in Pods, x \in Instances :
        task'[q][x] = w \/ task'[q][x] = task[q][x]
  BY DEF Begin, IInv, SoundCrs, Sound, ReconcilerTypeOK, Instances
<1> HIDE DEF w
<1>4. TasksOK'
  BY <1>2, <1>3 DEF IInv, TasksOK, SecretCopyOK, StepOK, Held, OnlyCr
<1>5. UNCHANGED cr
  BY DEF Begin
<1>6. ReadyIsProtected' /\ UserEditsKept /\ OwnTypeOK'
  BY <1>5 DEF IInv, ReadyIsProtected, UserEditsKept, OwnTypeOK, OnlyCr
<1>7. UNCHANGED holder
  BY DEF holder, OnlyCr
<1> QED BY <1>1, <1>4, <1>6, <1>7 DEF IInv, Good

(* A reconcile that goes on to a step whose conditions it has established. *)
LEMMA ContinuesGood ==
  ASSUME IInv, NEW p \in Pods, NEW i \in Instances, ~At(p, i, "idle"),
         NEW step \in Steps, Continues(p, i, step), UNCHANGED secret,
         alias' \in [Pods -> [Instances -> Alias]],
         task[p][i].dep # Absent,
         step = "unlabeled" => task[p][i].cr.deleting,
         step = "aliased" => ~task[p][i].cr.deleting /\ HasFinalizer(task[p][i].cr)
  PROVE  Good
<1>1. SoundCrs'
  BY ContinuesSound DEF IInv, SoundCrs, Instances
<1> DEFINE w == [task[p][i] EXCEPT !.pc = step]
<1>2. /\ w.pc = step
      /\ w.cr = task[p][i].cr
      /\ w.dep = task[p][i].dep
      /\ w.depFresh = task[p][i].depFresh
  BY RunningTask DEF TaskOf
<1>3. \A q \in Pods, x \in Instances :
        (task'[q][x] = w /\ q = p /\ x = i) \/ task'[q][x] = task[q][x]
  BY DEF Continues, IInv, SoundCrs, Sound, ReconcilerTypeOK, Instances
<1> HIDE DEF w
<1>4. SecretCopyOK(w) /\ StepOK(w)
  BY <1>2, RunningTask DEF SecretCopyOK, StepOK, Held
<1>5. TasksOK'
  BY <1>3, <1>4 DEF IInv, TasksOK, SecretCopyOK, StepOK, Held
<1>6. UNCHANGED cr
  BY DEF Continues
<1>7. ReadyIsProtected' /\ UserEditsKept /\ OwnTypeOK'
  BY <1>6 DEF IInv, ReadyIsProtected, UserEditsKept, OwnTypeOK
<1>8. UNCHANGED holder
  BY DEF holder
<1> QED BY <1>1, <1>5, <1>7, <1>8 DEF IInv, Good

(* A reconcile gets its Secret.                                            *)
LEMMA GetSecretGood ==
  ASSUME ConstantsAssumption, IInv, NEW p \in Pods, NEW i \in Instances,
         get_secret(p, i)
  PROVE  Good
<1> DEFINE stored == secret[task[p][i].cr.secretRef]
           w == [task[p][i] EXCEPT !.pc = "secret", !.dep = stored,
                                   !.depFresh = TRUE]
<1>1. ~At(p, i, "idle") /\ OnlyCr
  BY DEF get_secret, At
<1>2. CASE Err(p, i)
  BY <1>1, <1>2, ErrGood
<1>3. CASE /\ stored # Absent
           /\ task' = [task EXCEPT ![p][i] = w]
           /\ UNCHANGED <<cr, due, edits, faults>>
  <2>1. /\ task[p][i] \in TaskOf(Steps, RustFSInstance, Secret)
        /\ task[p][i].cr \in RustFSInstance
        /\ task[p][i].crFresh => cr[i] # Absent /\ task[p][i].cr = cr[i]
    BY <1>1, RunningTask
  <2>2. stored \in Secret
    BY <1>3, <2>1 DEF IInv, OwnTypeOK, RustFSInstance
  <2>3. /\ w.pc = "secret"
        /\ w.cr = task[p][i].cr
        /\ w.crFresh = task[p][i].crFresh
        /\ w.dep = stored
        /\ w \in TaskOf(Steps, RustFSInstance, Secret)
    BY <2>1, <2>2 DEF TaskOf, Steps
  <2>4. SecretCopyOK(w) /\ StepOK(w)
    BY <1>3, <2>1, <2>3 DEF SecretCopyOK, StepOK, Held, ConstantsAssumption
  <2>5. \A q \in Pods, x \in Instances :
          (task'[q][x] = w /\ q = p /\ x = i) \/ task'[q][x] = task[q][x]
    BY <1>3 DEF IInv, SoundCrs, Sound, ReconcilerTypeOK, Instances
  <2> HIDE DEF w, stored
  <2>6. w.cr # Absent
    BY <2>1, <2>3 DEF ConstantsAssumption
  <2>7. SoundCrs'
    BY <1>3, <2>1, <2>3, <2>6, OneTask
       DEF IInv, SoundCrs, Sound, ReconcilerTypeOK, Instances
  <2>8. TasksOK'
    BY <1>1, <2>4, <2>5 DEF IInv, TasksOK, SecretCopyOK, StepOK, Held, OnlyCr
  <2>9. ReadyIsProtected' /\ UserEditsKept /\ OwnTypeOK'
    BY <1>1, <1>3 DEF IInv, ReadyIsProtected, UserEditsKept, OwnTypeOK, OnlyCr
  <2>10. UNCHANGED holder
    BY <1>1 DEF holder, OnlyCr
  <2> QED BY <2>7, <2>8, <2>9, <2>10 DEF IInv, Good
<1> QED BY <1>2, <1>3 DEF get_secret

(* A write to a Secret outdates the copies of it and no others. *)
LEMMA OutdatedSecrets ==
  ASSUME IInv, NEW s \in Secrets
  PROVE  /\ SecretOutdated(task, s) \in
              [Pods -> [Instances -> TaskOf(Steps, RustFSInstance, Secret)]]
         /\ \A p \in Pods, i \in Instances :
              LET w == SecretOutdated(task, s)[p][i] IN
              /\ w.pc = task[p][i].pc
              /\ w.cr = task[p][i].cr
              /\ w.crFresh = task[p][i].crFresh
              /\ w.dep = task[p][i].dep
              /\ w.depFresh => task[p][i].depFresh /\ task[p][i].cr.secretRef # s
<1> DEFINE named(p, i) == task[p][i].cr # Absent /\ task[p][i].cr.secretRef = s
           stale(p, i) == [task[p][i] EXCEPT !.depFresh = @ /\ ~named(p, i)]
<1>1. \A p \in Pods, i \in Instances :
        task[p][i] \in TaskOf(Steps, RustFSInstance, Secret)
  BY DEF IInv, SoundCrs, Sound, ReconcilerTypeOK, Instances
<1>2. SecretOutdated(task, s) = [p \in Pods |-> [i \in Instances |-> stale(p, i)]]
  BY DEF SecretOutdated
<1>3. ASSUME NEW p \in Pods, NEW i \in Instances
      PROVE  /\ stale(p, i) \in TaskOf(Steps, RustFSInstance, Secret)
             /\ stale(p, i).pc = task[p][i].pc
             /\ stale(p, i).cr = task[p][i].cr
             /\ stale(p, i).crFresh = task[p][i].crFresh
             /\ stale(p, i).dep = task[p][i].dep
             /\ stale(p, i).depFresh = (task[p][i].depFresh /\ ~named(p, i))
  BY <1>1 DEF TaskOf
<1>4. \A p \in Pods, i \in Instances : task[p][i].depFresh => task[p][i].cr # Absent
  BY DEF IInv, TasksOK, SecretCopyOK
<1>5. \A p \in Pods, i \in Instances :
        stale(p, i).depFresh
          => task[p][i].depFresh /\ task[p][i].cr.secretRef # s
  BY <1>3, <1>4
<1>6. \A p \in Pods, i \in Instances :
        SecretOutdated(task, s)[p][i] = stale(p, i)
  BY <1>2
<1> HIDE DEF stale
<1>7. SecretOutdated(task, s) \in
        [Pods -> [Instances -> TaskOf(Steps, RustFSInstance, Secret)]]
  BY SMTT(60), <1>2, <1>3
<1> QED BY <1>3, <1>5, <1>6, <1>7

(* A reconcile writes the label of its Secret.                             *)
LEMMA WriteLabelGood ==
  ASSUME ConstantsAssumption, IInv, NEW p \in Pods, NEW i \in Instances,
         At(p, i, "secret"), NEW label \in Instances \cup {NoInstance},
         NEW step \in {"unlabeled", "written"}, WriteLabel(p, i, label, step),
         step = "unlabeled" => task[p][i].cr.deleting,
         label = NoInstance \/ task[p][i].dep.label = NoInstance
  PROVE  Good
<1> DEFINE s == task[p][i].cr.secretRef
           object == [task[p][i].dep EXCEPT !.label = label]
<1>1. /\ ~At(p, i, "idle")
      /\ step \in Steps
      /\ task[p][i].dep # Absent
  BY RunningTask DEF At, Steps, StepOK
<1>2. CASE DepAccepted(p, i) /\ object = secret[s] /\ Continues(p, i, step) /\ OnlyCr
  BY <1>1, <1>2, ContinuesGood DEF IInv, OwnTypeOK, OnlyCr
<1>3. CASE ~DepAccepted(p, i) /\ Err(p, i) /\ OnlyCr
  BY <1>3, ErrGood
<1>4. CASE /\ DepAccepted(p, i)
           /\ secret' = [secret EXCEPT ![s] = object]
           /\ task' = [SecretOutdated(task, s) EXCEPT ![p][i].pc = step]
           /\ due' = SecretWatched(due, label)
           /\ UNCHANGED <<cr, edits, faults, alias>>
  <2> DEFINE t == SecretOutdated(task, s)
             w == [t[p][i] EXCEPT !.pc = step]
  <2>1. /\ task[p][i].cr \in RustFSInstance
        /\ secret[s] # Absent
        /\ task[p][i].dep = secret[s]
    BY <1>1, <1>4, RunningTask DEF DepAccepted, SecretCopyOK, Held
  <2>2. s \in Secrets /\ secret[s] \in Secret
    BY SMTT(60), <2>1 DEF IInv, OwnTypeOK, RustFSInstance
  <2>3. /\ object \in Secret
        /\ object.keys = secret[s].keys
        /\ object.label = label
        /\ object # Absent
    BY <2>1, <2>2 DEF Secret, ConstantsAssumption
  <2>4. t \in [Pods -> [Instances -> TaskOf(Steps, RustFSInstance, Secret)]]
    BY <2>2, OutdatedSecrets
  <2>5. \A q \in Pods, x \in Instances :
          /\ t[q][x].pc = task[q][x].pc
          /\ t[q][x].cr = task[q][x].cr
          /\ t[q][x].crFresh = task[q][x].crFresh
          /\ t[q][x].dep = task[q][x].dep
          /\ t[q][x].depFresh => task[q][x].depFresh /\ task[q][x].cr.secretRef # s
    BY SMTT(60), <2>2, OutdatedSecrets
  <2>6. task' = [t EXCEPT ![p][i] = w]
    BY <1>4
  <2> HIDE DEF t, object
  <2>23. t[p][i] \in TaskOf(Steps, RustFSInstance, Secret)
    BY <2>4
  <2>7. /\ w \in TaskOf(Steps, RustFSInstance, Secret)
        /\ w.pc = step
        /\ w.cr = t[p][i].cr
        /\ w.crFresh = t[p][i].crFresh
        /\ w.dep = t[p][i].dep
        /\ w.depFresh = t[p][i].depFresh
    BY <1>1, <2>23 DEF TaskOf
  <2> HIDE DEF w
  <2>8. task' \in [Pods -> [Instances -> TaskOf(Steps, RustFSInstance, Secret)]]
    BY <2>4, <2>6, <2>7
  <2>9. \A q \in Pods, x \in Instances :
          (task'[q][x] = w /\ q = p /\ x = i) \/ task'[q][x] = t[q][x]
    BY <2>4, <2>6
  <2>10. \A q \in Pods, x \in Instances :
           /\ task'[q][x].pc = (IF q = p /\ x = i THEN step ELSE task[q][x].pc)
           /\ task'[q][x].cr = task[q][x].cr
           /\ task'[q][x].crFresh = task[q][x].crFresh
           /\ task'[q][x].dep = task[q][x].dep
           /\ task'[q][x].depFresh
                => task[q][x].depFresh /\ task[q][x].cr.secretRef # s
    BY <2>5, <2>6, <2>7, <2>4
  <2>11. due' \in [Pods -> [Instances -> BOOLEAN]]
    BY <1>4 DEF SecretWatched, IInv, SoundCrs, Sound, ReconcilerTypeOK, Instances
  <2>24. CopiesOK'
    <3>1. task[p][i].pc # "idle"
      BY SMTT(60), <1>1 DEF At
    <3>2. ASSUME NEW q \in Pods, NEW x \in Objects
          PROVE  /\ task'[q][x].pc # "idle" => task'[q][x].cr # Absent
                 /\ task'[q][x].crFresh => cr'[x] # Absent /\ task'[q][x].cr = cr'[x]
      <4>1. /\ task[q][x].pc # "idle" => task[q][x].cr # Absent
            /\ task[q][x].crFresh => cr[x] # Absent /\ task[q][x].cr = cr[x]
        BY DEF IInv, SoundCrs, Sound, CopiesOK
      <4>2. task'[q][x].pc # "idle" => task[q][x].pc # "idle"
        BY <2>10, <3>1 DEF Instances
      <4> QED BY ZenonT(60), <1>4, <2>10, <4>1, <4>2 DEF Instances
    <3> QED BY <3>2 DEF CopiesOK
  <2>12. SoundCrs'
    BY <1>4, <2>8, <2>11, <2>24
       DEF IInv, SoundCrs, Sound, ReconcilerTypeOK, Instances
  <2>13. \A x \in Secrets : secret'[x] = IF x = s THEN object ELSE secret[x]
    BY SMTT(60), <1>4, <2>2 DEF IInv, OwnTypeOK
  <2>14. OwnTypeOK'
    BY <1>4, <2>2, <2>3 DEF IInv, OwnTypeOK
  <2>15. ASSUME NEW q \in Pods, NEW x \in Instances
         PROVE  SecretCopyOK(task[q][x])' /\ StepOK(task[q][x])'
    <3>1. SecretCopyOK(task[q][x]) /\ StepOK(task[q][x])
      BY DEF IInv, TasksOK
    <3>2. task[q][x].cr # Absent => task[q][x].cr.secretRef \in Secrets
      BY DEF IInv, SoundCrs, Sound, ReconcilerTypeOK, Instances, TaskOf,
             RustFSInstance
    <3>3. SecretCopyOK(task[q][x])'
      BY <2>10, <2>13, <3>1, <3>2 DEF SecretCopyOK, Held
    <3>4. StepOK(task[q][x])'
      BY SMTT(60), <1>1, <2>10, <3>1 DEF StepOK
    <3> QED BY <3>3, <3>4
  <2>16. TasksOK'
    BY <2>15 DEF TasksOK
  <2>17. ReadyIsProtected'
    BY <1>4 DEF IInv, ReadyIsProtected
  <2>18. UserEditsKept
    <3>1. UNCHANGED cr
      BY <1>4
    <3>2. \A x \in Secrets :
            /\ (secret'[x] = Absent) = (secret[x] = Absent)
            /\ secret[x] # Absent => secret'[x].keys = secret[x].keys
      BY <2>1, <2>3, <2>13
    <3> QED BY SMTT(60), <3>1, <3>2 DEF UserEditsKept
  <2>19. holder' = [holder EXCEPT ![s] = label]
    BY <2>2, <2>3, <2>13 DEF holder
  <2>20. holder[s] = task[p][i].dep.label
    BY <2>1, <2>2 DEF holder
  <2>21. holder \in [Secrets -> Instances \cup {NoInstance}]
    BY DEF holder, IInv, OwnTypeOK, Secret
  <2>22. [Claim!Next]_holder
    <3>1. CASE label = holder[s]
      BY <2>2, <2>19, <2>21, <3>1
    <3>2. CASE label # holder[s] /\ label = NoInstance
      BY <2>2, <2>19, <3>2 DEF Claim!Next, Claim!Free
    <3>3. CASE label # holder[s] /\ label # NoInstance
      BY <2>2, <2>19, <2>20, <3>3 DEF Claim!Next, Claim!Claim
    <3> QED BY <3>1, <3>2, <3>3
  <2> QED BY SMTT(60), <2>12, <2>14, <2>16, <2>17, <2>18, <2>22 DEF IInv, Good
<1> QED BY <1>2, <1>3, <1>4 DEF WriteLabel

(* A reconcile makes sure of its alias.                                    *)
LEMMA EnsureAliasGood ==
  ASSUME ConstantsAssumption, IInv, NEW p \in Pods, NEW i \in Instances,
         EnsureAlias(p, i)
  PROVE  Good
<1>1. ~At(p, i, "idle") /\ Claims(p, i)
  BY DEF EnsureAlias, Claims, At
<1>2. /\ task[p][i] \in TaskOf(Steps, RustFSInstance, Secret)
      /\ task[p][i].cr \in RustFSInstance
      /\ task[p][i].dep # Absent
  BY <1>1, RunningTask DEF StepOK, Claims, At
<1> DEFINE new == EnsuredAlias(p, i)
<1>3. task[p][i].dep \in Secret
  BY <1>2 DEF TaskOf
<1>4. alias \in [Pods -> [Instances -> Alias]]
  BY DEF IInv, OwnTypeOK
<1>5. new \in Alias
  BY <1>2, <1>3, <1>4 DEF EnsuredAlias, AliasSeen, RustFSInstance, Secret, Alias
<1>6. alias' = [alias EXCEPT ![p][i] = new]
  BY DEF EnsureAlias
<1> HIDE DEF new
<1>7. alias' \in [Pods -> [Instances -> Alias]]
  BY <1>4, <1>5, <1>6
<1> QED
  BY <1>1, <1>2, <1>7, ContinuesGood, StepsType DEF EnsureAlias, Claims

(* Every step of a reconcile. *)
LEMMA ReconcileGood ==
  ASSUME ConstantsAssumption, IInv, NEW p \in Pods, NEW i \in Instances,
         Reconcile(p, i)
  PROVE  Good
<1> DEFINE c == task[p][i].cr
<1>1. ASSUME ~At(p, i, "idle")
      PROVE  /\ c \in RustFSInstance
             /\ task[p][i].crFresh /\ c.ready /\ ~c.deleting => HasFinalizer(c)
  BY <1>1, RunningTask DEF IInv, ReadyIsProtected
<1>2. CASE Begin(p, i) /\ OnlyCr
  BY <1>2, BeginGood
<1>3. CASE init_object(p, i)
  <2> DEFINE object == [c EXCEPT !.conditions = init_conditions(ConditionTypes)]
  <2>1. ~At(p, i, "idle") /\ Replace(p, i, object, FALSE) /\ OnlyCr
    BY <1>3 DEF init_object, At
  <2>2. object \in RustFSInstance
    BY <1>1, <2>1 DEF RustFSInstance, init_conditions, ConditionStatus
  <2>3. /\ object.secretRef = c.secretRef /\ object.endpoint = c.endpoint
        /\ object.deleting = c.deleting /\ object.fins = c.fins
        /\ object.ready = c.ready
    BY <1>1, <2>1 DEF RustFSInstance
  <2> HIDE DEF object
  <2> QED BY <1>1, <2>1, <2>2, <2>3, ReplaceGood DEF HasFinalizer
<1>4. CASE get_secret(p, i)
  BY <1>4, GetSecretGood
<1>5. CASE unlabel_secret(p, i)
  <2>1. ~At(p, i, "idle") /\ At(p, i, "secret") /\ c.deleting
    BY <1>5 DEF unlabel_secret, At
  <2>2. CASE WriteLabel(p, i, NoInstance, "unlabeled")
    BY <2>1, <2>2, WriteLabelGood
  <2>3. CASE Continues(p, i, "unlabeled") /\ OnlyCr
    <3>1. task[p][i].dep # Absent
      BY <2>1, RunningTask DEF StepOK, At
    <3> QED
      BY <2>1, <2>3, <3>1, StepsType, ContinuesGood DEF OnlyCr, IInv, OwnTypeOK
  <2> QED BY <1>5, <2>2, <2>3 DEF unlabel_secret
<1>6. CASE Finalize(p, i)
  <2> DEFINE object == [c EXCEPT !.fins = @ \ {FIN_SECRET_LABEL}]
  <2>1. ~At(p, i, "idle") /\ Replace(p, i, object, FALSE) /\ OnlyCr
    BY <1>6 DEF Finalize, ReadyToFinalize, At
  <2>2. c.deleting
    BY <1>6, <2>1, RunningTask DEF Finalize, ReadyToFinalize, StepOK, At
  <2>3. object \in RustFSInstance
    BY <1>1, <2>1 DEF RustFSInstance
  <2>4. /\ object.secretRef = c.secretRef /\ object.endpoint = c.endpoint
        /\ object.deleting = c.deleting
        /\ object.fins \cap Foreign = c.fins \cap Foreign
    BY <1>1, <2>1 DEF RustFSInstance, ConstantsAssumption
  <2> HIDE DEF object
  <2> QED BY <2>1, <2>2, <2>3, <2>4, ReplaceGood
<1>7. CASE AddFinalizer(p, i)
  <2> DEFINE object == [c EXCEPT !.fins = @ \cup {FIN_SECRET_LABEL}]
  <2>1. ~At(p, i, "idle") /\ Replace(p, i, object, FALSE) /\ OnlyCr
    BY <1>7 DEF AddFinalizer, At
  <2>2. object \in RustFSInstance
    BY <1>1, <2>1 DEF RustFSInstance
  <2>3. /\ object.secretRef = c.secretRef /\ object.endpoint = c.endpoint
        /\ object.deleting = c.deleting /\ FIN_SECRET_LABEL \in object.fins
        /\ object.fins \cap Foreign = c.fins \cap Foreign
    BY <1>1, <2>1 DEF RustFSInstance, ConstantsAssumption
  <2> HIDE DEF object
  <2> QED BY <2>1, <2>2, <2>3, ReplaceGood DEF HasFinalizer
<1>8. CASE label_secret(p, i)
  BY <1>8, WriteLabelGood DEF label_secret, Wants
<1>9. CASE reread_secret(p, i)
  <2>1. ~At(p, i, "idle") /\ OnlyCr
    BY <1>9 DEF reread_secret, At
  <2>2. task[p][i].dep # Absent
    BY <1>9, <2>1, RunningTask DEF reread_secret, StepOK, At
  <2>3. CASE Err(p, i)
    BY <2>1, <2>3, ErrGood
  <2>4. CASE Continues(p, i, "labeled")
    BY <2>1, <2>2, <2>4, StepsType, ContinuesGood DEF OnlyCr, IInv, OwnTypeOK
  <2> QED BY <1>9, <2>3, <2>4 DEF reread_secret
<1>10. CASE SecretIsAlreadyLabeled(p, i) \/ InvalidSecret(p, i)
  BY <1>10, ErrGood DEF SecretIsAlreadyLabeled, InvalidSecret
<1>11. CASE SaveLabeled(p, i) \/ SaveUnlabeled(p, i)
  <2>1. PICK status \in {"True", "Unknown"} :
          ~At(p, i, "idle") /\ SetLabeled(p, i, status) /\ OnlyCr
    BY <1>11 DEF SaveLabeled, SaveUnlabeled, Wants, Claims, At
  <2> DEFINE object == [c EXCEPT !.conditions =
                          set_condition(@, TYPE_SECRET_LABELED, status)]
  <2>2. Replace(p, i, object, FALSE)
    BY <2>1 DEF SetLabeled
  <2>3. object \in RustFSInstance
    BY <1>1, <2>1 DEF RustFSInstance, set_condition, ConditionStatus
  <2>4. /\ object.secretRef = c.secretRef /\ object.endpoint = c.endpoint
        /\ object.deleting = c.deleting /\ object.fins = c.fins
        /\ object.ready = c.ready
    BY <1>1, <2>1 DEF RustFSInstance
  <2> HIDE DEF object
  <2> QED BY <1>1, <2>1, <2>2, <2>3, <2>4, ReplaceGood DEF HasFinalizer
<1>12. CASE EnsureAlias(p, i)
  BY <1>12, EnsureAliasGood
<1>13. CASE Publish(p, i)
  <2> DEFINE object == [c EXCEPT !.ready = TRUE, !.from = alias[p][i].endpoint]
  <2>1. ~At(p, i, "idle") /\ Replace(p, i, object, TRUE) /\ OnlyCr
    BY <1>13 DEF Publish, At
  <2>2. HasFinalizer(c)
    BY <1>13, <2>1, RunningTask DEF Publish, StepOK, At
  <2>3. alias[p][i].endpoint \in Endpoints \cup {NoEndpoint}
    BY DEF IInv, OwnTypeOK, Alias
  <2>4. object \in RustFSInstance
    BY <1>1, <2>1, <2>3 DEF RustFSInstance
  <2>5. /\ object.secretRef = c.secretRef /\ object.endpoint = c.endpoint
        /\ object.deleting = c.deleting /\ object.fins = c.fins
    BY <1>1, <2>1 DEF RustFSInstance
  <2> HIDE DEF object
  <2> QED BY <2>1, <2>2, <2>4, <2>5, ReplaceGood DEF HasFinalizer
<1> QED
  BY <1>2, <1>3, <1>4, <1>5, <1>6, <1>7, <1>8, <1>9, <1>10, <1>11, <1>12, <1>13
     DEF Reconcile

(* Every fault.                                                            *)
LEMMA FaultGood ==
  ASSUME ConstantsAssumption, IInv, NEW p \in Pods, Fault(p)
  PROVE  Good
<1>1. \/ Restarts(p)
      \/ \E i \in Instances : CallFails(p, i)
  BY DEF Fault
<1>2. UNCHANGED <<secret, cr>>
  BY <1>1 DEF Fault, OnlyCr, Restarts, CallFails, Faulty
<1>3. alias' \in [Pods -> [Instances -> Alias]]
  BY DEF Fault, OnlyCr, IInv, OwnTypeOK, Alias, NoAlias
<1>4. SoundCrs' /\ NoneAdvances
  BY <1>1, StepsType, CallFailsSound, RestartsSound
     DEF IInv, SoundCrs, Instances, ConstantsAssumption
<1>5. TasksOK'
  BY <1>2, <1>4, TasksKept DEF IInv
<1>6. ReadyIsProtected' /\ UserEditsKept /\ OwnTypeOK'
  BY <1>2, <1>3 DEF IInv, ReadyIsProtected, UserEditsKept, OwnTypeOK
<1>7. UNCHANGED holder
  BY <1>2 DEF holder
<1> QED BY <1>4, <1>5, <1>6, <1>7 DEF IInv, Good

(* A user writes a CR. *)
LEMMA WriteCrGood ==
  ASSUME ConstantsAssumption, IInv, NEW i \in Instances,
         NEW object \in RustFSInstance \cup {Absent}, WriteCr(i, object), OnlyCr,
         object # Absent /\ object.ready /\ ~object.deleting => HasFinalizer(object)
  PROVE  Good
<1>1. SoundCrs' /\ NoneAdvances
  BY WriteCrSound DEF IInv, SoundCrs, Instances, ConstantsAssumption
<1>2. OwnTypeOK' /\ TasksOK'
  BY <1>1, TasksKept DEF IInv, OwnTypeOK, OnlyCr
<1>3. ReadyIsProtected'
  BY DEF WriteCr, IInv, ReadyIsProtected, SoundCrs, Sound, ReconcilerTypeOK,
         Instances
<1>4. edits' # edits
  BY DEF WriteCr, Edit, IInv, SoundCrs, Sound, ReconcilerTypeOK,
         ConstantsAssumption
<1>5. UNCHANGED holder
  BY DEF holder, OnlyCr
<1> QED BY <1>1, <1>2, <1>3, <1>4, <1>5 DEF IInv, Good

(* A user writes a Secret: the label it has stays or goes with the Secret. *)
LEMMA WriteSecretGood ==
  ASSUME ConstantsAssumption, IInv, NEW s \in Secrets,
         NEW object \in Secret \cup {Absent}, NEW label,
         WriteSecret(s, object, label),
         \/ object = Absent
         \/ object.label = NoInstance
         \/ secret[s] # Absent /\ object.label = secret[s].label
  PROVE  Good
<1>1. /\ secret' = [secret EXCEPT ![s] = object]
      /\ task' = SecretOutdated(task, s)
      /\ UNCHANGED <<cr, faults, alias>>
  BY DEF WriteSecret, Edit
<1>2. edits' # edits /\ edits' \in 0..MaxEdits
  BY DEF WriteSecret, Edit, IInv, SoundCrs, Sound, ReconcilerTypeOK,
         ConstantsAssumption
<1>3. due' \in [Pods -> [Instances -> BOOLEAN]]
  BY DEF WriteSecret, SecretWatched, IInv, SoundCrs, Sound, ReconcilerTypeOK,
         Instances
<1>4. task' \in [Pods -> [Instances -> TaskOf(Steps, RustFSInstance, Secret)]]
  BY <1>1, OutdatedSecrets
<1>5. \A q \in Pods, x \in Instances :
        /\ task'[q][x].pc = task[q][x].pc
        /\ task'[q][x].cr = task[q][x].cr
        /\ task'[q][x].crFresh = task[q][x].crFresh
        /\ task'[q][x].dep = task[q][x].dep
        /\ task'[q][x].depFresh
             => task[q][x].depFresh /\ task[q][x].cr.secretRef # s
  BY <1>1, OutdatedSecrets
<1>6. CopiesOK'
  BY <1>1, <1>5 DEF IInv, SoundCrs, Sound, CopiesOK, Instances
<1>7. SoundCrs'
  BY <1>1, <1>2, <1>3, <1>4, <1>6
     DEF IInv, SoundCrs, Sound, ReconcilerTypeOK, Instances
<1>8. \A x \in Secrets : secret'[x] = IF x = s THEN object ELSE secret[x]
  BY <1>1 DEF IInv, OwnTypeOK
<1>9. ASSUME NEW q \in Pods, NEW x \in Instances
      PROVE  SecretCopyOK(task[q][x])' /\ StepOK(task[q][x])'
  <2>1. SecretCopyOK(task[q][x]) /\ StepOK(task[q][x])
    BY DEF IInv, TasksOK
  <2>2. task[q][x].cr # Absent => task[q][x].cr.secretRef \in Secrets
    BY DEF IInv, SoundCrs, Sound, ReconcilerTypeOK, Instances, TaskOf, RustFSInstance
  <2>3. SecretCopyOK(task[q][x])'
    BY <1>5, <1>8, <2>1, <2>2 DEF SecretCopyOK, Held
  <2> QED BY <1>5, <2>1, <2>3 DEF StepOK
<1>10. TasksOK'
  BY <1>9 DEF TasksOK
<1>11. OwnTypeOK' /\ ReadyIsProtected'
  BY <1>1 DEF IInv, OwnTypeOK, ReadyIsProtected
<1>12. /\ holder \in [Secrets -> Instances \cup {NoInstance}]
       /\ \/ holder' = [holder EXCEPT ![s] = NoInstance]
          \/ holder' = holder
  BY <1>8 DEF holder, IInv, OwnTypeOK, Secret
<1>13. [Claim!Next]_holder
  BY <1>12 DEF Claim!Next, Claim!Free
<1> QED BY <1>2, <1>7, <1>10, <1>11, <1>13 DEF IInv, Good

(* Every step of a user.                                                   *)
LEMMA UserGood ==
  ASSUME ConstantsAssumption, IInv, User
  PROVE  Good
<1>1. ASSUME NEW i \in Instances, OnlyCr,
             \/ \E object \in NewInstances : CreateCr(i, object)
             \/ DeleteCr(i) \/ EditInstance(i) \/ DropForeign(i)
      PROVE  Good
  <2>1. cr[i] \in RustFSInstance \cup {Absent}
    BY DEF IInv, SoundCrs, Sound, ReconcilerTypeOK, Instances
  <2>2. cr[i] # Absent /\ cr[i].ready /\ ~cr[i].deleting => HasFinalizer(cr[i])
    BY DEF IInv, ReadyIsProtected
  <2>3. ASSUME NEW object \in NewInstances, CreateCr(i, object)  PROVE Good
    BY <1>1, <2>3, NewInstanceType, WriteCrGood DEF CreateCr
  <2>4. CASE DeleteCr(i)
    <3> DEFINE object == [cr[i] EXCEPT !.deleting = TRUE]
    <3>1. object \in RustFSInstance /\ object.deleting
      BY <2>1, <2>4 DEF DeleteCr, RustFSInstance
    <3>2. WriteCr(i, Reaped(object))
      BY <2>4 DEF DeleteCr
    <3> HIDE DEF object
    <3> QED BY <1>1, <3>1, <3>2, WriteCrGood DEF Reaped
  <2>5. CASE EditInstance(i)
    <3>1. PICK s \in Secrets, e \in Endpoints :
            WriteCr(i, [cr[i] EXCEPT !.secretRef = s, !.endpoint = e])
      BY <2>5 DEF EditInstance
    <3> DEFINE object == [cr[i] EXCEPT !.secretRef = s, !.endpoint = e]
    <3>2. /\ object \in RustFSInstance
          /\ object.ready = cr[i].ready /\ object.deleting = cr[i].deleting
          /\ object.fins = cr[i].fins
      BY <2>1, <2>5 DEF EditInstance, RustFSInstance
    <3>3. cr[i] # Absent
      BY <2>5 DEF EditInstance
    <3> HIDE DEF object
    <3> QED
      BY <1>1, <2>2, <3>1, <3>2, <3>3, WriteCrGood DEF HasFinalizer, object
  <2>6. CASE DropForeign(i)
    <3> DEFINE object == [cr[i] EXCEPT !.fins = @ \ Foreign]
    <3>1. cr[i] # Absent /\ WriteCr(i, Reaped(object))
      BY <2>6 DEF DropForeign
    <3>2. /\ object \in RustFSInstance
          /\ object.ready = cr[i].ready /\ object.deleting = cr[i].deleting
          /\ object.fins = cr[i].fins \ Foreign
      BY <2>1, <3>1 DEF RustFSInstance
    <3>3. object.ready /\ ~object.deleting => HasFinalizer(object)
      BY <2>2, <3>1, <3>2 DEF HasFinalizer, ConstantsAssumption
    <3> HIDE DEF object
    <3> QED BY <1>1, <3>1, <3>2, <3>3, WriteCrGood DEF Reaped
  <2> QED BY <1>1, <2>3, <2>4, <2>5, <2>6
<1>2. ASSUME NEW s \in Secrets, CreateSecret(s) \/ EditSecret(s) \/ DeleteSecret(s)
      PROVE  Good
  <2>1. CASE CreateSecret(s)
    <3>1. PICK object \in NewSecrets : WriteSecret(s, object, NoInstance)
      BY <2>1 DEF CreateSecret
    <3>2. object \in Secret /\ object.label = NoInstance
      BY DEF NewSecrets, Secret
    <3> QED BY <3>1, <3>2, WriteSecretGood
  <2>2. CASE EditSecret(s)
    <3>1. PICK k \in Keys \cup {NoKeys} :
            WriteSecret(s, [secret[s] EXCEPT !.keys = k], secret[s].label)
      BY <2>2 DEF EditSecret
    <3> DEFINE object == [secret[s] EXCEPT !.keys = k]
    <3>2. secret[s] \in Secret /\ secret[s] # Absent
      BY <2>2 DEF EditSecret, IInv, OwnTypeOK
    <3>3. object \in Secret /\ object.label = secret[s].label
      BY <3>2 DEF Secret
    <3> HIDE DEF object
    <3> QED BY <3>1, <3>2, <3>3, WriteSecretGood DEF object
  <2>3. CASE DeleteSecret(s)
    BY <2>3, WriteSecretGood DEF DeleteSecret
  <2> QED BY <1>2, <2>1, <2>2, <2>3
<1> QED BY <1>1, <1>2 DEF User

--------------------------------------------------------------------------------
(* The inductive invariant holds initially.                                *)
LEMMA InitInv == ASSUME ConstantsAssumption, Init PROVE IInv
<1>1. cr \in [Instances -> RustFSInstance \cup {Absent}]
  BY NewInstanceType DEF Init
<1>2. SoundCrs
  BY <1>1, StepsType, InitSound DEF Init, SoundCrs, Instances, ConstantsAssumption
<1>3. OwnTypeOK
  BY DEF Init, OwnTypeOK, NewSecrets, Secret, Alias, NoAlias
<1>4. TasksOK
  <2>1. Idle.pc = "idle" /\ ~Idle.depFresh
    BY DEF Idle
  <2>2. \A p \in Pods, i \in Instances : task[p][i] = Idle
    BY DEF Init, ReconcilerInit, Instances
  <2> QED BY <2>1, <2>2 DEF TasksOK, SecretCopyOK, StepOK
<1>5. ReadyIsProtected
  BY NewInstanceType DEF Init, ReadyIsProtected
<1> QED BY <1>2, <1>3, <1>4, <1>5 DEF IInv

(* Every step keeps the inductive invariant, the edits of users and the    *)
(* claims.                                                                 *)
LEMMA StepGood ==
  ASSUME ConstantsAssumption, IInv, [Next]_vars
  PROVE  Good
<1>1. CASE Next
  BY <1>1, ReconcileGood, FaultGood, UserGood DEF Next
<1>2. CASE UNCHANGED vars
  <2>1. IInv'
    BY <1>2 DEF vars, IInv, SoundCrs, Sound, ReconcilerTypeOK, CopiesOK, OwnTypeOK,
                TasksOK, SecretCopyOK, StepOK, Held, ReadyIsProtected
  <2>2. UserEditsKept
    BY <1>2 DEF vars, UserEditsKept
  <2>3. UNCHANGED holder
    BY <1>2 DEF vars, holder
  <2> QED BY <2>1, <2>2, <2>3 DEF Good
<1> QED BY <1>1, <1>2

(* The inductive invariant holds in every reachable state. *)
THEOREM Invariance == Spec => []IInv
<1>1. Init => IInv
  BY InitInv, ConstantsAssumption
<1>2. IInv /\ [Next]_vars => IInv'
  BY StepGood, ConstantsAssumption DEF Good
<1> QED BY <1>1, <1>2, PTL DEF Spec

(* Every reachable state of the controller is well typed. *)
THEOREM TypeCorrect == Spec => []TypeOK
<1>1. IInv => TypeOK
  BY DEF IInv, SoundCrs, Sound, OwnTypeOK, TypeOK
<1> QED BY <1>1, Invariance, PTL

(* A ready instance that is not being deleted carries the finalizer, for   *)
(* any number of pods that reconcile it at the same time.                  *)
THEOREM Protected == Spec => []ReadyIsProtected
<1>1. IInv => ReadyIsProtected
  BY DEF IInv
<1> QED BY <1>1, Invariance, PTL

(* No step of the operator undoes what a user wrote. *)
THEOREM EditsSurvive == Spec => KeepsUserEdits
<1>1. IInv /\ [Next]_vars => [edits' = edits => UserEditsKept]_vars
  BY StepGood, ConstantsAssumption DEF Good
<1> QED BY <1>1, Invariance, PTL DEF Spec, KeepsUserEdits

(* The labels of the Secrets implement exclusive claims. *)
THEOREM Exclusive == Spec => ClaimIsExclusive
<1>1. Init => Claim!Init
  BY DEF Init, Claim!Init, holder, NewSecrets
<1>2. IInv /\ [Next]_vars => [Claim!Next]_holder
  BY StepGood, ConstantsAssumption DEF Good
<1> QED BY <1>1, <1>2, Invariance, PTL DEF Spec, ClaimIsExclusive, Claim!Spec

--------------------------------------------------------------------------------
(* Releases, while one pod runs: a reconcile that found its Secret without *)
(* its own label still finds it so, because no other task writes that      *)
(* label.  When two pods overlap the other pod may write it back.          *)

LabelSeen(i, w) ==
  /\ w.pc = "secret" /\ holder[w.cr.secretRef] = i => w.dep.label = i
  /\ w.pc = "unlabeled" => holder[w.cr.secretRef] # i

Seen == \A p \in Pods, i \in Instances : LabelSeen(i, task[p][i])

Released ==
  \A i \in Instances :
    /\ edits' = edits
    /\ cr[i] # Absent
    /\ cr'[i] = Absent
    /\ HasFinalizer(cr[i])
    => holder[cr[i].secretRef] # i

(* A reconcile is where it was and nobody has written its label. *)
Stays(i, old, new) ==
  /\ new.pc = old.pc
  /\ new.cr = old.cr
  /\ new.dep = old.dep
  /\ \A s \in Secrets : holder'[s] = i => holder[s] = i

(* What a step has to do for every reconcile so that Seen is kept. *)
LEMMA SeenKept ==
  ASSUME IInv, Seen,
         \A p \in Pods, i \in Instances :
           \/ task'[p][i].pc \notin {"secret", "unlabeled"}
           \/ Stays(i, task[p][i], task'[p][i])
           \/ LabelSeen(i, task[p][i])'
  PROVE  Seen'
<1>1. ASSUME NEW p \in Pods, NEW i \in Instances,
             Stays(i, task[p][i], task'[p][i]),
             task'[p][i].pc \in {"secret", "unlabeled"}
      PROVE  LabelSeen(i, task[p][i])'
  <2>1. LabelSeen(i, task[p][i]) /\ ~At(p, i, "idle")
    BY <1>1 DEF Seen, Stays, At
  <2>2. task[p][i].cr.secretRef \in Secrets
    BY <2>1, RunningTask DEF RustFSInstance
  <2> QED BY <1>1, <2>1, <2>2 DEF LabelSeen, Stays
<1> QED BY <1>1 DEF Seen, LabelSeen

(* Steps that only end reconciles or outdate copies. *)
LEMMA SeenSettles ==
  ASSUME IInv, Seen, NoneAdvances, UNCHANGED holder
  PROVE  Seen'
<1>1. Idle.pc = "idle"
  BY DEF Idle
<1> QED BY <1>1, SeenKept DEF NoneAdvances, Stays, Instances

(* Steps of one reconcile that leave the labels alone. *)
LEMMA SeenMoves ==
  ASSUME IInv, Seen, UNCHANGED holder, NEW p \in Pods, NEW i \in Instances,
         NEW w, task' = [task EXCEPT ![p][i] = w],
         \/ w.pc \notin {"secret", "unlabeled"}
         \/ LabelSeen(i, w)
  PROVE  Seen'
<1>1. ASSUME NEW q \in Pods, NEW x \in Instances
      PROVE  (task'[q][x] = w /\ x = i) \/ task'[q][x] = task[q][x]
  BY DEF IInv, SoundCrs, Sound, ReconcilerTypeOK, Instances
<1>2. ASSUME NEW q \in Pods, NEW x \in Instances
      PROVE  \/ task'[q][x].pc \notin {"secret", "unlabeled"}
             \/ Stays(x, task[q][x], task'[q][x])
             \/ LabelSeen(x, task[q][x])'
  BY <1>1 DEF Stays, LabelSeen
<1> QED BY <1>2, SeenKept

(* A reconcile that goes on without a write to its Secret. *)
LEMMA SeenContinues ==
  ASSUME IInv, Seen, NEW p \in Pods, NEW i \in Instances, ~At(p, i, "idle"),
         NEW step \in Steps, Continues(p, i, step), UNCHANGED secret,
         step # "secret",
         step = "unlabeled" => holder[task[p][i].cr.secretRef] # i
  PROVE  Seen' /\ Released
<1> DEFINE w == [task[p][i] EXCEPT !.pc = step]
<1>1. w.pc = step /\ w.cr = task[p][i].cr
  BY RunningTask DEF TaskOf
<1>2. task' = [task EXCEPT ![p][i] = w]
  BY DEF Continues
<1>3. UNCHANGED holder
  BY DEF holder
<1> HIDE DEF w
<1>4. Seen'
  BY <1>1, <1>2, <1>3, SeenMoves DEF LabelSeen
<1> QED BY <1>4 DEF Continues, Released

(* A reconcile replaces its CR: only a copy without finalizers is reaped.  *)
LEMMA SeenReplace ==
  ASSUME ConstantsAssumption, IInv, Seen, NEW p \in Pods, NEW i \in Instances,
         ~At(p, i, "idle"),
         NEW object \in RustFSInstance, NEW again \in BOOLEAN,
         Replace(p, i, object, again), OnlyCr,
         \/ HasFinalizer(task[p][i].cr) => HasFinalizer(object)
         \/ holder[task[p][i].cr.secretRef] # i
  PROVE  Seen' /\ Released
<1>1. NoneAdvances
  BY ReplaceSound, StepsType DEF IInv, SoundCrs, Instances
<1>2. UNCHANGED holder
  BY DEF holder, OnlyCr
<1>3. Seen'
  BY <1>1, <1>2, SeenSettles
<1>4. \/ UNCHANGED cr
      \/ task[p][i].crFresh /\ cr' = [cr EXCEPT ![i] = Reaped(object)]
  BY DEF Replace, Updates, Store, CrAccepted, Ends, Err
<1>5. task[p][i].crFresh => cr[i] # Absent /\ task[p][i].cr = cr[i]
  BY RunningTask
<1>6. cr \in [Instances -> RustFSInstance \cup {Absent}]
  BY DEF IInv, SoundCrs, Sound, ReconcilerTypeOK, Instances
<1>7. object # Absent /\ (HasFinalizer(object) => Reaped(object) = object)
  BY DEF Reaped, HasFinalizer, ConstantsAssumption
<1>8. Released
  BY <1>4, <1>5, <1>6, <1>7 DEF Released
<1> QED BY <1>3, <1>8

(* A reconcile ends with an error. *)
LEMMA SeenErr ==
  ASSUME IInv, Seen, NEW p \in Pods, NEW i \in Instances, Err(p, i), OnlyCr
  PROVE  Seen' /\ Released
<1>1. NoneAdvances /\ UNCHANGED cr
  BY EndsSound, StepsType DEF Err, Ends, IInv, SoundCrs, Instances
<1>2. UNCHANGED holder
  BY DEF holder, OnlyCr
<1> QED BY <1>1, <1>2, SeenSettles DEF Released

(* A write of the label outdates copies and may move the writer on. *)
LEMMA SeenWriteLabel ==
  ASSUME ConstantsAssumption, OnePod, IInv, Seen, NEW p \in Pods,
         NEW i \in Instances, At(p, i, "secret"),
         NEW label \in {i, NoInstance}, NEW step \in {"unlabeled", "written"},
         WriteLabel(p, i, label, step),
         step = "unlabeled" => label = NoInstance
  PROVE  Seen' /\ Released
<1> DEFINE s == task[p][i].cr.secretRef
           object == [task[p][i].dep EXCEPT !.label = label]
<1>1. /\ ~At(p, i, "idle")
      /\ step \in Steps
      /\ task[p][i].dep # Absent
  BY RunningTask DEF At, Steps, StepOK
<1>2. /\ task[p][i].cr \in RustFSInstance
      /\ s \in Secrets
      /\ DepAccepted(p, i) => secret[s] # Absent /\ task[p][i].dep = secret[s]
  BY <1>1, RunningTask DEF DepAccepted, SecretCopyOK, Held, RustFSInstance
<1>3. secret[s] # Absent => secret[s] \in Secret
  BY <1>2 DEF IInv, OwnTypeOK
<1>4. DepAccepted(p, i) => object \in Secret /\ object.label = label /\ object # Absent
  BY <1>2, <1>3 DEF Secret, ConstantsAssumption
<1> HIDE DEF object, s
<1>5. CASE DepAccepted(p, i) /\ object = secret[s] /\ Continues(p, i, step) /\ OnlyCr
  <2>1. holder[s] = label
    BY <1>2, <1>4, <1>5 DEF holder
  <2> QED
    BY <1>1, <1>5, <2>1, SeenContinues DEF OnlyCr, ConstantsAssumption, s
<1>6. CASE ~DepAccepted(p, i) /\ Err(p, i) /\ OnlyCr
  BY <1>6, SeenErr
<1>7. CASE /\ DepAccepted(p, i)
           /\ secret' = [secret EXCEPT ![s] = object]
           /\ task' = [SecretOutdated(task, s) EXCEPT ![p][i].pc = step]
           /\ UNCHANGED <<cr, edits, faults, alias>>
  <2> DEFINE t == SecretOutdated(task, s)
             w == [t[p][i] EXCEPT !.pc = step]
  <2>1. t \in [Pods -> [Instances -> TaskOf(Steps, RustFSInstance, Secret)]]
    BY <1>2, OutdatedSecrets
  <2>2. \A q \in Pods, x \in Instances :
          /\ t[q][x].pc = task[q][x].pc
          /\ t[q][x].cr = task[q][x].cr
          /\ t[q][x].dep = task[q][x].dep
    BY <1>2, OutdatedSecrets
  <2>3. task' = [t EXCEPT ![p][i] = w]
    BY <1>7
  <2> HIDE DEF t
  <2>4. t[p][i] \in TaskOf(Steps, RustFSInstance, Secret)
    BY <2>1
  <2>5. w.pc = step /\ w.cr = t[p][i].cr
    BY <2>4 DEF TaskOf
  <2> HIDE DEF w
  <2>6. \A q \in Pods, x \in Instances :
          (task'[q][x] = w /\ q = p /\ x = i) \/ (task'[q][x] = t[q][x] /\ x # i)
    BY <2>1, <2>3 DEF OnePod
  <2>7. \A x \in Secrets : holder'[x] = IF x = s THEN label ELSE holder[x]
    BY <1>2, <1>4, <1>7 DEF holder, IInv, OwnTypeOK
  <2>8. ASSUME NEW q \in Pods, NEW x \in Instances
        PROVE  \/ task'[q][x].pc \notin {"secret", "unlabeled"}
               \/ Stays(x, task[q][x], task'[q][x])
               \/ LabelSeen(x, task[q][x])'
    <3>1. CASE task'[q][x] = w /\ x = i
      <4>1. w.cr.secretRef = s
        BY <2>2, <2>5 DEF s
      <4> QED
        BY <1>2, <2>5, <2>7, <3>1, <4>1 DEF LabelSeen, ConstantsAssumption
    <3>2. CASE task'[q][x] = t[q][x] /\ x # i
      BY <2>2, <2>7, <3>2 DEF Stays, ConstantsAssumption
    <3> QED BY <2>6, <3>1, <3>2
  <2>9. Seen'
    BY <2>8, SeenKept
  <2> QED BY <1>7, <2>9 DEF Released
<1> QED BY <1>5, <1>6, <1>7 DEF WriteLabel, s, object

(* Every step of a reconcile. *)
LEMMA SeenReconcile ==
  ASSUME ConstantsAssumption, OnePod, IInv, Seen, NEW p \in Pods,
         NEW i \in Instances, Reconcile(p, i)
  PROVE  Seen' /\ Released
<1> DEFINE c == task[p][i].cr
<1>1. ASSUME ~At(p, i, "idle")
      PROVE  c \in RustFSInstance
  BY <1>1, RunningTask
<1>2. CASE Begin(p, i) /\ OnlyCr
  <2> DEFINE w == [Idle EXCEPT !.pc = "read", !.cr = cr[i], !.crFresh = TRUE]
  <2>1. UNCHANGED holder /\ UNCHANGED cr
    BY <1>2 DEF holder, OnlyCr, Begin
  <2>2. w.pc = "read"
    BY DEF Idle
  <2> HIDE DEF w
  <2>3. CASE UNCHANGED task
    BY <2>1, <2>3, SeenKept DEF Stays, Released
  <2>4. CASE task' = [task EXCEPT ![p][i] = w]
    BY <2>1, <2>2, <2>4, SeenMoves DEF Released
  <2> QED BY <1>2, <2>3, <2>4 DEF Begin, w
<1>3. CASE init_object(p, i)
  <2> DEFINE object == [c EXCEPT !.conditions = init_conditions(ConditionTypes)]
  <2>1. ~At(p, i, "idle") /\ Replace(p, i, object, FALSE) /\ OnlyCr
    BY <1>3 DEF init_object, At
  <2>2. object \in RustFSInstance /\ object.fins = c.fins
    BY <1>1, <2>1 DEF RustFSInstance, init_conditions, ConditionStatus
  <2> HIDE DEF object
  <2> QED BY <2>1, <2>2, SeenReplace DEF HasFinalizer
<1>4. CASE get_secret(p, i)
  <2> DEFINE stored == secret[c.secretRef]
             w == [task[p][i] EXCEPT !.pc = "secret", !.dep = stored,
                                     !.depFresh = TRUE]
  <2>1. ~At(p, i, "idle") /\ OnlyCr
    BY <1>4 DEF get_secret, At
  <2>2. CASE Err(p, i)
    BY <2>1, <2>2, SeenErr
  <2>3. CASE /\ stored # Absent
             /\ task' = [task EXCEPT ![p][i] = w]
             /\ UNCHANGED <<cr, due, edits, faults>>
    <3>1. UNCHANGED holder
      BY <2>1 DEF holder, OnlyCr
    <3>2. task[p][i] \in TaskOf(Steps, RustFSInstance, Secret)
      BY <2>1, RunningTask
    <3>3. w.pc = "secret" /\ w.cr = c /\ w.dep = stored
      BY <3>2 DEF TaskOf
    <3>4. c.secretRef \in Secrets
      BY <1>1, <2>1 DEF RustFSInstance
    <3>5. LabelSeen(i, w)
      BY <2>3, <3>3, <3>4 DEF LabelSeen, holder
    <3> HIDE DEF w
    <3> QED BY <2>3, <3>1, <3>5, SeenMoves DEF Released
  <2> QED BY <1>4, <2>2, <2>3 DEF get_secret
<1>5. CASE unlabel_secret(p, i)
  <2>1. ~At(p, i, "idle") /\ At(p, i, "secret")
    BY <1>5 DEF unlabel_secret, At
  <2>2. CASE WriteLabel(p, i, NoInstance, "unlabeled")
    BY <2>1, <2>2, SeenWriteLabel
  <2>3. CASE /\ task[p][i].dep.label = NoInstance
             /\ Continues(p, i, "unlabeled") /\ OnlyCr
    <3>1. holder[c.secretRef] # i
      BY <2>1, <2>3 DEF Seen, LabelSeen, At, ConstantsAssumption
    <3> QED BY <2>1, <2>3, <3>1, StepsType, SeenContinues DEF OnlyCr
  <2> QED BY <1>5, <2>2, <2>3 DEF unlabel_secret
<1>6. CASE Finalize(p, i)
  <2> DEFINE object == [c EXCEPT !.fins = @ \ {FIN_SECRET_LABEL}]
  <2>1. ~At(p, i, "idle") /\ Replace(p, i, object, FALSE) /\ OnlyCr
    BY <1>6 DEF Finalize, ReadyToFinalize, At
  <2>2. object \in RustFSInstance
    BY <1>1, <2>1 DEF RustFSInstance
  <2>3. ~HasFinalizer(c) \/ holder[c.secretRef] # i
    BY <1>6 DEF Finalize, ReadyToFinalize, Seen, LabelSeen, At
  <2> HIDE DEF object
  <2> QED BY <2>1, <2>2, <2>3, SeenReplace
<1>7. CASE AddFinalizer(p, i)
  <2> DEFINE object == [c EXCEPT !.fins = @ \cup {FIN_SECRET_LABEL}]
  <2>1. ~At(p, i, "idle") /\ Replace(p, i, object, FALSE) /\ OnlyCr
    BY <1>7 DEF AddFinalizer, At
  <2>2. object \in RustFSInstance /\ FIN_SECRET_LABEL \in object.fins
    BY <1>1, <2>1 DEF RustFSInstance
  <2> HIDE DEF object
  <2> QED BY <2>1, <2>2, SeenReplace DEF HasFinalizer
<1>8. CASE label_secret(p, i)
  BY <1>8, SeenWriteLabel DEF label_secret, Wants
<1>9. CASE reread_secret(p, i)
  <2>1. ~At(p, i, "idle") /\ OnlyCr
    BY <1>9 DEF reread_secret, At
  <2> QED
    BY <1>9, <2>1, SeenErr, StepsType, SeenContinues DEF reread_secret, OnlyCr
<1>10. CASE SecretIsAlreadyLabeled(p, i) \/ InvalidSecret(p, i)
  BY <1>10, SeenErr DEF SecretIsAlreadyLabeled, InvalidSecret
<1>11. CASE SaveLabeled(p, i) \/ SaveUnlabeled(p, i)
  <2>1. PICK status \in {"True", "Unknown"} :
          ~At(p, i, "idle") /\ SetLabeled(p, i, status) /\ OnlyCr
    BY <1>11 DEF SaveLabeled, SaveUnlabeled, Wants, Claims, At
  <2> DEFINE object == [c EXCEPT !.conditions =
                          set_condition(@, TYPE_SECRET_LABELED, status)]
  <2>2. Replace(p, i, object, FALSE)
    BY <2>1 DEF SetLabeled
  <2>3. object \in RustFSInstance /\ object.fins = c.fins
    BY <1>1, <2>1 DEF RustFSInstance, set_condition, ConditionStatus
  <2> HIDE DEF object
  <2> QED BY <2>1, <2>2, <2>3, SeenReplace DEF HasFinalizer
<1>12. CASE EnsureAlias(p, i)
  <2>1. ~At(p, i, "idle")
    BY <1>12 DEF EnsureAlias, Claims, At
  <2> QED BY <1>12, <2>1, SeenContinues, StepsType DEF EnsureAlias
<1>13. CASE Publish(p, i)
  <2> DEFINE object == [c EXCEPT !.ready = TRUE, !.from = alias[p][i].endpoint]
  <2>1. ~At(p, i, "idle") /\ Replace(p, i, object, TRUE) /\ OnlyCr
    BY <1>13 DEF Publish, At
  <2>2. alias[p][i].endpoint \in Endpoints \cup {NoEndpoint}
    BY DEF IInv, OwnTypeOK, Alias
  <2>3. object \in RustFSInstance /\ object.fins = c.fins
    BY <1>1, <2>1, <2>2 DEF RustFSInstance
  <2> HIDE DEF object
  <2> QED BY <2>1, <2>3, SeenReplace DEF HasFinalizer
<1> QED
  BY <1>2, <1>3, <1>4, <1>5, <1>6, <1>7, <1>8, <1>9, <1>10, <1>11, <1>12, <1>13
     DEF Reconcile

(* A user's write to a Secret never puts a label on. *)
LEMMA SeenWriteSecret ==
  ASSUME ConstantsAssumption, IInv, Seen, NEW s \in Secrets,
         CreateSecret(s) \/ EditSecret(s) \/ DeleteSecret(s)
  PROVE  Seen'
<1>1. PICK object \in Secret \cup {Absent} :
        /\ secret' = [secret EXCEPT ![s] = object]
        /\ task' = SecretOutdated(task, s)
        /\ \/ object = Absent
           \/ object.label = NoInstance
           \/ secret[s] # Absent /\ object.label = secret[s].label
  <2>1. CASE CreateSecret(s)
    BY <2>1 DEF CreateSecret, WriteSecret, NewSecrets, Secret
  <2>2. CASE EditSecret(s)
    <3>1. PICK k \in Keys \cup {NoKeys} :
            WriteSecret(s, [secret[s] EXCEPT !.keys = k], secret[s].label)
      BY <2>2 DEF EditSecret
    <3> DEFINE object == [secret[s] EXCEPT !.keys = k]
    <3>2. secret[s] \in Secret /\ secret[s] # Absent
      BY <2>2 DEF EditSecret, IInv, OwnTypeOK
    <3>3. object \in Secret /\ object.label = secret[s].label
      BY <3>2 DEF Secret
    <3>4. secret' = [secret EXCEPT ![s] = object] /\ task' = SecretOutdated(task, s)
      BY <3>1 DEF WriteSecret
    <3> HIDE DEF object
    <3> QED BY <3>2, <3>3, <3>4
  <2>3. CASE DeleteSecret(s)
    BY <2>3 DEF DeleteSecret, WriteSecret
  <2> QED BY <2>1, <2>2, <2>3
<1>2. \A q \in Pods, x \in Instances :
        /\ task'[q][x].pc = task[q][x].pc
        /\ task'[q][x].cr = task[q][x].cr
        /\ task'[q][x].dep = task[q][x].dep
  BY <1>1, OutdatedSecrets
<1>3. \A x \in Secrets : secret'[x] = IF x = s THEN object ELSE secret[x]
  BY <1>1 DEF IInv, OwnTypeOK
<1>4. \A x \in Secrets : holder'[x] = holder[x] \/ holder'[x] = NoInstance
  BY <1>1, <1>3 DEF holder
<1>5. \A q \in Pods, x \in Instances : Stays(x, task[q][x], task'[q][x])
  BY <1>2, <1>4 DEF Stays, ConstantsAssumption
<1> QED BY <1>5, SeenKept

(* Every step. *)
LEMMA SeenStep ==
  ASSUME ConstantsAssumption, OnePod, IInv, Seen, [Next]_vars
  PROVE  Seen' /\ Released
<1>1. ASSUME NEW p \in Pods, Fault(p)
      PROVE  Seen' /\ Released
  <2>1. \/ Restarts(p)
        \/ \E i \in Instances : CallFails(p, i)
    BY <1>1 DEF Fault
  <2>2. UNCHANGED <<secret, cr>>
    BY <1>1, <2>1 DEF Fault, OnlyCr, Restarts, CallFails, Faulty
  <2>3. NoneAdvances
    BY <2>1, StepsType, CallFailsSound, RestartsSound
       DEF IInv, SoundCrs, Instances, ConstantsAssumption
  <2>4. UNCHANGED holder
    BY <2>2 DEF holder
  <2> QED BY <2>2, <2>3, <2>4, SeenSettles DEF Released
<1>2. ASSUME User
      PROVE  Seen' /\ Released
  <2>1. edits' # edits
    <3>1. Edit
      BY <1>2 DEF User, CreateCr, DeleteCr, EditInstance, DropForeign, WriteCr,
                  CreateSecret, EditSecret, DeleteSecret, WriteSecret
    <3> QED
      BY SMTT(60), <3>1 DEF Edit, IInv, SoundCrs, Sound, ReconcilerTypeOK,
                  ConstantsAssumption
  <2>2. CASE \E s \in Secrets : CreateSecret(s) \/ EditSecret(s) \/ DeleteSecret(s)
    BY <2>1, <2>2, SeenWriteSecret DEF Released
  <2>3. ASSUME OnlyCr, NEW i \in Instances, NEW object, WriteCr(i, object)
        PROVE  Seen'
    <3>1. \A q \in Pods, x \in Instances :
            /\ task'[q][x].pc = task[q][x].pc
            /\ task'[q][x].cr = task[q][x].cr
            /\ task'[q][x].dep = task[q][x].dep
      BY <2>3, OutdatedTasks DEF WriteCr, IInv, SoundCrs, Sound, Instances
    <3>2. UNCHANGED holder
      BY <2>3 DEF holder, OnlyCr
    <3> QED BY <3>1, <3>2, SeenKept DEF Stays
  <2> QED
    BY <1>2, <2>1, <2>2, <2>3
       DEF User, CreateCr, DeleteCr, EditInstance, DropForeign, Released
<1>3. CASE UNCHANGED vars
  <2>1. UNCHANGED <<task, cr, holder>>
    BY <1>3 DEF vars, holder
  <2> QED BY <2>1, SeenKept DEF Stays, Released
<1> QED BY <1>1, <1>2, <1>3, SeenReconcile DEF Next

(* What a reconcile has seen of the label of its Secret stays true. *)
THEOREM LabelsSeen == ASSUME OnePod PROVE Spec => []Seen
<1>1. Init => Seen
  <2>1. Idle.pc = "idle"
    BY DEF Idle
  <2> QED BY <2>1 DEF Init, ReconcilerInit, Seen, LabelSeen, Instances
<1>2. IInv /\ Seen /\ [Next]_vars => Seen'
  BY SeenStep, ConstantsAssumption
<1> QED BY <1>1, <1>2, Invariance, PTL DEF Spec

(* The controller lets no instance go, while one pod runs, whose Secret is *)
(* still labelled with it.                                                 *)
THEOREM NothingLeftBehind == ASSUME OnePod PROVE Spec => ReleasedBeforeGone
<1>1. IInv /\ Seen /\ [Next]_vars => [Released]_vars
  BY SeenStep, ConstantsAssumption
<1> QED BY <1>1, Invariance, LabelsSeen, PTL DEF Spec, ReleasedBeforeGone, Released
================================================================================
