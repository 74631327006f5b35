--------------------------- MODULE ReconcilerProofs ---------------------------
(***************************************************************************)
(* Lemmas about Reconciler that hold for every controller: each of its     *)
(* operators keeps the types, for any set of steps, objects and dependent  *)
(* objects, and keeps every fresh copy equal to the stored object.         *)
(***************************************************************************)
EXTENDS Reconciler, TLAPS

Sound(steps, crs, deps) == ReconcilerTypeOK(steps, crs, deps) /\ CopiesOK

(* One operator process runs: no Deployment is rolling. *)
OnePod == \A p, q \in Pods : p = q

(* A step after which every reconcile is where it was or has ended. *)
NoneAdvances ==
  \A q \in Pods, x \in Objects :
    \/ task'[q][x] = Idle
    \/ /\ task'[q][x].pc = task[q][x].pc
       /\ task'[q][x].cr = task[q][x].cr
       /\ task'[q][x].dep = task[q][x].dep
       /\ task'[q][x].depFresh = task[q][x].depFresh

(* The parts of a task record keep their types. *)
LEMMA IdleType ==
  ASSUME NEW steps, NEW crs, NEW deps, "idle" \in steps
  PROVE  Idle \in TaskOf(steps, crs, deps)
  BY DEF Idle, TaskOf

(* The fields of a task record that a step changes keep their types.       *)
LEMMA TaskTypes ==
  ASSUME NEW steps, NEW crs, NEW deps, NEW w \in TaskOf(steps, crs, deps),
         NEW fresh \in BOOLEAN
  PROVE  /\ \A step \in steps :
              [w EXCEPT !.pc = step] \in TaskOf(steps, crs, deps)
         /\ [w EXCEPT !.crFresh = fresh] \in TaskOf(steps, crs, deps)
         /\ [w EXCEPT !.depFresh = fresh] \in TaskOf(steps, crs, deps)
  BY DEF TaskOf

(* Any step that gives one task a sound new value and leaves the CRs alone *)
(* is sound.                                                               *)
LEMMA OneTask ==
  ASSUME NEW steps, NEW crs, NEW deps, Sound(steps, crs, deps),
         NEW p \in Pods, NEW o \in Objects, NEW w \in TaskOf(steps, crs, deps),
         w.pc # "idle" => w.cr # Absent,
         w.crFresh => cr[o] # Absent /\ w.cr = cr[o],
         task' = [task EXCEPT ![p][o] = w],
         due' \in [Pods -> [Objects -> BOOLEAN]],
         edits' \in 0..MaxEdits, faults' \in 0..MaxFaults, UNCHANGED cr
  PROVE  Sound(steps, crs, deps)'
<1>1. task' \in [Pods -> [Objects -> TaskOf(steps, crs, deps)]]
  BY DEF Sound, ReconcilerTypeOK
<1>2. ASSUME NEW q \in Pods, NEW x \in Objects
      PROVE  \/ q = p /\ x = o /\ task'[q][x] = w
             \/ task'[q][x] = task[q][x]
  BY DEF Sound, ReconcilerTypeOK
<1>3. CopiesOK'
  BY <1>2 DEF Sound, CopiesOK
<1> QED BY <1>1, <1>3 DEF Sound, ReconcilerTypeOK

(* A reconcile that ends.                                                  *)
LEMMA EndsSound ==
  ASSUME NEW steps, NEW crs, NEW deps, "idle" \in steps, Sound(steps, crs, deps),
         NEW p \in Pods, NEW o \in Objects, NEW again \in BOOLEAN,
         Ends(p, o, again)
  PROVE  Sound(steps, crs, deps)' /\ NoneAdvances
<1>1. Idle \in TaskOf(steps, crs, deps)
  BY IdleType
<1>2. due' \in [Pods -> [Objects -> BOOLEAN]]
  BY DEF Ends, Requeued, Sound, ReconcilerTypeOK
<1>3. Idle.pc = "idle" /\ Idle.crFresh = FALSE
  BY DEF Idle
<1>4. NoneAdvances
  BY DEF NoneAdvances, Ends, Ended, Sound, ReconcilerTypeOK
<1> QED
  BY <1>1, <1>2, <1>3, <1>4, OneTask DEF Ends, Ended, Sound, ReconcilerTypeOK

(* A reconcile that goes on.                                               *)
LEMMA ContinuesSound ==
  ASSUME NEW steps, NEW crs, NEW deps, Sound(steps, crs, deps),
         NEW p \in Pods, NEW o \in Objects, NEW step \in steps,
         ~At(p, o, "idle"), Continues(p, o, step)
  PROVE  Sound(steps, crs, deps)'
<1> DEFINE w == [task[p][o] EXCEPT !.pc = step]
<1>1. task[p][o] \in TaskOf(steps, crs, deps)
  BY DEF Sound, ReconcilerTypeOK
<1>2. w \in TaskOf(steps, crs, deps)
  BY <1>1, TaskTypes
<1>3. w.cr = task[p][o].cr /\ w.crFresh = task[p][o].crFresh
  BY <1>1 DEF TaskOf
<1>4. task' = [task EXCEPT ![p][o] = w]
  BY DEF Continues
<1>5. w.cr # Absent /\ (w.crFresh => cr[o] # Absent /\ w.cr = cr[o])
  BY <1>3 DEF Sound, CopiesOK, At
<1> HIDE DEF w
<1> QED
  BY <1>2, <1>4, <1>5, OneTask DEF Continues, Sound, ReconcilerTypeOK

(* A reconcile that starts has a fresh copy of its object.                 *)
LEMMA BeginSound ==
  ASSUME NEW steps, NEW crs, NEW deps, {"idle", "read"} \subseteq steps,
         Sound(steps, crs, deps),
         NEW p \in Pods, NEW o \in Objects, Begin(p, o)
  PROVE  Sound(steps, crs, deps)'
<1> DEFINE w == [Idle EXCEPT !.pc = "read", !.cr = cr[o], !.crFresh = TRUE]
<1>1. due' \in [Pods -> [Objects -> BOOLEAN]]
  BY DEF Begin, Sound, ReconcilerTypeOK
<1>2. CASE UNCHANGED task
  BY <1>1, <1>2 DEF Begin, Sound, ReconcilerTypeOK, CopiesOK
<1>3. CASE cr[o] # Absent /\ task' = [task EXCEPT ![p][o] = w]
  <2>1. w \in TaskOf(steps, crs, deps)
    BY DEF Idle, TaskOf, Sound, ReconcilerTypeOK
  <2>2. w.cr = cr[o] /\ w.crFresh
    BY DEF Idle
  <2> HIDE DEF w
  <2> QED
    BY <1>1, <1>3, <2>1, <2>2, OneTask DEF Begin, Sound, ReconcilerTypeOK
<1> QED BY <1>2, <1>3 DEF Begin

(* The write of one object outdates its copies and no others. *)
LEMMA OutdatedTasks ==
  ASSUME NEW steps, NEW crs, NEW deps, ReconcilerTypeOK(steps, crs, deps),
         NEW o \in Objects
  PROVE  /\ CrOutdated(task, o) \in [Pods -> [Objects -> TaskOf(steps, crs, deps)]]
         /\ \A p \in Pods, x \in Objects :
              LET w == CrOutdated(task, o)[p][x] IN
              /\ w.pc = task[p][x].pc
              /\ w.cr = task[p][x].cr
              /\ w.dep = task[p][x].dep
              /\ w.depFresh = task[p][x].depFresh
              /\ w.crFresh => x # o /\ task[p][x].crFresh
<1> DEFINE stale(p) == [task[p][o] EXCEPT !.crFresh = FALSE]
<1>1. \A p \in Pods : task[p][o] \in TaskOf(steps, crs, deps)
  BY DEF ReconcilerTypeOK
<1>2. \A p \in Pods : stale(p) \in TaskOf(steps, crs, deps)
  BY <1>1, TaskTypes
<1>3. \A p \in Pods : /\ stale(p).pc = task[p][o].pc
                      /\ stale(p).cr = task[p][o].cr
                      /\ stale(p).dep = task[p][o].dep
                      /\ stale(p).depFresh = task[p][o].depFresh
                      /\ stale(p).crFresh = FALSE
  BY <1>1 DEF TaskOf
<1>4. CrOutdated(task, o) = [p \in Pods |-> [task[p] EXCEPT ![o] = stale(p)]]
  BY DEF CrOutdated
<1> HIDE DEF stale
<1>5. CrOutdated(task, o) \in [Pods -> [Objects -> TaskOf(steps, crs, deps)]]
  BY <1>2, <1>4 DEF ReconcilerTypeOK
<1>6. ASSUME NEW p \in Pods, NEW x \in Objects
      PROVE  \/ x = o /\ CrOutdated(task, o)[p][x] = stale(p)
             \/ x # o /\ CrOutdated(task, o)[p][x] = task[p][x]
  BY <1>4 DEF ReconcilerTypeOK
<1> QED BY <1>3, <1>5, <1>6

(* A user writes an object.                                                *)
LEMMA WriteCrSound ==
  ASSUME NEW steps, NEW crs, NEW deps, Sound(steps, crs, deps),
         NEW o \in Objects, NEW object \in crs \cup {Absent},
         MaxEdits \in Nat, WriteCr(o, object)
  PROVE  Sound(steps, crs, deps)' /\ NoneAdvances
<1>1. edits' \in 0..MaxEdits
  BY DEF WriteCr, Edit, Sound, ReconcilerTypeOK
<1>2. due' \in [Pods -> [Objects -> BOOLEAN]]
  BY DEF WriteCr, Watched, Sound, ReconcilerTypeOK
<1>3. ASSUME NEW x \in Objects, x # o  PROVE cr'[x] = cr[x]
  BY <1>3 DEF WriteCr, Sound, ReconcilerTypeOK
<1> DEFINE t == CrOutdated(task, o)
<1>4. task' = t /\ t \in [Pods -> [Objects -> TaskOf(steps, crs, deps)]]
  BY OutdatedTasks DEF WriteCr, Sound
<1>5. \A q \in Pods, x \in Objects :
        /\ t[q][x].pc = task[q][x].pc
        /\ t[q][x].cr = task[q][x].cr
        /\ t[q][x].dep = task[q][x].dep
        /\ t[q][x].depFresh = task[q][x].depFresh
        /\ t[q][x].crFresh => x # o /\ task[q][x].crFresh
  BY OutdatedTasks DEF Sound
<1> HIDE DEF t
<1>6. CopiesOK'
  BY <1>3, <1>4, <1>5 DEF Sound, CopiesOK
<1>7. NoneAdvances
  BY <1>4, <1>5 DEF NoneAdvances
<1> QED
  BY <1>1, <1>2, <1>4, <1>6, <1>7 DEF WriteCr, Edit, Sound, ReconcilerTypeOK

(* A reconcile replaces its object and ends.                               *)
LEMMA UpdatesSound ==
  ASSUME NEW steps, NEW crs, NEW deps, "idle" \in steps, Sound(steps, crs, deps),
         NEW p \in Pods, NEW o \in Objects, NEW object \in crs,
         Updates(p, o, object)
  PROVE  Sound(steps, crs, deps)' /\ NoneAdvances
<1> DEFINE t == CrOutdated(task, o)
<1>1. t \in [Pods -> [Objects -> TaskOf(steps, crs, deps)]]
  BY OutdatedTasks DEF Sound
<1>2. task' = [t EXCEPT ![p][o] = Idle]
  BY DEF Updates, Ended
<1>3. \A q \in Pods, x \in Objects :
        /\ t[q][x].pc = task[q][x].pc
        /\ t[q][x].cr = task[q][x].cr
        /\ t[q][x].dep = task[q][x].dep
        /\ t[q][x].depFresh = task[q][x].depFresh
        /\ t[q][x].crFresh => x # o /\ task[q][x].crFresh
  BY OutdatedTasks DEF Sound
<1> HIDE DEF t
<1>4. Idle \in TaskOf(steps, crs, deps) /\ Idle.pc = "idle" /\ ~Idle.crFresh
  BY IdleType DEF Idle
<1>5. task' \in [Pods -> [Objects -> TaskOf(steps, crs, deps)]]
  BY <1>1, <1>2, <1>4
<1>6. \A q \in Pods, x \in Objects :
        task'[q][x] = Idle \/ task'[q][x] = t[q][x]
  BY <1>1, <1>2
<1>7. cr' \in [Objects -> crs \cup {Absent}]
  BY DEF Updates, Store, Reaped, Sound, ReconcilerTypeOK
<1>8. \A x \in Objects : x # o => cr'[x] = cr[x]
  BY DEF Updates, Store, Sound, ReconcilerTypeOK
<1>9. due' \in [Pods -> [Objects -> BOOLEAN]]
  BY DEF Updates, Store, Watched, Sound, ReconcilerTypeOK
<1>10. CopiesOK'
  BY <1>3, <1>4, <1>6, <1>8 DEF Sound, CopiesOK
<1>11. NoneAdvances
  BY <1>3, <1>6 DEF NoneAdvances
<1> QED
  BY <1>5, <1>7, <1>9, <1>10, <1>11 DEF Updates, Store, Sound, ReconcilerTypeOK

(* A reconcile replaces its object, or fails to.                           *)
LEMMA ReplaceSound ==
  ASSUME NEW steps, NEW crs, NEW deps, "idle" \in steps, Sound(steps, crs, deps),
         NEW p \in Pods, NEW o \in Objects, NEW object \in crs,
         NEW again \in BOOLEAN, Replace(p, o, object, again)
  PROVE  Sound(steps, crs, deps)' /\ NoneAdvances
  BY EndsSound, UpdatesSound DEF Replace, Err

(* A call fails.                                                           *)
LEMMA CallFailsSound ==
  ASSUME NEW steps, NEW crs, NEW deps, "idle" \in steps, Sound(steps, crs, deps),
         NEW p \in Pods, NEW o \in Objects, MaxFaults \in Nat, CallFails(p, o)
  PROVE  Sound(steps, crs, deps)' /\ NoneAdvances
<1>1. Idle \in TaskOf(steps, crs, deps) /\ Idle.pc = "idle" /\ ~Idle.crFresh
  BY IdleType DEF Idle
<1>2. due' \in [Pods -> [Objects -> BOOLEAN]]
  BY DEF CallFails, Requeued, Sound, ReconcilerTypeOK
<1>3. faults' \in 0..MaxFaults /\ edits' \in 0..MaxEdits /\ UNCHANGED cr
  BY DEF CallFails, Faulty, Sound, ReconcilerTypeOK
<1>4. NoneAdvances
  BY DEF NoneAdvances, CallFails, Ended, Sound, ReconcilerTypeOK
<1> QED BY <1>1, <1>2, <1>3, <1>4, OneTask DEF CallFails, Ended

(* A process starts again.                                                 *)
LEMMA RestartsSound ==
  ASSUME NEW steps, NEW crs, NEW deps, "idle" \in steps, Sound(steps, crs, deps),
         NEW p \in Pods, MaxFaults \in Nat, Restarts(p)
  PROVE  Sound(steps, crs, deps)' /\ NoneAdvances
<1>1. Idle \in TaskOf(steps, crs, deps) /\ Idle.pc = "idle" /\ ~Idle.crFresh
  BY IdleType DEF Idle
<1>2. task' \in [Pods -> [Objects -> TaskOf(steps, crs, deps)]]
  BY <1>1 DEF Restarts, Sound, ReconcilerTypeOK
<1>3. \A q \in Pods, x \in Objects : task'[q][x] \in {Idle, task[q][x]}
  BY DEF Restarts, Sound, ReconcilerTypeOK
<1>4. due' \in [Pods -> [Objects -> BOOLEAN]]
  BY DEF Restarts, Sound, ReconcilerTypeOK
<1>5. CopiesOK'
  BY <1>1, <1>3 DEF Restarts, Faulty, Sound, CopiesOK
<1>6. NoneAdvances
  BY <1>3 DEF NoneAdvances
<1> QED
  BY <1>2, <1>4, <1>5, <1>6 DEF Restarts, Faulty, Sound, ReconcilerTypeOK

(* The initial states.                                                     *)
LEMMA InitSound ==
  ASSUME NEW steps, NEW crs, NEW deps, "idle" \in steps, ReconcilerInit,
         MaxFaults \in Nat, MaxEdits \in Nat, cr \in [Objects -> crs \cup {Absent}]
  PROVE  Sound(steps, crs, deps)
<1>1. Idle \in TaskOf(steps, crs, deps) /\ Idle.pc = "idle" /\ ~Idle.crFresh
  BY IdleType DEF Idle
<1> QED BY <1>1 DEF ReconcilerInit, Sound, ReconcilerTypeOK, CopiesOK
================================================================================
