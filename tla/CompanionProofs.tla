---------------------------- MODULE CompanionProofs ----------------------------
(***************************************************************************)
(* Lemmas about Companion that hold for buckets and for users: each of its *)
(* operators keeps the types of the ConfigMap or Secret beside a custom    *)
(* resource, and none undoes what others wrote in the custom resource.     *)
(***************************************************************************)
EXTENDS Companion, ReconcilerProofs

Typed(steps, crs, data) ==
  /\ CompanionSteps \subseteq steps
  /\ Absent \notin crs \cup CompanionOf(data)
  /\ \A c \in crs : c.uid \in Uids
  /\ MaxEdits \in Nat
  /\ MaxFaults \in Nat

(* From "found" on, a reconcile has a copy of the companion. *)
HoldsOK(w) == w.pc \notin {"idle", "read", "missing", "created"} => w.dep # Absent

(* There are never more objects of one name than edits have been made.     *)
Beside(data) ==
  /\ companion \in [Objects -> CompanionOf(data) \cup {Absent}]
  /\ uid \in [Objects -> Uids]
  /\ \A o \in Objects : uid[o] + edits =< MaxEdits
  /\ \A p \in Pods, o \in Objects : HoldsOK(task[p][o])

CInv(steps, crs, data) == Sound(steps, crs, CompanionOf(data)) /\ Beside(data)

(* A copy of the companion that has the stored version is what is stored.  *)
CompanionCopies ==
  \A p \in Pods, o \in Objects :
    task[p][o].depFresh => companion[o] # Absent /\ task[p][o].dep = companion[o]

(* The invariant and, for a controller that does not change its copies of  *)
(* companions by itself, the copies.                                       *)
Keeps(steps, crs, data) ==
  CInv(steps, crs, data)' /\ (CompanionCopies => CompanionCopies')

--------------------------------------------------------------------------------
(* What a step does to the reconciles. *)

Kept(q, x) ==
  /\ task'[q][x].pc = task[q][x].pc
  /\ task'[q][x].cr = task[q][x].cr
  /\ task'[q][x].dep = task[q][x].dep
  /\ task'[q][x].depFresh => task[q][x].depFresh

Settles == \A q \in Pods, x \in Objects : task'[q][x] = Idle \/ Kept(q, x)

OthersKept(p, o) ==
  \A q \in Pods, x \in Objects : (q = p /\ x = o) \/ Kept(q, x)

Moves(p, o, step, c) ==
  /\ OthersKept(p, o)
  /\ task'[p][o].pc = step
  /\ task'[p][o].cr = c

(* The lemmas of Reconciler give no less.                                  *)
LEMMA NoneAdvancesSettles == ASSUME NoneAdvances PROVE Settles
  BY DEF NoneAdvances, Settles, Kept

(* A reconcile that does not run holds no copy.                            *)
LEMMA IdleHolds ==
  HoldsOK(Idle) /\ Idle.pc = "idle" /\ ~Idle.depFresh /\ ~Idle.crFresh
  BY DEF HoldsOK, Idle

(* Steps that leave the companions alone and start nothing. *)
LEMMA SettledBeside ==
  ASSUME NEW data, Beside(data), Settles, UNCHANGED <<companion, uid>>,
         MaxEdits \in Nat, edits \in 0..MaxEdits, edits' \in 0..MaxEdits,
         edits' =< edits
  PROVE  Beside(data)' /\ (CompanionCopies => CompanionCopies')
<1>1. \A o \in Objects : uid[o] \in Nat /\ uid[o] + edits =< MaxEdits
  BY DEF Beside, Uids
<1>2. \A o \in Objects : uid[o] + edits' =< MaxEdits
  BY <1>1
<1>3. ASSUME NEW q \in Pods, NEW x \in Objects
      PROVE  HoldsOK(task'[q][x])
  BY IdleHolds DEF Settles, Kept, Beside, HoldsOK
<1>4. Beside(data)'
  BY <1>2, <1>3 DEF Beside, HoldsOK
<1>5. CompanionCopies => CompanionCopies'
  BY IdleHolds DEF Settles, Kept, CompanionCopies
<1> QED BY <1>4, <1>5

(* Steps that take one reconcile on and leave the companions alone.        *)
LEMMA MovedBeside ==
  ASSUME NEW data, Beside(data), NEW p \in Pods, NEW o \in Objects,
         OthersKept(p, o), HoldsOK(task'[p][o]),
         UNCHANGED <<companion, uid, edits>>
  PROVE  /\ Beside(data)'
         /\ CompanionCopies
            /\ (task'[p][o].depFresh
                  => companion[o] # Absent /\ task'[p][o].dep = companion[o])
              => CompanionCopies'
<1>1. ASSUME NEW q \in Pods, NEW x \in Objects
      PROVE  HoldsOK(task'[q][x])
  BY DEF OthersKept, Kept, Beside, HoldsOK
<1>2. Beside(data)'
  BY <1>1 DEF Beside, HoldsOK
<1>3. ASSUME CompanionCopies,
             task'[p][o].depFresh
               => companion[o] # Absent /\ task'[p][o].dep = companion[o]
      PROVE  CompanionCopies'
  BY <1>3 DEF OthersKept, Kept, CompanionCopies
<1> QED BY <1>2, <1>3

(* The record of a reconcile that runs. *)
LEMMA Running ==
  ASSUME NEW steps, NEW crs, NEW data, Typed(steps, crs, data),
         CInv(steps, crs, data), NEW p \in Pods, NEW o \in Objects,
         ~At(p, o, "idle")
  PROVE  /\ task[p][o] \in TaskOf(steps, crs, CompanionOf(data))
         /\ task[p][o].cr \in crs
         /\ task[p][o].cr # Absent
         /\ task[p][o].crFresh => cr[o] # Absent /\ task[p][o].cr = cr[o]
         /\ HoldsOK(task[p][o])
         /\ task[p][o].dep \in CompanionOf(data) \cup {Absent}
<1>1. task[p][o] \in TaskOf(steps, crs, CompanionOf(data))
  BY DEF CInv, Sound, ReconcilerTypeOK
<1>2. /\ task[p][o].cr \in crs \cup {Absent}
      /\ task[p][o].dep \in CompanionOf(data) \cup {Absent}
  BY <1>1 DEF TaskOf
<1> QED BY <1>1, <1>2 DEF CInv, Sound, CopiesOK, Beside, At

--------------------------------------------------------------------------------
(* A reconcile that ends. *)
LEMMA EndsKeeps ==
  ASSUME NEW steps, NEW crs, NEW data, Typed(steps, crs, data),
         CInv(steps, crs, data), NEW p \in Pods, NEW o \in Objects,
         NEW again \in BOOLEAN, Ends(p, o, again), UNCHANGED <<companion, uid>>
  PROVE  Keeps(steps, crs, data) /\ Settles
<1>1. Sound(steps, crs, CompanionOf(data))' /\ Settles
  BY EndsSound, NoneAdvancesSettles DEF CInv, Typed, CompanionSteps
<1>2. /\ edits \in 0..MaxEdits
      /\ edits' = edits
      /\ MaxEdits \in Nat
  BY DEF CInv, Sound, ReconcilerTypeOK, Ends, Typed
<1>3. Beside(data)' /\ (CompanionCopies => CompanionCopies')
  BY <1>1, <1>2, SettledBeside DEF CInv
<1> QED BY <1>1, <1>3 DEF CInv, Keeps

(* A reconcile that starts.                                                *)
LEMMA BeginKeeps ==
  ASSUME NEW steps, NEW crs, NEW data, Typed(steps, crs, data),
         CInv(steps, crs, data), NEW p \in Pods, NEW o \in Objects,
         Begin(p, o), UNCHANGED <<companion, uid>>
  PROVE  /\ Keeps(steps, crs, data)
         /\ \/ Settles
            \/ cr[o] # Absent /\ Moves(p, o, "read", cr[o])
<1>1. Sound(steps, crs, CompanionOf(data))'
  BY BeginSound DEF CInv, Typed, CompanionSteps
<1>2. edits \in 0..MaxEdits /\ edits' = edits /\ MaxEdits \in Nat
  BY DEF CInv, Sound, ReconcilerTypeOK, Begin, Typed
<1>3. CASE UNCHANGED task
  <2>1. Settles
    BY <1>3 DEF Settles, Kept
  <2>2. Beside(data)' /\ (CompanionCopies => CompanionCopies')
    BY <1>2, <2>1, SettledBeside DEF CInv
  <2> QED BY <1>1, <2>1, <2>2 DEF CInv, Keeps
<1> DEFINE w == [Idle EXCEPT !.pc = "read", !.cr = cr[o], !.crFresh = TRUE]
<1>4. CASE cr[o] # Absent /\ task' = [task EXCEPT ![p][o] = w]
  <2>1. w.pc = "read" /\ w.cr = cr[o] /\ ~w.depFresh
    BY DEF Idle
  <2> HIDE DEF w
  <2>2. task'[p][o] = w /\ OthersKept(p, o)
    BY <1>4 DEF CInv, Sound, ReconcilerTypeOK, OthersKept, Kept
  <2>3. HoldsOK(task'[p][o])
    BY <2>1, <2>2 DEF HoldsOK
  <2>4. Beside(data)' /\ (CompanionCopies => CompanionCopies')
    BY <1>2, <2>1, <2>2, <2>3, MovedBeside DEF CInv
  <2> QED BY <1>1, <1>4, <2>1, <2>2, <2>4 DEF CInv, Keeps, Moves
<1> QED BY <1>3, <1>4 DEF Begin

(* A reconcile that goes on with the copies it has. *)
LEMMA ContinuesKeeps ==
  ASSUME NEW steps, NEW crs, NEW data, Typed(steps, crs, data),
         CInv(steps, crs, data), NEW p \in Pods, NEW o \in Objects,
         NEW step \in steps, ~At(p, o, "idle"), Continues(p, o, step),
         step = "missing" \/ task[p][o].dep # Absent,
         UNCHANGED <<companion, uid>>
  PROVE  Keeps(steps, crs, data) /\ Moves(p, o, step, task[p][o].cr)
<1>1. Sound(steps, crs, CompanionOf(data))'
  BY ContinuesSound DEF CInv
<1>2. task[p][o] \in TaskOf(steps, crs, CompanionOf(data))
  BY Running
<1>3. /\ task'[p][o].pc = step
      /\ task'[p][o].cr = task[p][o].cr
      /\ task'[p][o].dep = task[p][o].dep
      /\ task'[p][o].depFresh = task[p][o].depFresh
      /\ OthersKept(p, o)
  BY <1>2 DEF Continues, CInv, Sound, ReconcilerTypeOK, OthersKept, Kept, TaskOf
<1>4. HoldsOK(task'[p][o]) /\ UNCHANGED edits
  BY <1>3 DEF HoldsOK, Continues
<1>5. CompanionCopies
        => (task'[p][o].depFresh
              => companion[o] # Absent /\ task'[p][o].dep = companion[o])
  BY <1>3 DEF CompanionCopies
<1>6. Beside(data)' /\ (CompanionCopies => CompanionCopies')
  BY <1>3, <1>4, <1>5, MovedBeside DEF CInv
<1> QED BY <1>1, <1>3, <1>6 DEF CInv, Keeps, Moves

(* A get of the companion. *)
LEMMA GotKeeps ==
  ASSUME NEW steps, NEW crs, NEW data, Typed(steps, crs, data),
         CInv(steps, crs, data), NEW p \in Pods, NEW o \in Objects,
         NEW step \in steps, ~At(p, o, "idle"), companion[o] # Absent,
         GotCompanion(p, o, step), UNCHANGED <<companion, uid>>
  PROVE  /\ Keeps(steps, crs, data)
         /\ Moves(p, o, step, task[p][o].cr)
         /\ task'[p][o].dep = companion[o]
<1> DEFINE w == [task[p][o] EXCEPT !.pc = step, !.dep = companion[o],
                                   !.depFresh = TRUE]
<1>1. /\ task[p][o] \in TaskOf(steps, crs, CompanionOf(data))
      /\ companion[o] \in CompanionOf(data)
  BY Running DEF CInv, Beside
<1>2. /\ w \in TaskOf(steps, crs, CompanionOf(data))
      /\ w.pc = step /\ w.cr = task[p][o].cr /\ w.dep = companion[o]
      /\ w.crFresh = task[p][o].crFresh
  BY <1>1 DEF TaskOf
<1>3. task' = [task EXCEPT ![p][o] = w]
  BY DEF GotCompanion
<1> HIDE DEF w
<1>4. w.cr # Absent /\ (w.crFresh => cr[o] # Absent /\ w.cr = cr[o])
  BY <1>2, Running
<1>5. /\ due' \in [Pods -> [Objects -> BOOLEAN]]
      /\ edits' \in 0..MaxEdits
      /\ faults' \in 0..MaxFaults
      /\ UNCHANGED <<cr, edits>>
  BY DEF GotCompanion, CInv, Sound, ReconcilerTypeOK
<1>6. Sound(steps, crs, CompanionOf(data))'
  BY <1>2, <1>3, <1>4, <1>5, OneTask DEF CInv
<1>7. task'[p][o] = w /\ OthersKept(p, o)
  BY <1>3 DEF CInv, Sound, ReconcilerTypeOK, OthersKept, Kept
<1>8. HoldsOK(task'[p][o])
  BY <1>2, <1>7 DEF HoldsOK
<1>9. Beside(data)' /\ (CompanionCopies => CompanionCopies')
  BY <1>2, <1>5, <1>7, <1>8, MovedBeside DEF CInv
<1> QED BY <1>2, <1>6, <1>7, <1>9 DEF CInv, Keeps, Moves

(* A get of the companion takes a copy of what is stored.                  *)
LEMMA GetKeeps ==
  ASSUME NEW steps, NEW crs, NEW data, Typed(steps, crs, data),
         CInv(steps, crs, data), NEW p \in Pods, NEW o \in Objects,
         GetCompanion(p, o)
  PROVE  /\ Keeps(steps, crs, data)
         /\ \E step \in {"missing", "found"} : Moves(p, o, step, task[p][o].cr)
         /\ UNCHANGED cr
<1>1. ~At(p, o, "idle") /\ {"missing", "found"} \subseteq steps
  BY DEF GetCompanion, At, Typed, CompanionSteps
<1>2. CASE companion[o] = Absent
  <2>1. Keeps(steps, crs, data) /\ Moves(p, o, "missing", task[p][o].cr)
    BY <1>1, <1>2, ContinuesKeeps DEF GetCompanion
  <2> QED BY <1>2, <2>1 DEF GetCompanion, Continues
<1>3. CASE companion[o] # Absent
  <2>1. Keeps(steps, crs, data) /\ Moves(p, o, "found", task[p][o].cr)
    BY <1>1, <1>3, GotKeeps DEF GetCompanion
  <2> QED BY <1>3, <2>1 DEF GetCompanion, GotCompanion
<1> QED BY <1>2, <1>3

(* So does the get after a write, unless the companion is gone.            *)
LEMMA RereadKeeps ==
  ASSUME NEW steps, NEW crs, NEW data, Typed(steps, crs, data),
         CInv(steps, crs, data), NEW p \in Pods, NEW o \in Objects,
         RereadCompanion(p, o)
  PROVE  /\ Keeps(steps, crs, data)
         /\ \/ Settles
            \/ /\ Moves(p, o, NextRead[task[p][o].pc], task[p][o].cr)
               /\ task'[p][o].dep = companion[o]
         /\ UNCHANGED <<cr, companion>>
<1> DEFINE step == NextRead[task[p][o].pc]
<1>1. ~At(p, o, "idle") /\ step \in steps
  BY DEF RereadCompanion, NextRead, At, Typed, CompanionSteps
<1>2. CASE companion[o] = Absent
  BY <1>2, EndsKeeps DEF RereadCompanion, Err, Ends
<1>3. CASE companion[o] # Absent
  <2> HIDE DEF step
  <2>1. GotCompanion(p, o, step) /\ UNCHANGED <<companion, uid>>
    BY <1>3 DEF RereadCompanion, step
  <2>2. /\ Keeps(steps, crs, data)
        /\ Moves(p, o, step, task[p][o].cr)
        /\ task'[p][o].dep = companion[o]
    BY <1>1, <1>3, <2>1, GotKeeps
  <2> QED BY <2>1, <2>2 DEF GotCompanion, step
<1> QED BY <1>2, <1>3

(* A companion is created where there is none. *)
LEMMA CreateKeeps ==
  ASSUME NEW steps, NEW crs, NEW data, Typed(steps, crs, data),
         CInv(steps, crs, data), NEW p \in Pods, NEW o \in Objects,
         CreateCompanion(p, o)
  PROVE  /\ Keeps(steps, crs, data)
         /\ Settles \/ Moves(p, o, "created", task[p][o].cr)
         /\ UNCHANGED cr
         /\ \A x \in Objects : companion[x] # Absent => companion'[x] = companion[x]
<1>1. CASE companion[o] # Absent /\ Err(p, o) /\ UNCHANGED <<companion, uid>>
  BY <1>1, EndsKeeps DEF Err, Ends
<1> DEFINE new == [labeled |-> FALSE, owners |-> {}, data |-> NoData]
<1>2. CASE /\ companion[o] = Absent
           /\ companion' = [companion EXCEPT ![o] = new]
           /\ Continues(p, o, "created")
           /\ UNCHANGED uid
  <2>1. ~At(p, o, "idle") /\ "created" \in steps
    BY DEF CreateCompanion, At, Typed, CompanionSteps
  <2>2. Sound(steps, crs, CompanionOf(data))' /\ UNCHANGED <<cr, edits>>
    BY <1>2, <2>1, ContinuesSound DEF CInv, Continues
  <2>3. task[p][o] \in TaskOf(steps, crs, CompanionOf(data))
    BY <2>1, Running
  <2>4. /\ task'[p][o].pc = "created"
        /\ task'[p][o].cr = task[p][o].cr
        /\ task'[p][o].depFresh = task[p][o].depFresh
        /\ OthersKept(p, o)
    BY <1>2, <2>3 DEF Continues, CInv, Sound, ReconcilerTypeOK, OthersKept, Kept, TaskOf
  <2>5. new \in CompanionOf(data)
    BY DEF CompanionOf
  <2> HIDE DEF new
  <2>6. /\ companion' \in [Objects -> CompanionOf(data) \cup {Absent}]
        /\ \A x \in Objects : x # o => companion'[x] = companion[x]
    BY <1>2, <2>5 DEF CInv, Beside
  <2>7. ASSUME NEW q \in Pods, NEW x \in Objects
        PROVE  HoldsOK(task'[q][x])
    BY <2>4 DEF OthersKept, Kept, CInv, Beside, HoldsOK
  <2>8. Beside(data)'
    BY <1>2, <2>2, <2>6, <2>7 DEF CInv, Beside, HoldsOK
  <2>9. CompanionCopies => CompanionCopies'
    BY <1>2, <2>4, <2>6 DEF OthersKept, Kept, CompanionCopies
  <2> QED BY <1>2, <2>2, <2>4, <2>6, <2>8, <2>9 DEF CInv, Keeps, Moves
<1> QED BY <1>1, <1>2 DEF CreateCompanion

(* The write of a companion outdates its copies and no others. *)
LEMMA OutdatedCompanions ==
  ASSUME NEW steps, NEW crs, NEW deps, ReconcilerTypeOK(steps, crs, deps),
         NEW o \in Objects
  PROVE  /\ DepOutdated(task, o) \in [Pods -> [Objects -> TaskOf(steps, crs, deps)]]
         /\ \A p \in Pods, x \in Objects :
              LET w == DepOutdated(task, o)[p][x] IN
              /\ w.pc = task[p][x].pc
              /\ w.cr = task[p][x].cr
              /\ w.crFresh = task[p][x].crFresh
              /\ w.dep = task[p][x].dep
              /\ w.depFresh => x # o /\ task[p][x].depFresh
<1> DEFINE stale(p) == [task[p][o] EXCEPT !.depFresh = FALSE]
<1>1. \A p \in Pods : task[p][o] \in TaskOf(steps, crs, deps)
  BY DEF ReconcilerTypeOK
<1>2. \A p \in Pods : stale(p) \in TaskOf(steps, crs, deps)
  BY <1>1, TaskTypes
<1>3. \A p \in Pods : /\ stale(p).pc = task[p][o].pc
                      /\ stale(p).cr = task[p][o].cr
                      /\ stale(p).crFresh = task[p][o].crFresh
                      /\ stale(p).dep = task[p][o].dep
                      /\ stale(p).depFresh = FALSE
  BY <1>1 DEF TaskOf
<1>4. DepOutdated(task, o) = [p \in Pods |-> [task[p] EXCEPT ![o] = stale(p)]]
  BY DEF DepOutdated
<1> HIDE DEF stale
<1>5. DepOutdated(task, o) \in [Pods -> [Objects -> TaskOf(steps, crs, deps)]]
  BY <1>2, <1>4 DEF ReconcilerTypeOK
<1>6. ASSUME NEW p \in Pods, NEW x \in Objects
      PROVE  \/ x = o /\ DepOutdated(task, o)[p][x] = stale(p)
             \/ x # o /\ DepOutdated(task, o)[p][x] = task[p][x]
  BY <1>4 DEF ReconcilerTypeOK
<1> QED BY <1>3, <1>5, <1>6

(* A change of what is stored for o, by one of whose reconciles or by none, *)
(* that outdates the copies of it.                                         *)
LEMMA ChangedBeside ==
  ASSUME NEW data, Beside(data), NEW o \in Objects,
         NEW object \in CompanionOf(data) \cup {Absent},
         companion' = [companion EXCEPT ![o] = object], UNCHANGED uid,
         MaxEdits \in Nat, edits \in 0..MaxEdits, edits' \in 0..MaxEdits,
         edits' =< edits,
         \A q \in Pods, x \in Objects :
           /\ HoldsOK(task'[q][x])
           /\ task'[q][x].dep = task[q][x].dep
           /\ task'[q][x].depFresh => x # o /\ task[q][x].depFresh
  PROVE  Beside(data)' /\ (CompanionCopies => CompanionCopies')
<1>1. /\ companion' \in [Objects -> CompanionOf(data) \cup {Absent}]
      /\ \A x \in Objects : x # o => companion'[x] = companion[x]
  BY DEF Beside
<1>2. \A x \in Objects : uid[x] \in Nat /\ uid[x] + edits' =< MaxEdits
  BY DEF Beside, Uids
<1>3. Beside(data)'
  BY <1>1, <1>2 DEF Beside, HoldsOK
<1>4. CompanionCopies => CompanionCopies'
  BY <1>1 DEF CompanionCopies
<1> QED BY <1>3, <1>4

(* A reconcile replaces the companion, or fails to. *)
LEMMA WriteKeeps ==
  ASSUME NEW steps, NEW crs, NEW data, Typed(steps, crs, data),
         CInv(steps, crs, data), NEW p \in Pods, NEW o \in Objects,
         NEW step \in steps, ~At(p, o, "idle"), task[p][o].dep # Absent,
         NEW object \in CompanionOf(data), WriteCompanion(p, o, object, step)
  PROVE  /\ Keeps(steps, crs, data)
         /\ Settles \/ Moves(p, o, step, task[p][o].cr)
         /\ UNCHANGED cr
<1>1. CASE DepAccepted(p, o) /\ object = companion[o] /\ Continues(p, o, step)
           /\ UNCHANGED <<companion, uid>>
  BY <1>1, ContinuesKeeps DEF Continues
<1>2. CASE Err(p, o) /\ UNCHANGED <<companion, uid>>
  BY <1>2, EndsKeeps DEF Err, Ends
<1> DEFINE t == DepOutdated(task, o)
           w == [t[p][o] EXCEPT !.pc = step]
<1>3. CASE /\ companion' = [companion EXCEPT ![o] = object]
           /\ task' = [t EXCEPT ![p][o].pc = step]
           /\ due' = Notified(o, object)
           /\ UNCHANGED <<cr, edits, faults, uid>>
  <2>1. /\ t \in [Pods -> [Objects -> TaskOf(steps, crs, CompanionOf(data))]]
        /\ \A q \in Pods, x \in Objects :
             /\ t[q][x].pc = task[q][x].pc
             /\ t[q][x].cr = task[q][x].cr
             /\ t[q][x].crFresh = task[q][x].crFresh
             /\ t[q][x].dep = task[q][x].dep
             /\ t[q][x].depFresh => x # o /\ task[q][x].depFresh
    BY OutdatedCompanions DEF CInv, Sound
  <2>2. w \in TaskOf(steps, crs, CompanionOf(data))
    <3>1. t[p][o] \in TaskOf(steps, crs, CompanionOf(data))
      BY <2>1
    <3> HIDE DEF t
    <3> QED BY <3>1, TaskTypes
  <2>3. task' = [t EXCEPT ![p][o] = w]
    BY <1>3
  <2>4. /\ w.pc = step /\ w.cr = t[p][o].cr /\ w.crFresh = t[p][o].crFresh
        /\ w.dep = t[p][o].dep /\ w.depFresh = t[p][o].depFresh
    BY <2>1 DEF TaskOf
  <2> HIDE DEF t, w
  <2>5. task' \in [Pods -> [Objects -> TaskOf(steps, crs, CompanionOf(data))]]
    BY <2>1, <2>2, <2>3
  <2>6. ASSUME NEW q \in Pods, NEW x \in Objects
        PROVE  \/ q = p /\ x = o /\ task'[q][x] = w
               \/ (q # p \/ x # o) /\ task'[q][x] = t[q][x]
    BY <2>1, <2>3
  <2>7. ASSUME NEW q \in Pods, NEW x \in Objects
        PROVE  /\ \/ q = p /\ x = o /\ task'[q][x].pc = step
                  \/ (q # p \/ x # o) /\ task'[q][x].pc = task[q][x].pc
               /\ task'[q][x].cr = task[q][x].cr
               /\ task'[q][x].crFresh = task[q][x].crFresh
               /\ task'[q][x].dep = task[q][x].dep
               /\ task'[q][x].depFresh => x # o /\ task[q][x].depFresh
    BY <2>1, <2>4, <2>6
  <2>8. due' \in [Pods -> [Objects -> BOOLEAN]]
    BY <1>3 DEF Notified, Watched, CInv, Sound, ReconcilerTypeOK
  <2>9. CopiesOK'
    BY <1>3, <2>7 DEF CInv, Sound, CopiesOK, At
  <2>10. Sound(steps, crs, CompanionOf(data))'
    BY <1>3, <2>5, <2>8, <2>9 DEF CInv, Sound, ReconcilerTypeOK
  <2>11. \A q \in Pods, x \in Objects : HoldsOK(task'[q][x])
    BY <2>7 DEF CInv, Beside, HoldsOK
  <2>12. /\ MaxEdits \in Nat
         /\ edits \in 0..MaxEdits /\ edits' \in 0..MaxEdits /\ edits' =< edits
         /\ UNCHANGED uid
         /\ object \in CompanionOf(data) \cup {Absent}
    BY <1>3 DEF Typed, CInv, Sound, ReconcilerTypeOK
  <2>13. Beside(data)' /\ (CompanionCopies => CompanionCopies')
    <3>1. \A q \in Pods, x \in Objects :
            /\ HoldsOK(task'[q][x])
            /\ task'[q][x].dep = task[q][x].dep
            /\ task'[q][x].depFresh => x # o /\ task[q][x].depFresh
      BY <2>7, <2>11
    <3>2. Beside(data) /\ companion' = [companion EXCEPT ![o] = object]
      BY <1>3 DEF CInv
    <3> QED BY <2>12, <3>1, <3>2, ChangedBeside
  <2>14. Moves(p, o, step, task[p][o].cr)
    BY <2>7 DEF Moves, OthersKept, Kept
  <2> QED BY <1>3, <2>10, <2>13, <2>14 DEF CInv, Keeps
<1> QED BY <1>1, <1>2, <1>3 DEF WriteCompanion

(* Labelling the companion keeps the types and the custom resource.        *)
LEMMA LabelKeeps ==
  ASSUME NEW steps, NEW crs, NEW data, Typed(steps, crs, data),
         CInv(steps, crs, data), NEW p \in Pods, NEW o \in Objects,
         LabelCompanion(p, o)
  PROVE  /\ Keeps(steps, crs, data)
         /\ Settles \/ Moves(p, o, "labeled", task[p][o].cr)
         /\ UNCHANGED cr
<1>1. ~At(p, o, "idle") /\ "labeled" \in steps
  BY DEF LabelCompanion, At, Typed, CompanionSteps
<1>2. task[p][o].dep # Absent /\ task[p][o].dep \in CompanionOf(data)
  BY <1>1, Running DEF HoldsOK, LabelCompanion, At
<1>3. [task[p][o].dep EXCEPT !.labeled = TRUE] \in CompanionOf(data)
  BY <1>2 DEF CompanionOf
<1> QED BY <1>1, <1>2, <1>3, WriteKeeps DEF LabelCompanion

(* So does adding the owner reference.                                     *)
LEMMA OwnKeeps ==
  ASSUME NEW steps, NEW crs, NEW data, Typed(steps, crs, data),
         CInv(steps, crs, data), NEW p \in Pods, NEW o \in Objects,
         OwnCompanion(p, o)
  PROVE  /\ Keeps(steps, crs, data)
         /\ \/ Settles
            \/ \E step \in {"owned", "claimed"} : Moves(p, o, step, task[p][o].cr)
         /\ UNCHANGED cr
<1> DEFINE owner == task[p][o].cr.uid
           object == [task[p][o].dep EXCEPT !.owners = @ \cup {owner}]
<1>1. ~At(p, o, "idle") /\ {"owned", "claimed"} \subseteq steps
  BY DEF OwnCompanion, At, Typed, CompanionSteps
<1>2. task[p][o].dep # Absent /\ task[p][o].dep \in CompanionOf(data)
  BY <1>1, Running DEF HoldsOK, OwnCompanion, At
<1>3. owner \in Uids
  BY <1>1, Running DEF Typed
<1>4. object \in CompanionOf(data)
  BY <1>2, <1>3 DEF CompanionOf
<1> HIDE DEF object
<1>5. CASE WriteCompanion(p, o, object, "owned")
  BY <1>1, <1>2, <1>4, <1>5, WriteKeeps
<1>6. CASE Continues(p, o, "claimed") /\ UNCHANGED <<companion, uid>>
  BY <1>1, <1>2, <1>6, ContinuesKeeps DEF Continues
<1> QED BY <1>5, <1>6 DEF OwnCompanion, object

--------------------------------------------------------------------------------
(* The custom resource. *)

(* A reconcile that replaces its object ends. *)
LEMMA ReplaceKeeps ==
  ASSUME NEW steps, NEW crs, NEW data, Typed(steps, crs, data),
         CInv(steps, crs, data), NEW p \in Pods, NEW o \in Objects,
         NEW object \in crs, NEW again \in BOOLEAN,
         ReplaceStamped(p, o, object, again), UNCHANGED <<companion, uid>>
  PROVE  Keeps(steps, crs, data) /\ Settles
<1>1. Sound(steps, crs, CompanionOf(data))' /\ Settles
  BY ReplaceSound, UpdatesSound, NoneAdvancesSettles
     DEF ReplaceStamped, CInv, Typed, CompanionSteps
<1>2. /\ edits \in 0..MaxEdits
      /\ edits' = edits
      /\ MaxEdits \in Nat
  BY DEF CInv, Sound, ReconcilerTypeOK, Typed, ReplaceStamped, Replace, Updates,
         Store, Ends, Err
<1>3. Beside(data)' /\ (CompanionCopies => CompanionCopies')
  BY <1>1, <1>2, SettledBeside DEF CInv
<1> QED BY <1>1, <1>3 DEF CInv, Keeps

(* Finalizers are replaced and the reconcile goes on. *)
LEMMA FinalizersKeeps ==
  ASSUME NEW steps, NEW crs, NEW data, Typed(steps, crs, data),
         CInv(steps, crs, data), NEW p \in Pods, NEW o \in Objects,
         NEW ready \in BOOLEAN, NEW fins,
         [task[p][o].cr EXCEPT !.fins = fins] \in crs,
         ReplaceFinalizers(p, o, ready, fins)
  PROVE  /\ Keeps(steps, crs, data)
         /\ \/ Settles /\ UNCHANGED cr
            \/ Moves(p, o, "checked", task[p][o].cr) /\ UNCHANGED cr
            \/ LET object == [task[p][o].cr EXCEPT !.fins = fins] IN
               Store(p, o, object) /\ Moves(p, o, "checked", object)
<1> DEFINE object == [task[p][o].cr EXCEPT !.fins = fins]
<1>1. ~At(p, o, "idle") /\ "checked" \in steps
  BY DEF ReplaceFinalizers, At, Typed, CompanionSteps
<1>2. task[p][o].dep # Absent
  BY <1>1, Running DEF HoldsOK, ReplaceFinalizers, At
<1>3. object \in crs /\ UNCHANGED <<companion, uid>>
  BY DEF ReplaceFinalizers
<1> HIDE DEF object
<1>4. CASE Continues(p, o, "checked")
  BY <1>1, <1>2, <1>3, <1>4, ContinuesKeeps DEF Continues
<1>5. CASE Err(p, o)
  BY <1>3, <1>5, EndsKeeps DEF Err, Ends
<1> DEFINE t == CrOutdated(task, o)
           w == [t[p][o] EXCEPT !.pc = "checked", !.cr = object]
<1>6. CASE Store(p, o, object) /\ task' = [t EXCEPT ![p][o] = w]
  <2>1. /\ t \in [Pods -> [Objects -> TaskOf(steps, crs, CompanionOf(data))]]
        /\ \A q \in Pods, x \in Objects :
             /\ t[q][x].pc = task[q][x].pc
             /\ t[q][x].cr = task[q][x].cr
             /\ t[q][x].dep = task[q][x].dep
             /\ t[q][x].depFresh = task[q][x].depFresh
             /\ t[q][x].crFresh => x # o /\ task[q][x].crFresh
    BY OutdatedTasks DEF CInv, Sound
  <2>2. t[p][o] \in TaskOf(steps, crs, CompanionOf(data))
    BY <2>1
  <2>3. /\ w \in TaskOf(steps, crs, CompanionOf(data))
        /\ w.pc = "checked" /\ w.cr = object /\ w.dep = task[p][o].dep
        /\ w.depFresh = task[p][o].depFresh /\ ~w.crFresh
    <3> HIDE DEF t
    <3> QED BY <1>1, <1>3, <2>1, <2>2 DEF TaskOf
  <2> HIDE DEF t, w
  <2>4. task' \in [Pods -> [Objects -> TaskOf(steps, crs, CompanionOf(data))]]
    BY <1>6, <2>1, <2>3
  <2>5. ASSUME NEW q \in Pods, NEW x \in Objects
        PROVE  \/ q = p /\ x = o /\ task'[q][x] = w
               \/ (q # p \/ x # o) /\ task'[q][x] = t[q][x]
    BY <1>6, <2>1
  <2>6. cr' \in [Objects -> crs \cup {Absent}] /\ \A x \in Objects : x # o => cr'[x] = cr[x]
    BY <1>3, <1>6 DEF Store, Reaped, CInv, Sound, ReconcilerTypeOK
  <2>7. due' \in [Pods -> [Objects -> BOOLEAN]] /\ UNCHANGED <<edits, faults>>
    BY <1>6 DEF Store, Watched, CInv, Sound, ReconcilerTypeOK
  <2>8. CopiesOK'
    <3>1. Absent \notin crs /\ CopiesOK
      BY DEF Typed, CInv, Sound
    <3>2. ASSUME NEW q \in Pods, NEW x \in Objects, q = p, x = o
          PROVE  /\ task'[q][x].pc # "idle" => task'[q][x].cr # Absent
                 /\ ~task'[q][x].crFresh
      BY <1>3, <2>3, <2>5, <3>1, <3>2
    <3>3. ASSUME NEW q \in Pods, NEW x \in Objects, q # p \/ x # o
          PROVE  /\ task'[q][x].pc = task[q][x].pc /\ task'[q][x].cr = task[q][x].cr
                 /\ task'[q][x].crFresh
                      => task[q][x].crFresh /\ cr'[x] = cr[x]
      BY <2>1, <2>5, <2>6, <3>3
    <3> QED BY <3>1, <3>2, <3>3 DEF CopiesOK
  <2>9. Sound(steps, crs, CompanionOf(data))'
    BY <2>4, <2>6, <2>7, <2>8 DEF CInv, Sound, ReconcilerTypeOK
  <2>10. Moves(p, o, "checked", object)
    BY <2>1, <2>3, <2>5 DEF Moves, OthersKept, Kept
  <2>11. /\ HoldsOK(task'[p][o])
         /\ task'[p][o].dep = task[p][o].dep
         /\ task'[p][o].depFresh = task[p][o].depFresh
    BY <1>2, <2>3, <2>5 DEF HoldsOK
  <2>12. CompanionCopies
           => (task'[p][o].depFresh
                 => companion[o] # Absent /\ task'[p][o].dep = companion[o])
    BY <2>11 DEF CompanionCopies
  <2>13. Beside(data)' /\ (CompanionCopies => CompanionCopies')
    BY <1>3, <2>7, <2>10, <2>11, <2>12, MovedBeside DEF Moves, CInv
  <2> QED BY <1>6, <2>9, <2>10, <2>13 DEF CInv, Keeps, object
<1> QED BY <1>4, <1>5, <1>6 DEF ReplaceFinalizers, object

--------------------------------------------------------------------------------
(* Faults, users and other controllers: no reconcile goes on. *)

(* Faults end reconciles and write nothing.                                *)
LEMMA FaultKeeps ==
  ASSUME NEW steps, NEW crs, NEW data, Typed(steps, crs, data),
         CInv(steps, crs, data), NEW p \in Pods,
         Restarts(p) \/ \E o \in Objects : CallFails(p, o),
         UNCHANGED <<companion, uid>>
  PROVE  Keeps(steps, crs, data) /\ Settles /\ UNCHANGED <<cr, edits>>
<1>1. Sound(steps, crs, CompanionOf(data))' /\ Settles
  BY RestartsSound, CallFailsSound, NoneAdvancesSettles
     DEF CInv, Typed, CompanionSteps
<1>2. /\ edits \in 0..MaxEdits /\ MaxEdits \in Nat
      /\ UNCHANGED <<cr, edits>>
  BY DEF CInv, Sound, ReconcilerTypeOK, Typed, Restarts, CallFails, Faulty
<1>3. Beside(data)' /\ (CompanionCopies => CompanionCopies')
  BY <1>1, <1>2, SettledBeside DEF CInv
<1> QED BY <1>1, <1>2, <1>3 DEF CInv, Keeps

(* A user's write of a custom resource outdates the copies of it.          *)
LEMMA WriteCrKeeps ==
  ASSUME NEW steps, NEW crs, NEW data, Typed(steps, crs, data),
         CInv(steps, crs, data), NEW o \in Objects,
         NEW object \in crs \cup {Absent}, WriteCr(o, object),
         UNCHANGED <<companion, uid>>
  PROVE  Keeps(steps, crs, data) /\ Settles /\ edits' # edits
<1>1. Sound(steps, crs, CompanionOf(data))' /\ Settles
  BY WriteCrSound, NoneAdvancesSettles DEF CInv, Typed
<1>2. /\ edits \in 0..MaxEdits /\ edits' \in 0..MaxEdits /\ MaxEdits \in Nat
      /\ edits' = edits - 1
  BY <1>1 DEF CInv, Sound, ReconcilerTypeOK, Typed, WriteCr, Edit
<1>3. edits' =< edits /\ edits' # edits
  BY <1>2
<1>4. Beside(data)' /\ (CompanionCopies => CompanionCopies')
  BY <1>1, <1>2, <1>3, SettledBeside DEF CInv
<1> QED BY <1>1, <1>3, <1>4 DEF CInv, Keeps

(* A user or another controller changes the deletion or the finalizers.    *)
LEMMA DeleteKeeps ==
  ASSUME NEW steps, NEW crs, NEW data, Typed(steps, crs, data),
         CInv(steps, crs, data), NEW o \in Objects,
         \A c \in crs : /\ [c EXCEPT !.deleting = TRUE] \in crs
                        /\ [c EXCEPT !.fins = @ \ Foreign] \in crs,
         DeleteCr(o) \/ DropForeign(o), UNCHANGED <<companion, uid>>
  PROVE  Keeps(steps, crs, data) /\ Settles /\ edits' # edits
<1>1. cr[o] # Absent /\ cr[o] \in crs \cup {Absent}
  BY DEF DeleteCr, DropForeign, CInv, Sound, ReconcilerTypeOK
<1>2. /\ Reaped([cr[o] EXCEPT !.deleting = TRUE]) \in crs \cup {Absent}
      /\ Reaped([cr[o] EXCEPT !.fins = @ \ Foreign]) \in crs \cup {Absent}
  BY <1>1 DEF Reaped
<1> QED BY <1>2, WriteCrKeeps DEF DeleteCr, DropForeign

(* A new object has the next uid, of which there are enough. *)
LEMMA CreateOwnerKeeps ==
  ASSUME NEW steps, NEW crs, NEW data, Typed(steps, crs, data),
         CInv(steps, crs, data), NEW o \in Objects, NEW object,
         \A n \in Uids : [object EXCEPT !.uid = n] \in crs,
         CreateOwner(o, object)
  PROVE  Keeps(steps, crs, data) /\ Settles /\ edits' # edits
<1> DEFINE next == uid[o] + 1
           new == [object EXCEPT !.uid = next]
<1>1. /\ edits \in 0..MaxEdits /\ MaxEdits \in Nat
      /\ edits > 0 /\ edits' = edits - 1
      /\ \A x \in Objects : uid[x] \in 0..MaxEdits /\ uid[x] + edits =< MaxEdits
      /\ UNCHANGED companion
  BY DEF CInv, Sound, ReconcilerTypeOK, Typed, Beside, Uids, CreateOwner, CreateCr,
         WriteCr, Edit
<1>2. next \in 0..MaxEdits /\ next + edits' =< MaxEdits
  BY <1>1
<1>3. new \in crs
  BY <1>2 DEF Uids
<1>4. WriteCr(o, new) /\ uid' = [uid EXCEPT ![o] = next]
  BY DEF CreateOwner, CreateCr
<1> HIDE DEF next, new
<1>5. Sound(steps, crs, CompanionOf(data))' /\ Settles
  BY <1>3, <1>4, WriteCrSound, NoneAdvancesSettles DEF CInv, Typed
<1>6. /\ uid' \in [Objects -> Uids]
      /\ \A x \in Objects : uid'[x] = IF x = o THEN next ELSE uid[x]
  BY <1>2, <1>4 DEF CInv, Beside, Uids
<1>7. \A x \in Objects : uid'[x] + edits' =< MaxEdits
  BY <1>1, <1>2, <1>6
<1>8. \A q \in Pods, x \in Objects : HoldsOK(task'[q][x])
  BY <1>5, IdleHolds DEF Settles, Kept, CInv, Beside, HoldsOK
<1>9. Beside(data)'
  BY <1>1, <1>6, <1>7, <1>8 DEF CInv, Beside, HoldsOK
<1>10. CompanionCopies => CompanionCopies'
  BY <1>1, <1>5, IdleHolds DEF Settles, Kept, CompanionCopies
<1> QED BY <1>1, <1>5, <1>9, <1>10 DEF CInv, Keeps

(* A user or the garbage collector changes a companion. *)
LEMMA ChangeKeeps ==
  ASSUME NEW steps, NEW crs, NEW data, Typed(steps, crs, data),
         CInv(steps, crs, data), NEW o \in Objects,
         NEW object \in CompanionOf(data) \cup {Absent},
         ChangeCompanion(o, object), edits' \in 0..MaxEdits, edits' =< edits,
         UNCHANGED faults
  PROVE  Keeps(steps, crs, data) /\ Settles /\ UNCHANGED cr
<1>1. /\ DepOutdated(task, o)
           \in [Pods -> [Objects -> TaskOf(steps, crs, CompanionOf(data))]]
      /\ \A q \in Pods, x \in Objects :
           /\ DepOutdated(task, o)[q][x].pc = task[q][x].pc
           /\ DepOutdated(task, o)[q][x].cr = task[q][x].cr
           /\ DepOutdated(task, o)[q][x].crFresh = task[q][x].crFresh
           /\ DepOutdated(task, o)[q][x].dep = task[q][x].dep
           /\ DepOutdated(task, o)[q][x].depFresh => x # o /\ task[q][x].depFresh
  BY OutdatedCompanions DEF CInv, Sound
<1>2. /\ task' = DepOutdated(task, o)
      /\ companion' = [companion EXCEPT ![o] = object]
      /\ UNCHANGED <<cr, uid>>
  BY DEF ChangeCompanion
<1>3. due' \in [Pods -> [Objects -> BOOLEAN]]
  BY DEF ChangeCompanion, Notified, Watched, CInv, Sound, ReconcilerTypeOK
<1>4. CopiesOK'
  BY <1>1, <1>2 DEF CInv, Sound, CopiesOK
<1>5. Sound(steps, crs, CompanionOf(data))'
  BY <1>1, <1>2, <1>3, <1>4 DEF CInv, Sound, ReconcilerTypeOK
<1>6. \A q \in Pods, x \in Objects :
        /\ HoldsOK(task'[q][x])
        /\ task'[q][x].dep = task[q][x].dep
        /\ task'[q][x].depFresh => x # o /\ task[q][x].depFresh
  BY <1>1, <1>2 DEF CInv, Beside, HoldsOK
<1>7. MaxEdits \in Nat /\ edits \in 0..MaxEdits /\ Beside(data) /\ UNCHANGED uid
  BY <1>2 DEF Typed, CInv, Sound, ReconcilerTypeOK
<1>8. Beside(data)' /\ (CompanionCopies => CompanionCopies')
  BY <1>2, <1>6, <1>7, ChangedBeside
<1>9. Settles
  BY <1>1, <1>2 DEF Settles, Kept
<1> QED BY <1>2, <1>5, <1>8, <1>9 DEF CInv, Keeps

(* So does a companion's change by a user or the garbage collector.        *)
LEMMA OtherCompanionsKeep ==
  ASSUME NEW steps, NEW crs, NEW data, Typed(steps, crs, data),
         CInv(steps, crs, data), NEW o \in Objects,
         \/ DeleteCompanion(o)
         \/ Collect(o)
         \/ \E d \in data \cup {NoData} : EditCompanion(o, d)
  PROVE  Keeps(steps, crs, data) /\ Settles /\ UNCHANGED cr
<1>1. edits \in 0..MaxEdits /\ MaxEdits \in Nat
  BY DEF Typed, CInv, Sound, ReconcilerTypeOK
<1>2. Edit => edits' \in 0..MaxEdits /\ edits' =< edits /\ UNCHANGED faults
  BY <1>1 DEF Edit
<1>3. companion[o] \in CompanionOf(data) \cup {Absent}
  BY DEF CInv, Beside
<1>4. CASE DeleteCompanion(o)
  BY <1>2, <1>4, ChangeKeeps DEF DeleteCompanion
<1>5. CASE Collect(o)
  <2> DEFINE live == IF cr[o] = Absent THEN {}
                     ELSE companion[o].owners \cap {cr[o].uid}
             object == IF live = {} THEN Absent
                       ELSE [companion[o] EXCEPT !.owners = live]
  <2>1. companion[o] # Absent /\ companion[o] \in CompanionOf(data)
    BY <1>3, <1>5 DEF Collect
  <2>2. live \subseteq companion[o].owners
    OBVIOUS
  <2>3. object \in CompanionOf(data) \cup {Absent}
    <3> HIDE DEF live
    <3> QED BY <2>1, <2>2 DEF CompanionOf
  <2>4. ChangeCompanion(o, object) /\ UNCHANGED <<edits, faults>>
    BY <1>5 DEF Collect
  <2> HIDE DEF object
  <2> QED BY <1>1, <2>3, <2>4, ChangeKeeps
<1>6. ASSUME NEW d \in data \cup {NoData}, EditCompanion(o, d)
      PROVE  Keeps(steps, crs, data) /\ Settles /\ UNCHANGED cr
  <2> DEFINE object == [companion[o] EXCEPT !.data = d]
  <2>1. companion[o] # Absent /\ ChangeCompanion(o, object) /\ Edit
    BY <1>6 DEF EditCompanion
  <2>2. object \in CompanionOf(data) \cup {Absent}
    BY <1>3, <2>1 DEF CompanionOf
  <2> HIDE DEF object
  <2> QED BY <1>2, <2>1, <2>2, ChangeKeeps
<1> QED BY <1>4, <1>5, <1>6
================================================================================
